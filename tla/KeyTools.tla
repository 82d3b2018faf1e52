------------------------------ MODULE KeyTools ------------------------------
(***************************************************************************)
(* The tools that create, load, move and use keys and sealed objects.      *)
(***************************************************************************)
EXTENDS ToolScript

CloseAuth == <<Close("auth")>>

createprimary_process_inputs == <<Auth("auth"), Input, Input>>
createprimary_outputs == <<Command, Output>>
createprimary ==
    Tool(<<Options>> \o createprimary_process_inputs \o createprimary_outputs, CloseAuth)

\* The object's own password is restricted: it opens no session.
create_process_inputs ==
    <<Input>> \o ObjectAuth("auth") \o AuxSessionsSetup(2) \o <<Input, Input>>
create_process_output == <<Output>>
create_create == <<Command>>
create ==
    Tool(<<Options>> \o create_process_inputs \o create_create \o create_process_output,
         CloseAuth \o CloseAux(2))

load == Tool(<<Options, Input>> \o ObjectAuth("auth") \o <<Command, Output>>, CloseAuth)
loadexternal == Tool(<<Options, Input, Input, Command, Output>>, <<>>)

unseal_process_inputs == ObjectAuth("auth") \o AuxSessionsSetup(2)
unseal_output == HashedCommand \o <<Output>>
unseal ==
    Tool(<<Options>> \o unseal_process_inputs \o unseal_output,
         <<CloseUnlessCpHash("auth")>> \o CloseAux(2))

(***************************************************************************)
(* Every failure goes to "out" (step 7), where rc takes the result of      *)
(* tpm2_close unless the object was evicted; with --cphash the tool        *)
(* returns before that.                                                    *)
(***************************************************************************)
evictcontrol ==
    Tool(<<Goto(Input, 7), Goto(Auth("auth"), 7), Goto(Input, 7),
           Goto(Optional(Command), 7), Goto(Command, 7), Goto(Output, 7),
           Optional(Resetting(Command))>>,
         CloseAuth)

activatecredential_process_inputs ==
    ObjectAuth("auth") \o ObjectAuth("auth2") \o AuxSessionsSetup(1) \o <<Input>>
activatecredential_outputs == HashedCommand \o <<Output>>
activatecredential ==
    Tool(<<Options>> \o activatecredential_process_inputs \o activatecredential_outputs,
         <<Close("auth2"), Close("auth")>> \o CloseAux(1))

\* No onstop: the session of the authorisation stays in the TPM.
commit == Tool(<<Options>> \o ObjectAuth("auth") \o <<Input, Command, Output>>, <<>>)
ecdhzgen == Tool(<<Options>> \o ObjectAuth("auth") \o <<Input, Command, Output>>, <<>>)
zgen2phase == Tool(<<Options>> \o ObjectAuth("auth") \o <<Input, Command, Output>>, <<>>)

ecephemeral == Tool(<<Options, Command, Output>>, <<>>)
ecdhkeygen == Tool(<<Options, Input, Command, Output>>, <<>>)
makecredential == Tool(<<Input, Options, Input, Command, Output>>, <<>>)
readpublic == Tool(<<Input, Command, Output>>, <<>>)

\* rc is success from the first close on: a failure that does not set it,
\* such as that of the second PolicySecret or of saving a file, is not seen.
create_ak(out) ==
    <<Input, Start("session"), Goto(Command, out), Goto(Close("session"), out),
      Goto(Unreported(Input), out), Goto(Start("session"), out), Goto(Command, out),
      Goto(Unreported(Command), out), Goto(Command, out), Goto(Close("session"), out),
      Goto(Output, out), Goto(Unreported(Output), out), Goto(Output, out),
      Goto(Unreported(Output), out), Ignored(Close("session"))>>
createak == Tool(<<Options, Input, Input, Input>> \o create_ak(19), <<>>)

\* Sessions are closed at "out" (step 11), but a bad owner or endorsement
\* authorisation returns at once.
create_ek_handle(out) == <<Goto(Input, out), Goto(Command, out), Goto(Output, out)>>
createek ==
    Tool(<<Options, Goto(Optional(Command), 11)>>
            \o ObjectAuth("auth") \o ObjectAuth("auth2")
            \o <<Goto(Auth("session"), 11)>> \o create_ek_handle(11)
            \o <<Close("auth"), Close("auth2"), Close("session")>>,
         <<>>)

\* Failures to compute the name or to marshal return false, that is success.
tpm2_create_duplicate == <<Unreported(Input), Output>>
duplicate_openssl == Tool(<<Options, Input>> \o tpm2_create_duplicate, <<>>)
duplicate ==
    Tool(<<Options, Input>> \o ObjectAuth("auth") \o <<Input, Command, Output>>, CloseAuth)

tpm_import == <<Input, Command, Output>>
import_tpm == Tool(<<Options>> \o ObjectAuth("auth") \o tpm_import, CloseAuth)
\* onstop closes nothing for a key that does not come from a TPM.  A name
\* that cannot be computed is success with --cphash: key_import returns false.
openssl_import == <<Input, Unreported(Input), Input, Command, Output>>
import_openssl == Tool(<<Options>> \o ObjectAuth("auth") \o openssl_import, <<>>)

\* The new password is read with the TPM at hand, and opens a session too.
changeauth_process_inputs ==
    <<AuthRestricted("auth2")>> \o ObjectAuth("auth")
        \o <<Input, Options, Input>> \o AuxSessionsSetup(2)
changeauth_change_authorization == <<Command>>
changeauth ==
    Tool(<<Options>> \o changeauth_process_inputs
            \o changeauth_change_authorization \o <<Output>>,
         <<Close("auth2"), Close("auth")>> \o CloseAux(2))

KeyTools ==
    [createprimary |-> createprimary, create |-> create, load |-> load,
     loadexternal |-> loadexternal, unseal |-> unseal,
     evictcontrol |-> evictcontrol,
     activatecredential |-> activatecredential, commit |-> commit,
     ecdhzgen |-> ecdhzgen, zgen2phase |-> zgen2phase,
     ecephemeral |-> ecephemeral, ecdhkeygen |-> ecdhkeygen,
     makecredential |-> makecredential, readpublic |-> readpublic,
     createak |-> createak, createek |-> createek,
     duplicate |-> duplicate, duplicate_openssl |-> duplicate_openssl,
     import_tpm |-> import_tpm, import_openssl |-> import_openssl,
     changeauth |-> changeauth]
=============================================================================
