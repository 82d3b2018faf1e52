----------------------------- MODULE AttestTools ----------------------------
(***************************************************************************)
(* The tools that sign, attest, hash and encrypt with keys of the TPM.     *)
(***************************************************************************)
EXTENDS ToolScript

CloseKey == <<Close("auth")>>

certify_process_inputs ==
    ObjectAuth("auth") \o ObjectAuth("auth2") \o AuxSessionsSetup(1) \o <<Command>>
certify_process_output == <<Output>>
certify ==
    Tool(<<Options>> \o certify_process_inputs \o <<Command>> \o certify_process_output,
         <<Close("auth2"), Close("auth")>> \o CloseAux(1))

certifycreation_process_inputs ==
    ObjectAuth("auth") \o <<Input>> \o AuxSessionsSetup(2)
        \o <<Input, Command, Input, Optional(Input)>>
certifycreation_process_output == <<Output>>
certifycreation ==
    Tool(<<Options>> \o certifycreation_process_inputs \o <<Command>>
            \o certifycreation_process_output,
         CloseKey \o CloseAux(2))

\* The quote is taken, then the PCRs are read and compared with it.
quote_quote == <<Command, Command, Output, Optional(Command), Output>>
quote ==
    Tool(<<Options>> \o ObjectAuth("auth") \o <<Optional(Input), Command>> \o quote_quote,
         CloseKey)

gettime_init == <<Options>> \o ObjectAuth("auth") \o <<Command>> \o ObjectAuth("auth2")
gettime == Tool(gettime_init \o <<Command, Output>>, <<Close("auth2"), Close("auth")>>)

sign_init == <<Command, Options, Input>>
sign_and_save == <<Command, Output>>
sign == Tool(ObjectAuth("auth") \o sign_init \o sign_and_save, CloseKey)

verifysignature_init == <<Options, Input, Optional(Input), Input, Command>>
verifysignature == Tool(verifysignature_init \o <<Command, Output>>, <<>>)

\* Large inputs are fed to a sequence object chunk by chunk.
tpm_hmac_file == <<Input, Command>>
do_hmac_and_output == <<Output>>
hmac ==
    Tool(<<Options>> \o ObjectAuth("auth") \o <<Optional(Command)>>
            \o tpm_hmac_file \o do_hmac_and_output,
         CloseKey)
hash == Tool(<<Command, Output>>, <<>>)

rsadecrypt_init == <<Options, Input>> \o ObjectAuth("auth")
rsadecrypt == Tool(rsadecrypt_init \o <<Command, Output>>, CloseKey)
rsaencrypt == Tool(<<Options, Input, Input, Command, Output>>, <<>>)

\* rc is the last TPM command's: a failed write of its result is not seen.
encrypt_decrypt == <<Output, Command, Unreported(Output), Unreported(Output)>>
encryptdecrypt ==
    Tool(<<Options>> \o ObjectAuth("auth") \o <<Command>> \o encrypt_decrypt, CloseKey)

getrandom_process_inputs == AuxSessionsSetup(3) \o <<Optional(Command)>>
getrandom_process_outputs == <<Output>>
getrandom ==
    Tool(getrandom_process_inputs \o <<Command>> \o getrandom_process_outputs, CloseAux(3))
(***************************************************************************)
(* The certificates are read from NV indices if the TPM has them.  nv_read *)
(* returns the result of tpm2_session_close when the read failed: the tool *)
(* takes it for a success, and does not go on to ask the web server.       *)
(***************************************************************************)
getekcertificate_nv_read == <<Optional(Ignored(Input)), Optional(Ignored(Command))>>
getekcertificate_get_tpm_properties == [i \in 1..3 |-> Optional(Command)]
getekcertificate ==
    Tool(<<Options, Optional(Output), Optional(Output), Optional(Input)>>
            \o getekcertificate_get_tpm_properties \o <<Input>>
            \o getekcertificate_nv_read \o getekcertificate_nv_read
            \o <<Input, Options, Optional(Input), Optional(Output), Optional(Output)>>,
         <<>>)
stirrandom == Tool(<<Input, Command>>, <<>>)

AttestTools ==
    [certify |-> certify, certifycreation |-> certifycreation, quote |-> quote,
     gettime |-> gettime, sign |-> sign, verifysignature |-> verifysignature,
     hmac |-> hmac, hash |-> hash, rsadecrypt |-> rsadecrypt,
     rsaencrypt |-> rsaencrypt, encryptdecrypt |-> encryptdecrypt,
     getrandom |-> getrandom, getekcertificate |-> getekcertificate, stirrandom |-> stirrandom]
=============================================================================
