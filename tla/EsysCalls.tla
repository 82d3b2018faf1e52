------------------------------ MODULE EsysCalls -----------------------------
(***************************************************************************)
(* The functions of lib/tpm2.c that send one ESAPI command and can compute *)
(* the hash of its parameters (cpHash), of its response (rpHash), or both. *)
(* Asked for the cpHash alone they only prepare the command in the SAPI    *)
(* context, hash it with the names of its handles and do not send it.      *)
(***************************************************************************)
EXTENDS CallScript

\* Esys_TR_FromTPMPublic on an NV index: a command of its own.
Public == Call("public", "none")
\* tpm2_auth_util_get_shandle
Session == Call("session", "none")
\* Tss2_Sys_..._Prepare, general_error when it fails
Prepare == When({"cp"}, Call("prepare", "none"))
\* tpm2_getsapicontext
GetSapiContext(opts) == When(opts, Call("sapi", "none"))

\* Fault: the jump goes to the label of the next name.
GetNameJumpingAhead(names) ==
    [k \in 1..Len(names) |->
        [When({"cp"}, Losing(Upto(Names, IF k < 3 THEN k + 1 ELSE k), Call("name", Names[k])))
            EXCEPT !.of = <<names[k]>>]]

(***************************************************************************)
(* TPM2B_NAME *namek = NULL; tpm2_tr_get_name(..., &namek), and on failure *)
(* a jump to the label that frees name1 to namek.                          *)
(***************************************************************************)
GetName(names) ==
    [k \in 1..Len(names) |->
        [When({"cp"}, Losing(Upto(Names, k), Call("name", Names[k])))
            EXCEPT !.of = <<names[k]>>]]

\* Fault: the label of the last name is left out.
GetCpHashKeepingName(n) ==
    [When({"cp"}, Either(Upto(Names, n - 1), Call("cphash", "none")))
        EXCEPT !.stop = TRUE]
\* tpm2_sapi_getcphash, then the labels that free the names.
GetCpHash(n) ==
    [When({"cp"}, Either(Upto(Names, n), Call("cphash", "none")))
        EXCEPT !.stop = TRUE]

\* tpm2_sapi_getrphash
GetRpHash == When({"rp"}, Call("rphash", "none"))

\* Esys_... with its handles.
Esys(handles) == [Call("dispatch", "none") EXCEPT !.of = handles]

\* The hash before any of the sending: the handles are hashed in the order of
\* the names.
Hashed(names) == <<Prepare>> \o GetName(names) \o <<GetCpHash(Len(names))>>

\* Fault: the command is prepared before the index is looked up.
HashOnlyPreparedFirst(before, names, handles) ==
    Script(<<GetSapiContext({"cp"}), Prepare>> \o before \o GetName(names)
               \o <<GetCpHash(Len(names)), Esys(handles)>>,
           {"cp"}, Upto(Names, Len(names)))

(***************************************************************************)
(* if (cp_hash) { ...; goto skip_esapi_call; } Esys_...: the functions     *)
(* that know no rpHash take cp_hash as a pointer.                          *)
(***************************************************************************)
HashOnly(before, names, handles) ==
    Script(before \o <<GetSapiContext({"cp"})>> \o Hashed(names) \o <<Esys(handles)>>,
           {"cp"}, Upto(Names, Len(names)))

(***************************************************************************)
(* if (cp_hash->size) ... if (rp_hash->size) ...: with both, the command   *)
(* is hashed, sent, and its response hashed.  In these functions the code  *)
(* behind the hash asks only whether the rpHash is wanted, not whether the *)
(* cpHash was computed: rc is overwritten.  again: the SAPI context is     *)
(* fetched once more inside the block.  sessions session handles are       *)
(* looked up after the hash.                                               *)
(***************************************************************************)
HashBothUnchecked(before, again, names, sessions, handles) ==
    LET block == (IF again THEN <<GetSapiContext({"cp"})>> ELSE <<>>) \o <<Prepare>>
        next == Len(before) + 1 + Len(block) + Len(names) + 2
        checkless(s) == [s EXCEPT !.resume = next]
        hashing == GetName(names) \o <<GetCpHash(Len(names))>>
    IN  Script(before \o <<GetSapiContext({"cp", "rp"})>> \o block
                   \o [i \in 1..Len(hashing) |-> checkless(hashing[i])]
                   \o [i \in 1..sessions |-> Session] \o <<Esys(handles), GetRpHash>>,
               {"cp", "rp"}, Upto(Names, Len(names)))

\* Fault: a failure to compute the cpHash is not checked here either.
HashBothNoCheck(before, sapi, names, sessions, handles) ==
    HashBothUnchecked(before, FALSE, names, sessions, handles)

(***************************************************************************)
(* The same, with a failure to compute the cpHash checked.  sapi are the   *)
(* options under which the SAPI context is fetched.                        *)
(***************************************************************************)
HashBoth(before, sapi, names, sessions, handles) ==
    Script(before \o <<GetSapiContext(sapi)>> \o Hashed(names)
               \o [i \in 1..sessions |-> Session] \o <<Esys(handles), GetRpHash>>,
           {"cp", "rp"}, Upto(Names, Len(names)))

-----------------------------------------------------------------------------
(* if (cp_hash), NV indices: the index is looked up by its number first.   *)

AuthNv == <<"auth", "nv">>
nv_read == HashOnly(<<Public, Session>>, AuthNv, AuthNv)
nvreadlock == HashOnly(<<Public, Session>>, AuthNv, AuthNv)
nvwritelock == HashOnly(<<Public, Session>>, AuthNv, AuthNv)
nvsetbits == HashOnly(<<Public, Session>>, AuthNv, AuthNv)
nvundefine == HashOnly(<<Public, Session>>, AuthNv, AuthNv)
nvwrite == HashOnly(<<Public, Session>>, AuthNv, AuthNv)
nv_increment == HashOnly(<<Session, Public>>, AuthNv, AuthNv)
nvundefinespecial ==
    HashOnly(<<Public, Session>>, <<"nv", "platform">>, <<"nv", "platform">>)
policy_authorize_nv ==
    HashOnly(<<Public, Session>>, <<"auth", "nv", "policy">>, <<"auth", "nv", "policy">>)
policy_nv ==
    HashOnly(<<Public, Session>>, <<"auth", "nv", "policy">>, <<"auth", "nv", "policy">>)
nvcertify ==
    HashOnly(<<Session, Session, Public>>, <<"key", "auth", "nv">>, <<"key", "auth", "nv">>)
nvglobalwritelock == HashOnly(<<Session>>, <<"auth">>, <<"auth">>)

(* if (cp_hash), objects and hierarchies.                                  *)
policy_secret == HashOnly(<<Session>>, <<"auth", "policy">>, <<"auth", "policy">>)
evictcontrol == HashOnly(<<Session>>, <<"auth", "object">>, <<"auth", "object">>)
duplicate == HashOnly(<<Session>>, <<"object", "parent">>, <<"object", "parent">>)
gettime == HashOnly(<<Session, Session>>, <<"privacy", "key">>, <<"privacy", "key">>)
rsa_decrypt == HashOnly(<<Session>>, <<"key">>, <<"key">>)
load == HashOnly(<<Session>>, <<"parent">>, <<"parent">>)
import == HashOnly(<<Session>>, <<"parent">>, <<"parent">>)
hmac == HashOnly(<<Session>>, <<"key">>, <<"key">>)
sign == HashOnly(<<Session>>, <<"key">>, <<"key">>)
quote == HashOnly(<<Session>>, <<"key">>, <<"key">>)
\* EncryptDecrypt2; a TPM that does not know it gets EncryptDecrypt instead.
encryptdecrypt == HashOnly(<<Session>>, <<"key">>, <<"key">>)
setprimarypolicy == HashOnly(<<Session>>, <<"auth">>, <<"auth">>)
setclock == HashOnly(<<Session>>, <<"auth">>, <<"auth">>)
clockrateadjust == HashOnly(<<Session>>, <<"auth">>, <<"auth">>)
dictionarylockout_setup == HashOnly(<<Session>>, <<"auth">>, <<"auth">>)
dictionarylockout_reset == HashOnly(<<Session>>, <<"auth">>, <<"auth">>)

\* rval != TPM2_RC_SUCCESS && rval != TPM2_RC_INITIALIZE
Lenient(script) ==
    [script EXCEPT !.steps[Len(script.steps)].lenient = TRUE]
clear == Lenient(HashOnly(<<Session>>, <<"auth">>, <<"auth">>))
clearcontrol == Lenient(HashOnly(<<Session>>, <<"auth">>, <<"auth">>))
\* fix_esys_hierarchy, which can fail, stands between hash and command.
hierarchycontrol ==
    LET script == HashOnly(<<Session>>, <<"auth">>, <<"auth">>)
        n == Len(script.steps)
    IN  Lenient([script EXCEPT
            !.steps = SubSeq(@, 1, n - 1) \o <<Call("options", "none"), @[n]>>])

(* cp_hash->size and rp_hash->size.                                        *)
create == HashBoth(<<>>, {"cp", "rp"}, <<"parent">>, 1, <<"parent">>)
create_loaded == HashBoth(<<>>, {"cp", "rp"}, <<"parent">>, 1, <<"parent">>)
object_change_auth ==
    HashBoth(<<>>, {"cp", "rp"}, <<"object", "parent">>, 1, <<"object", "parent">>)
\* The SAPI context is fetched whether a hash is wanted or not.
nv_change_auth == HashBoth(<<>>, {}, <<"nv">>, 1, <<"nv">>)
hierarchy_change_auth == HashBoth(<<>>, {}, <<"auth">>, 1, <<"auth">>)
changepps == HashBoth(<<>>, {}, <<"platform">>, 1, <<"platform">>)
changeeps == HashBoth(<<>>, {"cp", "rp"}, <<"platform">>, 1, <<"platform">>)
certify == HashBoth(<<>>, {"cp", "rp"}, <<"object", "key">>, 2, <<"object", "key">>)
certifycreation ==
    HashBoth(<<>>, {"cp", "rp"}, <<"key", "object">>, 1, <<"key", "object">>)
\* No handle, no session of its own.
getrandom == HashBoth(<<>>, {"cp", "rp"}, <<>>, 0, <<>>)

activatecredential ==
    HashBothUnchecked(<<>>, FALSE, <<"object", "key">>, 2, <<"object", "key">>)
nv_definespace == HashBothUnchecked(<<>>, TRUE, <<"auth">>, 1, <<"auth">>)
nvextend == HashBothUnchecked(<<Public>>, TRUE, AuthNv, 1, AuthNv)
unseal == HashBothUnchecked(<<>>, TRUE, <<"object">>, 1, <<"object">>)

\* The functions above that can succeed although a call of theirs failed.
ForgivingCalls ==
    {"activatecredential", "nv_definespace", "nvextend", "unseal",
     "clear", "clearcontrol", "hierarchycontrol"}

EsysCalls ==
    [nv_read |-> nv_read, nvreadlock |-> nvreadlock, nvwritelock |-> nvwritelock,
     nvsetbits |-> nvsetbits, nvundefine |-> nvundefine, nvwrite |-> nvwrite,
     nv_increment |-> nv_increment, nvundefinespecial |-> nvundefinespecial,
     policy_authorize_nv |-> policy_authorize_nv, policy_nv |-> policy_nv,
     nvcertify |-> nvcertify, nvglobalwritelock |-> nvglobalwritelock,
     policy_secret |-> policy_secret, evictcontrol |-> evictcontrol,
     duplicate |-> duplicate, gettime |-> gettime, rsa_decrypt |-> rsa_decrypt,
     load |-> load, import |-> import, hmac |-> hmac, sign |-> sign,
     quote |-> quote, encryptdecrypt |-> encryptdecrypt,
     setprimarypolicy |-> setprimarypolicy, setclock |-> setclock,
     clockrateadjust |-> clockrateadjust,
     dictionarylockout_setup |-> dictionarylockout_setup,
     dictionarylockout_reset |-> dictionarylockout_reset, clear |-> clear,
     clearcontrol |-> clearcontrol, hierarchycontrol |-> hierarchycontrol,
     create |-> create, create_loaded |-> create_loaded,
     object_change_auth |-> object_change_auth, nv_change_auth |-> nv_change_auth,
     hierarchy_change_auth |-> hierarchy_change_auth, changepps |-> changepps,
     changeeps |-> changeeps, certify |-> certify,
     certifycreation |-> certifycreation, getrandom |-> getrandom,
     activatecredential |-> activatecredential, nv_definespace |-> nv_definespace,
     nvextend |-> nvextend, unseal |-> unseal]
=============================================================================
