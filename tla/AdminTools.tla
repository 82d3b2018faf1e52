----------------------------- MODULE AdminTools -----------------------------
(***************************************************************************)
(* The tools that administer hierarchies, the clock, audit and the PCRs.   *)
(***************************************************************************)
EXTENDS ToolScript

\* The authorisation of a hierarchy, one command under it, its close.
Administer(check) ==
    Tool(check \o ObjectAuth("auth") \o <<Command, Output>>, <<Close("auth")>>)

clear == Tool(ObjectAuth("auth") \o LenientCommand \o <<Output>>, <<Close("auth")>>)
clockrateadjust == Administer(<<>>)
setclock == Administer(<<Input>>)
pcrallocate == Administer(<<>>)
clearcontrol_clearcontrol == LenientCommand \o <<Output>>
clearcontrol ==
    Tool(ObjectAuth("auth") \o <<Input>> \o clearcontrol_clearcontrol, <<Close("auth")>>)

\* Parameters that are not given are first read from the TPM.
dictionarylockout ==
    Tool(<<Options>> \o ObjectAuth("auth") \o <<Optional(Command), Command, Output>>,
         <<Close("auth")>>)

\* SETting phEnable is refused with tcti_error, a handle that may not change
\* the bit with auth_error.
hierarchycontrol_hierarchycontrol == LenientCommand \o <<Output>>
hierarchycontrol ==
    Tool(ObjectAuth("auth") \o <<Plain("input", "auth", "tcti_error", 0), Input>>
            \o hierarchycontrol_hierarchycontrol,
         <<Close("auth")>>)

process_setprimarypolicy_input == ObjectAuth("auth") \o <<Optional(Input)>>
setprimarypolicy ==
    Tool(<<Options>> \o process_setprimarypolicy_input \o <<Command, Output>>,
         <<Close("auth")>>)

\* The algorithm first, then the list: the first may succeed alone.
setcommandauditstatus ==
    Tool(ObjectAuth("auth") \o <<Command, Command>>, <<Close("auth")>>)

changeseed_process_inputs == <<Auth("auth")>> \o AuxSessionsSetup(2)
changeeps ==
    Tool(changeseed_process_inputs \o <<Command, Output>>, <<Close("auth")>> \o CloseAux(2))
changepps ==
    Tool(changeseed_process_inputs \o <<Command, Output>>, <<Close("auth")>> \o CloseAux(2))

tpm_pcrevent_file == <<Input, Command>>
pcrevent == Tool(<<Auth("auth")>> \o tpm_pcrevent_file \o <<Output>>, <<Close("auth")>>)
pcrextend == Tool(<<Command>>, <<>>)
pcrreset == Tool(<<Command>>, <<>>)

readclock == Tool(<<Command, Output>>, <<>>)
selftest == Tool(<<Command>>, <<>>)
incrementalselftest == Tool(<<Command, Output>>, <<>>)
gettestresult == Tool(<<Command, Output>>, <<>>)
testparms == Tool(<<Command>>, <<>>)
getcap == Tool(<<Options, Options, Command, Output>>, <<>>)
geteccparameters == Tool(<<Options, Command, Output>>, <<>>)
startup == Tool(<<Command>>, <<>>)
shutdown == Tool(<<Command>>, <<>>)

AdminTools ==
    [clear |-> clear, clockrateadjust |-> clockrateadjust, setclock |-> setclock,
     pcrallocate |-> pcrallocate, clearcontrol |-> clearcontrol,
     dictionarylockout |-> dictionarylockout, hierarchycontrol |-> hierarchycontrol,
     setprimarypolicy |-> setprimarypolicy,
     setcommandauditstatus |-> setcommandauditstatus,
     changeeps |-> changeeps, changepps |-> changepps,
     pcrevent |-> pcrevent, pcrextend |-> pcrextend, pcrreset |-> pcrreset,
     readclock |-> readclock, getcap |-> getcap, selftest |-> selftest,
     incrementalselftest |-> incrementalselftest, gettestresult |-> gettestresult,
     testparms |-> testparms, geteccparameters |-> geteccparameters,
     startup |-> startup, shutdown |-> shutdown]
=============================================================================
