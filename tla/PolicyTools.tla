----------------------------- MODULE PolicyTools ----------------------------
(***************************************************************************)
(* The tools that extend the policy of a session kept in a file.  Most     *)
(* restore it, issue their policy command, report the digest and close it. *)
(***************************************************************************)
EXTENDS ToolScript

\* Restore the session, issue the policy command on it, report the digest.
ExtendPolicy(check) ==
    Tool(<<check, Restore("session"), Command, Output>>, <<Close("session")>>)

\* policypcr reports missing options as a general error.
policypcr == ExtendPolicy(Input)
policyauthvalue == ExtendPolicy(Options)
policypassword == ExtendPolicy(Options)
policycommandcode == ExtendPolicy(Options)
policyduplicationselect == ExtendPolicy(Options)
policycphash == ExtendPolicy(Options)
policynamehash == ExtendPolicy(Options)
policytemplate == ExtendPolicy(Options)
policyauthorize == ExtendPolicy(Options)
policylocality == ExtendPolicy(Options)
policynvwritten == ExtendPolicy(Options)
policyticket == ExtendPolicy(Options)
policycountertimer == ExtendPolicy(Input)
\* The digest sizes are compared with the session's hash before the command.
policyor ==
    Tool(<<Options, Restore("session"), Input, Command, Output>>,
         <<Close("session")>>)
\* The signature and the key are loaded before the session is.
policysigned ==
    Tool(<<Options, Optional(Input), Input, Restore("session"), Command, Output>>,
         <<Close("session")>>)

\* With --cphash the authorisation's session is not closed.
policyauthorizenv ==
    Tool(<<Options>> \o ObjectAuth("auth") \o <<Restore("session"), Command, Output>>,
         <<CloseUnlessCpHash("auth"), Close("session")>>)
policynv ==
    Tool(<<Options, Input, Input>> \o ObjectAuth("auth")
            \o <<Restore("session"), Command, Output>>,
         <<CloseUnlessCpHash("auth"), Close("session")>>)

(***************************************************************************)
(* policysecret closes the authorisation's session inside onrun, after the *)
(* command, whether that succeeded (step 6) or not (step 8); its onstop    *)
(* closes only the policy session.                                         *)
(***************************************************************************)
policysecret ==
    Tool(<<Options, Restore("session")>> \o ObjectAuth("auth")
            \o <<Goto(Command, 8), Returning(CloseUnlessCpHash("auth")), Output,
                 Ignored(CloseUnlessCpHash("auth"))>>,
         <<Close("session")>>)

\* A session of its own, without a file, that nothing closes.
createpolicy == Tool(<<Options, Start("session"), Command, Command, Output>>, <<>>)

PolicyTools ==
    [policypcr |-> policypcr, policyauthvalue |-> policyauthvalue,
     policypassword |-> policypassword, policycommandcode |-> policycommandcode,
     policyduplicationselect |-> policyduplicationselect,
     policycphash |-> policycphash, policynamehash |-> policynamehash,
     policytemplate |-> policytemplate, policyauthorize |-> policyauthorize,
     policylocality |-> policylocality, policynvwritten |-> policynvwritten,
     policyticket |-> policyticket, policycountertimer |-> policycountertimer,
     policyor |-> policyor, policysigned |-> policysigned,
     policyauthorizenv |-> policyauthorizenv, policynv |-> policynv,
     policysecret |-> policysecret, createpolicy |-> createpolicy]
=============================================================================
