------------------------------ MODULE MCFlows -------------------------------
(***************************************************************************)
(* The criteria of ScriptFlow and CallFlow, which the proofs of FlowProofs *)
(* and CallProofs rest on, evaluated for the scripts of the repository.    *)
(***************************************************************************)
EXTENDS MCTools, ScriptFlow

\* ScriptFlow accepts exactly the tidy tools, and exactly the tools that mask
\* no failure, but for policysecret, whose second close runs after a failure
\* that is already in rc.
ASSUME CatalogueTidy ==
    LET tool == Catalogue
    IN  TidyTools = {t \in AllTools \ BulkTools : Tidy(tool[t].onrun, tool[t].onstop)}
ASSUME CatalogueHonest ==
    LET tool == Catalogue
        honest == {t \in AllTools : Honest(tool[t].onrun) /\ Honest(tool[t].onstop)}
    IN  AllTools = honest \cup MaskingTools \cup {"policysecret"}

Flow == INSTANCE CallFlow
Esys == INSTANCE EsysCalls
Fapi == INSTANCE FapiTools

\* CallFlow refuses only the tool that frees a pointer the FAPI call may not
\* have set, and as not firm exactly the functions that let a failure pass.
ASSUME CatalogueCalls ==
    LET script == Esys!EsysCalls @@ Fapi!FapiTools
        known == DOMAIN script
    IN  /\ {"tss2_getplatformcertificates"} = {n \in known : ~Flow!Clean(script[n])}
        /\ Esys!ForgivingCalls = {n \in known : ~Flow!Firm(script[n])}
        /\ \A n \in known : /\ Flow!TidyNames(script[n])
                            /\ Flow!WritesAll(script[n])
                            /\ Flow!Hashes(script[n])
=============================================================================
