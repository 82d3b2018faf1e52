------------------------------ MODULE MCCalls -------------------------------
(***************************************************************************)
(* The call scripts of lib/tpm2.c and tools/fapi together, for TLC.        *)
(***************************************************************************)
EXTENDS CallRuntime, EsysCalls, FapiTools, TLC

MCScripts ==
    LET script == EsysCalls @@ FapiTools
    IN  [name \in DOMAIN script |-> script[name]]

\* Everything but the tool that frees a pointer the FAPI call may not have set.
MCMenu == DOMAIN MCScripts \ {"tss2_getplatformcertificates"}

\* Tools that read one input.
MCReaders == {"tss2_nvwrite", "tss2_setappdata"}

Symmetry == Permutations(Procs)
=============================================================================
