-------------------------------- MODULE MCPcr --------------------------------
(***************************************************************************)
(* The PCR lists and banks of PcrValues for TLC.                           *)
(***************************************************************************)
EXTENDS PcrValues

Of(bank, pcrs) == [bank |-> bank, pcrs |-> pcrs]

\* PCR 2 is not in the bank of sha1, PCR 3 in none, and the TPM has no bank of sha384.
MCAssigned == <<Of("sha1", {0, 1}), Of("sha256", {0, 1, 2})>>

\* One batch; two batches over two banks, with a PCR that the bank does not have, and
\* more than all lists of a user hold; a bank that the TPM does not have, and a PCR
\* named twice.
MCSelections ==
    {<<Of("sha256", {1})>>,
     <<Of("sha1", {0}), Of("sha256", {0, 1, 2, 3})>>,
     <<Of("sha384", {0}), Of("sha256", {0, 1}), Of("sha256", {0})>>}

\* Fewer digests than fill a list of two; as many as fill two such lists, the second
\* bank beginning in the first of them.
MCFilling == {<<Of("sha256", {1})>>, <<Of("sha1", {0}), Of("sha256", {0, 1, 2})>>}

MCExtensions ==
    {<<[pcr |-> 1, banks |-> {"sha1", "sha256"}], [pcr |-> 2, banks |-> {"sha256"}]>>}

\* The processes are alike.
Symmetry == Permutations(Procs)
=============================================================================
