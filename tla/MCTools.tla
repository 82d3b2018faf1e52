------------------------------ MODULE MCTools -------------------------------
(***************************************************************************)
(* Instances of the tool runtime for TLC: the catalogue of all tools, and  *)
(* the sets of tools and session files the runs choose from it.            *)
(***************************************************************************)
EXTENDS ToolLedger, SessionTools, PolicyTools, NvTools, KeyTools, AttestTools,
        AdminTools, TLC

Catalogue ==
    SessionTools @@ PolicyTools @@ NvTools @@ KeyTools @@ AttestTools @@ AdminTools

MCOnrun == LET tool == Catalogue IN [t \in Tools |-> tool[t].onrun]
MCOnstop == LET tool == Catalogue IN [t \in Tools |-> tool[t].onstop]

AllTools == LET tool == Catalogue IN DOMAIN tool

\* Tools that act on sessions they did not open or restore.
BulkTools == {"flushcontext_loaded", "flushcontext_saved", "flushcontext_handle"}

\* Tools that can end without a fault and leave a session behind.
LeakyTools ==
    {"commit", "ecdhzgen", "zgen2phase", "createpolicy", "createek",
     "import_openssl", "policysecret",
     "unseal", "nvincrement", "nvreadlock", "nvwritelock", "nvsetbits",
     "nvundefine", "nvcertify", "policyauthorizenv", "policynv"}

\* Tools whose exit code can hide a failure.
MaskingTools ==
    {"flushcontext_session", "getsessionauditdigest", "getcommandauditdigest",
     "createak", "evictcontrol", "encryptdecrypt", "duplicate_openssl",
     "import_openssl", "activatecredential", "nvdefine", "nvextend", "unseal",
     "clear", "clearcontrol", "hierarchycontrol", "getekcertificate"}

TidyTools ==
    LET untidy == BulkTools \cup LeakyTools
    IN  AllTools \ untidy

\* Tools that meet at session files: restore by path, authorise, and end it.
RacingTools == {"policypassword", "nvread", "flushcontext_session"}
\* Bulk flushes beside tools that start, hold, park and end sessions.
FlushingTools == BulkTools \cup {"startauthsession", "nvread", "flushcontext_session"}

\* Tools that do not end as the manual has it.
UncleanTools == LeakyTools \cup MaskingTools \cup {"startauthsession"}

\* Each file holds a session of its own, as far as there is room; or one does.
AllParked == CHOOSE P \in [Files -> 0..MaxSessions] :
    \A f, g \in Files : P[f] # 0 /\ (P[f] = P[g] => f = g)
OneParked == CHOOSE P \in [Files -> {0, 1}] : Cardinality({f \in Files : P[f] = 1}) = 1

Symmetry == Permutations(Procs)
=============================================================================
