----------------------------- MODULE ToolLedger -----------------------------
(***************************************************************************)
(* The tools implement the session ledger, unless one of them flushes      *)
(* sessions by handle or by property.                                      *)
(***************************************************************************)
EXTENDS ToolRuntime

CONSTANTS Nobody, Lost

\* The process that holds a session; the file that has its current context.
Holder(s) == CHOOSE p \in Procs : \E x \in Slots : proc[p].hold[x] = s
Parking(s) == CHOOSE f \in Files : Current(s, file[f])

Owner(s) ==
    IF sess[s].st = "free" THEN Nobody
    ELSE IF \E a \in Pointers : proc[a[1]].hold[a[2]] = s THEN Holder(s)
    ELSE IF \E f \in Files : Current(s, file[f]) THEN Parking(s)
    ELSE Lost

Ledger == INSTANCE SessionLedger WITH owner <- [s \in Sids |-> Owner(s)]

(***************************************************************************)
(* tpm2_session_open, _restore and _close, called by the tools in any      *)
(* order and interleaving and failing or killed at any point, only ever    *)
(* move sessions the way the ledger allows.                                *)
(***************************************************************************)
KeepsLedger == Ledger!Spec
=============================================================================
