--------------------------- MODULE SessionLedger ----------------------------
(***************************************************************************)
(* What the tools promise about sessions, seen from outside: a ledger of   *)
(* who answers for each session of the TPM.                                *)
(*                                                                         *)
(* A session belongs to one running process, or to one session file, or to *)
(* nobody; or it is Lost: it still takes a slot of the TPM, but after a    *)
(* failure or a kill no process or file answers for it.  One process at a  *)
(* time moves sessions.  It can take a session only from a file, and give  *)
(* it back only to a file or to the TPM: a session never passes from one   *)
(* process to another, is never freed while it is in a file, and never     *)
(* returns to a file once it has been lost.                                *)
(***************************************************************************)
CONSTANTS Sids, Procs, Files, Nobody, Lost

VARIABLE owner

Init == owner \in [Sids -> Files \cup {Nobody}]

\* The moves process p can make.
Start(p, from, to) == from = Nobody /\ to = p
Take(p, from, to) == from \in Files /\ to = p
Park(p, from, to) == from = p /\ to \in Files
Flush(p, from, to) == from = p /\ to = Nobody
\* p fails or is killed, or replaces the file the session was in.
Lose(p, from, to) == from \in Files \cup {p} /\ to = Lost
\* p had read the file before it was replaced, or a resource manager cleans up.
Recover(p, from, to) == from = Lost /\ to \in {p, Nobody}

Move(p, s) ==
    LET from == owner[s]
        to == owner'[s]
    IN  \/ Start(p, from, to) \/ Take(p, from, to) \/ Park(p, from, to)
        \/ Flush(p, from, to) \/ Lose(p, from, to) \/ Recover(p, from, to)

Next ==
    /\ owner' \in [Sids -> Files \cup Procs \cup {Nobody, Lost}]
    /\ \E p \in Procs : \A s \in Sids : owner'[s] = owner[s] \/ Move(p, s)

Spec == Init /\ [][Next]_owner
=============================================================================
