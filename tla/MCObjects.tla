------------------------------ MODULE MCObjects ------------------------------
(***************************************************************************)
(* The instance of TpmObjects that TLC checks.                             *)
(***************************************************************************)
EXTENDS TpmObjects

CONSTANTS p, q

(* Persistent handles 0 to 4, of which 3 and 4 are the platform's; NV       *)
(* indices 0 to 3, of which the lookup tries three; two transient objects. *)
MCInUse == {{}, {1, 3}, {0, 1, 2}, {0, 1, 2, 3, 4}}

MCPersistent == 0 .. 4

MCIndices == 0 .. 3

(* With a resource manager two digests never meet, and without one the runs *)
(* follow each other: one run that may be a digest is enough.               *)
MCMenu ==
    [r \in Procs |-> {c.tool : c \in IF r = p THEN Tools ELSE Tools \ DigestTools}]

(* Digests alone, for what is said of them without regard to the size that a *)
(* file is said to have.                                                     *)
MCDigests == [r \in Procs |-> {c.tool : c \in DigestTools}]

MCSlots == 0 .. 1

=============================================================================
