----------------------------- MODULE CallProofs -----------------------------
(***************************************************************************)
(* Proofs about the functions of lib/tpm2.c and the tools of tools/fapi,   *)
(* for any number of processes and paths, any input and block size and any *)
(* scripts that meet the criteria of CallFlow.                             *)
(***************************************************************************)
EXTENDS CallRuntime, CallFlow, SequenceTheorems, TLAPS

Calling == [name: Menu \cup {"none"}, asked: SUBSET Options,
            std: SUBSET Buffers, pc: Nat, rc: Results]
Hashing == [sys: SysStates, cp: Seq(Handles), cpOf: SysStates,
            rpOf: SysStates, sent: BOOLEAN, failed: BOOLEAN]
Transfer == [phase: Phases, want: Nat, got: Nat, pipe: Nat,
             cut: SUBSET Buffers, excused: SUBSET Buffers,
             made: SUBSET Paths, robbed: SUBSET Paths, wrote: SUBSET Paths]
Files == [Paths -> [by: Procs \cup {User, Nobody},
                    part: {"none", "empty", "short", "whole"}]]
Pointers == [Buffers -> MemStates]

\* What the conjunct of TypeOK about the script says of one process.
InScript(p) ==
    call[p].rc \notin {"none", "killed"} =>
        /\ call[p].name \in Menu
        /\ call[p].asked \subseteq Scripts[call[p].name].opts
        /\ call[p].pc \in 1..(Len(Scripts[call[p].name].steps) + 1)

\* Where a process is when it is in the middle of a file or stream.
Placed(p) ==
    /\ Running(p) => call[p].pc <= Len(Steps(p))
    /\ call[p].rc = "none" => io[p] = NoIo /\ hash[p] = NoHash
    /\ io[p].phase # "none" =>
          /\ At(p, {"read", "write"}) /\ ~OnStream(p)
          /\ mem[p][Current(p).buf] # "null"
          /\ At(p, {"read"}) => mem[p][Current(p).buf] = "held"
    /\ io[p].got # 0 => At(p, {"read"})
    /\ io[p].phase = "none" /\ io[p].got # 0 => OnStream(p)

Base == TypeOK /\ \A p \in Procs : Placed(p)

-----------------------------------------------------------------------------
(* The parts of the state.                                                 *)

LEMMA Parts ==
    ASSUME TypeOK, NEW p \in Procs
    PROVE  /\ call \in [Procs -> Calling] /\ call[p] \in Calling
           /\ mem \in [Procs -> Pointers] /\ mem[p] \in Pointers
           /\ hash \in [Procs -> Hashing] /\ hash[p] \in Hashing
           /\ io \in [Procs -> Transfer] /\ io[p] \in Transfer
           /\ file \in Files
           /\ size \in Sizes /\ size \in Nat
           /\ io[p].got <= io[p].want
           /\ InScript(p)
  <1>1. /\ call \in [Procs -> Calling] /\ mem \in [Procs -> Pointers]
        /\ hash \in [Procs -> Hashing] /\ io \in [Procs -> Transfer]
        /\ file \in Files /\ size \in Sizes
    BY DEF TypeOK, Calling, Pointers, Hashing, Transfer, Files
  <1>2. io[p].got <= io[p].want /\ InScript(p)
    BY DEF TypeOK, InScript
  <1>3. size \in Nat
    BY <1>1, SizesAssumption
  <1> QED
    BY <1>1, <1>2, <1>3

LEMMA StepFacts ==
    ASSUME Base, NEW p \in Procs, Running(p)
    PROVE  /\ call[p].name \in Menu
           /\ call[p].asked \subseteq Scripts[call[p].name].opts
           /\ WellFormed(Scripts[call[p].name])
           /\ Steps(p) \in Seq(Step) /\ Len(Steps(p)) \in Nat
           /\ call[p].pc \in 1..Len(Steps(p))
           /\ Current(p) \in Step
           /\ \/ Current(p).resume = 0
              \/ Current(p).resume \in (call[p].pc + 1)..Len(Steps(p))
           /\ Current(p).op \in {"name", "list", "ask", "read"} => Current(p).buf \in Buffers
           /\ Current(p).may \subseteq Current(p).sets
           /\ Current(p).lenient => Current(p).sets = {}
           /\ Current(p).op = "write" =>
                 Target(p) \in Paths /\ Current(p).buf = Outputs[Target(p)]
                     /\ Current(p).buf \in Buffers
  <1>1. InScript(p) /\ Placed(p)
    BY Parts DEF Base
  <1>2. /\ call[p].name \in Menu
        /\ call[p].asked \subseteq Scripts[call[p].name].opts
        /\ call[p].pc \in 1..(Len(Scripts[call[p].name].steps) + 1)
        /\ call[p].pc <= Len(Scripts[call[p].name].steps)
    BY <1>1 DEF InScript, Placed, Running, Steps
  <1>3. WellFormed(Scripts[call[p].name])
    BY <1>2, ScriptsAssumption
  <1> DEFINE st == Scripts[call[p].name].steps
             k == call[p].pc
  <1>4. st \in Seq(Step)
    BY <1>3 DEF WellFormed
  <1>5. Len(st) \in Nat /\ k \in 1..Len(st)
    BY <1>4, <1>2
  <1>6. st[k] \in Step
    BY <1>4, <1>5
  <1>7. /\ st[k].resume = 0 \/ st[k].resume \in (k + 1)..Len(st)
        /\ st[k].op \in {"name", "list", "ask", "read"} => st[k].buf \in Buffers
        /\ st[k].may \subseteq st[k].sets
        /\ st[k].lenient => st[k].sets = {}
    BY <1>3, <1>5 DEF WellFormed
  <1>8. ASSUME st[k].op = "write"
        PROVE  PathOf(st[k].buf) \in Paths /\ st[k].buf = Outputs[PathOf(st[k].buf)]
                   /\ st[k].buf \in Buffers
    <2>1. PICK n \in Paths : st[k].buf = Outputs[n]
      BY <1>8, <1>2, <1>5, PathsAssumption
    <2>2. n \in 1..4
      BY PathsAssumption
    <2>3. \A i, j \in 1..4 : Outputs[i] = Outputs[j] => i = j
      BY DEF Outputs
    <2>4. PathOf(st[k].buf) = n
      BY <2>1, <2>2, <2>3 DEF PathOf
    <2>5. Outputs[n] \in Buffers
      BY <2>2 DEF Buffers
    <2> QED
      BY <2>1, <2>4, <2>5
  <1>9. Steps(p) = st /\ Current(p) = st[k] /\ Target(p) = PathOf(st[k].buf)
    BY DEF Steps, Current, Target
  <1> HIDE DEF st, k
  <1> QED
    BY <1>2, <1>3, <1>4, <1>5, <1>6, <1>7, <1>8, <1>9 DEF k

LEMMA FreedType ==
    ASSUME NEW m \in Pointers, NEW bufs
    PROVE  Freed(m, bufs) \in Pointers
  BY DEF Freed, Pointers, MemStates

-----------------------------------------------------------------------------
(* How control moves: the step of one process leaves its script and its    *)
(* options alone, and every other process.                                 *)

Keeps(p) ==
    /\ call' \in [Procs -> Calling]
    /\ call'[p].name = call[p].name
    /\ call'[p].asked = call[p].asked
    /\ call'[p].std = call[p].std
    /\ \A q \in Procs \ {p} : call'[q] = call[q]

Arrives(p, n) ==
    /\ Keeps(p)
    /\ call'[p].pc = n
    /\ call'[p].rc = IF n > Len(Steps(p)) THEN "success" ELSE "running"

Returns(p, rc) ==
    Keeps(p) /\ call'[p].pc = call[p].pc /\ call'[p].rc = rc

\* The current step has passed, has failed.
Passes(p) ==
    IF Stops(Current(p), call[p].asked) THEN Returns(p, "success")
    ELSE Arrives(p, call[p].pc + 1)
Fails(p) ==
    IF Resumes(Current(p), call[p].asked) THEN Arrives(p, Current(p).resume)
    ELSE Returns(p, "failure")

LEMMA GotoArrives ==
    ASSUME Base, NEW p \in Procs, Running(p), NEW n \in Nat, call' = Goto(p, n)
    PROVE  Arrives(p, n)
  <1>1. call \in [Procs -> Calling] /\ call[p] \in Calling
    BY Parts DEF Base
  <1> DEFINE r == IF n > Len(Steps(p)) THEN "success" ELSE "running"
  <1>2. r \in Results
    BY DEF Results
  <1>3. call' = [call EXCEPT ![p].pc = n, ![p].rc = r]
    BY DEF Goto
  <1> HIDE DEF r
  <1>4. call' = [call EXCEPT ![p] = [[call[p] EXCEPT !.pc = n] EXCEPT !.rc = r]]
    BY <1>1, <1>3
  <1>5. [[call[p] EXCEPT !.pc = n] EXCEPT !.rc = r] \in Calling
    BY <1>1, <1>2 DEF Calling
  <1>6. Keeps(p) /\ call'[p].pc = n /\ call'[p].rc = r
    BY <1>1, <1>4, <1>5 DEF Keeps, Calling
  <1> QED
    BY <1>6 DEF Arrives, r

LEMMA RcReturns ==
    ASSUME Base, NEW p \in Procs, NEW rc \in Results, call' = [call EXCEPT ![p].rc = rc]
    PROVE  Returns(p, rc)
  <1>1. call \in [Procs -> Calling] /\ call[p] \in Calling
    BY Parts DEF Base
  <1>2. call' = [call EXCEPT ![p] = [call[p] EXCEPT !.rc = rc]]
    BY <1>1
  <1>3. [call[p] EXCEPT !.rc = rc] \in Calling
    BY <1>1 DEF Calling
  <1> QED
    BY <1>1, <1>2, <1>3 DEF Keeps, Calling, Returns

LEMMA PassMoves ==
    ASSUME Base, NEW p \in Procs, Running(p), NEW m \in Pointers, PassWith(p, m)
    PROVE  /\ Passes(p)
           /\ mem' \in [Procs -> Pointers]
           /\ mem'[p] = Freed(m, Current(p).done)
           /\ \A q \in Procs \ {p} : mem'[q] = mem[q]
  <1>1. call[p].pc + 1 \in Nat
    BY StepFacts
  <1>2. ASSUME Stops(Current(p), call[p].asked) PROVE Passes(p)
    <2>1. call' = [call EXCEPT ![p].rc = "success"]
      BY <1>2 DEF PassWith, Stops
    <2>2. "success" \in Results
      BY DEF Results
    <2> QED
      BY <1>2, <2>1, <2>2, RcReturns DEF Passes
  <1>3. ASSUME ~Stops(Current(p), call[p].asked) PROVE Passes(p)
    <2>1. call' = Goto(p, call[p].pc + 1)
      BY <1>3 DEF PassWith, Stops
    <2> QED
      BY <1>1, <1>3, <2>1, GotoArrives DEF Passes
  <1>4. mem' = [mem EXCEPT ![p] = Freed(m, Current(p).done)]
    BY DEF PassWith
  <1>5. Freed(m, Current(p).done) \in Pointers
    BY FreedType
  <1>6. mem \in [Procs -> Pointers]
    BY Parts DEF Base
  <1> QED
    BY <1>2, <1>3, <1>4, <1>5, <1>6

LEMMA FailMoves ==
    ASSUME Base, NEW p \in Procs, Running(p), NEW m \in Pointers, FailWith(p, m)
    PROVE  /\ Fails(p)
           /\ mem' \in [Procs -> Pointers]
           /\ mem'[p] = Freed(m, Current(p).lost)
           /\ \A q \in Procs \ {p} : mem'[q] = mem[q]
  <1>1. Current(p).resume \in Nat
    BY StepFacts DEF Step
  <1>2. ASSUME Resumes(Current(p), call[p].asked) PROVE Fails(p)
    <2>1. call' = Goto(p, Current(p).resume)
      BY <1>2 DEF FailWith, Resumes
    <2> QED
      BY <1>1, <1>2, <2>1, GotoArrives DEF Fails
  <1>3. ASSUME ~Resumes(Current(p), call[p].asked) PROVE Fails(p)
    <2>1. call' = [call EXCEPT ![p].rc = "failure"]
      BY <1>3 DEF FailWith, Resumes
    <2>2. "failure" \in Results
      BY DEF Results
    <2> QED
      BY <1>3, <2>1, <2>2, RcReturns DEF Fails
  <1>4. mem' = [mem EXCEPT ![p] = Freed(m, Current(p).lost)]
    BY DEF FailWith
  <1>5. Freed(m, Current(p).lost) \in Pointers
    BY FreedType
  <1>6. mem \in [Procs -> Pointers]
    BY Parts DEF Base
  <1> QED
    BY <1>2, <1>3, <1>4, <1>5, <1>6

\* After any of them the process is still in its script.
LEMMA StaysInScript ==
    ASSUME Base, NEW p \in Procs, Running(p), Passes(p) \/ Fails(p) \/ Arrives(p, call[p].pc + 1)
    PROVE  /\ Keeps(p)
           /\ call'[p].name \in Menu
           /\ call'[p].asked \subseteq Scripts[call'[p].name].opts
           /\ call'[p].pc \in 1..(Len(Scripts[call'[p].name].steps) + 1)
           /\ call'[p].rc \in {"running", "success", "failure"}
           /\ call'[p].rc = "running" => call'[p].pc <= Len(Scripts[call'[p].name].steps)
  <1>1. /\ call[p].name \in Menu /\ call[p].asked \subseteq Scripts[call[p].name].opts
        /\ Len(Steps(p)) \in Nat /\ call[p].pc \in 1..Len(Steps(p))
        /\ Current(p).resume = 0 \/ Current(p).resume \in (call[p].pc + 1)..Len(Steps(p))
        /\ Steps(p) = Scripts[call[p].name].steps
    BY StepFacts DEF Steps
  <1>2. CASE Arrives(p, call[p].pc + 1)
    BY <1>1, <1>2 DEF Arrives, Keeps
  <1>3. CASE Resumes(Current(p), call[p].asked) /\ Arrives(p, Current(p).resume)
    BY <1>1, <1>3 DEF Arrives, Keeps, Resumes
  <1>4. CASE \E rc \in {"success", "failure"} : Returns(p, rc)
    BY <1>1, <1>4 DEF Returns, Keeps
  <1> QED
    BY <1>2, <1>3, <1>4 DEF Passes, Fails

-----------------------------------------------------------------------------
(* The type invariant, and where a process is.                             *)

Typed ==
    /\ call \in [Procs -> Calling]
    /\ mem \in [Procs -> Pointers]
    /\ hash \in [Procs -> Hashing]
    /\ io \in [Procs -> Transfer]
    /\ file \in Files
    /\ size \in Sizes

\* The other processes notice at most that their path was taken.
Apart(p) ==
    \A q \in Procs \ {p} :
        /\ call'[q] = call[q] /\ mem'[q] = mem[q] /\ hash'[q] = hash[q]
        /\ io'[q] = [io[q] EXCEPT !.robbed = io'[q].robbed]
        /\ io[q].robbed \subseteq io'[q].robbed
        /\ io'[q].robbed \subseteq io[q].robbed \cup io[q].made

Fits(p) == InScript(p) /\ io[p].got <= io[p].want /\ Placed(p)

LEMMA BaseParts == Base <=> Typed /\ \A q \in Procs : Fits(q)
  BY DEF Base, TypeOK, Typed, Fits, InScript, Calling, Pointers, Hashing, Transfer, Files

LEMMA BaseAgain ==
    ASSUME Typed', \A q \in Procs : Fits(q)'
    PROVE  Base'
  BY DEF Base, TypeOK, Typed, Fits, InScript, Calling, Pointers, Hashing, Transfer, Files

LEMMA Updated ==
    ASSUME NEW D, NEW R, NEW f \in [D -> R], NEW p \in D, NEW r \in R
    PROVE  /\ [f EXCEPT ![p] = r] \in [D -> R]
           /\ [f EXCEPT ![p] = r][p] = r
           /\ \A q \in D \ {p} : [f EXCEPT ![p] = r][q] = f[q]
  OBVIOUS

\* An invariant of the others is kept.
LEMMA OthersFit ==
    ASSUME Base, Typed', NEW p \in Procs, Apart(p), NEW q \in Procs \ {p}
    PROVE  Fits(q)'
  <1>1. Fits(q)
    BY BaseParts
  <1>2. call'[q] = call[q] /\ mem'[q] = mem[q] /\ hash'[q] = hash[q]
    BY DEF Apart
  <1>3. io[q] \in Transfer /\ io'[q] \in Transfer
    BY BaseParts DEF Typed
  <1>4. /\ io'[q].phase = io[q].phase /\ io'[q].got = io[q].got
        /\ io'[q].want = io[q].want
    BY <1>3 DEF Apart, Transfer
  <1>5. Current(q)' = Current(q) /\ Steps(q)' = Steps(q)
    BY <1>2 DEF Current, Steps
  <1>6. At(q, {"read"})' = At(q, {"read"})
        /\ At(q, {"read", "write"})' = At(q, {"read", "write"})
    BY <1>2, <1>5 DEF At, Running, Given
  <1>7. InScript(q)' /\ (io[q].got <= io[q].want)'
    BY <1>1, <1>2, <1>4 DEF Fits, InScript
  <1>8. call[q].rc = "none" => io'[q] = NoIo
    <2> SUFFICES ASSUME call[q].rc = "none" PROVE io'[q] = NoIo
      OBVIOUS
    <2>1. io[q] = NoIo
      BY <1>1 DEF Fits, Placed
    <2>2. io[q].robbed = {} /\ io[q].made = {}
      BY <2>1 DEF NoIo
    <2>2a. io'[q].robbed \subseteq io[q].robbed \cup io[q].made
      BY DEF Apart
    <2>2b. io'[q].robbed = {}
      BY <2>2, <2>2a
    <2>3. io'[q] = [NoIo EXCEPT !.robbed = {}]
      BY <2>1, <2>2b DEF Apart
    <2> QED
      BY <2>3 DEF NoIo
  <1>9. Placed(q)'
    BY <1>1, <1>2, <1>4, <1>5, <1>6, <1>8 DEF Fits, Placed, Running, OnStream
  <1> QED
    BY <1>7, <1>9 DEF Fits

LEMMA ApartBy ==
    ASSUME Base, NEW p \in Procs,
           \A q \in Procs \ {p} :
               call'[q] = call[q] /\ mem'[q] = mem[q] /\ hash'[q] = hash[q] /\ io'[q] = io[q]
    PROVE  Apart(p)
  <1> SUFFICES ASSUME NEW q \in Procs \ {p}
               PROVE  io'[q] = [io[q] EXCEPT !.robbed = io'[q].robbed]
    BY DEF Apart
  <1>1. io[q] \in Transfer /\ io'[q] = io[q]
    BY Parts DEF Base
  <1>2. \A r \in Transfer : r = [r EXCEPT !.robbed = r.robbed]
    BY DEF Transfer
  <1> QED
    BY <1>1, <1>2

LEMMA HashSet ==
    ASSUME Base, NEW p \in Procs, NEW r \in Hashing, hash' = [hash EXCEPT ![p] = r]
    PROVE  /\ hash' \in [Procs -> Hashing] /\ hash'[p] = r
           /\ \A q \in Procs \ {p} : hash'[q] = hash[q]
  BY Parts DEF Base

LEMMA HashFails ==
    ASSUME Base, NEW p \in Procs, hash' = [hash EXCEPT ![p].failed = TRUE]
    PROVE  /\ hash' \in [Procs -> Hashing]
           /\ hash'[p] = [hash[p] EXCEPT !.failed = TRUE]
           /\ \A q \in Procs \ {p} : hash'[q] = hash[q]
  <1>1. hash \in [Procs -> Hashing] /\ hash[p] \in Hashing
    BY Parts DEF Base
  <1>2. [hash[p] EXCEPT !.failed = TRUE] \in Hashing
    BY <1>1 DEF Hashing
  <1>3. hash' = [hash EXCEPT ![p] = [hash[p] EXCEPT !.failed = TRUE]]
    BY <1>1
  <1> HIDE DEF Hashing
  <1> QED
    BY <1>2, <1>3, HashSet

LEMMA IoSet ==
    ASSUME Base, NEW p \in Procs, NEW r \in Transfer, io' = [io EXCEPT ![p] = r]
    PROVE  /\ io' \in [Procs -> Transfer] /\ io'[p] = r
           /\ \A q \in Procs \ {p} : io'[q] = io[q]
  BY Parts DEF Base

LEMMA Quiet ==
    ASSUME Base, NEW p \in Procs, Running(p)
    PROVE  /\ ~At(p, {"read"}) => io[p].got = 0
           /\ ~At(p, {"read", "write"}) => io[p].phase = "none"
           /\ OnStream(p) => io[p].phase = "none"
           /\ At(p, {"read"}) /\ ~OnStream(p) /\ io[p].phase = "none" => io[p].got = 0
  BY DEF Base, Placed

\* The move took the process out of the file.
LEMMA Landed ==
    ASSUME Base, NEW p \in Procs, Running(p),
           Passes(p) \/ Fails(p) \/ Arrives(p, call[p].pc + 1),
           io'[p] \in Transfer, io'[p].phase = "none", io'[p].got = 0
    PROVE  Fits(p)'
  <1>1. /\ call'[p].name \in Menu
        /\ call'[p].asked \subseteq Scripts[call'[p].name].opts
        /\ call'[p].pc \in 1..(Len(Scripts[call'[p].name].steps) + 1)
        /\ call'[p].rc \in {"running", "success", "failure"}
        /\ call'[p].rc = "running" => call'[p].pc <= Len(Scripts[call'[p].name].steps)
    BY StaysInScript
  <1>2. io'[p].want \in Nat
    BY DEF Transfer
  <1>3. InScript(p)' /\ (io[p].got <= io[p].want)'
    BY <1>1, <1>2 DEF InScript
  <1>4. Placed(p)'
    BY <1>1 DEF Placed, Running, Steps
  <1> QED
    BY <1>3, <1>4 DEF Fits

\* What each step of a process keeps.
StepFits(p) == Typed' /\ Apart(p) /\ Fits(p)'

LEMMA TypedParts ==
    ASSUME Base
    PROVE  /\ call \in [Procs -> Calling] /\ mem \in [Procs -> Pointers]
           /\ hash \in [Procs -> Hashing] /\ io \in [Procs -> Transfer]
           /\ file \in Files /\ size \in Sizes /\ size \in Nat
  BY BaseParts, SizesAssumption DEF Typed

LEMMA SkipMoves ==
    ASSUME Base, NEW p \in Procs, Skip(p)
    PROVE  /\ Arrives(p, call[p].pc + 1)
           /\ mem' \in [Procs -> Pointers]
           /\ mem'[p] = Freed(mem[p], IF Current(p).op = "write" THEN Current(p).done ELSE {})
           /\ \A q \in Procs \ {p} : mem'[q] = mem[q]
  <1>1. Running(p)
    BY DEF Skip
  <1>2. call[p].pc + 1 \in Nat
    BY <1>1, StepFacts
  <1>3. Arrives(p, call[p].pc + 1)
    BY <1>1, <1>2, GotoArrives DEF Skip
  <1> DEFINE r == Freed(mem[p], IF Current(p).op = "write" THEN Current(p).done ELSE {})
  <1>4. mem \in [Procs -> Pointers] /\ mem[p] \in Pointers
    BY TypedParts
  <1>5. r \in Pointers
    BY <1>4, FreedType
  <1>6. mem' = [mem EXCEPT ![p] = r]
    BY DEF Skip
  <1> HIDE DEF r
  <1>7. mem' \in [Procs -> Pointers] /\ mem'[p] = r /\ \A q \in Procs \ {p} : mem'[q] = mem[q]
    BY <1>4, <1>5, <1>6
  <1> QED
    BY <1>3, <1>7 DEF r

LEMMA SkipFits ==
    ASSUME Base, NEW p \in Procs, Skip(p)
    PROVE  StepFits(p)
  <1>1. Running(p) /\ UNCHANGED <<hash, io, file, size>>
    BY DEF Skip
  <1>2. /\ Arrives(p, call[p].pc + 1) /\ mem' \in [Procs -> Pointers]
        /\ \A q \in Procs \ {p} : mem'[q] = mem[q]
    BY SkipMoves
  <1>3. Keeps(p)
    BY <1>2 DEF Arrives
  <1>4. Typed' /\ Apart(p)
    BY <1>1, <1>2, <1>3, TypedParts, ApartBy DEF Typed, Keeps
  <1>5. ~At(p, {"read"}) /\ io[p].phase = "none"
    BY <1>1 DEF Skip, At, Base, Placed
  <1>6. io'[p] \in Transfer /\ io'[p].phase = "none" /\ io'[p].got = 0
    BY <1>1, <1>5, Quiet, TypedParts
  <1> QED
    BY <1>1, <1>2, <1>4, <1>6, Landed DEF StepFits

\* Calls that read or write no file.
LEMMA LocalQuiet ==
    ASSUME Base, NEW p \in Procs, At(p, LocalOps \cup {"public", "dispatch"})
    PROVE  /\ Running(p) /\ Given(p, Current(p))
           /\ io[p].phase = "none" /\ io[p].got = 0
           /\ Current(p).op \notin {"read", "write"}
  <1>1. Running(p) /\ Given(p, Current(p)) /\ Current(p).op \notin {"read", "write"}
    BY DEF At, LocalOps
  <1>2. ~At(p, {"read"}) /\ ~At(p, {"read", "write"})
    BY <1>1 DEF At
  <1> QED
    BY <1>1, <1>2, Quiet

LEMMA HashAfterType ==
    ASSUME Base, NEW p \in Procs, Running(p)
    PROVE  HashAfter(p, Current(p)) \in Hashing
  <1>1. hash[p] \in Hashing
    BY TypedParts
  <1>2. Current(p).of \in Seq(Handles)
    BY StepFacts DEF Step
  <1>3. hash[p].cp \o Current(p).of \in Seq(Handles) /\ <<>> \in Seq(Handles)
    BY <1>1, <1>2 DEF Hashing
  <1>4. \A s \in SysStates : /\ [hash[p] EXCEPT !.sys = s] \in Hashing
                            /\ [hash[p] EXCEPT !.cpOf = s] \in Hashing
                            /\ [hash[p] EXCEPT !.rpOf = s] \in Hashing
    BY <1>1 DEF Hashing
  <1>5. [hash[p] EXCEPT !.cp = @ \o Current(p).of] \in Hashing
    BY <1>1, <1>3 DEF Hashing
  <1>6. [hash[p] EXCEPT !.sys = "prepared", !.cp = <<>>] \in Hashing
    BY <1>1, <1>3 DEF Hashing, SysStates
  <1>7. hash[p].sys \in SysStates /\ "other" \in SysStates
    BY <1>1 DEF Hashing, SysStates
  <1> QED
    BY <1>1, <1>4, <1>5, <1>6, <1>7 DEF HashAfter

LEMMA AllocatedType ==
    ASSUME Base, NEW p \in Procs, Running(p)
    PROVE  /\ Allocated(p, Current(p)) \in Pointers
           /\ \A v \in MemStates : [mem[p] EXCEPT ![Current(p).buf] = v] \in Pointers
  <1>1. mem[p] \in Pointers
    BY TypedParts
  <1>2. \A v \in MemStates : [mem[p] EXCEPT ![Current(p).buf] = v] \in Pointers
    BY <1>1 DEF Pointers
  <1> QED
    BY <1>1, <1>2 DEF Allocated, MemStates

LEMMA SwallowedType ==
    ASSUME Base, NEW p \in Procs
    PROVE  LET r == SwallowedByPrompt(p, Current(p))
           IN  /\ r \in Transfer
               /\ r.phase = io[p].phase /\ r.got = io[p].got /\ r.cut = io[p].cut
               /\ io[p].excused \subseteq r.excused
               /\ r.made = io[p].made /\ r.wrote = io[p].wrote /\ r.robbed = io[p].robbed
  <1>1. io[p] \in Transfer /\ call[p] \in Calling
    BY TypedParts
  <1> DEFINE x == io[p].excused \cup (call[p].std \cap Upto(Inputs, 4))
  <1>2. x \in SUBSET Buffers
    BY <1>1 DEF Transfer, Calling
  <1>3. io[p].excused \subseteq x
    OBVIOUS
  <1>4. SwallowedByPrompt(p, Current(p)) \in {io[p], [io[p] EXCEPT !.pipe = 0, !.excused = x]}
    BY DEF SwallowedByPrompt
  <1> HIDE DEF x
  <1>5. LET r == [io[p] EXCEPT !.pipe = 0, !.excused = x]
        IN  /\ r \in Transfer
            /\ r.phase = io[p].phase /\ r.got = io[p].got /\ r.cut = io[p].cut
            /\ r.excused = x
            /\ r.made = io[p].made /\ r.wrote = io[p].wrote /\ r.robbed = io[p].robbed
    BY <1>1, <1>2 DEF Transfer
  <1> QED
    BY <1>1, <1>3, <1>4, <1>5

\* A variable is in its type, and only the entry of p may have changed.
OnlyMem(p) == mem' \in [Procs -> Pointers] /\ \A q \in Procs \ {p} : mem'[q] = mem[q]
OnlyHash(p) == hash' \in [Procs -> Hashing] /\ \A q \in Procs \ {p} : hash'[q] = hash[q]
OnlyIo(p) == io' \in [Procs -> Transfer] /\ \A q \in Procs \ {p} : io'[q] = io[q]

LEMMA UnchangedOnly ==
    ASSUME Base, NEW p \in Procs
    PROVE  /\ UNCHANGED mem => OnlyMem(p)
           /\ UNCHANGED hash => OnlyHash(p)
           /\ UNCHANGED io => OnlyIo(p)
           /\ UNCHANGED file => file' \in Files
           /\ UNCHANGED size => size' \in Sizes
  BY TypedParts DEF OnlyMem, OnlyHash, OnlyIo

LEMMA MovesFit ==
    ASSUME Base, NEW p \in Procs, Running(p), Passes(p) \/ Fails(p),
           OnlyMem(p), OnlyHash(p), OnlyIo(p), file' \in Files, size' \in Sizes,
           io'[p].phase = "none", io'[p].got = 0
    PROVE  StepFits(p)
  <1>1. Keeps(p)
    BY StaysInScript
  <1>2. Typed'
    BY <1>1 DEF Typed, Keeps, OnlyMem, OnlyHash, OnlyIo
  <1>3. Apart(p)
    BY <1>1, ApartBy DEF Keeps, OnlyMem, OnlyHash, OnlyIo
  <1>4. io'[p] \in Transfer
    BY DEF OnlyIo
  <1> QED
    BY <1>2, <1>3, <1>4, Landed DEF StepFits

\* The same for a failure that leaves the file.
LEMMA FailuresFit ==
    ASSUME Base, NEW p \in Procs, Running(p), NEW m \in Pointers, FailWith(p, m),
           OnlyHash(p), OnlyIo(p), file' \in Files, size' \in Sizes,
           io'[p].phase = "none", io'[p].got = 0
    PROVE  StepFits(p)
  <1>1. Fails(p) /\ OnlyMem(p)
    BY FailMoves DEF OnlyMem
  <1> QED
    BY <1>1, MovesFit

LEMMA PassesFit ==
    ASSUME Base, NEW p \in Procs, Running(p), NEW m \in Pointers, PassWith(p, m),
           OnlyHash(p), OnlyIo(p), file' \in Files, size' \in Sizes,
           io'[p].phase = "none", io'[p].got = 0
    PROVE  StepFits(p)
  <1>1. Passes(p) /\ OnlyMem(p)
    BY PassMoves DEF OnlyMem
  <1> QED
    BY <1>1, MovesFit

LEMMA LocalAt ==
    ASSUME NEW p, At(p, LocalOps \cup {"public"}) \/ At(p, {"dispatch"})
    PROVE  At(p, LocalOps \cup {"public", "dispatch"})
  BY DEF At

LEMMA PassFits ==
    ASSUME Base, NEW p \in Procs, Pass(p)
    PROVE  StepFits(p)
  <1>1. /\ Running(p) /\ io[p].phase = "none" /\ io[p].got = 0
    BY LocalAt, LocalQuiet DEF Pass
  <1>2. PassWith(p, Allocated(p, Current(p))) /\ UNCHANGED <<file, size>>
    BY DEF Pass
  <1>3. Allocated(p, Current(p)) \in Pointers
    BY <1>1, AllocatedType
  <1>4. OnlyHash(p)
    BY <1>1, HashSet, HashAfterType DEF Pass, OnlyHash
  <1> DEFINE r == SwallowedByPrompt(p, Current(p))
  <1>5. r \in Transfer /\ r.phase = "none" /\ r.got = 0
    BY <1>1, SwallowedType
  <1>6. io' = [io EXCEPT ![p] = r]
    BY DEF Pass
  <1> HIDE DEF r
  <1>7. OnlyIo(p) /\ io'[p] = r
    BY <1>5, <1>6, IoSet DEF OnlyIo
  <1> QED
    BY <1>1, <1>2, <1>3, <1>4, <1>5, <1>7, UnchangedOnly, PassesFit

LEMMA FailFits ==
    ASSUME Base, NEW p \in Procs, Fail(p)
    PROVE  StepFits(p)
  <1>1. /\ Running(p) /\ io[p].phase = "none" /\ io[p].got = 0
    BY LocalAt, LocalQuiet DEF Fail
  <1>2. PICK m \in Pointers : FailWith(p, m)
    BY <1>1, AllocatedType, TypedParts DEF Fail, MemStates
  <1>3. OnlyHash(p)
    BY HashFails DEF Fail, OnlyHash
  <1>4. OnlyIo(p) /\ io'[p] = io[p] /\ file' \in Files /\ size' \in Sizes
    BY UnchangedOnly DEF Fail
  <1> QED
    BY <1>1, <1>2, <1>3, <1>4, FailuresFit

LEMMA HashSends ==
    ASSUME Base, NEW p \in Procs
    PROVE  /\ hash' = [hash EXCEPT ![p].sent = TRUE, ![p].sys = "response"] =>
                 /\ OnlyHash(p)
                 /\ hash'[p] = [hash[p] EXCEPT !.sent = TRUE, !.sys = "response"]
           /\ hash' = [hash EXCEPT ![p].sys = "other", ![p].failed = TRUE] =>
                 /\ OnlyHash(p)
                 /\ hash'[p] = [hash[p] EXCEPT !.sys = "other", !.failed = TRUE]
  <1>1. hash \in [Procs -> Hashing] /\ hash[p] \in Hashing
    BY TypedParts
  <1> DEFINE r == [hash[p] EXCEPT !.sent = TRUE, !.sys = "response"]
             u == [hash[p] EXCEPT !.sys = "other", !.failed = TRUE]
  <1>2. r \in Hashing /\ u \in Hashing
    BY <1>1 DEF Hashing, SysStates
  <1>3. ASSUME hash' = [hash EXCEPT ![p].sent = TRUE, ![p].sys = "response"]
        PROVE  hash' = [hash EXCEPT ![p] = r]
    BY <1>1, <1>3
  <1>4. ASSUME hash' = [hash EXCEPT ![p].sys = "other", ![p].failed = TRUE]
        PROVE  hash' = [hash EXCEPT ![p] = u]
    BY <1>1, <1>4
  <1> HIDE DEF r, u
  <1>5. \A x \in Hashing : hash' = [hash EXCEPT ![p] = x] => OnlyHash(p) /\ hash'[p] = x
    BY HashSet DEF OnlyHash
  <1> QED
    BY <1>2, <1>3, <1>4, <1>5 DEF r, u

LEMMA DispatchFits ==
    ASSUME Base, NEW p \in Procs, Dispatch(p)
    PROVE  StepFits(p)
  <1>1. /\ Running(p) /\ io[p].phase = "none" /\ io[p].got = 0
    BY LocalAt, LocalQuiet DEF Dispatch
  <1>2. PICK absent : PassWith(p, [b \in Buffers |->
            IF b \in absent THEN "null"
            ELSE IF b \in Current(p).sets THEN "held" ELSE mem[p][b]])
    BY DEF Dispatch
  <1>3. [b \in Buffers |->
            IF b \in absent THEN "null"
            ELSE IF b \in Current(p).sets THEN "held" ELSE mem[p][b]] \in Pointers
    BY TypedParts DEF Pointers, MemStates
  <1>4. OnlyHash(p)
    BY HashSends DEF Dispatch
  <1>5. OnlyIo(p) /\ io'[p] = io[p] /\ file' \in Files /\ size' \in Sizes
    BY UnchangedOnly DEF Dispatch
  <1> QED
    BY <1>1, <1>2, <1>3, <1>4, <1>5, PassesFit

LEMMA DispatchFailsFits ==
    ASSUME Base, NEW p \in Procs, DispatchFails(p) \/ DispatchTooEarly(p)
    PROVE  StepFits(p)
  <1>1. /\ Running(p) /\ io[p].phase = "none" /\ io[p].got = 0
    BY LocalAt, LocalQuiet DEF DispatchFails, DispatchTooEarly
  <1>2. mem[p] \in Pointers
    BY TypedParts
  <1>3. OnlyHash(p)
    BY HashSends DEF DispatchFails, DispatchTooEarly
  <1>4. OnlyIo(p) /\ io'[p] = io[p] /\ file' \in Files /\ size' \in Sizes
    BY UnchangedOnly DEF DispatchFails, DispatchTooEarly
  <1>5. FailWith(p, mem[p]) \/ PassWith(p, mem[p])
    BY DEF DispatchFails, DispatchTooEarly
  <1> QED
    BY <1>1, <1>2, <1>3, <1>4, <1>5, FailuresFit, PassesFit

\* Starting: what is chosen, and where the process stands then.
LEMMA StartMoves ==
    ASSUME Base, NEW p \in Procs, Start(p)
    PROVE  /\ call' \in [Procs -> Calling] /\ \A q \in Procs \ {p} : call'[q] = call[q]
           /\ call[p].rc = "none" /\ call'[p].rc = "running" /\ call'[p].pc = 1
           /\ call'[p].name \in Menu
           /\ call'[p].asked \subseteq Scripts[call'[p].name].opts
           /\ OnlyMem(p)
           /\ mem'[p] = [b \in Buffers |->
                 IF b \in Scripts[call'[p].name].wild THEN "wild" ELSE "null"]
           /\ OnlyIo(p) /\ \E n \in Nat : io'[p] = [NoIo EXCEPT !.pipe = n]
           /\ hash[p] = NoHash /\ UNCHANGED <<hash, file, size>>
  <1>1. PICK name \in Menu :
            /\ \E asked \in SUBSET Scripts[name].opts, std \in Streams(Scripts[name].steps) :
                  /\ call' = [call EXCEPT ![p] =
                        [name |-> name, asked |-> asked, std |-> std, pc |-> 1,
                         rc |-> "running"]]
                  /\ \E n \in (IF std \cap Upto(Inputs, 4) = {} THEN {0} ELSE Sizes) :
                        io' = [io EXCEPT ![p].pipe = n]
            /\ mem' = [mem EXCEPT ![p] =
                  [b \in Buffers |-> IF b \in Scripts[name].wild THEN "wild" ELSE "null"]]
    BY Zenon DEF Start
  <1>2. PICK asked \in SUBSET Scripts[name].opts, std \in Streams(Scripts[name].steps) :
            /\ call' = [call EXCEPT ![p] =
                  [name |-> name, asked |-> asked, std |-> std, pc |-> 1,
                   rc |-> "running"]]
            /\ \E n \in (IF std \cap Upto(Inputs, 4) = {} THEN {0} ELSE Sizes) :
                  io' = [io EXCEPT ![p].pipe = n]
    BY <1>1
  <1>3. PICK n \in Nat : io' = [io EXCEPT ![p].pipe = n]
    BY <1>2, SizesAssumption
  <1>4. call[p].rc = "none" /\ UNCHANGED <<hash, file, size>>
    BY DEF Start
  <1>5. io[p] = NoIo /\ hash[p] = NoHash
    BY <1>4 DEF Base, Placed
  <1>6. WellFormed(Scripts[name])
    BY ScriptsAssumption
  <1>7. asked \in SUBSET Options
    BY <1>6 DEF WellFormed
  <1>8. std \in SUBSET Buffers
    <2> DEFINE st == Scripts[name].steps
    <2>1. \A i \in 1..Len(st) : st[i].op \in {"read", "write"} => st[i].buf \in Buffers
      <3>1. \A x \in {Outputs[k] : k \in 1..4} : x \in Buffers
        BY DEF Buffers
      <3> QED
        BY <3>1, <1>6 DEF WellFormed
    <2>2. std \subseteq {st[i].buf : i \in {i \in 1..Len(st) : st[i].op \in {"read", "write"}}}
      BY DEF Streams
    <2> HIDE DEF st
    <2> QED
      BY <2>1, <2>2
  <1> DEFINE c == [name |-> name, asked |-> asked, std |-> std, pc |-> 1, rc |-> "running"]
             m == [b \in Buffers |-> IF b \in Scripts[name].wild THEN "wild" ELSE "null"]
             r == [NoIo EXCEPT !.pipe = n]
  <1>9. c \in Calling
    BY <1>7, <1>8 DEF Calling, Results
  <1>10. m \in Pointers
    BY DEF Pointers, MemStates
  <1>11. r \in Transfer
    BY DEF NoIo, Transfer, Phases
  <1>12. io' = [io EXCEPT ![p] = r]
    BY <1>3, <1>5, TypedParts
  <1>13. call' = [call EXCEPT ![p] = c] /\ mem' = [mem EXCEPT ![p] = m]
    BY <1>1, <1>2
  <1>14. c.name = name /\ c.asked = asked /\ c.pc = 1 /\ c.rc = "running"
    OBVIOUS
  <1>15. m = [b \in Buffers |-> IF b \in Scripts[name].wild THEN "wild" ELSE "null"]
    OBVIOUS
  <1>16. \E k \in Nat : r = [NoIo EXCEPT !.pipe = k]
    OBVIOUS
  <1> HIDE DEF c, m, r
  <1>17. /\ call' \in [Procs -> Calling] /\ call'[p] = c
         /\ \A q \in Procs \ {p} : call'[q] = call[q]
    BY <1>9, <1>13, TypedParts
  <1>18. OnlyMem(p) /\ mem'[p] = m
    BY <1>10, <1>13, TypedParts DEF OnlyMem
  <1>19. OnlyIo(p) /\ io'[p] = r
    BY <1>11, <1>12, IoSet DEF OnlyIo
  <1> QED
    BY <1>4, <1>5, <1>14, <1>15, <1>16, <1>17, <1>18, <1>19

LEMMA StartFits ==
    ASSUME Base, NEW p \in Procs, Start(p)
    PROVE  StepFits(p)
  <1>1. Typed' /\ Apart(p)
    BY StartMoves, UnchangedOnly, ApartBy DEF Typed, OnlyMem, OnlyIo, OnlyHash
  <1>2. io'[p].phase = "none" /\ io'[p].got = 0 /\ io'[p].want = 0
    BY StartMoves DEF NoIo
  <1>3. /\ call'[p].rc = "running" /\ call'[p].pc = 1 /\ call'[p].name \in Menu
        /\ call'[p].asked \subseteq Scripts[call'[p].name].opts
    BY StartMoves
  <1>4. Len(Scripts[call'[p].name].steps) \in Nat \ {0}
    <2>1. WellFormed(Scripts[call'[p].name])
      BY <1>3, ScriptsAssumption
    <2>2. \A s \in Seq(Step) : s # <<>> => Len(s) \in Nat \ {0}
      OBVIOUS
    <2> QED
      BY <2>1, <2>2 DEF WellFormed
  <1>5. InScript(p)' /\ (io[p].got <= io[p].want)'
    BY <1>2, <1>3, <1>4 DEF InScript
  <1>6. Placed(p)'
    BY <1>2, <1>3, <1>4 DEF Placed, Running, Steps
  <1> QED
    BY <1>1, <1>5, <1>6 DEF StepFits, Fits

LEMMA KillMoves ==
    ASSUME Base, NEW p \in Procs, Kill(p)
    PROVE  /\ call' \in [Procs -> Calling] /\ \A q \in Procs \ {p} : call'[q] = call[q]
           /\ call'[p].rc = "killed"
           /\ OnlyMem(p) /\ mem'[p] = [b \in Buffers |-> "null"]
           /\ OnlyHash(p) /\ hash'[p] = NoHash
           /\ OnlyIo(p) /\ io'[p] = NoIo
           /\ UNCHANGED <<file, size>>
  <1>1. [Idle EXCEPT !.rc = "killed"] \in Calling /\ [Idle EXCEPT !.rc = "killed"].rc = "killed"
    BY DEF Idle, Calling, Results
  <1>2. [b \in Buffers |-> "null"] \in Pointers
    BY DEF Pointers, MemStates
  <1>3. NoHash \in Hashing
    <2>1. "none" \in Handles
      BY DEF Handles
    <2>2. <<"none">> \in Seq(Handles)
      BY <2>1
    <2> QED
      BY <2>2 DEF NoHash, Hashing, SysStates
  <1>4. NoIo \in Transfer
    BY DEF NoIo, Transfer, Phases
  <1>5. /\ call' = [call EXCEPT ![p] = [Idle EXCEPT !.rc = "killed"]]
        /\ mem' = [mem EXCEPT ![p] = [b \in Buffers |-> "null"]]
        /\ hash' = [hash EXCEPT ![p] = NoHash] /\ io' = [io EXCEPT ![p] = NoIo]
        /\ UNCHANGED <<file, size>>
    BY DEF Kill
  <1>6. OnlyHash(p) /\ hash'[p] = NoHash
    BY <1>3, <1>5, HashSet DEF OnlyHash
  <1>7. OnlyIo(p) /\ io'[p] = NoIo
    BY <1>4, <1>5, IoSet DEF OnlyIo
  <1>8. OnlyMem(p) /\ mem'[p] = [b \in Buffers |-> "null"]
    BY <1>2, <1>5, TypedParts, Updated DEF OnlyMem
  <1>9. /\ call' \in [Procs -> Calling] /\ \A q \in Procs \ {p} : call'[q] = call[q]
        /\ call'[p].rc = "killed"
    BY <1>1, <1>5, TypedParts, Updated
  <1> QED
    BY <1>5, <1>6, <1>7, <1>8, <1>9

LEMMA KillFits ==
    ASSUME Base, NEW p \in Procs, Kill(p)
    PROVE  StepFits(p)
  <1>1. Typed' /\ Apart(p)
    BY KillMoves, UnchangedOnly, ApartBy DEF Typed, OnlyMem, OnlyIo, OnlyHash
  <1>2. /\ io'[p].phase = "none" /\ io'[p].got = 0 /\ io'[p].want = 0
        /\ call'[p].rc = "killed"
    BY KillMoves DEF NoIo
  <1> QED
    BY <1>1, <1>2 DEF StepFits, Fits, InScript, Placed, Running

\* A step inside a file or a stream leaves control where it is.
LEMMA StayFits ==
    ASSUME Base, NEW p \in Procs, Running(p), Typed', Apart(p), UNCHANGED call,
           io'[p].got <= io'[p].want,
           At(p, {"read", "write"}),
           io'[p].phase # "none" =>
               /\ ~OnStream(p) /\ mem'[p][Current(p).buf] # "null"
               /\ At(p, {"read"}) => mem'[p][Current(p).buf] = "held",
           io'[p].got # 0 => At(p, {"read"}),
           io'[p].phase = "none" /\ io'[p].got # 0 => OnStream(p)
    PROVE  StepFits(p)
  <1>1. Steps(p)' = Steps(p) /\ Current(p)' = Current(p) /\ Running(p)' /\ OnStream(p)' = OnStream(p)
    BY DEF Steps, Current, Running, OnStream
  <1>2. /\ At(p, {"read", "write"})' = At(p, {"read", "write"})
        /\ At(p, {"read"})' = At(p, {"read"})
    BY <1>1 DEF At, Given, Running
  <1>3. InScript(p) /\ call[p].pc <= Len(Steps(p)) /\ call[p].rc = "running"
    BY Parts DEF Base, Placed, Running
  <1>4. InScript(p)'
    BY <1>3 DEF InScript
  <1>5. Placed(p)'
    BY <1>1, <1>2, <1>3 DEF Placed
  <1> QED
    BY <1>4, <1>5 DEF StepFits, Fits

\* What a process knows of its transfer after open and fstat, and after the read: a
\* size that is not that of the file, and a short read, are noted.
OpenedAs(p, n, x) ==
    /\ io'[p] = [io[p] EXCEPT !.phase = "open", !.want = n, !.excused = x]
    /\ io[p].excused \subseteq x /\ (n = size \/ Current(p).buf \in x)
ReadAs(p, n, x) ==
    /\ io'[p] = [io[p] EXCEPT !.phase = "got", !.got = n, !.excused = x]
    /\ n <= io[p].want /\ io[p].excused \subseteq x
    /\ n = ReadCount(p) \/ Current(p).buf \in x
Opened(p) == \E n \in Nat, x \in SUBSET Buffers : OpenedAs(p, n, x)
ReadIn(p) == \E n \in Nat, x \in SUBSET Buffers : ReadAs(p, n, x)

LEMMA OpenInputMoves ==
    ASSUME Base, NEW p \in Procs, OpenInput(p)
    PROVE  /\ Running(p) /\ At(p, {"read"}) /\ ~OnStream(p) /\ io[p].phase = "none"
           /\ io[p].got = 0 /\ Current(p).buf \in Buffers
           /\ OnlyIo(p) /\ Opened(p)
           /\ OnlyMem(p) /\ mem'[p] = [mem[p] EXCEPT ![Current(p).buf] = "held"]
           /\ UNCHANGED <<call, hash, file, size>>
  <1>1. /\ Running(p) /\ At(p, {"read"}) /\ ~OnStream(p) /\ io[p].phase = "none"
        /\ Current(p).op = "read" /\ UNCHANGED <<call, hash, file, size>>
    BY DEF OpenInput, At
  <1>2. io[p].got = 0 /\ Current(p).buf \in Buffers
    BY <1>1, Quiet, StepFacts
  <1> DEFINE b == Current(p).buf
             X(n) == IF n # size THEN io[p].excused \cup {b} ELSE io[p].excused
             m == [mem[p] EXCEPT ![b] = "held"]
  <1>3. io[p] \in Transfer /\ size \in Nat
    BY TypedParts
  <1>4. PICK n \in Sizes : io' = [io EXCEPT ![p] =
                               [io[p] EXCEPT !.phase = "open", !.want = n, !.excused = X(n)]]
    <2>1. \E n \in Sizes : io' = [io EXCEPT ![p].phase = "open", ![p].want = n,
                    ![p].excused = IF n # size THEN @ \cup {b} ELSE @]
      BY DEF OpenInput
    <2> QED
      BY <2>1, TypedParts
  <1> DEFINE x == X(n)
             r == [io[p] EXCEPT !.phase = "open", !.want = n, !.excused = x]
  <1>5. n \in Nat
    BY SizesAssumption
  <1>6. x \in SUBSET Buffers /\ io[p].excused \subseteq x /\ (n = size \/ b \in x)
    BY <1>2, <1>3 DEF Transfer
  <1>7. m \in Pointers
    BY <1>1, AllocatedType DEF MemStates
  <1>8. io' = [io EXCEPT ![p] = r] /\ mem' = [mem EXCEPT ![p] = m]
    BY <1>4 DEF OpenInput
  <1>9. r = [io[p] EXCEPT !.phase = "open", !.want = n, !.excused = x]
        /\ m = [mem[p] EXCEPT ![Current(p).buf] = "held"]
    OBVIOUS
  <1> HIDE DEF x, m
  <1>10. r \in Transfer
    BY <1>3, <1>5, <1>6, Zenon DEF Transfer, Phases
  <1> HIDE DEF r
  <1>11. OnlyIo(p) /\ io'[p] = r
    BY <1>8, <1>10, IoSet DEF OnlyIo
  <1>12. OnlyMem(p) /\ mem'[p] = m
    BY <1>7, <1>8, TypedParts, Updated DEF OnlyMem
  <1>13. OpenedAs(p, n, x)
    BY <1>6, <1>9, <1>11 DEF OpenedAs
  <1>14. Opened(p)
    BY <1>5, <1>6, <1>13 DEF Opened
  <1> QED
    BY <1>1, <1>2, <1>9, <1>11, <1>12, <1>14

LEMMA OpenInputFits ==
    ASSUME Base, NEW p \in Procs, OpenInput(p)
    PROVE  StepFits(p)
  <1>1. /\ Running(p) /\ At(p, {"read"}) /\ ~OnStream(p) /\ io[p].phase = "none"
        /\ io[p].got = 0 /\ Current(p).buf \in Buffers
        /\ OnlyIo(p) /\ Opened(p)
        /\ OnlyMem(p) /\ mem'[p] = [mem[p] EXCEPT ![Current(p).buf] = "held"]
        /\ UNCHANGED <<call, hash, file, size>>
    BY OpenInputMoves
  <1>2. Typed' /\ Apart(p)
    BY <1>1, TypedParts, ApartBy DEF Typed, OnlyMem, OnlyIo
  <1>3. PICK n \in Nat, x \in SUBSET Buffers :
           io'[p] = [io[p] EXCEPT !.phase = "open", !.want = n, !.excused = x]
    BY <1>1 DEF Opened, OpenedAs
  <1>4. io'[p].phase = "open" /\ io'[p].want = n /\ io'[p].got = 0
    BY <1>1, <1>3, TypedParts DEF Transfer
  <1>5. mem'[p][Current(p).buf] = "held"
    BY <1>1, TypedParts DEF Pointers
  <1>6. At(p, {"read", "write"})
    BY <1>1 DEF At
  <1>7. io'[p].got <= io'[p].want
    BY <1>4
  <1> QED
    BY <1>1, <1>2, <1>4, <1>5, <1>6, <1>7, StayFits

LEMMA ReadInputMoves ==
    ASSUME Base, NEW p \in Procs, ReadInput(p)
    PROVE  /\ Running(p) /\ At(p, {"read"}) /\ ~OnStream(p) /\ io[p].phase = "open"
           /\ OnlyIo(p) /\ ReadIn(p)
           /\ UNCHANGED <<call, mem, hash, file, size>>
  <1>1. /\ Running(p) /\ At(p, {"read"}) /\ ~OnStream(p) /\ io[p].phase = "open"
        /\ Current(p).op = "read" /\ UNCHANGED <<call, mem, hash, file, size>>
    BY DEF ReadInput, At
  <1>2. io[p] \in Transfer /\ size \in Nat /\ Current(p).buf \in Buffers
    BY <1>1, TypedParts, StepFacts
  <1>3. io[p].want \in Nat
    BY <1>2 DEF Transfer
  <1>4. ReadCount(p) \in Nat /\ ReadCount(p) <= io[p].want
    BY <1>2, <1>3 DEF ReadCount
  <1> DEFINE b == Current(p).buf
             X(n) == IF n < ReadCount(p) THEN io[p].excused \cup {b} ELSE io[p].excused
  <1> HIDE DEF ReadCount
  <1>5. PICK n \in (IF ReadCount(p) = 0 THEN {0} ELSE 1..ReadCount(p)) :
           io' = [io EXCEPT ![p] =
                    [io[p] EXCEPT !.phase = "got", !.got = n, !.excused = X(n)]]
    <2>1. \E n \in (IF ReadCount(p) = 0 THEN {0} ELSE 1..ReadCount(p)) :
          io' = [io EXCEPT ![p].phase = "got", ![p].got = n,
                    ![p].excused = IF n < ReadCount(p) THEN @ \cup {b} ELSE @]
      BY DEF ReadInput
    <2> QED
      BY <2>1, TypedParts
  <1> DEFINE x == X(n)
             r == [io[p] EXCEPT !.phase = "got", !.got = n, !.excused = x]
  <1>6. n \in Nat /\ n <= ReadCount(p)
    BY <1>4
  <1>7. x \in SUBSET Buffers /\ io[p].excused \subseteq x /\ (n = ReadCount(p) \/ b \in x)
    BY <1>2, <1>4, <1>6 DEF Transfer
  <1>8. io' = [io EXCEPT ![p] = r]
        /\ r = [io[p] EXCEPT !.phase = "got", !.got = n, !.excused = x]
    BY <1>5
  <1> HIDE DEF x
  <1>9. r \in Transfer
    BY <1>2, <1>6, <1>7, Zenon DEF Transfer, Phases
  <1> HIDE DEF r
  <1>10. OnlyIo(p) /\ io'[p] = r
    BY <1>8, <1>9, IoSet DEF OnlyIo
  <1>11. n <= io[p].want
    BY <1>3, <1>4, <1>6
  <1>12. ReadAs(p, n, x)
    BY <1>7, <1>8, <1>10, <1>11 DEF ReadAs
  <1>13. ReadIn(p)
    BY <1>6, <1>7, <1>12 DEF ReadIn
  <1> QED
    BY <1>1, <1>10, <1>13

LEMMA ReadInputFits ==
    ASSUME Base, NEW p \in Procs, ReadInput(p)
    PROVE  StepFits(p)
  <1>1. /\ Running(p) /\ At(p, {"read"}) /\ ~OnStream(p) /\ io[p].phase = "open"
        /\ OnlyIo(p) /\ ReadIn(p)
        /\ UNCHANGED <<call, mem, hash, file, size>>
    BY ReadInputMoves
  <1>2. Typed' /\ Apart(p)
    BY <1>1, TypedParts, ApartBy DEF Typed, OnlyIo
  <1>3. PICK n \in Nat, x \in SUBSET Buffers :
           /\ io'[p] = [io[p] EXCEPT !.phase = "got", !.got = n, !.excused = x]
           /\ n <= io[p].want
    BY <1>1 DEF ReadIn, ReadAs
  <1>4. io'[p].phase = "got" /\ io'[p].want = io[p].want /\ io'[p].got = n
    BY <1>3, TypedParts DEF Transfer
  <1>5. mem'[p][Current(p).buf] = "held"
    BY <1>1 DEF Base, Placed
  <1>6. At(p, {"read", "write"})
    BY <1>1 DEF At
  <1> QED
    BY <1>1, <1>2, <1>3, <1>4, <1>5, <1>6, StayFits

\* What Took leaves of a transfer.
LEMMA TookType ==
    ASSUME Base, NEW p \in Procs, NEW b \in Buffers
    PROVE  LET r == Took(p, b)
           IN  /\ r \in Transfer /\ r.phase = "none" /\ r.got = 0
               /\ r.cut = IF io[p].got = io[p].want /\ io[p].want = size THEN io[p].cut
                          ELSE io[p].cut \cup {b}
               /\ r.excused = io[p].excused
               /\ r.made = io[p].made /\ r.wrote = io[p].wrote /\ r.robbed = io[p].robbed
  <1>1. io[p] \in Transfer
    BY TypedParts
  <1> DEFINE c == IF io[p].got = io[p].want /\ io[p].want = size THEN io[p].cut
                       ELSE io[p].cut \cup {b}
  <1>2. c \in SUBSET Buffers
    BY <1>1 DEF Transfer
  <1>3. Took(p, b) = [io[p] EXCEPT !.phase = "none", !.want = 0, !.got = 0, !.cut = c]
    BY DEF Took
  <1>4. c = IF io[p].got = io[p].want /\ io[p].want = size THEN io[p].cut
                       ELSE io[p].cut \cup {b}
    OBVIOUS
  <1> HIDE DEF c
  <1>5. LET r == [io[p] EXCEPT !.phase = "none", !.want = 0, !.got = 0, !.cut = c]
        IN  /\ r \in Transfer /\ r.phase = "none" /\ r.got = 0 /\ r.cut = c
            /\ r.excused = io[p].excused
            /\ r.made = io[p].made /\ r.wrote = io[p].wrote /\ r.robbed = io[p].robbed
    BY <1>1, <1>2 DEF Transfer, Phases
  <1> QED
    BY <1>3, <1>4, <1>5

LEMMA CloseInputMoves ==
    ASSUME Base, NEW p \in Procs, CloseInput(p)
    PROVE  /\ Running(p) /\ At(p, {"read"}) /\ ~OnStream(p) /\ io[p].phase = "got"
           /\ Current(p).buf \in Buffers /\ mem[p][Current(p).buf] = "held"
           /\ PassWith(p, mem[p])
           /\ OnlyIo(p) /\ io'[p] = Took(p, Current(p).buf)
           /\ UNCHANGED <<hash, file, size>>
  <1>1. /\ Running(p) /\ At(p, {"read"}) /\ ~OnStream(p) /\ io[p].phase = "got"
        /\ Current(p).op = "read" /\ UNCHANGED <<hash, file, size>>
        /\ PassWith(p, mem[p]) /\ io' = [io EXCEPT ![p] = Took(p, Current(p).buf)]
    BY DEF CloseInput, At
  <1>2. Current(p).buf \in Buffers
    BY <1>1, StepFacts
  <1>3. mem[p][Current(p).buf] = "held"
    BY <1>1 DEF Base, Placed
  <1>4. Took(p, Current(p).buf) \in Transfer
    BY <1>2, TookType
  <1>5. OnlyIo(p) /\ io'[p] = Took(p, Current(p).buf)
    BY <1>1, <1>4, IoSet DEF OnlyIo
  <1> QED
    BY <1>1, <1>2, <1>3, <1>5

LEMMA CloseInputFits ==
    ASSUME Base, NEW p \in Procs, CloseInput(p)
    PROVE  StepFits(p)
  <1>1. /\ Running(p) /\ Current(p).buf \in Buffers /\ PassWith(p, mem[p])
        /\ OnlyIo(p) /\ io'[p] = Took(p, Current(p).buf)
        /\ UNCHANGED <<hash, file, size>>
    BY CloseInputMoves
  <1> DEFINE r == Took(p, Current(p).buf)
  <1>2a. r.phase = "none" /\ r.got = 0
    BY <1>1, TookType
  <1> HIDE DEF r
  <1>2. io'[p].phase = "none" /\ io'[p].got = 0
    BY <1>1, <1>2a DEF r
  <1>3. mem[p] \in Pointers
    BY TypedParts
  <1> QED
    BY <1>1, <1>2, <1>3, UnchangedOnly, PassesFit

LEMMA InputFailsMoves ==
    ASSUME Base, NEW p \in Procs, InputFails(p)
    PROVE  /\ Running(p) /\ At(p, {"read"}) /\ ~OnStream(p)
           /\ \E m \in Pointers :
                 /\ FailWith(p, m)
                 /\ m = mem[p] \/ (m = Freed(mem[p], {Current(p).buf})
                                      /\ mem[p][Current(p).buf] = "held")
           /\ OnlyIo(p)
           /\ io'[p] = [io[p] EXCEPT !.phase = "none", !.want = 0, !.got = 0]
           /\ hash' = [hash EXCEPT ![p].failed = TRUE]
           /\ UNCHANGED <<file, size>>
  <1>1. /\ Running(p) /\ At(p, {"read"}) /\ ~OnStream(p) /\ UNCHANGED <<file, size>>
        /\ hash' = [hash EXCEPT ![p].failed = TRUE]
    BY DEF InputFails, At
  <1>2. mem[p] \in Pointers /\ Freed(mem[p], {Current(p).buf}) \in Pointers
    BY TypedParts, FreedType
  <1>3. io[p].phase # "none" => mem[p][Current(p).buf] = "held"
    BY <1>1 DEF Base, Placed
  <1>4. \E m \in Pointers :
            /\ FailWith(p, m)
            /\ m = mem[p] \/ (m = Freed(mem[p], {Current(p).buf})
                                 /\ mem[p][Current(p).buf] = "held")
    BY <1>2, <1>3 DEF InputFails
  <1> DEFINE r == [io[p] EXCEPT !.phase = "none", !.want = 0, !.got = 0]
  <1>5. r \in Transfer
    BY TypedParts DEF Transfer, Phases
  <1>6. io' = [io EXCEPT ![p] = r]
    BY TypedParts DEF InputFails
  <1>7. r = [io[p] EXCEPT !.phase = "none", !.want = 0, !.got = 0]
    OBVIOUS
  <1> HIDE DEF r
  <1>8. OnlyIo(p) /\ io'[p] = r
    BY <1>5, <1>6, IoSet DEF OnlyIo
  <1> QED
    BY <1>1, <1>4, <1>7, <1>8

LEMMA InputFailsFits ==
    ASSUME Base, NEW p \in Procs, InputFails(p)
    PROVE  StepFits(p)
  <1>1. PICK m \in Pointers : FailWith(p, m)
    BY InputFailsMoves
  <1>2. /\ Running(p) /\ OnlyIo(p)
        /\ io'[p] = [io[p] EXCEPT !.phase = "none", !.want = 0, !.got = 0]
        /\ hash' = [hash EXCEPT ![p].failed = TRUE] /\ UNCHANGED <<file, size>>
    BY InputFailsMoves
  <1>3. io'[p].phase = "none" /\ io'[p].got = 0
    BY <1>2, TypedParts DEF Transfer
  <1>4. OnlyHash(p)
    BY <1>2, HashFails DEF OnlyHash
  <1> QED
    BY <1>1, <1>2, <1>3, <1>4, UnchangedOnly, FailuresFit

LEMMA ReadStreamMoves ==
    ASSUME Base, NEW p \in Procs, ReadStream(p)
    PROVE  /\ Running(p) /\ At(p, {"read"}) /\ OnStream(p) /\ io[p].phase = "none"
           /\ Current(p).buf \in Buffers
           /\ OnlyIo(p) /\ io'[p].phase = "none" /\ io'[p].got <= io'[p].want
           /\ io[p].excused \subseteq io'[p].excused
           /\ io'[p].cut \subseteq io[p].cut \cup io'[p].excused
           /\ io'[p].made = io[p].made /\ io'[p].wrote = io[p].wrote
           /\ io'[p].robbed = io[p].robbed
           /\ [mem[p] EXCEPT ![Current(p).buf] = "held"] \in Pointers
           /\ \/ /\ mem' = [mem EXCEPT ![p][Current(p).buf] = "held"]
                 /\ UNCHANGED call
              \/ /\ io'[p].got = 0
                 /\ PassWith(p, [mem[p] EXCEPT ![Current(p).buf] = "held"])
           /\ UNCHANGED <<hash, file, size>>
  <1>1. /\ Running(p) /\ At(p, {"read"}) /\ OnStream(p)
        /\ Current(p).op = "read" /\ UNCHANGED <<hash, file, size>>
    BY DEF ReadStream, At
  <1>2. io[p].phase = "none" /\ Current(p).buf \in Buffers
    BY <1>1, Quiet, StepFacts
  <1>3. [mem[p] EXCEPT ![Current(p).buf] = "held"] \in Pointers
    BY <1>1, AllocatedType DEF MemStates
  <1> DEFINE b == Current(p).buf
             left == io[p].pipe
             most == IF left < Block THEN left ELSE Block
  <1>4. io[p] \in Transfer /\ left \in Nat /\ io[p].got \in Nat /\ Block \in Nat \ {0}
    BY TypedParts, BlockAssumption DEF Transfer
  <1>5. PICK n \in (IF left = 0 THEN {0} ELSE 1..most) :
            LET now == [io[p] EXCEPT !.pipe = left - n, !.got = @ + n,
                                     !.want = io[p].got + left,
                                     !.excused = IF n < most THEN @ \cup {b} ELSE @]
            IN  IF ReadOn(n)
                THEN /\ io' = [io EXCEPT ![p] = now]
                     /\ mem' = [mem EXCEPT ![p][b] = "held"]
                     /\ UNCHANGED call
                ELSE /\ io' = [io EXCEPT ![p] =
                          [now EXCEPT !.phase = "none", !.want = 0, !.got = 0,
                              !.cut = IF now.got < now.want THEN @ \cup {b} ELSE @]]
                     /\ PassWith(p, [mem[p] EXCEPT ![b] = "held"])
    BY Zenon DEF ReadStream
  <1>6. n \in Nat /\ n <= left /\ (n < left /\ n # Block => n < most)
    BY <1>4
  <1> DEFINE rest == left - n
             sum == io[p].got + n
             all == io[p].got + left
             x == IF n < most THEN io[p].excused \cup {b} ELSE io[p].excused
             now == [io[p] EXCEPT !.pipe = rest, !.got = sum, !.want = all, !.excused = x]
             c == IF sum < all THEN io[p].cut \cup {b} ELSE io[p].cut
             end == [now EXCEPT !.phase = "none", !.want = 0, !.got = 0, !.cut = c]
  <1>7. /\ rest \in Nat /\ sum \in Nat /\ all \in Nat /\ sum <= all
        /\ x \in SUBSET Buffers /\ c \in SUBSET Buffers
        /\ io[p].excused \subseteq x
    BY <1>2, <1>4, <1>6 DEF Transfer
  <1>8. n # Block => c \subseteq io[p].cut \cup x
    BY <1>4, <1>6
  <1>9. IF n = Block
        THEN /\ io' = [io EXCEPT ![p] = now]
             /\ mem' = [mem EXCEPT ![p][b] = "held"]
             /\ UNCHANGED call
        ELSE /\ io' = [io EXCEPT ![p] = end]
             /\ PassWith(p, [mem[p] EXCEPT ![b] = "held"])
    <2>1. now.got = sum /\ now.want = all /\ now.cut = io[p].cut
      BY <1>4 DEF Transfer
    <2> QED
      BY <1>5, <2>1 DEF ReadOn
  <1> HIDE DEF rest, sum, all, x, c
  <1>10. /\ now \in Transfer /\ now.phase = "none" /\ now.got = sum /\ now.want = all
         /\ now.cut = io[p].cut /\ now.excused = x /\ now.made = io[p].made
         /\ now.wrote = io[p].wrote /\ now.robbed = io[p].robbed
    BY <1>2, <1>4, <1>7 DEF Transfer
  <1>11. /\ end \in Transfer /\ end.phase = "none" /\ end.got = 0 /\ end.want = 0
         /\ end.cut = c /\ end.excused = x /\ end.made = io[p].made
         /\ end.wrote = io[p].wrote /\ end.robbed = io[p].robbed
    BY <1>2, <1>4, <1>7 DEF Transfer, Phases
  <1> HIDE DEF now, end, b
  <1>12. CASE n = Block
    <2>1. OnlyIo(p) /\ io'[p] = now
      BY <1>9, <1>10, <1>12, IoSet DEF OnlyIo
    <2>2. mem' = [mem EXCEPT ![p][Current(p).buf] = "held"] /\ UNCHANGED call
      BY <1>9, <1>12 DEF b
    <2> QED
      BY <1>1, <1>2, <1>3, <1>7, <1>10, <2>1, <2>2
  <1>13. CASE n # Block
    <2>1. OnlyIo(p) /\ io'[p] = end
      BY <1>9, <1>11, <1>13, IoSet DEF OnlyIo
    <2>2. PassWith(p, [mem[p] EXCEPT ![Current(p).buf] = "held"])
      BY <1>9, <1>13 DEF b
    <2>3. io'[p].got <= io'[p].want
      BY <1>11, <2>1
    <2> QED
      BY <1>1, <1>2, <1>3, <1>7, <1>8, <1>11, <1>13, <2>1, <2>2, <2>3
  <1> QED
    BY <1>12, <1>13

LEMMA ReadStreamFits ==
    ASSUME Base, NEW p \in Procs, ReadStream(p)
    PROVE  StepFits(p)
  <1>1. /\ Running(p) /\ At(p, {"read"}) /\ OnStream(p) /\ OnlyIo(p)
        /\ io'[p].phase = "none" /\ io'[p].got <= io'[p].want
        /\ [mem[p] EXCEPT ![Current(p).buf] = "held"] \in Pointers
        /\ UNCHANGED <<hash, file, size>>
    BY ReadStreamMoves
  <1>2. CASE mem' = [mem EXCEPT ![p][Current(p).buf] = "held"] /\ UNCHANGED call
    <2>1. OnlyMem(p)
      BY <1>1, <1>2, TypedParts DEF OnlyMem
    <2>2. Typed' /\ Apart(p)
      BY <1>1, <1>2, <2>1, TypedParts, ApartBy DEF Typed, OnlyMem, OnlyIo
    <2>3. At(p, {"read", "write"})
      BY <1>1 DEF At
    <2> QED
      BY <1>1, <1>2, <2>2, <2>3, StayFits
  <1>3. CASE /\ io'[p].got = 0
             /\ PassWith(p, [mem[p] EXCEPT ![Current(p).buf] = "held"])
    BY <1>1, <1>3, UnchangedOnly, PassesFit
  <1> QED
    BY <1>2, <1>3, ReadStreamMoves

\* Paths are taken from the others at most.
LEMMA RobbedApart ==
    ASSUME Base, NEW p \in Procs,
           \A q \in Procs \ {p} :
               /\ call'[q] = call[q] /\ mem'[q] = mem[q] /\ hash'[q] = hash[q]
               /\ \E s \in SUBSET io[q].made :
                     io'[q] = [io[q] EXCEPT !.robbed = io[q].robbed \cup s]
    PROVE  Apart(p)
  <1> SUFFICES ASSUME NEW q \in Procs \ {p}
               PROVE  /\ io'[q] = [io[q] EXCEPT !.robbed = io'[q].robbed]
                      /\ io[q].robbed \subseteq io'[q].robbed
                      /\ io'[q].robbed \subseteq io[q].robbed \cup io[q].made
    BY DEF Apart
  <1>1. PICK s \in SUBSET io[q].made : io'[q] = [io[q] EXCEPT !.robbed = io[q].robbed \cup s]
    OBVIOUS
  <1>2. io[q] \in Transfer
    BY TypedParts
  <1> DEFINE x == io[q].robbed \cup s
  <1>3. io'[q] = [io[q] EXCEPT !.robbed = x] /\ io[q].robbed \subseteq x
        /\ x \subseteq io[q].robbed \cup io[q].made
    BY <1>1
  <1> HIDE DEF x
  <1>4. io'[q].robbed = x
    BY <1>2, <1>3 DEF Transfer
  <1> QED
    BY <1>3, <1>4

\* A transfer that loses some of its paths to others.
LEMMA RobbedType ==
    ASSUME NEW r \in Transfer, NEW s \in SUBSET r.made
    PROVE  /\ [r EXCEPT !.robbed = r.robbed \cup s] \in Transfer
           /\ [r EXCEPT !.robbed = r.robbed \cup s].robbed = r.robbed \cup s
           /\ r = [r EXCEPT !.robbed = r.robbed \cup {}]
  <1> DEFINE x == r.robbed \cup s
  <1>1. x \in SUBSET Paths
    BY DEF Transfer
  <1>2. x = r.robbed \cup s
    OBVIOUS
  <1> HIDE DEF x
  <1>3. [r EXCEPT !.robbed = x] \in Transfer /\ [r EXCEPT !.robbed = x].robbed = x
    BY <1>1 DEF Transfer
  <1>4. r = [r EXCEPT !.robbed = r.robbed \cup {}]
    <2>1. r.robbed \cup {} = r.robbed
      OBVIOUS
    <2>2. r = [r EXCEPT !.robbed = r.robbed]
      BY DEF Transfer
    <2> QED
      BY <2>1, <2>2
  <1> QED
    BY <1>2, <1>3, <1>4

\* At a write, with something to write.
LEMMA WantedFacts ==
    ASSUME Base, NEW p \in Procs, Wanted(p)
    PROVE  /\ Running(p) /\ Current(p).op = "write" /\ Given(p, Current(p))
           /\ At(p, {"read", "write"}) /\ ~At(p, {"read"})
           /\ mem[p][Current(p).buf] # "null" /\ Current(p).buf \in Buffers
           /\ Target(p) \in Paths /\ Current(p).buf = Outputs[Target(p)]
           /\ io[p].got = 0
  <1>1. /\ Running(p) /\ Current(p).op = "write" /\ Given(p, Current(p))
        /\ At(p, {"read", "write"}) /\ ~At(p, {"read"})
        /\ mem[p][Current(p).buf] # "null"
    BY DEF Wanted, At
  <1> QED
    BY <1>1, StepFacts, Quiet

LEMMA OpenOutputMoves ==
    ASSUME Base, NEW p \in Procs, OpenOutput(p)
    PROVE  /\ Wanted(p) /\ ~OnStream(p) /\ io[p].phase = "none" /\ Opens(p, Target(p))
           /\ file' \in Files
           /\ file' = [file EXCEPT ![Target(p)] = [by |-> p, part |-> "empty"]]
           /\ io' \in [Procs -> Transfer]
           /\ io'[p] = [io[p] EXCEPT !.phase = "open", !.made = io[p].made \cup {Target(p)},
                                     !.robbed = io[p].robbed \ {Target(p)}]
           /\ \A q \in Procs \ {p} :
                 io'[q] = [io[q] EXCEPT !.robbed = io[q].robbed \cup
                    (IF "force" \in call[p].asked THEN io[q].made \cap {Target(p)} ELSE {})]
           /\ UNCHANGED <<call, mem, hash, size>>
  <1> DEFINE i == Target(p)
             x == io[p].made \cup {i}
             y == io[p].robbed \ {i}
             r == [io[p] EXCEPT !.phase = "open", !.made = x, !.robbed = y]
  <1>1. /\ Wanted(p) /\ ~OnStream(p) /\ io[p].phase = "none" /\ Opens(p, i)
        /\ file' = [file EXCEPT ![i] = [by |-> p, part |-> "empty"]]
        /\ io' = [Robbed(p, i) EXCEPT ![p].phase = "open", ![p].made = @ \cup {i},
                                      ![p].robbed = @ \ {i}]
        /\ UNCHANGED <<call, mem, hash, size>>
    BY DEF OpenOutput
  <1>2. i \in Paths
    BY <1>1, WantedFacts
  <1>3. io \in [Procs -> Transfer] /\ file \in Files
    BY TypedParts
  <1>4. file' \in Files
    BY <1>1, <1>2, <1>3 DEF Files
  <1>5. /\ x \in SUBSET Paths /\ y \in SUBSET Paths
    BY <1>2, <1>3 DEF Transfer
  <1>6. Robbed(p, i) \in [Procs -> Transfer] /\ Robbed(p, i)[p] = io[p]
        /\ \A q \in Procs \ {p} :
              Robbed(p, i)[q] = [io[q] EXCEPT !.robbed = io[q].robbed \cup
                    (IF "force" \in call[p].asked THEN io[q].made \cap {i} ELSE {})]
    <2>1. \A q \in Procs :
             /\ [io[q] EXCEPT !.robbed = io[q].robbed \cup (io[q].made \cap {i})] \in Transfer
             /\ io[q] = [io[q] EXCEPT !.robbed = io[q].robbed \cup {}]
      BY <1>3, RobbedType
    <2>2. \A q \in Procs : i \in io[q].made => io[q].made \cap {i} = {i}
      OBVIOUS
    <2>3. \A q \in Procs : i \notin io[q].made => io[q].made \cap {i} = {}
      OBVIOUS
    <2> QED
      BY <1>3, <2>1, <2>2, <2>3 DEF Robbed
  <1>7. io' = [Robbed(p, i) EXCEPT ![p] = r]
    BY <1>1, <1>3, <1>6
  <1>8. r = [io[p] EXCEPT !.phase = "open", !.made = io[p].made \cup {Target(p)},
                         !.robbed = io[p].robbed \ {Target(p)}]
    OBVIOUS
  <1> HIDE DEF x, y
  <1>9. r \in Transfer
    BY <1>3, <1>5 DEF Transfer, Phases
  <1> HIDE DEF r, i
  <1>10. /\ io' \in [Procs -> Transfer] /\ io'[p] = r
         /\ \A q \in Procs \ {p} :
              io'[q] = [io[q] EXCEPT !.robbed = io[q].robbed \cup
                    (IF "force" \in call[p].asked THEN io[q].made \cap {i} ELSE {})]
    BY <1>6, <1>7, <1>9
  <1> QED
    BY <1>1, <1>4, <1>8, <1>10 DEF i

LEMMA OpenOutputFits ==
    ASSUME Base, NEW p \in Procs, OpenOutput(p)
    PROVE  StepFits(p)
  <1>1. /\ Wanted(p) /\ ~OnStream(p) /\ file' \in Files /\ io' \in [Procs -> Transfer]
        /\ io'[p] = [io[p] EXCEPT !.phase = "open", !.made = io[p].made \cup {Target(p)},
                                  !.robbed = io[p].robbed \ {Target(p)}]
        /\ \A q \in Procs \ {p} :
              io'[q] = [io[q] EXCEPT !.robbed = io[q].robbed \cup
                 (IF "force" \in call[p].asked THEN io[q].made \cap {Target(p)} ELSE {})]
        /\ UNCHANGED <<call, mem, hash, size>>
    BY OpenOutputMoves
  <1>2. Typed'
    BY <1>1, TypedParts DEF Typed
  <1>3. Apart(p)
    <2>1. \A q \in Procs \ {p} : \E s \in SUBSET io[q].made :
             io'[q] = [io[q] EXCEPT !.robbed = io[q].robbed \cup s]
      <3> TAKE q \in Procs \ {p}
      <3> DEFINE s == IF "force" \in call[p].asked THEN io[q].made \cap {Target(p)} ELSE {}
      <3>1. s \in SUBSET io[q].made
        OBVIOUS
      <3>2. io'[q] = [io[q] EXCEPT !.robbed = io[q].robbed \cup s]
        BY <1>1
      <3> QED
        BY <3>1, <3>2
    <2> QED
      BY <1>1, <2>1, RobbedApart
  <1>4. io'[p].phase = "open" /\ io'[p].got = io[p].got /\ io'[p].want = io[p].want
    BY <1>1, TypedParts DEF Transfer
  <1>5. io[p].got <= io[p].want
    BY Parts DEF Base
  <1>6. /\ Running(p) /\ At(p, {"read", "write"}) /\ ~At(p, {"read"})
        /\ mem[p][Current(p).buf] # "null" /\ io[p].got = 0
    BY <1>1, WantedFacts
  <1> QED
    BY <1>1, <1>2, <1>3, <1>4, <1>5, <1>6, StayFits

\* Another process finds the path taken, or nothing.
Taking(q, i) == [io[q] EXCEPT !.robbed = io[q].robbed \cup (io[q].made \cap {i})]

LEMMA TakingType ==
    ASSUME Base, NEW q \in Procs, NEW i
    PROVE  Taking(q, i) \in Transfer
  BY TypedParts, RobbedType DEF Taking

LEMMA WriteOutputMoves ==
    ASSUME Base, NEW p \in Procs, WriteOutput(p)
    PROVE  /\ Wanted(p) /\ ~OnStream(p) /\ io[p].phase = "open"
           /\ file' \in Files /\ io' \in [Procs -> Transfer]
           /\ io'[p] = [io[p] EXCEPT !.phase = "got"]
           /\ \/ /\ Target(p) \notin io[p].robbed
                 /\ file' = [file EXCEPT ![Target(p)] = [by |-> p, part |-> "whole"]]
                 /\ \A q \in Procs \ {p} : io'[q] = io[q]
              \/ /\ Target(p) \in io[p].robbed
                 /\ UNCHANGED file
                 /\ \A q \in Procs \ {p} : io'[q] = io[q]
              \/ /\ Target(p) \in io[p].robbed
                 /\ file' = [file EXCEPT ![Target(p)] = [by |-> p, part |-> "short"]]
                 /\ \A q \in Procs \ {p} : io'[q] = Taking(q, Target(p))
           /\ UNCHANGED <<call, mem, hash, size>>
  <1> DEFINE i == Target(p)
             r == [io[p] EXCEPT !.phase = "got"]
  <1>1. /\ Wanted(p) /\ ~OnStream(p) /\ io[p].phase = "open"
        /\ UNCHANGED <<call, mem, hash, size>>
    BY DEF WriteOutput
  <1>2. i \in Paths
    BY <1>1, WantedFacts
  <1>3. io \in [Procs -> Transfer] /\ file \in Files
    BY TypedParts
  <1>4. r \in Transfer
    BY <1>3 DEF Transfer, Phases
  <1>5. \A part \in {"whole", "short"} : [file EXCEPT ![i] = [by |-> p, part |-> part]] \in Files
    BY <1>2, <1>3 DEF Files
  <1>6. [io EXCEPT ![p].phase = "got"] = [io EXCEPT ![p] = r]
    BY <1>3
  <1>7. CASE i \notin io[p].robbed
    <2>1. /\ file' = [file EXCEPT ![i] = [by |-> p, part |-> "whole"]]
          /\ io' = [io EXCEPT ![p] = r]
      BY <1>6, <1>7 DEF WriteOutput
    <2> HIDE DEF r
    <2>2. OnlyIo(p) /\ io'[p] = r
      BY <1>4, <2>1, IoSet DEF OnlyIo
    <2> QED
      BY <1>1, <1>5, <1>7, <2>1, <2>2 DEF OnlyIo, r
  <1>8. CASE i \in io[p].robbed /\ UNCHANGED file /\ io' = [io EXCEPT ![p].phase = "got"]
    <2>1. io' = [io EXCEPT ![p] = r]
      BY <1>6, <1>8
    <2> HIDE DEF r
    <2>2. OnlyIo(p) /\ io'[p] = r
      BY <1>4, <2>1, IoSet DEF OnlyIo
    <2> QED
      BY <1>1, <1>3, <1>8, <2>2 DEF OnlyIo, r
  <1>9. CASE /\ i \in io[p].robbed
             /\ file' = [file EXCEPT ![i] = [by |-> p, part |-> "short"]]
             /\ io' = [q \in Procs |->
                          IF q = p THEN [io[p] EXCEPT !.phase = "got"]
                          ELSE [io[q] EXCEPT !.robbed = @ \cup (io[q].made \cap {i})]]
    <2>1. \A q \in Procs : Taking(q, i) \in Transfer
      BY TakingType
    <2>2. io' = [q \in Procs |-> IF q = p THEN r ELSE Taking(q, i)]
      BY <1>9 DEF Taking
    <2>3. r = [io[p] EXCEPT !.phase = "got"]
      OBVIOUS
    <2> HIDE DEF r
    <2>4. io' \in [Procs -> Transfer] /\ io'[p] = r
          /\ \A q \in Procs \ {p} : io'[q] = Taking(q, i)
      BY <1>4, <2>1, <2>2
    <2> QED
      BY <1>1, <1>5, <1>9, <2>3, <2>4
  <1>10. \/ i \notin io[p].robbed
         \/ i \in io[p].robbed /\ UNCHANGED file /\ io' = [io EXCEPT ![p].phase = "got"]
         \/ /\ i \in io[p].robbed
            /\ file' = [file EXCEPT ![i] = [by |-> p, part |-> "short"]]
            /\ io' = [q \in Procs |->
                         IF q = p THEN [io[p] EXCEPT !.phase = "got"]
                         ELSE [io[q] EXCEPT !.robbed = @ \cup (io[q].made \cap {i})]]
    BY Zenon DEF WriteOutput
  <1> QED
    BY <1>7, <1>8, <1>9, <1>10

LEMMA TakingApart ==
    ASSUME Base, NEW p \in Procs, NEW i,
           \A q \in Procs \ {p} :
               /\ call'[q] = call[q] /\ mem'[q] = mem[q] /\ hash'[q] = hash[q]
               /\ io'[q] = Taking(q, i)
    PROVE  Apart(p)
  <1>1. \A q \in Procs \ {p} : \E s \in SUBSET io[q].made :
           io'[q] = [io[q] EXCEPT !.robbed = io[q].robbed \cup s]
    <2> TAKE q \in Procs \ {p}
    <2>1. io[q].made \cap {i} \in SUBSET io[q].made
      OBVIOUS
    <2> QED
      BY <2>1 DEF Taking
  <1> QED
    BY <1>1, RobbedApart

LEMMA WriteOutputFits ==
    ASSUME Base, NEW p \in Procs, WriteOutput(p)
    PROVE  StepFits(p)
  <1>1. /\ Wanted(p) /\ ~OnStream(p) /\ file' \in Files /\ io' \in [Procs -> Transfer]
        /\ io'[p] = [io[p] EXCEPT !.phase = "got"]
        /\ UNCHANGED <<call, mem, hash, size>>
        /\ \/ \A q \in Procs \ {p} : io'[q] = io[q]
           \/ \A q \in Procs \ {p} : io'[q] = Taking(q, Target(p))
    BY WriteOutputMoves
  <1>2. Typed'
    BY <1>1, TypedParts DEF Typed
  <1>3. Apart(p)
    BY <1>1, ApartBy, TakingApart
  <1>4. io'[p].phase = "got" /\ io'[p].got = io[p].got /\ io'[p].want = io[p].want
    BY <1>1, TypedParts DEF Transfer
  <1>5. io[p].got <= io[p].want
    BY Parts DEF Base
  <1>6. /\ Running(p) /\ At(p, {"read", "write"}) /\ ~At(p, {"read"})
        /\ mem[p][Current(p).buf] # "null" /\ io[p].got = 0
    BY <1>1, WantedFacts
  <1> QED
    BY <1>1, <1>2, <1>3, <1>4, <1>5, <1>6, StayFits

LEMMA WriteShortMoves ==
    ASSUME Base, NEW p \in Procs, WriteShort(p)
    PROVE  /\ Wanted(p) /\ ~OnStream(p) /\ io[p].phase = "open"
           /\ FailWith(p, mem[p]) /\ mem[p] \in Pointers
           /\ file' \in Files /\ file' = [file EXCEPT ![Target(p)] = NoFile]
           /\ io' \in [Procs -> Transfer] /\ io'[p] = [io[p] EXCEPT !.phase = "none"]
           /\ \A q \in Procs \ {p} : io'[q] = Taking(q, Target(p))
           /\ hash' = [hash EXCEPT ![p].failed = TRUE]
           /\ UNCHANGED size
  <1> DEFINE i == Target(p)
             r == [io[p] EXCEPT !.phase = "none"]
  <1>1. /\ Wanted(p) /\ ~OnStream(p) /\ io[p].phase = "open"
        /\ FailWith(p, mem[p]) /\ file' = [file EXCEPT ![i] = NoFile]
        /\ hash' = [hash EXCEPT ![p].failed = TRUE] /\ UNCHANGED size
    BY DEF WriteShort
  <1>2. i \in Paths
    BY <1>1, WantedFacts
  <1>3. io \in [Procs -> Transfer] /\ file \in Files /\ mem[p] \in Pointers
    BY TypedParts
  <1>4. r \in Transfer
    BY <1>3 DEF Transfer, Phases
  <1>5. file' \in Files
    BY <1>1, <1>2, <1>3 DEF Files, NoFile
  <1>6. \A q \in Procs : Taking(q, i) \in Transfer
    BY TakingType
  <1>7. io' = [q \in Procs |-> IF q = p THEN r ELSE Taking(q, i)]
    BY DEF WriteShort, Taking
  <1>8. r = [io[p] EXCEPT !.phase = "none"]
    OBVIOUS
  <1> HIDE DEF r
  <1>9. io' \in [Procs -> Transfer] /\ io'[p] = r
        /\ \A q \in Procs \ {p} : io'[q] = Taking(q, i)
    BY <1>4, <1>6, <1>7
  <1> QED
    BY <1>1, <1>3, <1>5, <1>8, <1>9

LEMMA WriteShortFits ==
    ASSUME Base, NEW p \in Procs, WriteShort(p)
    PROVE  StepFits(p)
  <1>1. /\ Wanted(p) /\ FailWith(p, mem[p]) /\ mem[p] \in Pointers
        /\ file' \in Files /\ UNCHANGED size
        /\ io' \in [Procs -> Transfer] /\ io'[p] = [io[p] EXCEPT !.phase = "none"]
        /\ \A q \in Procs \ {p} : io'[q] = Taking(q, Target(p))
        /\ hash' = [hash EXCEPT ![p].failed = TRUE]
    BY WriteShortMoves
  <1>2. Running(p) /\ io[p].got = 0
    BY <1>1, WantedFacts
  <1>3. Fails(p) /\ OnlyMem(p)
    BY <1>1, <1>2, FailMoves DEF OnlyMem
  <1>4. OnlyHash(p)
    BY <1>1, HashFails DEF OnlyHash
  <1>5. Keeps(p)
    BY <1>2, <1>3, StaysInScript
  <1>6. Typed'
    BY <1>1, <1>3, <1>4, <1>5, TypedParts DEF Typed, Keeps, OnlyMem, OnlyHash
  <1>7. Apart(p)
    BY <1>1, <1>3, <1>4, <1>5, TakingApart DEF Keeps, OnlyMem, OnlyHash
  <1>8. io'[p] \in Transfer /\ io'[p].phase = "none" /\ io'[p].got = 0
    BY <1>1, <1>2, TypedParts DEF Transfer
  <1> QED
    BY <1>2, <1>3, <1>6, <1>7, <1>8, Landed DEF StepFits

LEMMA CloseOutputMoves ==
    ASSUME Base, NEW p \in Procs, CloseOutput(p)
    PROVE  /\ Wanted(p) /\ ~OnStream(p) /\ io[p].phase = "got"
           /\ PassWith(p, mem[p]) /\ mem[p] \in Pointers
           /\ OnlyIo(p)
           /\ io'[p] = [io[p] EXCEPT !.phase = "none", !.wrote = io[p].wrote \cup {Target(p)}]
           /\ UNCHANGED <<hash, file, size>>
  <1>1. /\ Wanted(p) /\ ~OnStream(p) /\ io[p].phase = "got"
        /\ PassWith(p, mem[p]) /\ UNCHANGED <<hash, file, size>>
    BY DEF CloseOutput
  <1>2. Target(p) \in Paths
    BY <1>1, WantedFacts
  <1>3. io \in [Procs -> Transfer] /\ mem[p] \in Pointers
    BY TypedParts
  <1> DEFINE x == io[p].wrote \cup {Target(p)}
             r == [io[p] EXCEPT !.phase = "none", !.wrote = x]
  <1>4. x \in SUBSET Paths
    BY <1>2, <1>3 DEF Transfer
  <1>5. io' = [io EXCEPT ![p] = r]
    BY <1>3 DEF CloseOutput
  <1>6. r = [io[p] EXCEPT !.phase = "none", !.wrote = io[p].wrote \cup {Target(p)}]
    OBVIOUS
  <1> HIDE DEF x
  <1>7. r \in Transfer
    BY <1>3, <1>4 DEF Transfer, Phases
  <1> HIDE DEF r
  <1>8. OnlyIo(p) /\ io'[p] = r
    BY <1>5, <1>7, IoSet DEF OnlyIo
  <1> QED
    BY <1>1, <1>3, <1>6, <1>8

LEMMA CloseOutputFits ==
    ASSUME Base, NEW p \in Procs, CloseOutput(p)
    PROVE  StepFits(p)
  <1>1. /\ Wanted(p) /\ PassWith(p, mem[p]) /\ mem[p] \in Pointers /\ OnlyIo(p)
        /\ io'[p] = [io[p] EXCEPT !.phase = "none", !.wrote = io[p].wrote \cup {Target(p)}]
        /\ UNCHANGED <<hash, file, size>>
    BY CloseOutputMoves
  <1>2. Running(p) /\ io[p].got = 0
    BY <1>1, WantedFacts
  <1>3. io'[p].phase = "none" /\ io'[p].got = 0
    BY <1>1, <1>2, TypedParts DEF Transfer
  <1> QED
    BY <1>1, <1>2, <1>3, UnchangedOnly, PassesFit

\* The two ways in which a write fails and leaves the file as it is.
LEMMA OutputFailsMoves ==
    ASSUME Base, NEW p \in Procs, RefuseOutput(p) \/ OutputFails(p)
    PROVE  /\ Wanted(p) /\ FailWith(p, mem[p]) /\ mem[p] \in Pointers
           /\ OnlyIo(p) /\ io'[p] = [io[p] EXCEPT !.phase = "none"]
           /\ hash' = [hash EXCEPT ![p].failed = TRUE]
           /\ UNCHANGED <<file, size>>
  <1>1. /\ Wanted(p) /\ FailWith(p, mem[p])
        /\ hash' = [hash EXCEPT ![p].failed = TRUE] /\ UNCHANGED <<file, size>>
    BY DEF RefuseOutput, OutputFails
  <1>2. io \in [Procs -> Transfer] /\ mem[p] \in Pointers /\ io[p] \in Transfer
    BY TypedParts
  <1> DEFINE r == [io[p] EXCEPT !.phase = "none"]
  <1>3. r \in Transfer
    BY <1>2 DEF Transfer, Phases
  <1>4. ASSUME OutputFails(p) PROVE io' = [io EXCEPT ![p] = r]
    BY <1>2, <1>4 DEF OutputFails
  <1>5. ASSUME RefuseOutput(p) PROVE io' = io /\ io[p] = r
    BY <1>2, <1>5 DEF RefuseOutput, Transfer
  <1> HIDE DEF r
  <1>6. OnlyIo(p) /\ io'[p] = r
    BY <1>3, <1>4, <1>5, IoSet, UnchangedOnly DEF OnlyIo
  <1> QED
    BY <1>1, <1>2, <1>6 DEF r

LEMMA OutputFailsFits ==
    ASSUME Base, NEW p \in Procs, RefuseOutput(p) \/ OutputFails(p)
    PROVE  StepFits(p)
  <1>1. /\ Wanted(p) /\ FailWith(p, mem[p]) /\ mem[p] \in Pointers
        /\ OnlyIo(p) /\ io'[p] = [io[p] EXCEPT !.phase = "none"]
        /\ hash' = [hash EXCEPT ![p].failed = TRUE] /\ UNCHANGED <<file, size>>
    BY OutputFailsMoves
  <1>2. Running(p) /\ io[p].got = 0
    BY <1>1, WantedFacts
  <1>3. io'[p].phase = "none" /\ io'[p].got = 0
    BY <1>1, <1>2, TypedParts DEF Transfer
  <1>4. OnlyHash(p)
    BY <1>1, HashFails DEF OnlyHash
  <1> QED
    BY <1>1, <1>2, <1>3, <1>4, UnchangedOnly, FailuresFit

LEMMA WriteStreamMoves ==
    ASSUME Base, NEW p \in Procs, WriteStream(p)
    PROVE  /\ Wanted(p) /\ OnStream(p) /\ io[p].phase = "none" /\ io[p].got = 0
           /\ PassWith(p, mem[p]) /\ mem[p] \in Pointers
           /\ UNCHANGED <<hash, io, file, size>>
  <1>1. /\ Wanted(p) /\ OnStream(p) /\ PassWith(p, mem[p])
        /\ UNCHANGED <<hash, io, file, size>>
    BY DEF WriteStream
  <1>2. Running(p) /\ io[p].got = 0
    BY <1>1, WantedFacts
  <1> QED
    BY <1>1, <1>2, Quiet, TypedParts

LEMMA WriteStreamFits ==
    ASSUME Base, NEW p \in Procs, WriteStream(p)
    PROVE  StepFits(p)
  <1>1. /\ Wanted(p) /\ io[p].phase = "none" /\ io[p].got = 0
        /\ PassWith(p, mem[p]) /\ mem[p] \in Pointers
        /\ UNCHANGED <<hash, io, file, size>>
    BY WriteStreamMoves
  <1>2. Running(p)
    BY <1>1, WantedFacts
  <1> QED
    BY <1>1, <1>2, UnchangedOnly, PassesFit

LEMMA ChangeInputMoves ==
    ASSUME Base, ChangeInput
    PROVE  /\ io' \in [Procs -> Transfer] /\ size' \in Sizes
           /\ \A p \in Procs :
                 \/ At(p, {"read"}) /\ io[p].phase # "none"
                        /\ io'[p] = [io[p] EXCEPT !.excused = io[p].excused \cup {Current(p).buf}]
                 \/ ~(At(p, {"read"}) /\ io[p].phase # "none") /\ io'[p] = io[p]
           /\ UNCHANGED <<call, mem, hash, file>>
  <1>1. io' = [p \in Procs |->
                 IF At(p, {"read"}) /\ io[p].phase # "none"
                 THEN [io[p] EXCEPT !.excused = @ \cup {Current(p).buf}]
                 ELSE io[p]]
        /\ size' \in Sizes /\ UNCHANGED <<call, mem, hash, file>>
    BY DEF ChangeInput
  <1>2. ASSUME NEW p \in Procs
        PROVE  /\ io'[p] \in Transfer
               /\ \/ At(p, {"read"}) /\ io[p].phase # "none"
                        /\ io'[p] = [io[p] EXCEPT !.excused = io[p].excused \cup {Current(p).buf}]
                  \/ ~(At(p, {"read"}) /\ io[p].phase # "none") /\ io'[p] = io[p]
    <2>1. io[p] \in Transfer
      BY TypedParts
    <2>2. CASE At(p, {"read"}) /\ io[p].phase # "none"
      <3>1. Current(p).buf \in Buffers
        BY <2>2, StepFacts DEF At
      <3> DEFINE x == io[p].excused \cup {Current(p).buf}
      <3>2. x \in SUBSET Buffers
        BY <2>1, <3>1 DEF Transfer
      <3>3. io'[p] = [io[p] EXCEPT !.excused = x]
        BY <1>1, <2>2
      <3>4. x = io[p].excused \cup {Current(p).buf}
        OBVIOUS
      <3> HIDE DEF x
      <3>5. io'[p] \in Transfer
        BY <2>1, <3>2, <3>3 DEF Transfer
      <3> QED
        BY <2>2, <3>3, <3>4, <3>5
    <2>3. CASE ~(At(p, {"read"}) /\ io[p].phase # "none")
      BY <1>1, <2>1, <2>3
    <2> QED
      BY <2>2, <2>3
  <1>3. io' \in [Procs -> Transfer]
    BY <1>1, <1>2
  <1> QED
    BY <1>1, <1>2, <1>3

\* Nothing a process stands on has changed.
LEMMA SameFits ==
    ASSUME Base, NEW p \in Procs, UNCHANGED <<call, mem, hash>>,
           io'[p].phase = io[p].phase, io'[p].got = io[p].got, io'[p].want = io[p].want,
           call[p].rc = "none" => io'[p] = NoIo
    PROVE  Fits(p)'
  <1>1. Fits(p)
    BY BaseParts
  <1>2. /\ Current(p)' = Current(p) /\ Steps(p)' = Steps(p) /\ OnStream(p)' = OnStream(p)
        /\ Running(p)' = Running(p)
    BY DEF Current, Steps, OnStream, Running
  <1>3. /\ At(p, {"read"})' = At(p, {"read"})
        /\ At(p, {"read", "write"})' = At(p, {"read", "write"})
    BY <1>2 DEF At, Given
  <1>4. InScript(p)' /\ (io[p].got <= io[p].want)'
    BY <1>1 DEF Fits, InScript
  <1>5. Placed(p)'
    BY <1>1, <1>2, <1>3 DEF Fits, Placed
  <1> QED
    BY <1>4, <1>5 DEF Fits

LEMMA ChangeInputBase ==
    ASSUME Base, ChangeInput
    PROVE  Base'
  <1>1. Typed'
    BY ChangeInputMoves, TypedParts DEF Typed
  <1>2. ASSUME NEW p \in Procs PROVE Fits(p)'
    <2>1. io[p] \in Transfer
      BY TypedParts
    <2>2. CASE At(p, {"read"}) /\ io[p].phase # "none"
               /\ io'[p] = [io[p] EXCEPT !.excused = io[p].excused \cup {Current(p).buf}]
      <3>1. /\ io'[p].phase = io[p].phase /\ io'[p].got = io[p].got
            /\ io'[p].want = io[p].want
        BY <2>1, <2>2 DEF Transfer
      <3>2. call[p].rc # "none"
        BY <2>2 DEF At, Running
      <3> QED
        BY <3>1, <3>2, ChangeInputMoves, SameFits
    <2>3. CASE io'[p] = io[p]
      <3>1. call[p].rc = "none" => io'[p] = NoIo
        BY <2>3 DEF Base, Placed
      <3> QED
        BY <2>3, <3>1, ChangeInputMoves, SameFits
    <2> QED
      BY <2>2, <2>3, ChangeInputMoves
  <1> QED
    BY <1>1, <1>2, BaseAgain

LEMMA StepFitsBase ==
    ASSUME Base, NEW p \in Procs, StepFits(p)
    PROVE  Base'
  <1>1. \A q \in Procs : Fits(q)'
    BY OthersFit DEF StepFits
  <1> QED
    BY <1>1, BaseAgain DEF StepFits

\* The steps of one process.
ProcStep(p) ==
    \/ Start(p) \/ Kill(p) \/ Skip(p) \/ Pass(p) \/ Fail(p)
    \/ Dispatch(p) \/ DispatchFails(p) \/ DispatchTooEarly(p)
    \/ OpenInput(p) \/ ReadInput(p) \/ CloseInput(p) \/ InputFails(p)
    \/ ReadStream(p)
    \/ OpenOutput(p) \/ RefuseOutput(p) \/ WriteOutput(p) \/ WriteShort(p)
    \/ CloseOutput(p) \/ OutputFails(p) \/ WriteStream(p)

LEMMA NextSteps == Next <=> (\E p \in Procs : ProcStep(p)) \/ ChangeInput
  BY DEF Next, ProcStep

LEMMA ProcStepFits ==
    ASSUME Base, NEW p \in Procs, ProcStep(p)
    PROVE  StepFits(p)
  BY StartFits, KillFits, SkipFits, PassFits, FailFits, DispatchFits, DispatchFailsFits,
     OpenInputFits, ReadInputFits, CloseInputFits, InputFailsFits, ReadStreamFits,
     OpenOutputFits, OutputFailsFits, WriteOutputFits, WriteShortFits, CloseOutputFits,
     WriteStreamFits
  DEF ProcStep

LEMMA BaseInit ==
    ASSUME Init
    PROVE  Base
  <1>1. Idle \in Calling
    BY DEF Idle, Calling, Results
  <1>2. NoHash \in Hashing
    <2>1. "none" \in Handles
      BY DEF Handles
    <2>2. <<"none">> \in Seq(Handles)
      BY <2>1
    <2> QED
      BY <2>2 DEF NoHash, Hashing, SysStates
  <1>3. NoIo \in Transfer
    BY DEF NoIo, Transfer, Phases
  <1>4. [b \in Buffers |-> "null"] \in Pointers
    BY DEF Pointers, MemStates
  <1>5. file \in Files
    <2>1. PICK taken : file = [i \in Paths |->
                 IF i \in taken THEN [by |-> User, part |-> "whole"] ELSE NoFile]
      BY DEF Init
    <2> QED
      BY <2>1 DEF Files, NoFile
  <1>6. Typed
    BY <1>1, <1>2, <1>3, <1>4, <1>5 DEF Init, Typed
  <1>7. ASSUME NEW p \in Procs PROVE Fits(p)
    <2>1. /\ call[p].rc = "none" /\ io[p] = NoIo /\ hash[p] = NoHash
          /\ io[p].phase = "none" /\ io[p].got = 0 /\ io[p].want = 0
      BY DEF Init, Idle, NoIo
    <2> QED
      BY <2>1 DEF Fits, InScript, Placed, Running
  <1> QED
    BY <1>6, <1>7, BaseParts

LEMMA BaseNext ==
    ASSUME Base, [Next]_vars
    PROVE  Base'
  <1>1. CASE \E p \in Procs : ProcStep(p)
    BY <1>1, ProcStepFits, StepFitsBase
  <1>2. CASE ChangeInput
    BY <1>2, ChangeInputBase
  <1>3. CASE UNCHANGED vars
    <2>1. Typed'
      BY <1>3, TypedParts DEF Typed, vars
    <2>2. \A p \in Procs : Fits(p)'
      <3> TAKE p \in Procs
      <3>1. UNCHANGED <<call, mem, hash, io>>
        BY <1>3 DEF vars
      <3>2. call[p].rc = "none" => io'[p] = NoIo
        BY <3>1 DEF Base, Placed
      <3> QED
        BY <3>1, <3>2, SameFits
    <2> QED
      BY <2>1, <2>2, BaseAgain
  <1> QED
    BY <1>1, <1>2, <1>3, NextSteps

(***************************************************************************)
(* Every process of lib/tpm2.c and tools/fapi stays inside its script, and *)
(* open_read_and_close never takes more bytes than its buffer has: the     *)
(* size of the file at fstat() bounds the read, however the file changes.  *)
(***************************************************************************)
THEOREM CallTypes == Spec => []TypeOK
  <1>1. Init => Base
    BY BaseInit
  <1>2. Base /\ [Next]_vars => Base'
    BY BaseNext
  <1>3. Base => TypeOK
    BY DEF Base
  <1> QED
    BY <1>1, <1>2, <1>3, PTL DEF Spec

-----------------------------------------------------------------------------
(* Inputs and outputs.                                                     *)

(***************************************************************************)
(* What is missing from an input is excused.  While the file is open the   *)
(* buffer is as large as the file, and after the read it is full, or else  *)
(* the input is excused.  A path that is open for writing was made by the  *)
(* process.                                                                *)
(***************************************************************************)
Whole(p) ==
    /\ io[p].cut \subseteq io[p].excused
    /\ At(p, {"read"}) /\ io[p].phase = "open" =>
          io[p].want = size \/ Current(p).buf \in io[p].excused
    /\ At(p, {"read"}) /\ io[p].phase = "got" =>
          \/ io[p].got = io[p].want /\ io[p].want = size
          \/ Current(p).buf \in io[p].excused
Made(p) ==
    At(p, {"write"}) /\ io[p].phase # "none" => Target(p) \in io[p].made
Transfers(p) == Whole(p) /\ Made(p)

LEMMA OutOfFile ==
    ASSUME NEW p \in Procs, Transfers(p), io'[p].phase = "none",
           io[p].excused \subseteq io'[p].excused,
           io'[p].cut \subseteq io[p].cut \cup io'[p].excused
    PROVE  Transfers(p)'
  BY DEF Transfers, Whole, Made

LEMMA FilesOthers ==
    ASSUME Base, NEW p \in Procs, Apart(p), UNCHANGED size, NEW q \in Procs \ {p}, Transfers(q)
    PROVE  Transfers(q)'
  <1>1. call'[q] = call[q] /\ io[q] \in Transfer
    BY TypedParts DEF Apart
  <1>2. /\ io'[q].phase = io[q].phase /\ io'[q].got = io[q].got /\ io'[q].want = io[q].want
        /\ io'[q].cut = io[q].cut /\ io'[q].excused = io[q].excused
        /\ io'[q].made = io[q].made
    BY <1>1 DEF Apart, Transfer
  <1>3. Current(q)' = Current(q) /\ Target(q)' = Target(q)
    BY <1>1 DEF Current, Steps, Target
  <1>4. /\ At(q, {"read"})' = At(q, {"read"})
        /\ At(q, {"write"})' = At(q, {"write"})
    BY <1>1, <1>3 DEF At, Running, Given
  <1> QED
    BY <1>2, <1>3, <1>4 DEF Transfers, Whole, Made

\* The fields of a transfer that is left, or was not entered.
LEMMA FilesLeft ==
    ASSUME Base, NEW p \in Procs, Transfers(p),
           \/ Start(p) \/ Kill(p) \/ Skip(p) \/ Pass(p) \/ Fail(p)
           \/ Dispatch(p) \/ DispatchFails(p) \/ DispatchTooEarly(p)
           \/ InputFails(p) \/ ReadStream(p)
           \/ RefuseOutput(p) \/ WriteShort(p) \/ CloseOutput(p) \/ OutputFails(p)
           \/ WriteStream(p)
    PROVE  Transfers(p)'
  <1>1. io[p] \in Transfer
    BY TypedParts
  <1>2. CASE Start(p) \/ Kill(p)
    <2>1. \/ io'[p] = NoIo
          \/ \E n \in Nat : io'[p] = [NoIo EXCEPT !.pipe = n]
      BY <1>2, StartMoves, KillMoves
    <2>2. NoIo \in Transfer
      BY DEF NoIo, Transfer, Phases
    <2>3. \A n : /\ [NoIo EXCEPT !.pipe = n].phase = NoIo.phase
                 /\ [NoIo EXCEPT !.pipe = n].cut = NoIo.cut
      BY <2>2 DEF Transfer
    <2>4. NoIo.cut = {} /\ NoIo.phase = "none"
      BY DEF NoIo
    <2>5. io'[p].phase = "none" /\ io'[p].cut = {}
      BY <2>1, <2>3, <2>4
    <2> QED
      BY <2>5 DEF Transfers, Whole, Made
  <1>3. CASE Skip(p)
    <2>1. io'[p] = io[p] /\ Running(p)
      BY <1>3 DEF Skip
    <2>2. io[p].phase = "none"
      BY <1>3, <2>1 DEF Skip, At, Base, Placed
    <2> QED
      BY <2>1, <2>2, OutOfFile
  <1>4. CASE Pass(p)
    <2>1. io[p].phase = "none"
      BY <1>4, LocalAt, LocalQuiet DEF Pass
    <2> DEFINE r == SwallowedByPrompt(p, Current(p))
    <2>2. /\ r \in Transfer /\ r.phase = io[p].phase /\ r.cut = io[p].cut
          /\ io[p].excused \subseteq r.excused
      BY SwallowedType
    <2>3. io' = [io EXCEPT ![p] = r]
      BY <1>4 DEF Pass
    <2> HIDE DEF r
    <2>4. io'[p] = r
      BY <2>2, <2>3, IoSet
    <2> QED
      BY <2>1, <2>2, <2>4, OutOfFile
  <1>5. CASE Fail(p) \/ Dispatch(p) \/ DispatchFails(p) \/ DispatchTooEarly(p)
    <2>1. io[p].phase = "none"
      BY <1>5, LocalAt, LocalQuiet DEF Fail, Dispatch, DispatchFails, DispatchTooEarly
    <2>2. io' = io
      BY <1>5 DEF Fail, Dispatch, DispatchFails, DispatchTooEarly
    <2> QED
      BY <2>1, <2>2, OutOfFile
  <1>6. CASE InputFails(p)
    <2>1. io'[p] = [io[p] EXCEPT !.phase = "none", !.want = 0, !.got = 0]
      BY <1>6, InputFailsMoves
    <2>2. io'[p].phase = "none" /\ io'[p].cut = io[p].cut /\ io'[p].excused = io[p].excused
      BY <1>1, <2>1 DEF Transfer
    <2> QED
      BY <2>2, OutOfFile
  <1>7. CASE ReadStream(p)
    BY <1>7, ReadStreamMoves, OutOfFile
  <1>8. CASE RefuseOutput(p) \/ OutputFails(p) \/ WriteShort(p)
    <2>1. io'[p] = [io[p] EXCEPT !.phase = "none"]
      BY <1>8, OutputFailsMoves, WriteShortMoves
    <2>2. io'[p].phase = "none" /\ io'[p].cut = io[p].cut /\ io'[p].excused = io[p].excused
      BY <1>1, <2>1 DEF Transfer
    <2> QED
      BY <2>2, OutOfFile
  <1>9. CASE CloseOutput(p)
    <2>1. io'[p] = [io[p] EXCEPT !.phase = "none", !.wrote = io[p].wrote \cup {Target(p)}]
      BY <1>9, CloseOutputMoves
    <2>2. io'[p].phase = "none" /\ io'[p].cut = io[p].cut /\ io'[p].excused = io[p].excused
      BY <1>1, <2>1 DEF Transfer
    <2> QED
      BY <2>2, OutOfFile
  <1>10. CASE WriteStream(p)
    BY <1>10, WriteStreamMoves, OutOfFile
  <1> QED
    BY <1>2, <1>3, <1>4, <1>5, <1>6, <1>7, <1>8, <1>9, <1>10

\* A step inside a file.
LEMMA FilesInside ==
    ASSUME Base, NEW p \in Procs, Transfers(p),
           OpenInput(p) \/ ReadInput(p) \/ CloseInput(p) \/ OpenOutput(p) \/ WriteOutput(p)
    PROVE  Transfers(p)'
  <1>1. io[p] \in Transfer
    BY TypedParts
  <1>2. CASE OpenInput(p)
    <2>1. /\ At(p, {"read"}) /\ UNCHANGED <<call, size>> /\ Opened(p)
      BY <1>2, OpenInputMoves
    <2>2. PICK n \in Nat, x \in SUBSET Buffers : OpenedAs(p, n, x)
      BY <2>1 DEF Opened
    <2>3. /\ io'[p].phase = "open" /\ io'[p].want = n /\ io'[p].cut = io[p].cut
          /\ io'[p].excused = x
      BY <1>1, <2>2 DEF Transfer, OpenedAs
    <2>4. io[p].excused \subseteq x /\ (n = size \/ Current(p).buf \in x)
      BY <2>2 DEF OpenedAs
    <2>5. ~At(p, {"write"})' /\ Current(p)' = Current(p)
      BY <2>1 DEF At, Current, Steps, Running
    <2> QED
      BY <2>1, <2>3, <2>4, <2>5 DEF Transfers, Whole, Made
  <1>3. CASE ReadInput(p)
    <2>1. /\ At(p, {"read"}) /\ UNCHANGED <<call, size>> /\ io[p].phase = "open"
          /\ ReadIn(p)
      BY <1>3, ReadInputMoves
    <2>2. PICK n \in Nat, x \in SUBSET Buffers : ReadAs(p, n, x)
      BY <2>1 DEF ReadIn
    <2>3. /\ io'[p].phase = "got" /\ io'[p].want = io[p].want /\ io'[p].cut = io[p].cut
          /\ io'[p].excused = x /\ io'[p].got = n
      BY <1>1, <2>2 DEF Transfer, ReadAs
    <2>4. io[p].excused \subseteq x /\ (n = ReadCount(p) \/ Current(p).buf \in x)
      BY <2>2 DEF ReadAs
    <2>5. ~At(p, {"write"})' /\ Current(p)' = Current(p)
      BY <2>1 DEF At, Current, Steps, Running
    <2>6. io[p].want = size => ReadCount(p) = io[p].want
      BY TypedParts DEF ReadCount
    <2>7. io[p].cut \subseteq io[p].excused
          /\ (io[p].want = size \/ Current(p).buf \in io[p].excused)
      BY <2>1 DEF Transfers, Whole
    <2> HIDE DEF ReadCount
    <2>8. \/ io'[p].got = io'[p].want /\ io'[p].want = size'
          \/ Current(p).buf \in io'[p].excused
      BY <2>1, <2>3, <2>4, <2>6, <2>7
    <2> QED
      BY <2>3, <2>4, <2>5, <2>7, <2>8 DEF Transfers, Whole, Made
  <1>4. CASE CloseInput(p)
    <2>1. /\ At(p, {"read"}) /\ io[p].phase = "got" /\ Current(p).buf \in Buffers
          /\ io'[p] = Took(p, Current(p).buf)
      BY <1>4, CloseInputMoves
    <2> DEFINE r == Took(p, Current(p).buf)
    <2>2. /\ r.phase = "none" /\ r.excused = io[p].excused
          /\ r.cut = IF io[p].got = io[p].want /\ io[p].want = size THEN io[p].cut
                     ELSE io[p].cut \cup {Current(p).buf}
      BY <2>1, TookType
    <2>3. io'[p] = r
      BY <2>1
    <2> HIDE DEF r
    <2>4. \/ io[p].got = io[p].want /\ io[p].want = size
          \/ Current(p).buf \in io[p].excused
      BY <2>1 DEF Transfers, Whole
    <2>6. r.cut \subseteq io[p].cut \cup r.excused
      BY <2>2, <2>4
    <2> QED
      BY <2>2, <2>3, <2>6, OutOfFile
  <1>5. CASE OpenOutput(p)
    <2>1. /\ Wanted(p) /\ UNCHANGED call
          /\ io'[p] = [io[p] EXCEPT !.phase = "open", !.made = io[p].made \cup {Target(p)},
                                    !.robbed = io[p].robbed \ {Target(p)}]
      BY <1>5, OpenOutputMoves
    <2>2. /\ io'[p].cut = io[p].cut /\ io'[p].excused = io[p].excused
          /\ io'[p].made = io[p].made \cup {Target(p)}
      BY <1>1, <2>1 DEF Transfer
    <2>3. Current(p).op = "write"
      BY <2>1, WantedFacts
    <2>4. ~At(p, {"read"})' /\ Target(p)' = Target(p)
      BY <2>1, <2>3 DEF At, Current, Steps, Target
    <2> QED
      BY <2>2, <2>4 DEF Transfers, Whole, Made
  <1>6. CASE WriteOutput(p)
    <2>1. /\ Wanted(p) /\ UNCHANGED call /\ io[p].phase = "open"
          /\ io'[p] = [io[p] EXCEPT !.phase = "got"]
      BY <1>6, WriteOutputMoves
    <2>2. /\ io'[p].cut = io[p].cut /\ io'[p].excused = io[p].excused
          /\ io'[p].made = io[p].made
      BY <1>1, <2>1 DEF Transfer
    <2>3. Current(p).op = "write" /\ At(p, {"write"})
      BY <2>1, WantedFacts DEF Wanted
    <2>4. ~At(p, {"read"})' /\ Target(p)' = Target(p)
      BY <2>1, <2>3 DEF At, Current, Steps, Target
    <2>5. Target(p) \in io[p].made
      BY <2>1, <2>3 DEF Transfers, Made
    <2> QED
      BY <2>2, <2>4, <2>5 DEF Transfers, Whole, Made
  <1> QED
    BY <1>2, <1>3, <1>4, <1>5, <1>6

LEMMA FilesChange ==
    ASSUME Base, ChangeInput, NEW p \in Procs, Transfers(p)
    PROVE  Transfers(p)'
  <1>1. io[p] \in Transfer /\ UNCHANGED call
    BY TypedParts, ChangeInputMoves
  <1>2. Current(p)' = Current(p) /\ Target(p)' = Target(p)
    BY <1>1 DEF Current, Steps, Target
  <1>3. /\ At(p, {"read"})' = At(p, {"read"})
        /\ At(p, {"write"})' = At(p, {"write"})
    BY <1>1, <1>2 DEF At, Running, Given
  <1>4. CASE At(p, {"read"}) /\ io[p].phase # "none"
             /\ io'[p] = [io[p] EXCEPT !.excused = io[p].excused \cup {Current(p).buf}]
    <2> DEFINE x == io[p].excused \cup {Current(p).buf}
    <2>1. io'[p] = [io[p] EXCEPT !.excused = x] /\ io[p].excused \subseteq x
          /\ Current(p).buf \in x
      BY <1>4
    <2> HIDE DEF x
    <2>2. io'[p].cut = io[p].cut /\ io'[p].excused = x
      BY <1>1, <2>1 DEF Transfer
    <2>3. ~At(p, {"write"})
      BY <1>4 DEF At
    <2> QED
      BY <1>2, <1>3, <2>1, <2>2, <2>3 DEF Transfers, Whole, Made
  <1>5. CASE ~(At(p, {"read"}) /\ io[p].phase # "none") /\ io'[p] = io[p]
    BY <1>2, <1>3, <1>5 DEF Transfers, Whole, Made
  <1> QED
    BY <1>4, <1>5, ChangeInputMoves

LEMMA SizeKept ==
    ASSUME NEW p, ProcStep(p)
    PROVE  UNCHANGED size
  BY DEF ProcStep, Start, Kill, Skip, Pass, Fail, Dispatch, DispatchFails,
         DispatchTooEarly, OpenInput, ReadInput, CloseInput, InputFails, ReadStream,
         OpenOutput, RefuseOutput, WriteOutput, WriteShort, CloseOutput, OutputFails,
         WriteStream

InFiles == Base /\ \A p \in Procs : Transfers(p)

LEMMA InFilesInit == Init => InFiles
  <1> SUFFICES ASSUME Init PROVE InFiles
    OBVIOUS
  <1>1. Base
    BY BaseInit
  <1>2. ASSUME NEW p \in Procs PROVE Transfers(p)
    <2>1. io[p].phase = "none" /\ io[p].cut = {}
      BY DEF Init, NoIo
    <2> QED
      BY <2>1 DEF Transfers, Whole, Made
  <1> QED
    BY <1>1, <1>2 DEF InFiles

LEMMA InFilesNext == InFiles /\ [Next]_vars => InFiles'
  <1> SUFFICES ASSUME InFiles, [Next]_vars PROVE InFiles'
    OBVIOUS
  <1>1. Base /\ Base'
    BY BaseNext DEF InFiles
  <1>2. CASE \E p \in Procs : ProcStep(p)
    <2>1. PICK p \in Procs : ProcStep(p)
      BY <1>2
    <2>2. Apart(p) /\ UNCHANGED size
      BY <1>1, <2>1, ProcStepFits, SizeKept DEF StepFits
    <2>3. \A q \in Procs \ {p} : Transfers(q)'
      BY <1>1, <2>2, FilesOthers DEF InFiles
    <2>4. Transfers(p)'
      BY <1>1, <2>1, FilesLeft, FilesInside DEF InFiles, ProcStep
    <2> QED
      BY <1>1, <2>3, <2>4 DEF InFiles
  <1>3. CASE ChangeInput
    BY <1>1, <1>3, FilesChange DEF InFiles
  <1>4. CASE UNCHANGED vars
    <2>1. ASSUME NEW p \in Procs PROVE Transfers(p)'
      <3>1. Transfers(p)
        BY DEF InFiles
      <3>2. UNCHANGED <<call, io, size>>
        BY <1>4 DEF vars
      <3> QED
        BY <3>1, <3>2 DEF Transfers, Whole, Made, At, Running, Given, Current, Steps, Target
    <2> QED
      BY <1>1, <2>1 DEF InFiles
  <1> QED
    BY <1>2, <1>3, <1>4, NextSteps

(***************************************************************************)
(* The loop over the blocks of the standard input and the one read of a    *)
(* file lose nothing by themselves (open_read_and_close): for any sizes,   *)
(* block and division into reads, what is missing from what a FAPI tool    *)
(* passes on was lost by a size that was not that of the file, a change of *)
(* the file, a short read or a prompt that took from the stream.  That     *)
(* these do lose data is what the runs unread and pieces show.             *)
(***************************************************************************)
THEOREM FullReadsAreWhole == Spec => []FullReadsWhole
  <1>1. InFiles => FullReadsWhole
    BY DEF InFiles, Transfers, Whole, FullReadsWhole
  <1> QED
    BY <1>1, InFilesInit, InFilesNext, PTL DEF Spec

\* The steps that touch an output file, and the path they touch.
LEMMA FileSteps ==
    ASSUME Base, NEW p \in Procs, ProcStep(p)
    PROVE  \/ UNCHANGED file
           \/ /\ OpenOutput(p) \/ WriteOutput(p) \/ WriteShort(p)
              /\ Target(p) \in Paths
              /\ \A i \in Paths \ {Target(p)} : file'[i] = file[i]
  <1>1. CASE OpenOutput(p) \/ WriteOutput(p) \/ WriteShort(p)
    <2>1. Wanted(p)
      BY <1>1 DEF OpenOutput, WriteOutput, WriteShort
    <2>2. Target(p) \in Paths /\ file \in Files
      BY <2>1, WantedFacts, TypedParts
    <2>3. \/ UNCHANGED file
          \/ file' = [file EXCEPT ![Target(p)] = NoFile]
          \/ file' = [file EXCEPT ![Target(p)] = [by |-> p, part |-> "empty"]]
          \/ file' = [file EXCEPT ![Target(p)] = [by |-> p, part |-> "short"]]
          \/ file' = [file EXCEPT ![Target(p)] = [by |-> p, part |-> "whole"]]
      <3>1. CASE OpenOutput(p)
        BY <3>1, OpenOutputMoves
      <3>2. CASE WriteOutput(p)
        BY <3>2, WriteOutputMoves
      <3>3. CASE WriteShort(p)
        BY <3>3, WriteShortMoves
      <3> QED
        BY <1>1, <3>1, <3>2, <3>3
    <2> QED
      BY <1>1, <2>2, <2>3 DEF Files
  <1>2. CASE ~(OpenOutput(p) \/ WriteOutput(p) \/ WriteShort(p))
    BY <1>2 DEF ProcStep, Start, Kill, Skip, Pass, Fail, Dispatch, DispatchFails,
         DispatchTooEarly, OpenInput, ReadInput, CloseInput, InputFails, ReadStream,
         RefuseOutput, CloseOutput, OutputFails, WriteStream
  <1> QED
    BY <1>1, <1>2

(***************************************************************************)
(* Without --force no tool changes a file that it has not created itself,  *)
(* however many tools share the path: O_EXCL decides who created it, and   *)
(* only the creator writes to it or removes it (open_write_and_close).     *)
(***************************************************************************)
THEOREM NothingClobbered == Spec => NoClobber
  <1> DEFINE Unclobbered(p, i) ==
          /\ io'[p].phase # io[p].phase
          /\ "force" \notin call[p].asked
          /\ file'[i] # file[i]
          => file[i] = NoFile \/ i \in io[p].made
  <1>1. InFiles /\ [Next]_vars => [\A p \in Procs, i \in Paths : Unclobbered(p, i)]_vars
    <2> SUFFICES ASSUME InFiles, Next, NEW p \in Procs, NEW i \in Paths,
                        io'[p].phase # io[p].phase, "force" \notin call[p].asked,
                        file'[i] # file[i]
                 PROVE  file[i] = NoFile \/ i \in io[p].made
      BY DEF Unclobbered
    <2>1. Base
      BY DEF InFiles
    <2>2. PICK q \in Procs : ProcStep(q)
      BY <2>1, NextSteps, ChangeInputMoves
    <2>3. Apart(q)
      BY <2>1, <2>2, ProcStepFits DEF StepFits
    <2>4. p = q
      <3> SUFFICES ASSUME p # q PROVE FALSE
        OBVIOUS
      <3>1. io'[p] = [io[p] EXCEPT !.robbed = io'[p].robbed] /\ io[p] \in Transfer
        BY <2>1, <2>3, TypedParts DEF Apart
      <3> QED
        BY <3>1 DEF Transfer
    <2>5. /\ OpenOutput(p) \/ WriteOutput(p) \/ WriteShort(p)
          /\ i = Target(p)
      BY <2>1, <2>2, <2>4, FileSteps
    <2>6. CASE OpenOutput(p)
      BY <2>1, <2>5, <2>6, OpenOutputMoves DEF Opens
    <2>7. CASE WriteOutput(p) \/ WriteShort(p)
      <3>1. At(p, {"write"}) /\ io[p].phase # "none"
        BY <2>7 DEF WriteOutput, WriteShort, Wanted
      <3> QED
        BY <2>5, <3>1 DEF InFiles, Transfers, Made
    <2> QED
      BY <2>5, <2>6, <2>7
  <1> QED
    BY <1>1, InFilesInit, InFilesNext, PTL DEF Spec, NoClobber

-----------------------------------------------------------------------------
(* Six moves stand for the twenty actions where only control, the pointers *)
(* and the hash matter.                                                    *)

\* The pointers after a call that passed, and after one that failed, before
\* the code frees any.
PassMem(p, m) ==
    \A b \in Buffers :
        IF b \in Sets(Current(p)) THEN m[b] \in {"held", "null"} ELSE m[b] = mem[p][b]
FailMem(p, m) ==
    \A b \in Buffers :
        IF b \in Clears(Current(p)) THEN m[b] = "null"
        ELSE \/ m[b] = mem[p][b]
             \/ Current(p).op = "read" /\ b = Current(p).buf /\ m[b] = "freed"

PassHash(p) ==
    IF Current(p).op = "dispatch" THEN [hash[p] EXCEPT !.sent = TRUE, !.sys = "response"]
    ELSE HashAfter(p, Current(p))

Begins(p) ==
    /\ call'[p].rc = "running" /\ call'[p].pc = 1 /\ call'[p].name \in Menu
    /\ call'[p].asked \subseteq Scripts[call'[p].name].opts
    /\ mem'[p] = [b \in Buffers |->
          IF b \in Scripts[call'[p].name].wild THEN "wild" ELSE "null"]
    /\ hash'[p] = NoHash
Dies(p) ==
    /\ call'[p].rc = "killed"
    /\ mem'[p] = [b \in Buffers |-> "null"]
    /\ hash'[p] = NoHash
Rests(p) ==
    /\ call'[p] = call[p] /\ hash'[p] = hash[p]
    /\ \/ mem'[p] = mem[p]
       \/ Running(p) /\ Current(p).op = "read" /\ Given(p, Current(p))
             /\ mem'[p] = [mem[p] EXCEPT ![Current(p).buf] = "held"]
Skips(p) ==
    /\ Running(p) /\ Arrives(p, call[p].pc + 1)
    /\ Given(p, Current(p)) => Current(p).op = "write" /\ mem[p][Current(p).buf] = "null"
    /\ mem'[p] = Freed(mem[p], IF Current(p).op = "write" THEN Current(p).done ELSE {})
    /\ hash'[p] = hash[p]
StepPasses(p) ==
    /\ Running(p) /\ Given(p, Current(p)) /\ Passes(p)
    /\ \E m \in Pointers : PassMem(p, m) /\ mem'[p] = Freed(m, Current(p).done)
    /\ Current(p).lenient \/ hash'[p] = PassHash(p)
StepFails(p) ==
    /\ Running(p) /\ Given(p, Current(p)) /\ Fails(p)
    /\ \E m \in Pointers : FailMem(p, m) /\ mem'[p] = Freed(m, Current(p).lost)

Moves(p) ==
    \/ Begins(p) \/ Dies(p) \/ Rests(p) \/ Skips(p) \/ StepPasses(p) \/ StepFails(p)

LEMMA PassIsMove ==
    ASSUME Base, NEW p \in Procs, Running(p), Given(p, Current(p)),
           NEW m \in Pointers, PassWith(p, m), PassMem(p, m),
           Current(p).lenient \/ hash'[p] = PassHash(p)
    PROVE  StepPasses(p)
  BY PassMoves DEF StepPasses

LEMMA FailIsMove ==
    ASSUME Base, NEW p \in Procs, Running(p), Given(p, Current(p)),
           NEW m \in Pointers, FailWith(p, m), FailMem(p, m)
    PROVE  StepFails(p)
  BY FailMoves DEF StepFails

LEMMA LocalMoves ==
    ASSUME Base, NEW p \in Procs,
           \/ Pass(p) \/ Fail(p) \/ Dispatch(p) \/ DispatchFails(p) \/ DispatchTooEarly(p)
    PROVE  StepPasses(p) \/ StepFails(p)
  <1>1. Running(p) /\ Given(p, Current(p)) /\ Current(p).op \notin {"read", "write"}
    BY LocalAt, LocalQuiet DEF Pass, Fail, Dispatch, DispatchFails, DispatchTooEarly
  <1>2. mem[p] \in Pointers
    BY TypedParts
  <1>3. /\ Current(p).op \in {"name", "list", "ask", "read"} => Current(p).buf \in Buffers
        /\ Current(p).may \subseteq Current(p).sets
        /\ Current(p).lenient => Current(p).sets = {}
    BY <1>1, StepFacts
  <1>4. CASE Pass(p)
    <2> DEFINE m == Allocated(p, Current(p))
    <2>1. m \in Pointers /\ PassWith(p, m)
      BY <1>1, <1>4, AllocatedType DEF Pass
    <2>2. Current(p).op \notin {"read", "dispatch"}
      BY <1>4 DEF Pass, At, LocalOps
    <2>3. PassMem(p, m)
      BY <1>2, <1>3, <2>2 DEF PassMem, Allocated, Sets, Pointers
    <2>4. hash'[p] = HashAfter(p, Current(p))
      BY <1>1, <1>4, HashSet, HashAfterType DEF Pass
    <2>5. hash'[p] = PassHash(p)
      BY <2>2, <2>4 DEF PassHash
    <2> HIDE DEF m
    <2> QED
      BY <1>1, <2>1, <2>3, <2>5, PassIsMove
  <1>5. CASE Fail(p)
    <2> DEFINE m == IF Current(p).op \in {"name", "ask"}
                    THEN [mem[p] EXCEPT ![Current(p).buf] = "null"] ELSE mem[p]
    <2>1. m \in Pointers
      BY <1>1, <1>2, AllocatedType DEF MemStates
    <2>2. FailWith(p, m)
      BY <1>5 DEF Fail
    <2>3. FailMem(p, m)
      BY <1>2, <1>3 DEF FailMem, Clears, Pointers
    <2> HIDE DEF m
    <2> QED
      BY <1>1, <2>1, <2>2, <2>3, FailIsMove
  <1>6. CASE Dispatch(p)
    <2>1. PICK absent \in SUBSET Current(p).may :
             PassWith(p, [b \in Buffers |->
                IF b \in absent THEN "null"
                ELSE IF b \in Current(p).sets THEN "held" ELSE mem[p][b]])
      BY <1>6 DEF Dispatch
    <2> DEFINE m == [b \in Buffers |->
                IF b \in absent THEN "null"
                ELSE IF b \in Current(p).sets THEN "held" ELSE mem[p][b]]
    <2>2. m \in Pointers
      BY <1>2 DEF Pointers, MemStates
    <2>3. Current(p).op = "dispatch"
      BY <1>6 DEF Dispatch, At
    <2>4. Sets(Current(p)) = Current(p).sets
      BY <2>3 DEF Sets
    <2>5. PassMem(p, m)
      BY <1>3, <2>4 DEF PassMem
    <2>6. hash'[p] = PassHash(p)
      BY <1>6, <2>3, HashSends DEF Dispatch, PassHash
    <2>7. PassWith(p, m)
      BY <2>1
    <2> HIDE DEF m
    <2> QED
      BY <1>1, <2>2, <2>5, <2>6, <2>7, PassIsMove
  <1>7. CASE DispatchFails(p)
    <2>1. Current(p).op = "dispatch" /\ FailWith(p, mem[p])
      BY <1>7 DEF DispatchFails, At
    <2>2. FailMem(p, mem[p])
      BY <2>1 DEF FailMem, Clears
    <2> QED
      BY <1>1, <1>2, <2>1, <2>2, FailIsMove
  <1>8. CASE DispatchTooEarly(p)
    <2>1. Current(p).op = "dispatch" /\ Current(p).lenient /\ PassWith(p, mem[p])
      BY <1>8 DEF DispatchTooEarly, At
    <2>2. Sets(Current(p)) = {}
      BY <1>3, <2>1 DEF Sets
    <2>3. PassMem(p, mem[p])
      BY <2>2 DEF PassMem
    <2> QED
      BY <1>1, <1>2, <2>1, <2>3, PassIsMove
  <1> QED
    BY <1>4, <1>5, <1>6, <1>7, <1>8

LEMMA InputMoves ==
    ASSUME Base, NEW p \in Procs,
           OpenInput(p) \/ ReadInput(p) \/ CloseInput(p) \/ InputFails(p) \/ ReadStream(p)
    PROVE  Rests(p) \/ StepPasses(p) \/ StepFails(p)
  <1>1. Running(p) /\ Given(p, Current(p)) /\ Current(p).op = "read"
    BY DEF OpenInput, ReadInput, CloseInput, InputFails, ReadStream, At
  <1>2. mem[p] \in Pointers /\ Current(p).buf \in Buffers
    BY <1>1, TypedParts, StepFacts
  <1>3. Sets(Current(p)) = {Current(p).buf} /\ Clears(Current(p)) = {}
        /\ PassHash(p) = hash[p]
    BY <1>1 DEF Sets, Clears, PassHash, HashAfter
  <1>4. CASE OpenInput(p)
    BY <1>1, <1>4, OpenInputMoves DEF Rests
  <1>5. CASE ReadInput(p)
    BY <1>5 DEF ReadInput, Rests
  <1>6. CASE CloseInput(p)
    <2>1. PassWith(p, mem[p]) /\ mem[p][Current(p).buf] = "held" /\ UNCHANGED hash
      BY <1>6, CloseInputMoves
    <2>2. PassMem(p, mem[p])
      BY <1>3, <2>1 DEF PassMem
    <2> QED
      BY <1>1, <1>2, <1>3, <2>1, <2>2, PassIsMove
  <1>7. CASE InputFails(p)
    <2>1. PICK m \in Pointers :
            /\ FailWith(p, m)
            /\ m = mem[p] \/ (m = Freed(mem[p], {Current(p).buf})
                                 /\ mem[p][Current(p).buf] = "held")
      BY <1>7, InputFailsMoves
    <2>2. FailMem(p, m)
      BY <1>1, <1>3, <2>1 DEF FailMem, Freed
    <2> QED
      BY <1>1, <2>1, <2>2, FailIsMove
  <1>8. CASE ReadStream(p)
    <2>1. UNCHANGED hash /\ [mem[p] EXCEPT ![Current(p).buf] = "held"] \in Pointers
      BY <1>8, ReadStreamMoves
    <2>2. CASE mem' = [mem EXCEPT ![p][Current(p).buf] = "held"] /\ UNCHANGED call
      <3>1. mem'[p] = [mem[p] EXCEPT ![Current(p).buf] = "held"]
        BY <2>2, TypedParts
      <3> QED
        BY <1>1, <2>1, <2>2, <3>1 DEF Rests
    <2>3. CASE PassWith(p, [mem[p] EXCEPT ![Current(p).buf] = "held"])
      <3> DEFINE m == [mem[p] EXCEPT ![Current(p).buf] = "held"]
      <3>1. PassMem(p, m)
        BY <1>2, <1>3 DEF PassMem, Pointers
      <3>2. m \in Pointers /\ PassWith(p, m)
        BY <2>1, <2>3
      <3> HIDE DEF m
      <3> QED
        BY <1>1, <1>3, <2>1, <3>1, <3>2, PassIsMove
    <2> QED
      BY <1>8, <2>2, <2>3, ReadStreamMoves
  <1> QED
    BY <1>4, <1>5, <1>6, <1>7, <1>8

LEMMA OutputMoves ==
    ASSUME Base, NEW p \in Procs,
           \/ OpenOutput(p) \/ RefuseOutput(p) \/ WriteOutput(p) \/ WriteShort(p)
           \/ CloseOutput(p) \/ OutputFails(p) \/ WriteStream(p)
    PROVE  Rests(p) \/ StepPasses(p) \/ StepFails(p)
  <1>1. Wanted(p)
    BY DEF OpenOutput, RefuseOutput, WriteOutput, WriteShort, CloseOutput, OutputFails,
           WriteStream
  <1>2. Running(p) /\ Given(p, Current(p)) /\ Current(p).op = "write"
    BY <1>1, WantedFacts
  <1>3. Sets(Current(p)) = {} /\ Clears(Current(p)) = {} /\ PassHash(p) = hash[p]
    BY <1>2 DEF Sets, Clears, PassHash, HashAfter
  <1>4. mem[p] \in Pointers /\ PassMem(p, mem[p]) /\ FailMem(p, mem[p])
    BY <1>3, TypedParts DEF PassMem, FailMem
  <1>5. CASE OpenOutput(p) \/ WriteOutput(p)
    BY <1>5 DEF OpenOutput, WriteOutput, Rests
  <1>6. CASE CloseOutput(p) \/ WriteStream(p)
    <2>1. PassWith(p, mem[p]) /\ UNCHANGED hash
      BY <1>6 DEF CloseOutput, WriteStream
    <2> QED
      BY <1>2, <1>3, <1>4, <2>1, PassIsMove
  <1>7. CASE RefuseOutput(p) \/ OutputFails(p) \/ WriteShort(p)
    <2>1. FailWith(p, mem[p])
      BY <1>7 DEF RefuseOutput, OutputFails, WriteShort
    <2> QED
      BY <1>2, <1>4, <2>1, FailIsMove
  <1> QED
    BY <1>5, <1>6, <1>7

LEMMA EveryMove ==
    ASSUME Base, NEW p \in Procs, ProcStep(p)
    PROVE  Moves(p)
  <1>1. CASE Start(p)
    BY <1>1, StartMoves DEF Begins, Moves
  <1>2. CASE Kill(p)
    BY <1>2, KillMoves DEF Dies, Moves
  <1>3. CASE Skip(p)
    <2>1. /\ Running(p) /\ UNCHANGED hash
          /\ Given(p, Current(p)) => Current(p).op = "write" /\ mem[p][Current(p).buf] = "null"
      BY <1>3 DEF Skip
    <2> QED
      BY <1>3, <2>1, SkipMoves DEF Skips, Moves
  <1> QED
    BY <1>1, <1>2, <1>3, LocalMoves, InputMoves, OutputMoves DEF ProcStep, Moves

-----------------------------------------------------------------------------
(* Results.                                                                *)

\* The process runs its script, or has come to its end without an error.
OnCourse(p) == call[p].rc \in {"running", "success"}

LEMMA PassHashFields ==
    ASSUME Base, NEW p \in Procs, Running(p)
    PROVE  PassHash(p).failed = hash[p].failed
  <1>1. hash[p] \in Hashing
    BY TypedParts
  <1> QED
    BY <1>1 DEF PassHash, HashAfter, Hashing

FirmScripts == \A name \in Menu \ Forgiving : Firm(Scripts[name])

\* A failure was returned, or never happened.
Reported(p) ==
    OnCourse(p) /\ call[p].name \notin Forgiving => ~hash[p].failed

LEMMA FirmStep ==
    ASSUME FirmScripts, Base, NEW p \in Procs, Running(p), call[p].name \notin Forgiving
    PROVE  ~Current(p).lenient /\ ~Resumes(Current(p), call[p].asked)
  <1>1. /\ call[p].name \in Menu /\ call[p].asked \subseteq Scripts[call[p].name].opts
        /\ call[p].pc \in 1..Len(Scripts[call[p].name].steps)
        /\ Current(p) = Scripts[call[p].name].steps[call[p].pc]
    BY StepFacts DEF Current, Steps
  <1>2. Firm(Scripts[call[p].name])
    BY <1>1 DEF FirmScripts
  <1> QED
    BY <1>1, <1>2 DEF Firm, Resumes

LEMMA ReportedMoves ==
    ASSUME FirmScripts, Base, NEW p \in Procs, Moves(p), Reported(p)
    PROVE  Reported(p)'
  <1>1. CASE Begins(p)
    BY <1>1 DEF Begins, Reported, NoHash
  <1>2. CASE Dies(p)
    BY <1>2 DEF Dies, Reported, OnCourse
  <1>3. CASE Rests(p)
    BY <1>3 DEF Rests, Reported, OnCourse
  <1>4. CASE Skips(p)
    <2>1. Running(p) /\ call'[p].name = call[p].name /\ hash'[p] = hash[p]
      BY <1>4 DEF Skips, Arrives, Keeps
    <2> QED
      BY <2>1 DEF Reported, OnCourse, Running
  <1>5. CASE StepPasses(p)
    <2>1. Running(p) /\ Passes(p)
      BY <1>5 DEF StepPasses
    <2>2. call'[p].name = call[p].name
      BY <2>1, StaysInScript DEF Keeps
    <2>3. call[p].name \notin Forgiving => hash'[p].failed = hash[p].failed
      BY <1>5, <2>1, FirmStep, PassHashFields DEF StepPasses
    <2> QED
      BY <2>1, <2>2, <2>3 DEF Reported, OnCourse, Running
  <1>6. CASE StepFails(p)
    <2>1. Running(p) /\ Fails(p)
      BY <1>6 DEF StepFails
    <2>2. call'[p].name = call[p].name
      BY <2>1, StaysInScript DEF Keeps
    <2>3. call[p].name \notin Forgiving => call'[p].rc = "failure"
      BY <2>1, FirmStep DEF Fails, Returns
    <2> QED
      BY <2>2, <2>3 DEF Reported, OnCourse
  <1> QED
    BY <1>1, <1>2, <1>3, <1>4, <1>5, <1>6 DEF Moves

\* What a step does to control, the pointers and the hash of each process.
LEMMA MovesOrSame ==
    ASSUME Base, [Next]_vars, NEW q \in Procs
    PROVE  Moves(q) \/ (call'[q] = call[q] /\ mem'[q] = mem[q] /\ hash'[q] = hash[q])
  <1>1. CASE \E p \in Procs : ProcStep(p)
    <2>1. PICK p \in Procs : ProcStep(p)
      BY <1>1
    <2>2. Apart(p) /\ Moves(p)
      BY <2>1, ProcStepFits, EveryMove DEF StepFits
    <2> QED
      BY <2>2 DEF Apart
  <1>2. CASE ChangeInput
    BY <1>2, ChangeInputMoves
  <1>3. CASE UNCHANGED vars
    BY <1>3 DEF vars
  <1> QED
    BY <1>1, <1>2, <1>3, NextSteps

(***************************************************************************)
(* No function of lib/tpm2.c or tool of tools/fapi whose code checks every *)
(* call, as Firm can tell from its script, reports success after a call of *)
(* its own failed.                                                         *)
(***************************************************************************)
THEOREM ResultsHonest ==
    ASSUME FirmScripts
    PROVE  Spec => []HonestResult
  <1> DEFINE I == Base /\ \A p \in Procs : Reported(p)
  <1>1. Init => I
    <2> SUFFICES ASSUME Init PROVE I
      OBVIOUS
    <2>1. \A p \in Procs : Reported(p)
      BY DEF Init, Idle, Reported, OnCourse
    <2> QED
      BY <2>1, BaseInit
  <1>2. I /\ [Next]_vars => I'
    <2> SUFFICES ASSUME I, [Next]_vars PROVE I'
      OBVIOUS
    <2>1. ASSUME NEW p \in Procs PROVE Reported(p)'
      <3>1. CASE Moves(p)
        BY <3>1, ReportedMoves
      <3>2. CASE call'[p] = call[p] /\ hash'[p] = hash[p]
        BY <3>2 DEF Reported, OnCourse
      <3> QED
        BY <3>1, <3>2, MovesOrSame
    <2> QED
      BY <2>1, BaseNext
  <1>3. I => HonestResult
    BY DEF HonestResult, Succeeded, Reported, OnCourse
  <1> QED
    BY <1>1, <1>2, <1>3, PTL DEF Spec

-----------------------------------------------------------------------------
(* Frees.                                                                  *)

CleanScripts == \A name \in Menu : Clean(Scripts[name])

\* The steps of a script that is known to be well formed.
LEMMA ScriptSteps ==
    ASSUME NEW script, WellFormed(script), NEW k \in 1..Len(script.steps)
    PROVE  /\ Len(script.steps) \in Nat /\ k \in Nat
           /\ script.steps[k] \in Step
           /\ \A i \in 1..k : script.steps[i].resume \in Nat
  <1>1. script.steps \in Seq(Step)
    BY DEF WellFormed
  <1>2. Len(script.steps) \in Nat /\ \A i \in 1..Len(script.steps) : script.steps[i] \in Step
    BY <1>1
  <1> QED
    BY <1>2 DEF Step

\* What is dropped on the way to a step is dropped on the way to a later one.
LEMMA DropsLater ==
    ASSUME NEW s, NEW asked, s.resume \in Nat, NEW k \in Nat, NEW n \in Nat, k <= n
    PROVE  Drops(s, asked, k) \subseteq Drops(s, asked, n)
  BY DEF Drops

\* A pointer that is valid after step k was set by it, or was valid before it
\* and not freed.
LEMMA ValidAfter ==
    ASSUME NEW script, WellFormed(script), NEW k \in 1..Len(script.steps),
           NEW asked, NEW b, Valid(script, asked, b, k + 1)
    PROVE  \/ /\ Applies(script.steps[k], asked)
              /\ b \in Sets(script.steps[k]) \ script.steps[k].done
           \/ /\ Valid(script, asked, b, k)
              /\ b \notin Drops(script.steps[k], asked, k + 1)
  <1> DEFINE st == script.steps
  <1>1. k \in Nat /\ k + 1 \in Nat /\ \A i \in 1..k : st[i].resume \in Nat
    BY ScriptSteps
  <1> HIDE DEF st
  <1>2. \A i \in 1..(k - 1) : b \notin Drops(st[i], asked, k + 1) => b \notin Drops(st[i], asked, k)
    BY <1>1, DropsLater
  <1>3. CASE /\ b \notin script.wild
             /\ \A i \in 1..((k + 1) - 1) : b \notin Drops(st[i], asked, k + 1)
    <2>1. b \notin Drops(st[k], asked, k + 1)
      BY <1>1, <1>3
    <2>2. \A i \in 1..(k - 1) : b \notin Drops(st[i], asked, k)
      BY <1>1, <1>2, <1>3
    <2> QED
      BY <1>3, <2>1, <2>2 DEF Valid, st
  <1>4. CASE \E j \in 1..((k + 1) - 1) : SetBy(st, asked, b, j, k + 1)
    <2>1. PICK j \in 1..k : SetBy(st, asked, b, j, k + 1)
      BY <1>1, <1>4
    <2>2. CASE j = k
      BY <2>1, <2>2 DEF SetBy, st
    <2>3. CASE j < k
      <3>1. b \notin Drops(st[k], asked, k + 1)
        BY <1>1, <2>1, <2>3 DEF SetBy
      <3>2. \A i \in (j + 1)..(k - 1) : b \notin Drops(st[i], asked, k)
        BY <1>1, <1>2, <2>1, <2>3 DEF SetBy
      <3>3. \A m \in 1..j : Resumes(st[m], asked) => st[m].resume \notin (j + 1)..k
        BY <1>1, <2>1, <2>3 DEF SetBy
      <3>4. SetBy(st, asked, b, j, k)
        BY <2>1, <3>2, <3>3 DEF SetBy
      <3>5. j \in 1..(k - 1)
        BY <1>1, <2>3
      <3> QED
        BY <3>1, <3>4, <3>5 DEF Valid, st
    <2> QED
      BY <1>1, <2>2, <2>3
  <1> QED
    BY <1>3, <1>4 DEF Valid, st

\* A pointer that is valid where step k jumps to was valid at it and not freed.
LEMMA ValidAhead ==
    ASSUME NEW script, WellFormed(script), NEW k \in 1..Len(script.steps),
           NEW asked, NEW b, NEW r \in (k + 1)..Len(script.steps),
           Applies(script.steps[k], asked), Resumes(script.steps[k], asked),
           r = script.steps[k].resume, Valid(script, asked, b, r)
    PROVE  Valid(script, asked, b, k) /\ b \notin script.steps[k].lost
  <1> DEFINE st == script.steps
  <1>1. k \in Nat /\ Len(st) \in Nat /\ \A i \in 1..k : st[i].resume \in Nat
    BY ScriptSteps
  <1>2. r \in Nat /\ k < r
    BY <1>1
  <1>3. st[k].lost \subseteq Drops(st[k], asked, r)
    BY <1>2 DEF Drops
  <1>4. Applies(st[k], asked) /\ Resumes(st[k], asked) /\ st[k].resume = r
    OBVIOUS
  <1> HIDE DEF st
  <1>5. \A i \in 1..(k - 1) : b \notin Drops(st[i], asked, r) => b \notin Drops(st[i], asked, k)
    BY <1>1, <1>2, DropsLater
  <1>6. CASE /\ b \notin script.wild
             /\ \A i \in 1..(r - 1) : b \notin Drops(st[i], asked, r)
    <2>1. b \notin st[k].lost
      BY <1>1, <1>2, <1>3, <1>6
    <2>2. ASSUME NEW i \in 1..(k - 1) PROVE b \notin Drops(st[i], asked, k)
      <3>1. i \in 1..(r - 1)
        BY <1>1, <1>2
      <3> QED
        BY <1>5, <1>6, <3>1
    <2> QED
      BY <1>6, <2>1, <2>2 DEF Valid, st
  <1>7. CASE \E j \in 1..(r - 1) : SetBy(st, asked, b, j, r)
    <2>1. PICK j \in 1..(r - 1) : SetBy(st, asked, b, j, r)
      BY <1>7
    <2>2. j < k
      BY <1>1, <1>2, <1>4, <2>1 DEF SetBy
    <2>3. b \notin st[k].lost
      BY <1>1, <1>2, <1>3, <2>1, <2>2 DEF SetBy
    <2>4. \A i \in (j + 1)..(k - 1) : b \notin Drops(st[i], asked, k)
      BY <1>1, <1>2, <1>5, <2>1, <2>2 DEF SetBy
    <2>5. \A m \in 1..j : Resumes(st[m], asked) => st[m].resume \notin (j + 1)..k
      BY <1>1, <1>2, <2>1, <2>2 DEF SetBy
    <2>6. SetBy(st, asked, b, j, k)
      BY <2>1, <2>4, <2>5 DEF SetBy
    <2>7. j \in 1..(k - 1)
      BY <1>1, <2>2
    <2> QED
      BY <2>3, <2>6, <2>7 DEF Valid, st
  <1> QED
    BY <1>6, <1>7 DEF Valid, st

\* The heap is whole, and what the script takes for valid is valid.
Sane(p) ==
    /\ \A b \in Buffers : mem[p][b] # "broken"
    /\ Running(p) => \A b \in Buffers :
          Valid(Scripts[call[p].name], call[p].asked, b, call[p].pc) =>
              mem[p][b] \in {"held", "null"}

\* One free() of each of the pointers is clean, and leaves the others alone.
LEMMA FreedClean ==
    ASSUME NEW m \in Pointers, NEW bufs, NEW b \in Buffers, m[b] # "broken",
           b \in bufs => m[b] \in {"held", "null"}
    PROVE  Freed(m, bufs)[b] # "broken" /\ (b \notin bufs => Freed(m, bufs)[b] = m[b])
  BY DEF Freed, Pointers, MemStates

LEMMA CleanStep ==
    ASSUME CleanScripts, Base, NEW p \in Procs, Running(p)
    PROVE  FreesClean(Scripts[call[p].name], call[p].asked, call[p].pc)
  <1>1. /\ call[p].name \in Menu /\ call[p].asked \subseteq Scripts[call[p].name].opts
        /\ call[p].pc \in 1..Len(Scripts[call[p].name].steps)
    BY StepFacts DEF Steps
  <1> QED
    BY <1>1 DEF CleanScripts, Clean

LEMMA SaneMoves ==
    ASSUME CleanScripts, Base, NEW p \in Procs, Moves(p), Sane(p)
    PROVE  Sane(p)'
  <1> DEFINE sc == Scripts[call[p].name]
             as == call[p].asked
             k == call[p].pc
             s == sc.steps[k]
  <1>0. mem[p] \in Pointers
    BY TypedParts
  <1>1. CASE Begins(p)
    <2> DEFINE sd == Scripts[call'[p].name]
    <2>1. mem'[p] = [b \in Buffers |-> IF b \in sd.wild THEN "wild" ELSE "null"]
          /\ call'[p].pc = 1
      BY <1>1 DEF Begins
    <2>2. \A b \in Buffers : Valid(sd, call'[p].asked, b, 1) => b \notin sd.wild
      BY DEF Valid
    <2> HIDE DEF sd
    <2>3. \A b \in Buffers :
             /\ mem'[p][b] # "broken"
             /\ Valid(sd, call'[p].asked, b, call'[p].pc) => mem'[p][b] \in {"held", "null"}
      BY <2>1, <2>2
    <2> QED
      BY <2>3 DEF Sane, sd
  <1>2. CASE Dies(p)
    BY <1>2 DEF Dies, Sane, Running
  <1>3. CASE Rests(p)
    BY <1>0, <1>3 DEF Rests, Sane, Running, Pointers
  <1>4. ASSUME Running(p)
        PROVE  /\ WellFormed(sc) /\ k \in 1..Len(sc.steps) /\ Len(sc.steps) \in Nat
               /\ Current(p) = s /\ FreesClean(sc, as, k)
               /\ Given(p, Current(p)) = Applies(s, as)
    BY <1>4, StepFacts, CleanStep DEF Current, Steps, Given, Applies
  <1>5. ASSUME Running(p), Keeps(p)
        PROVE  call'[p].name = call[p].name /\ call'[p].asked = call[p].asked
    BY <1>5 DEF Keeps
  <1>6. ASSUME Running(p), NEW b \in Buffers
        PROVE  mem[p][b] # "broken" /\ (Valid(sc, as, b, k) => mem[p][b] \in {"held", "null"})
    BY <1>6 DEF Sane
  <1> HIDE DEF sc, as, k, s
  <1>7. ASSUME Keeps(p), call'[p].rc = "running" => call'[p].pc \in Nat,
               \A b \in Buffers : mem'[p][b] # "broken",
               call'[p].rc = "running" =>
                   \A b \in Buffers :
                       Valid(sc, as, b, call'[p].pc) => mem'[p][b] \in {"held", "null"}
        PROVE  Sane(p)'
    BY <1>7 DEF Sane, Running, Keeps, sc, as
  <1>8. CASE Skips(p)
    <2> DEFINE frees == IF Current(p).op = "write" THEN Current(p).done ELSE {}
    <2>1. /\ Running(p) /\ Arrives(p, k + 1) /\ mem'[p] = Freed(mem[p], frees)
          /\ Given(p, Current(p)) => Current(p).op = "write"
      BY <1>8 DEF Skips, k
    <2>2. frees = IF s.op = "write" THEN s.done ELSE {}
      BY <1>4, <2>1
    <2> HIDE DEF frees
    <2>3. \A b \in Buffers : b \in frees => Valid(sc, as, b, k)
      BY <1>4, <2>1, <2>2 DEF FreesClean, s
    <2>4. frees \subseteq Drops(s, as, k + 1)
      BY <1>4, <2>1, <2>2 DEF Drops
    <2>5. \A b \in Buffers : /\ mem'[p][b] # "broken"
                             /\ b \notin frees => mem'[p][b] = mem[p][b]
      <3>1. \A b \in Buffers : /\ mem[p][b] # "broken"
                               /\ b \in frees => mem[p][b] \in {"held", "null"}
        BY <1>6, <2>1, <2>3
      <3> QED
        BY <1>0, <2>1, <3>1, FreedClean
    <2>6. ASSUME NEW b \in Buffers, Valid(sc, as, b, k + 1)
          PROVE  mem'[p][b] \in {"held", "null"}
      <3>1. ~(Applies(s, as) /\ b \in Sets(s) \ s.done)
        BY <1>4, <2>1 DEF Sets
      <3>2. Valid(sc, as, b, k) /\ b \notin Drops(s, as, k + 1)
        BY <1>4, <2>1, <2>6, <3>1, ValidAfter DEF s
      <3> QED
        BY <1>6, <2>1, <2>4, <2>5, <3>2
    <2>7. Keeps(p) /\ call'[p].pc = k + 1 /\ k + 1 \in Nat
      BY <1>4, <2>1 DEF Arrives
    <2> QED
      BY <1>7, <2>5, <2>6, <2>7
  <1>9. CASE StepPasses(p)
    <2>1. PICK m \in Pointers : PassMem(p, m) /\ mem'[p] = Freed(m, s.done)
      BY <1>4, <1>9 DEF StepPasses
    <2>2. Running(p) /\ Applies(s, as) /\ Passes(p)
      BY <1>4, <1>9 DEF StepPasses
    <2>3. \A b \in Buffers : IF b \in Sets(s) THEN m[b] \in {"held", "null"} ELSE m[b] = mem[p][b]
      BY <1>4, <2>1, <2>2 DEF PassMem
    <2>4. \A b \in Buffers : b \in s.done => b \in Sets(s) \/ Valid(sc, as, b, k)
      BY <1>4, <2>2 DEF FreesClean, s
    <2>5. \A b \in Buffers : m[b] # "broken" /\ (b \in s.done => m[b] \in {"held", "null"})
      BY <1>6, <2>2, <2>3, <2>4
    <2>6. \A b \in Buffers : /\ mem'[p][b] # "broken"
                             /\ b \notin s.done => mem'[p][b] = m[b]
      BY <2>1, <2>5, FreedClean
    <2>7. s.done \subseteq Drops(s, as, k + 1)
      BY <2>2 DEF Drops
    <2>8. ASSUME NEW b \in Buffers, Valid(sc, as, b, k + 1)
          PROVE  mem'[p][b] \in {"held", "null"}
      <3>1. CASE b \in Sets(s) \ s.done
        BY <2>3, <2>6, <3>1
      <3>2. CASE Valid(sc, as, b, k) /\ b \notin Drops(s, as, k + 1)
        BY <1>6, <2>2, <2>3, <2>6, <2>7, <3>2
      <3> QED
        BY <1>4, <2>2, <2>8, <3>1, <3>2, ValidAfter DEF s
    <2>9. Keeps(p) /\ (call'[p].rc = "running" => call'[p].pc = k + 1) /\ k + 1 \in Nat
      BY <1>4, <2>2 DEF Passes, Arrives, Returns, k
    <2> QED
      BY <1>7, <2>6, <2>8, <2>9
  <1>10. CASE StepFails(p)
    <2>1. PICK m \in Pointers : FailMem(p, m) /\ mem'[p] = Freed(m, s.lost)
      BY <1>4, <1>10 DEF StepFails
    <2>2. Running(p) /\ Applies(s, as) /\ Fails(p)
      BY <1>4, <1>10 DEF StepFails
    <2>3. \A b \in Buffers :
             IF b \in Clears(s) THEN m[b] = "null"
             ELSE m[b] = mem[p][b] \/ (s.op = "read" /\ b = s.buf /\ m[b] = "freed")
      BY <1>4, <2>1, <2>2 DEF FailMem
    <2>4. /\ \A b \in Buffers : b \in s.lost => b \in Clears(s) \/ Valid(sc, as, b, k)
          /\ s.op = "read" => s.buf \notin s.lost /\ ~Resumes(s, as)
      BY <1>4, <2>2 DEF FreesClean, s
    <2>5. \A b \in Buffers : m[b] # "broken" /\ (b \in s.lost => m[b] \in {"held", "null"})
      BY <1>6, <2>2, <2>3, <2>4
    <2>6. \A b \in Buffers : /\ mem'[p][b] # "broken"
                             /\ b \notin s.lost => mem'[p][b] = m[b]
      BY <2>1, <2>5, FreedClean
    <2>7. CASE Resumes(s, as)
      <3>1. Arrives(p, s.resume) /\ s.resume \in (k + 1)..Len(sc.steps)
        <4>1. s.resume # 0
          BY <2>7 DEF Resumes
        <4> QED
          BY <1>4, <2>2, <2>7, <4>1 DEF Fails, WellFormed, s, as
      <3>2. ASSUME NEW b \in Buffers, Valid(sc, as, b, s.resume)
            PROVE  mem'[p][b] \in {"held", "null"}
        <4>1. Valid(sc, as, b, k) /\ b \notin s.lost
          BY <1>4, <2>2, <2>7, <3>1, <3>2, ValidAhead DEF s
        <4> QED
          BY <1>6, <2>2, <2>3, <2>4, <2>6, <2>7, <4>1
      <3>3. Keeps(p) /\ call'[p].pc = s.resume /\ s.resume \in Nat
        BY <1>4, <2>2, <3>1 DEF Arrives
      <3> QED
        BY <1>7, <2>6, <3>2, <3>3
    <2>8. CASE ~Resumes(s, as)
      <3>1. Returns(p, "failure")
        BY <1>4, <2>2, <2>8 DEF Fails, as
      <3>2. Keeps(p) /\ call'[p].rc # "running"
        BY <3>1 DEF Returns
      <3> QED
        BY <1>7, <2>6, <3>2
    <2> QED
      BY <2>7, <2>8
  <1> QED
    BY <1>1, <1>2, <1>3, <1>8, <1>9, <1>10 DEF Moves

(***************************************************************************)
(* No error path of lib/tpm2.c or tools/fapi frees a pointer twice or one  *)
(* that was never set, whichever calls fail and whatever options are given,*)
(* where each free() of the script meets a valid pointer (Clean).          *)
(***************************************************************************)
THEOREM FreesAreClean ==
    ASSUME CleanScripts
    PROVE  Spec => []CleanFrees
  <1> DEFINE I == Base /\ \A p \in Procs : Sane(p)
  <1>1. Init => I
    <2> SUFFICES ASSUME Init PROVE I
      OBVIOUS
    <2>1. \A p \in Procs : Sane(p)
      BY DEF Init, Idle, Sane, Running
    <2> QED
      BY <2>1, BaseInit
  <1>2. I /\ [Next]_vars => I'
    <2> SUFFICES ASSUME I, [Next]_vars PROVE I'
      OBVIOUS
    <2>1. ASSUME NEW p \in Procs PROVE Sane(p)'
      <3>1. CASE Moves(p)
        BY <3>1, SaneMoves
      <3>2. CASE call'[p] = call[p] /\ mem'[p] = mem[p]
        BY <3>2 DEF Sane, Running
      <3> QED
        BY <3>1, <3>2, MovesOrSame
    <2> QED
      BY <2>1, BaseNext
  <1>3. I => CleanFrees
    BY DEF CleanFrees, Sane
  <1> QED
    BY <1>1, <1>2, <1>3, PTL DEF Spec

-----------------------------------------------------------------------------
(* Names.                                                                  *)

TidyNameScripts == \A name \in Menu : TidyNames(Scripts[name])

\* Only the names the script may hold are held, and none at the end.
NamesKnown(p) ==
    /\ Running(p) => \A b \in Upto(Names, 3) :
          mem[p][b] = "held" => b \in HeldNames(Scripts[call[p].name], call[p].asked, call[p].pc)
    /\ Ended(p) => \A b \in Upto(Names, 3) : mem[p][b] # "held"

LEMMA NamesAreBuffers == Upto(Names, 3) \subseteq Buffers
  BY DEF Upto, Buffers

\* A pointer that is held after free() was held before, and not freed.
LEMMA FreedHeld ==
    ASSUME NEW m \in Pointers, NEW bufs, NEW b \in Buffers, Freed(m, bufs)[b] = "held"
    PROVE  m[b] = "held" /\ b \notin bufs
  BY DEF Freed, Pointers, MemStates

\* A name that a step does not free stays on the list, and a new one is added.
LEMMA HeldOn ==
    ASSUME NEW script, WellFormed(script), NEW k \in 1..Len(script.steps), NEW asked,
           NEW b \in Upto(Names, 3), Applies(script.steps[k], asked) => b \notin script.steps[k].done,
           \/ b \in HeldNames(script, asked, k)
           \/ Applies(script.steps[k], asked) /\ script.steps[k].op = "name"
                 /\ script.steps[k].buf = b
    PROVE  b \in HeldNames(script, asked, k + 1)
  <1>1. k \in Nat
    BY ScriptSteps
  <1> DEFINE st == script.steps
             Free(j, n) == \A i \in j..(n - 1) : Applies(st[i], asked) => b \notin st[i].done
             Named(j) == Applies(st[j], asked) /\ st[j].op = "name" /\ st[j].buf = b
  <1>2. \A n : b \in HeldNames(script, asked, n) <=> \E j \in 1..(n - 1) : Named(j) /\ Free(j, n)
    BY DEF HeldNames
  <1>3. PICK j \in 1..k : Named(j) /\ Free(j, k)
    <2>1. CASE b \in HeldNames(script, asked, k)
      <3>1. PICK j \in 1..(k - 1) : Named(j) /\ Free(j, k)
        BY <1>2, <2>1
      <3> QED
        BY <1>1, <3>1
    <2>2. CASE Named(k)
      <3>1. Free(k, k)
        BY <1>1
      <3> QED
        BY <1>1, <2>2, <3>1
    <2> QED
      BY <2>1, <2>2
  <1>4. Free(j, k + 1)
    <2> SUFFICES ASSUME NEW i \in j..((k + 1) - 1), Applies(st[i], asked)
                 PROVE  b \notin st[i].done
      OBVIOUS
    <2>1. i = k \/ i \in j..(k - 1)
      BY <1>1, <1>3
    <2> QED
      BY <1>3, <2>1
  <1>5. j \in 1..((k + 1) - 1)
    BY <1>1, <1>3
  <1> HIDE DEF Free, Named
  <1> QED
    BY <1>2, <1>3, <1>4, <1>5

LEMMA TidyStep ==
    ASSUME TidyNameScripts, Base, NEW p \in Procs, Running(p)
    PROVE  /\ ExitsTidy(Scripts[call[p].name], call[p].asked, call[p].pc)
           /\ HeldNames(Scripts[call[p].name], call[p].asked,
                        Len(Scripts[call[p].name].steps) + 1) = {}
  <1>1. /\ call[p].name \in Menu /\ call[p].asked \subseteq Scripts[call[p].name].opts
        /\ call[p].pc \in 1..Len(Scripts[call[p].name].steps)
    BY StepFacts DEF Steps
  <1> QED
    BY <1>1 DEF TidyNameScripts, TidyNames

LEMMA NamesKnownMoves ==
    ASSUME TidyNameScripts, Base, NEW p \in Procs, Moves(p), NamesKnown(p)
    PROVE  NamesKnown(p)'
  <1> DEFINE sc == Scripts[call[p].name]
             as == call[p].asked
             k == call[p].pc
             s == sc.steps[k]
             N == Upto(Names, 3)
  <1>0. mem[p] \in Pointers /\ N \subseteq Buffers
    BY TypedParts, NamesAreBuffers
  <1>1. CASE Begins(p)
    BY <1>0, <1>1 DEF Begins, NamesKnown, Ended
  <1>2. CASE Dies(p)
    BY <1>2 DEF Dies, NamesKnown, Running, Ended
  <1>4. ASSUME Running(p)
        PROVE  /\ WellFormed(sc) /\ k \in 1..Len(sc.steps) /\ Len(sc.steps) \in Nat
               /\ Current(p) = s
               /\ Given(p, Current(p)) = Applies(s, as)
               /\ Applies(s, as) => HeldNames(sc, as, k) \subseteq s.lost \cup Clears(s)
               /\ Applies(s, as) /\ Stops(s, as) =>
                     s.op # "name" /\ HeldNames(sc, as, k) \subseteq s.done
               /\ s.op # "name" => Sets(s) \cap N = {}
               /\ HeldNames(sc, as, Len(sc.steps) + 1) = {}
    BY <1>4, StepFacts, TidyStep DEF Current, Steps, Given, Applies, ExitsTidy
  <1>5. ASSUME Running(p), Keeps(p)
        PROVE  call'[p].name = call[p].name /\ call'[p].asked = call[p].asked
    BY <1>5 DEF Keeps
  <1>6. ASSUME Running(p), NEW b \in N, mem[p][b] = "held"
        PROVE  b \in HeldNames(sc, as, k)
    BY <1>6 DEF NamesKnown
  <1> HIDE DEF sc, as, k, s, N
  <1>7. ASSUME Running(p), Keeps(p),
               \A b \in N : mem'[p][b] # "held"
        PROVE  NamesKnown(p)'
    BY <1>7 DEF NamesKnown, N
  <1>8. ASSUME Running(p), Arrives(p, k + 1),
               \A b \in N : mem'[p][b] = "held" => b \in HeldNames(sc, as, k + 1)
        PROVE  NamesKnown(p)'
    <2>1. Keeps(p) /\ call'[p].pc = k + 1
          /\ call'[p].rc = IF k + 1 > Len(sc.steps) THEN "success" ELSE "running"
      BY <1>8 DEF Arrives, Steps, sc
    <2>2. CASE k + 1 > Len(sc.steps)
      <3>1. k + 1 = Len(sc.steps) + 1
        BY <1>4, <1>8, <2>2
      <3> QED
        BY <1>4, <1>7, <1>8, <2>1, <3>1
    <2>3. CASE ~(k + 1 > Len(sc.steps))
      BY <1>5, <1>8, <2>1, <2>3 DEF NamesKnown, Ended, N, sc, as
    <2> QED
      BY <2>2, <2>3
  <1>3. CASE Rests(p)
    <2>1. ASSUME NEW b \in N PROVE mem'[p][b] = mem[p][b]
      <3>1. CASE mem'[p] = mem[p]
        BY <3>1
      <3>2. CASE Running(p) /\ s.op = "read" /\ mem'[p] = [mem[p] EXCEPT ![s.buf] = "held"]
        <4>1. s.buf \in Sets(s) /\ s.op # "name"
          BY <3>2 DEF Sets
        <4>2. b # s.buf
          BY <1>4, <3>2, <4>1
        <4> QED
          BY <1>0, <3>2, <4>2 DEF Pointers
      <3> QED
        BY <1>3, <1>4, <3>1, <3>2 DEF Rests
    <2> QED
      BY <1>3, <2>1 DEF Rests, NamesKnown, Running, Ended, N
  <1>9. CASE Skips(p)
    <2> DEFINE frees == IF Current(p).op = "write" THEN Current(p).done ELSE {}
    <2>1. /\ Running(p) /\ Arrives(p, k + 1) /\ mem'[p] = Freed(mem[p], frees)
          /\ Given(p, Current(p)) => Current(p).op = "write"
      BY <1>9 DEF Skips, k
    <2>2. Applies(s, as) => frees = s.done
      BY <1>4, <2>1
    <2> HIDE DEF frees
    <2>3. ASSUME NEW b \in N, mem'[p][b] = "held"
          PROVE  b \in HeldNames(sc, as, k + 1)
      <3>1. mem[p][b] = "held" /\ b \notin frees
        BY <1>0, <2>1, <2>3, FreedHeld
      <3>2. b \in HeldNames(sc, as, k)
        BY <1>6, <2>1, <3>1
      <3> QED
        BY <1>4, <2>1, <2>2, <3>1, <3>2, HeldOn DEF s, N
    <2> QED
      BY <1>8, <2>1, <2>3
  <1>10. CASE StepPasses(p)
    <2>1. PICK m \in Pointers : PassMem(p, m) /\ mem'[p] = Freed(m, s.done)
      BY <1>4, <1>10 DEF StepPasses
    <2>2. Running(p) /\ Applies(s, as) /\ Passes(p)
      BY <1>4, <1>10 DEF StepPasses
    <2>3. ASSUME NEW b \in N, mem'[p][b] = "held"
          PROVE  b \notin s.done /\ (b \in HeldNames(sc, as, k) \/ (s.op = "name" /\ s.buf = b))
      <3>1. m[b] = "held" /\ b \notin s.done
        BY <1>0, <2>1, <2>3, FreedHeld
      <3>2. CASE b \in Sets(s)
        BY <1>4, <2>2, <3>1, <3>2 DEF Sets
      <3>3. CASE b \notin Sets(s)
        <4>1. mem[p][b] = "held"
          BY <1>0, <1>4, <2>1, <2>2, <3>1, <3>3 DEF PassMem
        <4> QED
          BY <1>6, <2>2, <3>1, <4>1
      <3> QED
        BY <3>2, <3>3
    <2>4. CASE Stops(s, as)
      <3>1. Returns(p, "success")
        BY <1>4, <2>2, <2>4 DEF Passes, Stops, as
      <3>2. Keeps(p)
        BY <3>1 DEF Returns
      <3>3. \A b \in N : mem'[p][b] # "held"
        BY <1>4, <2>2, <2>3, <2>4
      <3> QED
        BY <1>7, <2>2, <3>2, <3>3
    <2>5. CASE ~Stops(s, as)
      <3>1. Arrives(p, k + 1)
        BY <1>4, <2>2, <2>5 DEF Passes, Stops, as, k
      <3>2. ASSUME NEW b \in N, mem'[p][b] = "held"
            PROVE  b \in HeldNames(sc, as, k + 1)
        BY <1>4, <2>2, <2>3, <3>2, HeldOn DEF s, N
      <3> QED
        BY <1>8, <2>2, <3>1, <3>2
    <2> QED
      BY <2>4, <2>5
  <1>11. CASE StepFails(p)
    <2>1. PICK m \in Pointers : FailMem(p, m) /\ mem'[p] = Freed(m, s.lost)
      BY <1>4, <1>11 DEF StepFails
    <2>2. Running(p) /\ Applies(s, as) /\ Fails(p)
      BY <1>4, <1>11 DEF StepFails
    <2>3. ASSUME NEW b \in N PROVE mem'[p][b] # "held"
      <3> SUFFICES ASSUME mem'[p][b] = "held" PROVE FALSE
        OBVIOUS
      <3>1. m[b] = "held" /\ b \notin s.lost
        BY <1>0, <2>1, FreedHeld
      <3>2. b \notin Clears(s) /\ mem[p][b] = "held"
        BY <1>0, <1>4, <2>1, <2>2, <3>1 DEF FailMem
      <3> QED
        BY <1>4, <1>6, <2>2, <3>1, <3>2
    <2>4. Keeps(p)
      BY <2>2 DEF Fails, Arrives, Returns
    <2> QED
      BY <1>7, <2>2, <2>3, <2>4
  <1> QED
    BY <1>1, <1>2, <1>3, <1>9, <1>10, <1>11 DEF Moves

(***************************************************************************)
(* Whichever call fails, a function of lib/tpm2.c that returns has freed   *)
(* every name it got from ESAPI, where each exit of its script frees the   *)
(* names it may hold (TidyNames).                                          *)
(***************************************************************************)
THEOREM NoNameLeft ==
    ASSUME TidyNameScripts
    PROVE  Spec => []NothingLeft
  <1> DEFINE I == Base /\ \A p \in Procs : NamesKnown(p)
  <1>1. Init => I
    <2> SUFFICES ASSUME Init PROVE I
      OBVIOUS
    <2>1. \A p \in Procs : NamesKnown(p)
      BY DEF Init, Idle, NamesKnown, Running, Ended
    <2> QED
      BY <2>1, BaseInit
  <1>2. I /\ [Next]_vars => I'
    <2> SUFFICES ASSUME I, [Next]_vars PROVE I'
      OBVIOUS
    <2>1. ASSUME NEW p \in Procs PROVE NamesKnown(p)'
      <3>1. CASE Moves(p)
        BY <3>1, NamesKnownMoves
      <3>2. CASE call'[p] = call[p] /\ mem'[p] = mem[p]
        BY <3>2 DEF NamesKnown, Running, Ended
      <3> QED
        BY <3>1, <3>2, MovesOrSame
    <2> QED
      BY <2>1, BaseNext
  <1>3. I => NothingLeft
    BY DEF NothingLeft, NamesKnown
  <1> QED
    BY <1>1, <1>2, <1>3, PTL DEF Spec

-----------------------------------------------------------------------------
(* Hashes.                                                                 *)

HashScripts == \A name \in Menu \ Forgiving : Hashes(Scripts[name])

\* What a call that passed does to the SAPI context: h before it, g after it.
After(h, g, s) ==
    /\ g.sent <=> h.sent \/ s.op = "dispatch"
    /\ s.op = "prepare" => g.sys = "prepared" /\ g.cp = <<>>
    /\ s.op = "dispatch" => g.sys = "response"
    /\ s.op \notin {"public", "prepare", "dispatch"} => g.sys = h.sys
    /\ s.op = "name" => g.cp = h.cp \o s.of
    /\ s.op \notin {"prepare", "name"} => g.cp = h.cp
    /\ g.cpOf = IF s.op = "cphash" THEN h.sys ELSE h.cpOf
    /\ g.rpOf = IF s.op = "rphash" THEN h.sys ELSE h.rpOf

\* The names of the handles of steps j + 1 to n are hashed, in their order.
NamesSoFar(steps, h, j, n) ==
    Len(h.cp) = n - j /\ \A m \in 1..(n - j) : h.cp[m] = steps[j + m].of[1]
\* After n steps, where the parameters are prepared at j and hashed at c.
CommandSoFar(steps, h, j, c, n) ==
    /\ n \in j..(c - 1) => h.sys = "prepared" /\ NamesSoFar(steps, h, j, n)
    /\ n >= c => h.cpOf = "prepared" /\ NamesSoFar(steps, h, j, c - 1)
\* After n steps, where the command is sent at d and its response hashed at r.
ResponseSoFar(h, d, r, n) ==
    (n >= d => h.sys = "response") /\ (n >= r => h.rpOf = "response")
SoFar(script, asked, h, n) ==
    LET places == 1..Len(script.steps)
    IN  /\ h.sent <=> \E i \in 1..n : Calls(script, asked, i, "dispatch")
        /\ \A j, c \in places :
              HashesCommand(script, asked, j, c) => CommandSoFar(script.steps, h, j, c, n)
        /\ \A d, r \in places :
              HashesResponse(script, asked, d, r) => ResponseSoFar(h, d, r, n)

LEMMA PassHashAfter ==
    ASSUME Base, NEW p \in Procs, Running(p)
    PROVE  PassHash(p) \in Hashing /\ After(hash[p], PassHash(p), Current(p))
  <1>1. hash[p] \in Hashing
    BY TypedParts
  <1>2. PassHash(p) \in Hashing
    <2>1. CASE Current(p).op = "dispatch"
      BY <1>1, <2>1 DEF PassHash, Hashing, SysStates
    <2>2. CASE Current(p).op # "dispatch"
      BY <2>2, HashAfterType DEF PassHash
    <2> QED
      BY <2>1, <2>2
  <1>3. After(hash[p], PassHash(p), Current(p))
    BY <1>1 DEF PassHash, HashAfter, Hashing, After
  <1> QED
    BY <1>2, <1>3

\* A name is added behind the others.
LEMMA OneMore ==
    ASSUME NEW S, NEW a \in Seq(S), NEW b \in Seq(S), Len(b) = 1
    PROVE  /\ Len(a \o b) = Len(a) + 1
           /\ (a \o b)[Len(a) + 1] = b[1]
           /\ \A m \in 1..Len(a) : (a \o b)[m] = a[m]
  <1>1. Len(a) \in Nat
    OBVIOUS
  <1>2. Len(a \o b) = Len(a) + Len(b)
    BY ConcatProperties
  <1>3. \A m \in 1..(Len(a) + Len(b)) : (a \o b)[m] = IF m <= Len(a) THEN a[m] ELSE b[m - Len(a)]
    BY ConcatProperties
  <1>4. Len(a) + Len(b) = Len(a) + 1
    OBVIOUS
  <1> DEFINE n == Len(a)
             ab == a \o b
  <1>5. n \in Nat /\ Len(ab) = n + 1
    BY <1>1, <1>2, <1>4
  <1>6. \A m \in 1..(n + 1) : ab[m] = IF m <= n THEN a[m] ELSE b[m - n]
    BY <1>3, <1>4
  <1> SUFFICES Len(ab) = n + 1 /\ ab[n + 1] = b[1] /\ \A m \in 1..n : ab[m] = a[m]
    OBVIOUS
  <1> HIDE DEF n, ab
  <1>7. n + 1 \in 1..(n + 1) /\ ~(n + 1 <= n) /\ (n + 1) - n = 1
    BY <1>5
  <1>8. ab[n + 1] = b[1]
    BY <1>6, <1>7
  <1> QED
    BY <1>5, <1>6, <1>8

LEMMA CommandOn ==
    ASSUME NEW script, WellFormed(script), NEW asked,
           NEW k \in 1..Len(script.steps),
           NEW h \in Hashing, NEW g \in Hashing,
           IF Applies(script.steps[k], asked) THEN After(h, g, script.steps[k]) ELSE g = h,
           NEW j \in 1..Len(script.steps), NEW c \in 1..Len(script.steps),
           HashesCommand(script, asked, j, c),
           CommandSoFar(script.steps, h, j, c, k - 1)
    PROVE  CommandSoFar(script.steps, g, j, c, k)
  <1> DEFINE st == script.steps
             s == st[k]
  <1>1. k \in Nat /\ j \in Nat /\ c \in Nat /\ j < c /\ Len(st) \in Nat /\ s \in Step
    BY ScriptSteps DEF HashesCommand
  <1>2. h.cp \in Seq(Handles) /\ s.of \in Seq(Handles)
    BY <1>1 DEF Hashing, Step
  <1>3. /\ s.op = "prepare" /\ Applies(s, asked) => k = j
        /\ s.op = "cphash" /\ Applies(s, asked) => k = c
        /\ (s.op = "name" /\ Applies(s, asked)) <=> k \in (j + 1)..(c - 1)
        /\ k \in (j + 1)..(c - 1) => Len(s.of) = 1
        /\ k = j => s.op = "prepare" /\ Applies(s, asked)
        /\ k = c => s.op = "cphash" /\ Applies(s, asked)
    BY DEF HashesCommand, Calls
  <1>4. IF Applies(s, asked) THEN After(h, g, s) ELSE g = h
    OBVIOUS
  <1>5. /\ k - 1 \in j..(c - 1) => h.sys = "prepared" /\ NamesSoFar(st, h, j, k - 1)
        /\ k - 1 >= c => h.cpOf = "prepared" /\ NamesSoFar(st, h, j, c - 1)
    BY DEF CommandSoFar
  <1> SUFFICES
        /\ k \in j..(c - 1) => g.sys = "prepared" /\ NamesSoFar(st, g, j, k)
        /\ k >= c => g.cpOf = "prepared" /\ NamesSoFar(st, g, j, c - 1)
    BY DEF CommandSoFar
  <1>6. s.of = st[k].of
    OBVIOUS
  <1> HIDE DEF st, s
  <1>7. CASE k < j
    BY <1>1, <1>7
  <1>8. CASE k = j
    <2>1. g.sys = "prepared" /\ g.cp = <<>>
      BY <1>3, <1>4, <1>8 DEF After
    <2>2. NamesSoFar(st, g, j, k)
      BY <1>1, <1>8, <2>1 DEF NamesSoFar
    <2> QED
      BY <1>1, <1>8, <2>1, <2>2
  <1>9. CASE k \in (j + 1)..(c - 1)
    <2>1. k - 1 \in j..(c - 1)
      BY <1>1, <1>9
    <2>2. h.sys = "prepared" /\ Len(h.cp) = (k - 1) - j
          /\ \A m \in 1..((k - 1) - j) : h.cp[m] = st[j + m].of[1]
      BY <1>5, <2>1 DEF NamesSoFar
    <2>3. g.sys = h.sys /\ g.cp = h.cp \o s.of /\ Len(s.of) = 1
      BY <1>3, <1>4, <1>9 DEF After
    <2>4. /\ Len(h.cp \o s.of) = Len(h.cp) + 1
          /\ (h.cp \o s.of)[Len(h.cp) + 1] = s.of[1]
          /\ \A m \in 1..Len(h.cp) : (h.cp \o s.of)[m] = h.cp[m]
      BY <1>2, <2>3, OneMore
    <2>5. /\ Len(g.cp) = k - j /\ g.cp[k - j] = s.of[1]
          /\ \A m \in 1..((k - 1) - j) : g.cp[m] = h.cp[m]
      <3>1. ((k - 1) - j) + 1 = k - j
        BY <1>1
      <3> QED
        BY <2>2, <2>3, <2>4, <3>1
    <2>7. ASSUME NEW m \in 1..(k - j) PROVE g.cp[m] = st[j + m].of[1]
      <3>1. CASE m = k - j
        <4>1. j + m = k
          BY <1>1, <3>1
        <4> QED
          BY <1>6, <2>5, <3>1, <4>1
      <3>2. CASE m # k - j
        <4>1. m \in 1..((k - 1) - j)
          BY <1>1, <3>2
        <4> QED
          BY <2>2, <2>5, <4>1
      <3> QED
        BY <3>1, <3>2
    <2>6. NamesSoFar(st, g, j, k)
      BY <2>5, <2>7 DEF NamesSoFar
    <2> QED
      BY <1>1, <1>9, <2>2, <2>3, <2>6
  <1>10. CASE k = c
    <2>1. k - 1 \in j..(c - 1) /\ k - 1 = c - 1
      BY <1>1, <1>10
    <2>2. g.cpOf = h.sys /\ g.cp = h.cp
      BY <1>3, <1>4, <1>10 DEF After
    <2>3. g.cpOf = "prepared" /\ NamesSoFar(st, g, j, c - 1)
      BY <1>5, <2>1, <2>2 DEF NamesSoFar
    <2> QED
      BY <1>1, <1>10, <2>3
  <1>11. CASE k > c
    <2>1. k - 1 >= c
      BY <1>1, <1>11
    <2>2. g.cpOf = h.cpOf /\ g.cp = h.cp
      <3>1. CASE ~Applies(s, asked)
        BY <1>4, <3>1
      <3>2. CASE Applies(s, asked)
        <4>1. s.op \notin {"prepare", "name", "cphash"}
          BY <1>1, <1>3, <1>11, <3>2
        <4> QED
          BY <1>4, <3>2, <4>1 DEF After
      <3> QED
        BY <3>1, <3>2
    <2>3. g.cpOf = "prepared" /\ NamesSoFar(st, g, j, c - 1)
      BY <1>5, <2>1, <2>2 DEF NamesSoFar
    <2> QED
      BY <1>1, <1>11, <2>3
  <1> QED
    BY <1>1, <1>7, <1>8, <1>9, <1>10, <1>11

LEMMA ResponseOn ==
    ASSUME NEW script, WellFormed(script), NEW asked,
           NEW k \in 1..Len(script.steps), NEW h, NEW g,
           IF Applies(script.steps[k], asked) THEN After(h, g, script.steps[k]) ELSE g = h,
           NEW d \in 1..Len(script.steps), NEW r \in 1..Len(script.steps),
           HashesResponse(script, asked, d, r), ResponseSoFar(h, d, r, k - 1)
    PROVE  ResponseSoFar(g, d, r, k)
  <1> DEFINE s == script.steps[k]
  <1>1. k \in Nat /\ d \in Nat /\ r \in Nat /\ d < r
    BY ScriptSteps DEF HashesResponse
  <1>2. /\ k = d => s.op = "dispatch" /\ Applies(s, asked)
        /\ k = r => s.op = "rphash" /\ Applies(s, asked)
        /\ k > d => s.op \notin {"public", "prepare", "dispatch"}
    BY DEF HashesResponse, Calls
  <1>3. IF Applies(s, asked) THEN After(h, g, s) ELSE g = h
    OBVIOUS
  <1>4. (k - 1 >= d => h.sys = "response") /\ (k - 1 >= r => h.rpOf = "response")
    BY DEF ResponseSoFar
  <1> HIDE DEF s
  <1>5. CASE k < d
    BY <1>1, <1>5 DEF ResponseSoFar
  <1>6. CASE k = d
    <2>1. g.sys = "response"
      BY <1>2, <1>3, <1>6 DEF After
    <2> QED
      BY <1>1, <1>6, <2>1 DEF ResponseSoFar
  <1>7. CASE k > d
    <2>1. h.sys = "response"
      BY <1>1, <1>4, <1>7
    <2>2. g.sys = "response"
      BY <1>2, <1>3, <1>7, <2>1 DEF After
    <2>3. k >= r => g.rpOf = "response"
      <3>1. CASE k = r
        BY <1>2, <1>3, <2>1, <3>1 DEF After
      <3>2. CASE k > r
        <4>1. h.rpOf = "response"
          BY <1>1, <1>4, <3>2
        <4> QED
          BY <1>3, <2>1, <4>1 DEF After
      <3> QED
        BY <1>1, <3>1, <3>2
    <2> QED
      BY <2>2, <2>3 DEF ResponseSoFar
  <1> QED
    BY <1>1, <1>5, <1>6, <1>7

LEMMA SoFarOn ==
    ASSUME NEW script, WellFormed(script), NEW asked,
           NEW k \in 1..Len(script.steps),
           NEW h \in Hashing, NEW g \in Hashing,
           IF Applies(script.steps[k], asked) THEN After(h, g, script.steps[k]) ELSE g = h,
           SoFar(script, asked, h, k - 1)
    PROVE  SoFar(script, asked, g, k)
  <1>1. k \in Nat
    BY ScriptSteps
  <1>2. g.sent <=> \E i \in 1..k : Calls(script, asked, i, "dispatch")
    <2>1. h.sent <=> \E i \in 1..(k - 1) : Calls(script, asked, i, "dispatch")
      BY DEF SoFar
    <2>2. g.sent <=> h.sent \/ Calls(script, asked, k, "dispatch")
      BY DEF After, Calls
    <2>3. (\E i \in 1..k : Calls(script, asked, i, "dispatch")) <=>
             \/ Calls(script, asked, k, "dispatch")
             \/ \E i \in 1..(k - 1) : Calls(script, asked, i, "dispatch")
      <3>1. \A i : i \in 1..k <=> i = k \/ i \in 1..(k - 1)
        BY <1>1
      <3> QED
        BY <3>1
    <2> QED
      BY <2>1, <2>2, <2>3
  <1>3. ASSUME NEW j \in 1..Len(script.steps), NEW c \in 1..Len(script.steps),
               HashesCommand(script, asked, j, c)
        PROVE  CommandSoFar(script.steps, g, j, c, k)
    <2>1. CommandSoFar(script.steps, h, j, c, k - 1)
      BY <1>3 DEF SoFar
    <2> QED
      BY <1>3, <2>1, CommandOn
  <1>4. ASSUME NEW d \in 1..Len(script.steps), NEW r \in 1..Len(script.steps),
               HashesResponse(script, asked, d, r)
        PROVE  ResponseSoFar(g, d, r, k)
    <2>1. ResponseSoFar(h, d, r, k - 1)
      BY <1>4 DEF SoFar
    <2> QED
      BY <1>4, <2>1, ResponseOn
  <1> QED
    BY <1>2, <1>3, <1>4 DEF SoFar

\* The number of steps that are done: a call that stops stays at its last step.
DoneSteps(p) ==
    IF Succeeded(p) /\ call[p].pc <= Len(Steps(p)) THEN call[p].pc ELSE call[p].pc - 1

EndsAt(script, asked, i) ==
    Applies(script.steps[i], asked) /\ Stops(script.steps[i], asked)

\* What is hashed is what the steps done call for, and the first step that
\* stops is the last.
Hashed(p) ==
    OnCourse(p) /\ call[p].name \notin Forgiving =>
        LET script == Scripts[call[p].name]
            asked == call[p].asked
        IN  /\ SoFar(script, asked, hash[p], DoneSteps(p))
            /\ \A i \in 1..(call[p].pc - 1) : ~EndsAt(script, asked, i)
            /\ Succeeded(p) /\ call[p].pc <= Len(script.steps) =>
                  EndsAt(script, asked, call[p].pc)

\* Nothing is hashed before the first step.
LEMMA SoFarFirst ==
    ASSUME NEW script, WellFormed(script), NEW asked
    PROVE  SoFar(script, asked, NoHash, 0)
  <1>1. script.steps \in Seq(Step)
    BY DEF WellFormed
  <1>2. Len(script.steps) \in Nat
    BY <1>1
  <1>3. ~NoHash.sent
    BY DEF NoHash
  <1>4. \A j, c \in 1..Len(script.steps) : CommandSoFar(script.steps, NoHash, j, c, 0)
    BY <1>2 DEF CommandSoFar
  <1>5. \A d, r \in 1..Len(script.steps) : ResponseSoFar(NoHash, d, r, 0)
    BY <1>2 DEF ResponseSoFar
  <1>6. ~\E i \in 1..0 : Calls(script, asked, i, "dispatch")
    OBVIOUS
  <1> QED
    BY <1>3, <1>4, <1>5, <1>6 DEF SoFar

LEMMA HashStep ==
    ASSUME HashScripts, Base, NEW p \in Procs, Running(p), call[p].name \notin Forgiving,
           Current(p).op = "write"
    PROVE  ~Current(p).stop
  <1>1. /\ call[p].name \in Menu /\ call[p].pc \in 1..Len(Scripts[call[p].name].steps)
        /\ Current(p) = Scripts[call[p].name].steps[call[p].pc]
    BY StepFacts DEF Current, Steps
  <1>2. Hashes(Scripts[call[p].name])
    BY <1>1 DEF HashScripts
  <1> QED
    BY <1>1, <1>2 DEF Hashes

LEMMA HashedMoves ==
    ASSUME FirmScripts, HashScripts, Base, Base', NEW p \in Procs, Moves(p), Hashed(p)
    PROVE  Hashed(p)'
  <1> DEFINE sc == Scripts[call[p].name]
             as == call[p].asked
             k == call[p].pc
             s == sc.steps[k]
  <1> SUFFICES ASSUME OnCourse(p)', call'[p].name \notin Forgiving
               PROVE  LET script == Scripts[call'[p].name]
                          asked == call'[p].asked
                      IN  /\ SoFar(script, asked, hash'[p], DoneSteps(p)')
                          /\ \A i \in 1..(call'[p].pc - 1) : ~EndsAt(script, asked, i)
                          /\ Succeeded(p)' /\ call'[p].pc <= Len(script.steps) =>
                                EndsAt(script, asked, call'[p].pc)
    BY DEF Hashed
  <1>1. CASE Begins(p)
    <2>1. /\ call'[p].rc = "running" /\ call'[p].pc = 1 /\ hash'[p] = NoHash
          /\ WellFormed(Scripts[call'[p].name])
      BY <1>1, ScriptsAssumption DEF Begins
    <2>2. DoneSteps(p)' = 0 /\ ~Succeeded(p)'
      BY <2>1 DEF DoneSteps, Succeeded
    <2>3. SoFar(Scripts[call'[p].name], call'[p].asked, hash'[p], DoneSteps(p)')
      BY <2>1, <2>2, SoFarFirst
    <2> QED
      BY <2>1, <2>2, <2>3
  <1>2. CASE Dies(p)
    BY <1>2 DEF Dies, OnCourse
  <1>3. CASE Rests(p)
    <2>1. call'[p] = call[p] /\ hash'[p] = hash[p]
      BY <1>3 DEF Rests
    <2>2. DoneSteps(p)' = DoneSteps(p)
      BY <2>1 DEF DoneSteps, Succeeded, Steps
    <2> QED
      BY <2>1, <2>2 DEF Hashed, OnCourse, Succeeded
  <1>4. ASSUME Running(p)
        PROVE  /\ WellFormed(sc) /\ k \in 1..Len(sc.steps) /\ Len(sc.steps) \in Nat
               /\ Current(p) = s /\ Steps(p) = sc.steps
               /\ Given(p, Current(p)) = Applies(s, as)
               /\ DoneSteps(p) = k - 1 /\ OnCourse(p)
    BY <1>4, StepFacts
       DEF Current, Steps, Given, Applies, DoneSteps, Succeeded, Running, OnCourse
  <1>5. ASSUME Running(p), call[p].name \notin Forgiving
        PROVE  SoFar(sc, as, hash[p], k - 1) /\ \A i \in 1..(k - 1) : ~EndsAt(sc, as, i)
    BY <1>4, <1>5 DEF Hashed
  <1>6. ASSUME Keeps(p)
        PROVE  /\ call'[p].name = call[p].name /\ call'[p].asked = as
               /\ Scripts[call'[p].name] = sc /\ Steps(p)' = sc.steps
    BY <1>6 DEF Keeps, Steps
  <1>7. hash[p] \in Hashing /\ hash'[p] \in Hashing
    BY DEF Base, TypeOK, Hashing
  <1>8. EndsAt(sc, as, k) <=> Applies(s, as) /\ Stops(s, as)
    BY DEF EndsAt
  <1> HIDE DEF sc, as, k, s
  <1>9. ASSUME Running(p), Keeps(p),
               IF Applies(s, as) THEN After(hash[p], hash'[p], s) ELSE hash'[p] = hash[p]
        PROVE  SoFar(sc, as, hash'[p], k)
    BY <1>4, <1>5, <1>6, <1>7, <1>9, SoFarOn DEF s
  <1>10. ASSUME Running(p), Arrives(p, k + 1), ~EndsAt(sc, as, k), SoFar(sc, as, hash'[p], k)
         PROVE  /\ SoFar(sc, as, hash'[p], DoneSteps(p)')
                /\ \A i \in 1..(call'[p].pc - 1) : ~EndsAt(sc, as, i)
                /\ Succeeded(p)' /\ call'[p].pc <= Len(sc.steps) =>
                      EndsAt(sc, as, call'[p].pc)
                /\ Keeps(p)
    <2>1. Keeps(p) /\ call'[p].pc = k + 1
          /\ call'[p].rc = IF k + 1 > Len(sc.steps) THEN "success" ELSE "running"
      BY <1>4, <1>10 DEF Arrives
    <2>2. ~(Succeeded(p)' /\ call'[p].pc <= Len(sc.steps)) /\ DoneSteps(p)' = k
      BY <1>4, <1>6, <1>10, <2>1 DEF DoneSteps, Succeeded
    <2>3. ASSUME NEW i \in 1..(call'[p].pc - 1) PROVE ~EndsAt(sc, as, i)
      <3>1. i = k \/ i \in 1..(k - 1)
        BY <1>4, <1>10, <2>1
      <3>2. call[p].name \notin Forgiving
        BY <1>6, <2>1
      <3> QED
        BY <1>5, <1>10, <3>1, <3>2
    <2> QED
      BY <1>10, <2>1, <2>2, <2>3
  <1>11. CASE Skips(p)
    <2>1. /\ Running(p) /\ Arrives(p, k + 1) /\ hash'[p] = hash[p]
          /\ Given(p, Current(p)) => Current(p).op = "write"
      BY <1>11 DEF Skips, k
    <2>2. Keeps(p)
      BY <2>1 DEF Arrives
    <2>3. Applies(s, as) => s.op = "write"
      BY <1>4, <2>1
    <2>4. Applies(s, as) => After(hash[p], hash'[p], s)
      BY <2>1, <2>3 DEF After
    <2>5. SoFar(sc, as, hash'[p], k)
      BY <1>9, <2>1, <2>2, <2>4
    <2>6. ~EndsAt(sc, as, k)
      <3>1. CASE ~Applies(s, as)
        BY <1>8, <3>1
      <3>2. CASE Applies(s, as)
        <4>1. call[p].name \notin Forgiving
          BY <1>6, <2>2
        <4> QED
          BY <1>4, <1>8, <2>1, <2>3, <3>2, <4>1, HashStep DEF Stops
      <3> QED
        BY <3>1, <3>2
    <2> QED
      BY <1>6, <1>10, <2>1, <2>5, <2>6
  <1>12. CASE StepPasses(p)
    <2>1. Running(p) /\ Applies(s, as) /\ Passes(p)
      BY <1>4, <1>12 DEF StepPasses
    <2>2. Keeps(p)
      BY <2>1 DEF Passes, Arrives, Returns
    <2>3. ~Current(p).lenient
      BY <1>6, <2>1, <2>2, FirmStep
    <2>4. After(hash[p], hash'[p], s)
      BY <1>4, <1>12, <2>1, <2>3, PassHashAfter DEF StepPasses
    <2>5. SoFar(sc, as, hash'[p], k)
      BY <1>9, <2>1, <2>2, <2>4
    <2>6. CASE Stops(s, as)
      <3>1. Returns(p, "success")
        BY <1>4, <2>1, <2>6 DEF Passes, as
      <3>2. call'[p].pc = k /\ call'[p].rc = "success"
        BY <3>1 DEF Returns, k
      <3>3. DoneSteps(p)' = k
        BY <1>4, <1>6, <2>1, <2>2, <3>2 DEF DoneSteps, Succeeded
      <3>4. call[p].name \notin Forgiving
        BY <1>6, <2>2
      <3> QED
        BY <1>5, <1>6, <1>8, <2>1, <2>2, <2>5, <2>6, <3>2, <3>3, <3>4
    <2>7. CASE ~Stops(s, as)
      <3>1. Arrives(p, k + 1)
        BY <1>4, <2>1, <2>7 DEF Passes, as, k
      <3> QED
        BY <1>6, <1>8, <1>10, <2>1, <2>2, <2>5, <2>7, <3>1
    <2> QED
      BY <2>6, <2>7
  <1>13. CASE StepFails(p)
    <2>1. Running(p) /\ Fails(p)
      BY <1>13 DEF StepFails
    <2>2. Keeps(p)
      BY <2>1 DEF Fails, Arrives, Returns
    <2>3. call'[p].rc = "failure"
      BY <1>6, <2>1, <2>2, FirmStep DEF Fails, Returns
    <2> QED
      BY <2>3 DEF OnCourse
  <1> QED
    BY <1>1, <1>2, <1>3, <1>11, <1>12, <1>13 DEF Moves

\* What a call that ended well has hashed and sent.
LEMMA HashedAtEnd ==
    ASSUME HashScripts, Base, NEW p \in Procs, Succeeded(p), call[p].name \notin Forgiving,
           Hashed(p)
    PROVE  LET asked == call[p].asked
               sends == {i \in 1..Len(Steps(p)) : Steps(p)[i].op = "dispatch"}
           IN  /\ "cp" \in asked =>
                     /\ hash[p].cpOf = "prepared"
                     /\ \A i \in sends : hash[p].cp = Steps(p)[i].of
               /\ "rp" \in asked => hash[p].rpOf = "response"
               /\ hash[p].sent <=> ("cp" \notin asked \/ "rp" \in asked)
  <1> DEFINE sc == Scripts[call[p].name]
             as == call[p].asked
             st == sc.steps
             h == hash[p]
             k == call[p].pc
             L == Len(st)
             n == DoneSteps(p)
  <1>1. /\ call[p].name \in Menu /\ as \in SUBSET sc.opts /\ k \in 1..(L + 1)
        /\ WellFormed(sc) /\ Steps(p) = st /\ h \in Hashing
    BY Parts, ScriptsAssumption DEF Base, InScript, Succeeded, Steps
  <1>2. L \in Nat /\ k \in Nat /\ \A i \in 1..L : st[i] \in Step
    BY <1>1 DEF WellFormed
  <1>3. /\ SoFar(sc, as, h, n)
        /\ \A i \in 1..(k - 1) : ~EndsAt(sc, as, i)
        /\ k <= L => EndsAt(sc, as, k)
    BY DEF Hashed, OnCourse, Succeeded
  <1>4. n = IF k <= L THEN k ELSE L
    <2>1. n = IF k <= L THEN k ELSE k - 1
      BY <1>1 DEF DoneSteps
    <2> HIDE DEF k, L, n
    <2> QED
      BY <1>1, <1>2, <2>1
  <1>5. Hashes(sc)
    BY <1>1 DEF HashScripts
  <1>6. /\ "cp" \in as => \E j, c \in 1..L : HashesCommand(sc, as, j, c)
        /\ "rp" \in as => \E d, r \in 1..L : HashesResponse(sc, as, d, r)
        /\ SendsRightly(sc, as)
    BY <1>1, <1>5 DEF Hashes
  <1>7. \A i : EndsAt(sc, as, i) <=> Applies(st[i], as) /\ Stops(st[i], as)
    BY DEF EndsAt
  <1>8. \A i : Stops(st[i], as) => "rp" \notin as
    BY DEF Stops
  <1>9. /\ h.sent <=> \E i \in 1..n : Calls(sc, as, i, "dispatch")
        /\ \A j, c \in 1..L : HashesCommand(sc, as, j, c) => CommandSoFar(st, h, j, c, n)
        /\ \A d, r \in 1..L : HashesResponse(sc, as, d, r) => ResponseSoFar(h, d, r, n)
    BY <1>3 DEF SoFar
  <1>10. /\ h.cp \in Seq(Handles)
         /\ \A i \in 1..L : st[i].of \in Seq(Handles)
    BY <1>1, <1>2 DEF Hashing, Step
  <1>15. k \in 1..(L + 1)
    BY <1>1
  <1> HIDE DEF sc, as, st, h, k, L, n
  <1>11. ASSUME "cp" \in as
         PROVE  h.cpOf = "prepared" /\ \A i \in 1..L : st[i].op = "dispatch" => h.cp = st[i].of
    <2>1. PICK j \in 1..L, c \in 1..L : HashesCommand(sc, as, j, c)
      BY <1>6, <1>11
    <2>2. /\ j < c
          /\ \A i \in 1..L : i < c => ~EndsAt(sc, as, i)
          /\ \A i \in 1..L : st[i].op = "dispatch" =>
                /\ Len(st[i].of) = c - j - 1
                /\ \A m \in 1..(c - j - 1) : st[i].of[m] = st[j + m].of[1]
      BY <1>7, <2>1 DEF HashesCommand, st, L
    <2>3. n >= c
      <3>1. CASE k <= L
        <4>0. k \in 1..L /\ n = k
          BY <1>2, <1>4, <1>15, <3>1
        <4>1. EndsAt(sc, as, k)
          BY <1>3, <3>1
        <4>2. ~(k < c)
          BY <2>2, <4>0, <4>1
        <4> QED
          BY <1>2, <4>0, <4>2
      <3>2. CASE ~(k <= L)
        BY <1>2, <1>4, <3>2
      <3> QED
        BY <3>1, <3>2
    <2>4. h.cpOf = "prepared" /\ NamesSoFar(st, h, j, c - 1)
      BY <1>9, <2>1, <2>3 DEF CommandSoFar
    <2>5. (c - 1) - j = c - j - 1
      BY <1>2
    <2>6. Len(h.cp) = c - j - 1 /\ \A m \in 1..(c - j - 1) : h.cp[m] = st[j + m].of[1]
      BY <2>4, <2>5 DEF NamesSoFar
    <2>7. ASSUME NEW i \in 1..L, st[i].op = "dispatch" PROVE h.cp = st[i].of
      <3>1. /\ Len(st[i].of) = Len(h.cp)
            /\ \A m \in 1..Len(h.cp) : st[i].of[m] = h.cp[m]
        BY <2>2, <2>6, <2>7
      <3> QED
        BY <1>10, <3>1, SeqEqual
    <2> QED
      BY <2>4, <2>7
  <1>12. ASSUME "rp" \in as PROVE h.rpOf = "response"
    <2>1. PICK d \in 1..L, r \in 1..L : HashesResponse(sc, as, d, r)
      BY <1>6, <1>12
    <2>2. n = L
      BY <1>3, <1>4, <1>7, <1>8, <1>12
    <2>3. n >= r
      BY <1>2, <2>2
    <2> QED
      BY <1>9, <2>1, <2>3 DEF ResponseSoFar
  <1>13. h.sent <=> ("cp" \notin as \/ "rp" \in as)
    <2> DEFINE sends == {i \in 1..L : Calls(sc, as, i, "dispatch")}
               ends == {i \in 1..L : EndsAt(sc, as, i)}
    <2>1. IF "cp" \notin as \/ "rp" \in as
          THEN sends # {} /\ ends = {}
          ELSE \A d \in sends : \E i \in ends : i < d
      BY <1>6, <1>7 DEF SendsRightly, st, L
    <2>2. CASE "cp" \notin as \/ "rp" \in as
      <3>1. ~(k <= L)
        <4> SUFFICES ASSUME k <= L PROVE FALSE
          OBVIOUS
        <4>1. k \in 1..L /\ EndsAt(sc, as, k)
          BY <1>2, <1>3, <1>15
        <4> QED
          BY <2>1, <2>2, <4>1
      <3>2. n = L
        BY <1>4, <3>1
      <3> QED
        BY <1>9, <2>1, <2>2, <3>2
    <2>3. CASE "cp" \in as /\ "rp" \notin as
      <3> SUFFICES ASSUME NEW d \in 1..n, Calls(sc, as, d, "dispatch") PROVE FALSE
        BY <1>9, <2>3
      <3>1. d \in sends
        <4>1. d \in 1..L
          BY <1>2, <1>4, <1>15
        <4> QED
          BY <4>1
      <3>2. PICK i \in ends : i < d
        BY <2>1, <2>3, <3>1
      <3>3. i \in 1..(k - 1)
        BY <1>2, <1>4, <1>15, <3>2
      <3> QED
        BY <1>3, <3>2, <3>3
    <2> QED
      BY <2>2, <2>3
  <1> QED
    BY <1>1, <1>11, <1>12, <1>13 DEF as, h, L

(***************************************************************************)
(* A cpHash or rpHash that a function of lib/tpm2.c returns with success   *)
(* is of the command it prepares and sends, with the names of its handles  *)
(* in their order, and of its response, and it was sent unless only the    *)
(* cpHash was asked for, where its script has these calls in this order    *)
(* (Hashes) and lets no failure pass (Firm).                               *)
(***************************************************************************)
THEOREM HashesHonest ==
    ASSUME FirmScripts, HashScripts
    PROVE  Spec => []HonestHash
  <1> DEFINE I == Base /\ \A p \in Procs : Hashed(p)
  <1>1. Init => I
    <2> SUFFICES ASSUME Init PROVE I
      OBVIOUS
    <2>1. \A p \in Procs : Hashed(p)
      BY DEF Init, Idle, Hashed, OnCourse
    <2> QED
      BY <2>1, BaseInit
  <1>2. I /\ [Next]_vars => I'
    <2> SUFFICES ASSUME I, [Next]_vars PROVE I'
      OBVIOUS
    <2>0. Base'
      BY BaseNext
    <2>1. ASSUME NEW p \in Procs PROVE Hashed(p)'
      <3>1. CASE Moves(p)
        BY <2>0, <3>1, HashedMoves
      <3>2. CASE call'[p] = call[p] /\ hash'[p] = hash[p]
        <4>1. DoneSteps(p)' = DoneSteps(p)
          BY <3>2 DEF DoneSteps, Succeeded, Steps
        <4> QED
          BY <3>2, <4>1 DEF Hashed, OnCourse, Succeeded
      <3> QED
        BY <3>1, <3>2, MovesOrSame
    <2> QED
      BY <2>0, <2>1
  <1>3. I => HonestHash
    BY HashedAtEnd DEF HonestHash
  <1> QED
    BY <1>1, <1>2, <1>3, PTL DEF Spec

-----------------------------------------------------------------------------
(* Outputs.                                                                *)

WriteScripts == \A name \in Menu : WritesAll(Scripts[name])

\* The process has files to write, and has not given up.
Writing(p) ==
    OnCourse(p) /\ \E j \in 1..Len(Steps(p)) : Steps(p)[j].op = "write"
WritesTo(p, j, i) == Steps(p)[j].op = "write" /\ Steps(p)[j].buf = Outputs[i]
\* The file has been written, and perhaps closed.
Settled(p, i) ==
    i \in io[p].wrote \/ (At(p, {"write"}) /\ io[p].phase = "got" /\ i = Target(p))

\* A file the process has made is its own, and whole once it is written, until
\* another process takes the path.
Filed(p) ==
    Writing(p) =>
        /\ io[p].wrote \subseteq io[p].made
        /\ \A i \in io[p].made \ io[p].robbed : file[i].by = p
        /\ \A i \in Paths \ io[p].robbed : Settled(p, i) => file[i].part = "whole"

\* The files that are written are those of the steps done that had something to
\* write, and the end comes after the last step.
Remembered(p) ==
    Writing(p) =>
        /\ Succeeded(p) => call[p].pc > Len(Steps(p))
        /\ \A i \in io[p].wrote : \E j \in 1..(call[p].pc - 1) : WritesTo(p, j, i)
        /\ \A j \in 1..(call[p].pc - 1), i \in Paths :
              /\ WritesTo(p, j, i) /\ Given(p, Steps(p)[j])
              /\ Outputs[i] \notin call[p].std /\ mem[p][Outputs[i]] # "null"
              => i \in io[p].wrote

LEMMA OutputsDiffer ==
    \A i, x \in Paths : /\ Outputs[i] \in Buffers
                        /\ Outputs[i] = Outputs[x] => i = x
  <1>1. \A i, x \in 1..4 : Outputs[i] \in Buffers /\ (Outputs[i] = Outputs[x] => i = x)
    BY DEF Outputs, Buffers
  <1> QED
    BY <1>1, PathsAssumption

\* A script that writes has no early end, and does not come back to an output.
LEMMA WritingStep ==
    ASSUME WriteScripts, Base, NEW p \in Procs, Running(p), Writing(p)
    PROVE  /\ ~Stops(Current(p), call[p].asked) /\ ~Resumes(Current(p), call[p].asked)
           /\ \A j \in 1..(call[p].pc - 1) : \A i :
                 WritesTo(p, j, i) =>
                     Outputs[i] \notin Sets(Current(p)) /\ ~WritesTo(p, call[p].pc, i)
  <1> DEFINE st == Steps(p)
             k == call[p].pc
  <1>1. /\ call[p].name \in Menu /\ k \in 1..Len(st) /\ Len(st) \in Nat
        /\ Current(p) = st[k] /\ st = Scripts[call[p].name].steps
    BY StepFacts DEF Steps, Current
  <1>2. WritesAll(Scripts[call[p].name])
    BY <1>1 DEF WriteScripts
  <1>3. \A j \in 1..Len(st) : st[j].op = "write" =>
           /\ \A i \in 1..Len(st) : ~st[i].stop /\ st[i].resume = 0
           /\ \A i \in (j + 1)..Len(st) :
                 /\ st[j].buf \notin Sets(st[i])
                 /\ st[i].op = "write" => st[i].buf # st[j].buf
    BY <1>1, <1>2 DEF WritesAll
  <1>4. PICK w \in 1..Len(st) : st[w].op = "write"
    BY DEF Writing
  <1> HIDE DEF st, k
  <1>5. ~st[k].stop /\ st[k].resume = 0
    BY <1>1, <1>3, <1>4
  <1>6. ASSUME NEW j \in 1..(k - 1), NEW i, st[j].op = "write", st[j].buf = Outputs[i]
        PROVE  Outputs[i] \notin Sets(st[k]) /\ ~(st[k].op = "write" /\ st[k].buf = Outputs[i])
    <2>1. j \in 1..Len(st) /\ k \in (j + 1)..Len(st)
      BY <1>1
    <2> QED
      BY <1>3, <1>6, <2>1
  <1> QED
    BY <1>1, <1>5, <1>6 DEF Stops, Resumes, WritesTo, st, k

LEMMA WritingBefore ==
    ASSUME NEW p \in Procs, Running(p), Keeps(p), Writing(p)'
    PROVE  Writing(p)
  BY DEF Writing, OnCourse, Running, Keeps, Steps

\* A failure ends a script that writes.
LEMMA WritingEnds ==
    ASSUME WriteScripts, Base, NEW p \in Procs, Running(p), Fails(p)
    PROVE  ~Writing(p)'
  <1> SUFFICES ASSUME Writing(p)' PROVE FALSE
    OBVIOUS
  <1>1. Keeps(p)
    BY DEF Fails, Arrives, Returns
  <1>2. ~Resumes(Current(p), call[p].asked)
    BY <1>1, WritingBefore, WritingStep
  <1>3. call'[p].rc = "failure"
    BY <1>2 DEF Fails, Returns
  <1> QED
    BY <1>3 DEF Writing, OnCourse

LEMMA WritingGoesOn ==
    ASSUME WriteScripts, Base, NEW p \in Procs, Running(p), Passes(p), Writing(p)'
    PROVE  Arrives(p, call[p].pc + 1)
  <1>1. Keeps(p)
    BY DEF Passes, Arrives, Returns
  <1> QED
    BY <1>1, WritingBefore, WritingStep DEF Passes

\* The steps that leave the output files, and what is known of them, alone.
Aside(p) ==
    /\ Running(p) /\ UNCHANGED file
    /\ io'[p].made = io[p].made /\ io'[p].robbed = io[p].robbed
    /\ io'[p].wrote = io[p].wrote
    /\ io'[p].phase = "none" \/ (call'[p] = call[p] /\ At(p, {"read"}))

LEMMA OutputSteps ==
    ASSUME Base, NEW p \in Procs, ProcStep(p)
    PROVE  \/ Start(p) \/ Kill(p) \/ OpenOutput(p) \/ WriteOutput(p) \/ WriteShort(p)
           \/ CloseOutput(p) \/ Aside(p)
  <1>1. io[p] \in Transfer
    BY TypedParts
  <1>2. CASE Skip(p)
    <2>1. UNCHANGED <<io, file>> /\ Running(p)
      BY <1>2 DEF Skip
    <2>2. io[p].phase = "none"
      BY <1>2, <2>1 DEF Skip, At, Base, Placed
    <2> QED
      BY <2>1, <2>2 DEF Aside
  <1>3. CASE Pass(p)
    <2>1. io[p].phase = "none" /\ Running(p)
      BY <1>3, LocalAt, LocalQuiet DEF Pass
    <2> DEFINE r == SwallowedByPrompt(p, Current(p))
    <2>2. /\ r \in Transfer /\ r.phase = io[p].phase
          /\ r.made = io[p].made /\ r.wrote = io[p].wrote /\ r.robbed = io[p].robbed
      BY SwallowedType
    <2>3. io' = [io EXCEPT ![p] = r] /\ UNCHANGED file
      BY <1>3 DEF Pass
    <2> HIDE DEF r
    <2>4. io'[p] = r
      BY <2>2, <2>3, IoSet
    <2> QED
      BY <2>1, <2>2, <2>3, <2>4 DEF Aside
  <1>4. CASE Fail(p) \/ Dispatch(p) \/ DispatchFails(p) \/ DispatchTooEarly(p)
    <2>1. io[p].phase = "none" /\ Running(p)
      BY <1>4, LocalAt, LocalQuiet DEF Fail, Dispatch, DispatchFails, DispatchTooEarly
    <2>2. UNCHANGED <<io, file>>
      BY <1>4 DEF Fail, Dispatch, DispatchFails, DispatchTooEarly
    <2> QED
      BY <2>1, <2>2 DEF Aside
  <1>5. CASE OpenInput(p)
    <2>0. At(p, {"read"}) /\ Running(p) /\ UNCHANGED <<call, file>> /\ Opened(p)
      BY <1>5, OpenInputMoves
    <2>1. PICK n \in Nat, x \in SUBSET Buffers :
             io'[p] = [io[p] EXCEPT !.phase = "open", !.want = n, !.excused = x]
      BY <2>0 DEF Opened, OpenedAs
    <2>2. /\ io'[p].made = io[p].made /\ io'[p].robbed = io[p].robbed
          /\ io'[p].wrote = io[p].wrote
      BY <1>1, <2>1 DEF Transfer
    <2> QED
      BY <2>0, <2>2 DEF Aside
  <1>6. CASE ReadInput(p)
    <2>0. At(p, {"read"}) /\ Running(p) /\ UNCHANGED <<call, file>> /\ ReadIn(p)
      BY <1>6, ReadInputMoves
    <2>1. PICK n \in Nat, x \in SUBSET Buffers :
             io'[p] = [io[p] EXCEPT !.phase = "got", !.got = n, !.excused = x]
      BY <2>0 DEF ReadIn, ReadAs
    <2>2. /\ io'[p].made = io[p].made /\ io'[p].robbed = io[p].robbed
          /\ io'[p].wrote = io[p].wrote
      BY <1>1, <2>1 DEF Transfer
    <2> QED
      BY <2>0, <2>2 DEF Aside
  <1>7. CASE CloseInput(p)
    <2>1. /\ Running(p) /\ Current(p).buf \in Buffers /\ UNCHANGED file
          /\ io'[p] = Took(p, Current(p).buf)
      BY <1>7, CloseInputMoves
    <2> DEFINE r == Took(p, Current(p).buf)
    <2>2. /\ r.phase = "none" /\ r.made = io[p].made /\ r.robbed = io[p].robbed
          /\ r.wrote = io[p].wrote
      BY <2>1, TookType
    <2> QED
      BY <2>1, <2>2 DEF Aside
  <1>8. CASE InputFails(p)
    <2>1. /\ Running(p) /\ UNCHANGED file
          /\ io'[p] = [io[p] EXCEPT !.phase = "none", !.want = 0, !.got = 0]
      BY <1>8, InputFailsMoves
    <2>2. /\ io'[p].phase = "none" /\ io'[p].made = io[p].made
          /\ io'[p].robbed = io[p].robbed /\ io'[p].wrote = io[p].wrote
      BY <1>1, <2>1 DEF Transfer
    <2> QED
      BY <2>1, <2>2 DEF Aside
  <1>9. CASE ReadStream(p)
    BY <1>9, ReadStreamMoves DEF Aside
  <1>10. CASE RefuseOutput(p) \/ OutputFails(p)
    <2>1. /\ Wanted(p) /\ UNCHANGED file /\ io'[p] = [io[p] EXCEPT !.phase = "none"]
      BY <1>10, OutputFailsMoves
    <2>2. /\ io'[p].phase = "none" /\ io'[p].made = io[p].made
          /\ io'[p].robbed = io[p].robbed /\ io'[p].wrote = io[p].wrote
      BY <1>1, <2>1 DEF Transfer
    <2> QED
      BY <2>1, <2>2, WantedFacts DEF Aside
  <1>11. CASE WriteStream(p)
    BY <1>11, WriteStreamMoves, WantedFacts DEF Aside
  <1> QED
    BY <1>2, <1>3, <1>4, <1>5, <1>6, <1>7, <1>8, <1>9, <1>10, <1>11 DEF ProcStep

\* What the step of one process leaves of the files of another.
LEMMA FiledOthers ==
    ASSUME Base, NEW p \in Procs, ProcStep(p), Made(p), Filed(p),
           NEW q \in Procs \ {p}, Made(q), Filed(q)
    PROVE  Filed(q)'
  <1>1. Apart(p) /\ io[q] \in Transfer /\ io[p] \in Transfer /\ file \in Files
    BY ProcStepFits, TypedParts DEF StepFits
  <1>2. /\ call'[q] = call[q] /\ io'[q].phase = io[q].phase
        /\ io'[q].made = io[q].made /\ io'[q].wrote = io[q].wrote
        /\ io[q].robbed \subseteq io'[q].robbed
    BY <1>1 DEF Apart, Transfer
  <1>3. /\ Writing(q)' = Writing(q) /\ Current(q)' = Current(q) /\ Target(q)' = Target(q)
        /\ At(q, {"write"})' = At(q, {"write"})
    BY <1>2 DEF Writing, OnCourse, Steps, Current, Target, At, Running, Given
  <1>4. \A i : Settled(q, i)' = Settled(q, i)
    BY <1>2, <1>3 DEF Settled
  <1>5. Writing(q) =>
           /\ io[q].wrote \subseteq io[q].made
           /\ \A i \in io[q].made \ io[q].robbed : file[i].by = q
           /\ \A i \in Paths \ io[q].robbed : Settled(q, i) => file[i].part = "whole"
    BY DEF Filed
  <1>6. Writing(q) => \A i : Settled(q, i) => i \in io[q].made
    BY <1>5 DEF Settled, Made
  <1>7. ASSUME Writing(q), NEW i \in io[q].made \ io'[q].robbed
        PROVE  i \in Paths /\ file'[i] = file[i]
    <2>1. i \in Paths /\ file[i].by = q
      BY <1>1, <1>2, <1>5, <1>7 DEF Transfer
    <2>2. ASSUME OpenOutput(p), i = Target(p) PROVE FALSE
      <3>1. /\ Opens(p, i)
            /\ io'[q] = [io[q] EXCEPT !.robbed = io[q].robbed \cup
                    (IF "force" \in call[p].asked THEN io[q].made \cap {i} ELSE {})]
        BY <2>2, OpenOutputMoves
      <3>2. CASE "force" \in call[p].asked
        <4>1. i \in io[q].robbed \cup (io[q].made \cap {i})
          BY <1>7
        <4>2. io'[q].robbed = io[q].robbed \cup (io[q].made \cap {i})
          BY <1>1, <3>1, <3>2 DEF Transfer
        <4> QED
          BY <1>7, <4>1, <4>2
      <3>3. CASE "force" \notin call[p].asked
        <4>1. file[i].by = Nobody
          BY <3>1, <3>3 DEF Opens, NoFile
        <4> QED
          BY <2>1, <4>1, OwnersAssumption
      <3> QED
        BY <3>2, <3>3
    <2>3. ASSUME io'[q] = Taking(q, i) PROVE FALSE
      <3>1. i \in io[q].robbed \cup (io[q].made \cap {i})
        BY <1>7
      <3>2. io'[q].robbed = io[q].robbed \cup (io[q].made \cap {i})
        BY <1>1, <2>3 DEF Transfer, Taking
      <3> QED
        BY <1>7, <3>1, <3>2
    <2>4. ASSUME WriteOutput(p), i = Target(p), i \notin io[p].robbed PROVE FALSE
      <3>1. Wanted(p) /\ io[p].phase # "none"
        BY <2>4 DEF WriteOutput
      <3>2. At(p, {"write"}) /\ i \in io[p].made
        BY <2>4, <3>1 DEF Wanted, Made
      <3>3. Writing(p)
        <4>1. Running(p) /\ Current(p).op = "write"
          BY <3>2 DEF At
        <4>2. call[p].pc \in 1..Len(Steps(p))
          BY <4>1, StepFacts
        <4> QED
          BY <4>1, <4>2 DEF Writing, OnCourse, Running, Current
      <3>4. file[i].by = p
        BY <2>4, <3>2, <3>3 DEF Filed
      <3> QED
        BY <2>1, <3>4
    <2>5. ASSUME i = Target(p), OpenOutput(p) \/ WriteOutput(p) \/ WriteShort(p)
          PROVE  file'[i] = file[i]
      <3>1. CASE OpenOutput(p)
        BY <2>2, <2>5, <3>1
      <3>2. CASE WriteOutput(p)
        BY <2>3, <2>4, <2>5, <3>2, WriteOutputMoves
      <3>3. CASE WriteShort(p)
        BY <2>3, <2>5, <3>3, WriteShortMoves
      <3> QED
        BY <2>5, <3>1, <3>2, <3>3
    <2> QED
      BY <2>1, <2>5, FileSteps
  <1>8. ASSUME Writing(q)
        PROVE  /\ \A i \in io'[q].made \ io'[q].robbed : file'[i].by = q
               /\ \A i \in Paths \ io'[q].robbed : Settled(q, i)' => file'[i].part = "whole"
    BY <1>2, <1>4, <1>5, <1>6, <1>7, <1>8
  <1> QED
    BY <1>2, <1>3, <1>5, <1>8 DEF Filed

\* A running process does not begin, and one that is killed is not aside.
LEMMA AsideMoves ==
    ASSUME Base, NEW p \in Procs, ProcStep(p), ~(Start(p) \/ Kill(p))
    PROVE  Rests(p) \/ Skips(p) \/ StepPasses(p) \/ StepFails(p)
  <1>1. CASE Skip(p)
    <2>1. /\ Running(p) /\ UNCHANGED hash
          /\ Given(p, Current(p)) => Current(p).op = "write" /\ mem[p][Current(p).buf] = "null"
      BY <1>1 DEF Skip
    <2> QED
      BY <1>1, <2>1, SkipMoves DEF Skips
  <1> QED
    BY <1>1, LocalMoves, InputMoves, OutputMoves DEF ProcStep

\* What the own step of a process does to its files.
LEMMA FiledOwn ==
    ASSUME WriteScripts, Base, NEW p \in Procs, ProcStep(p), Made(p), Filed(p), Remembered(p)
    PROVE  Filed(p)'
  <1> SUFFICES ASSUME Writing(p)'
               PROVE  /\ io'[p].wrote \subseteq io'[p].made
                      /\ \A x \in io'[p].made \ io'[p].robbed : file'[x].by = p
                      /\ \A x \in Paths \ io'[p].robbed :
                            Settled(p, x)' => file'[x].part = "whole"
    BY DEF Filed
  <1>1. io[p] \in Transfer /\ file \in Files
    BY TypedParts
  <1>2. CASE Start(p)
    <2>1. PICK n \in Nat : io'[p] = [NoIo EXCEPT !.pipe = n]
      BY <1>2, StartMoves
    <2>2. NoIo \in Transfer
      BY DEF NoIo, Transfer, Phases
    <2>3. /\ io'[p].phase = NoIo.phase /\ io'[p].made = NoIo.made /\ io'[p].wrote = NoIo.wrote
      BY <2>1, <2>2 DEF Transfer
    <2>4. NoIo.made = {} /\ NoIo.wrote = {} /\ NoIo.phase = "none"
      BY DEF NoIo
    <2> QED
      BY <2>3, <2>4 DEF Settled
  <1>3. CASE Kill(p)
    <2>1. call'[p].rc = "killed"
      BY <1>3, KillMoves
    <2> QED
      BY <2>1 DEF Writing, OnCourse
  <1>4. CASE WriteShort(p)
    <2>1. Running(p) /\ Fails(p)
      BY <1>4, WriteShortMoves, WantedFacts, FailMoves
    <2> QED
      BY <2>1, WritingEnds
  <1>5. ASSUME Running(p), Keeps(p) \/ call'[p] = call[p]
        PROVE  /\ Writing(p)
               /\ io[p].wrote \subseteq io[p].made
               /\ \A x \in io[p].made \ io[p].robbed : file[x].by = p
               /\ \A x \in Paths \ io[p].robbed : Settled(p, x) => file[x].part = "whole"
    <2>1. Writing(p)
      BY <1>5, WritingBefore DEF Writing, OnCourse, Steps
    <2> QED
      BY <2>1 DEF Filed
  <1>6. ASSUME Wanted(p), UNCHANGED call
        PROVE  /\ Running(p) /\ Writing(p) /\ Target(p) \in Paths /\ At(p, {"write"})
               /\ Target(p) \notin io[p].wrote
               /\ Target(p)' = Target(p)
    <2>1. /\ Running(p) /\ Current(p).op = "write" /\ Target(p) \in Paths
          /\ Current(p).buf = Outputs[Target(p)] /\ At(p, {"write"})
      BY <1>6, WantedFacts DEF Wanted
    <2>2. Writing(p)
      BY <1>5, <1>6, <2>1
    <2>3. WritesTo(p, call[p].pc, Target(p))
      BY <2>1 DEF WritesTo, Current
    <2>4. Target(p) \notin io[p].wrote
      BY <2>1, <2>2, <2>3, WritingStep DEF Remembered
    <2>5. Target(p)' = Target(p)
      BY <1>6 DEF Target, Current, Steps
    <2> QED
      BY <2>1, <2>2, <2>4, <2>5
  <1>7. CASE OpenOutput(p)
    <2> DEFINE i == Target(p)
               made == io[p].made \cup {i}
               robbed == io[p].robbed \ {i}
    <2>1. /\ Wanted(p) /\ UNCHANGED call
          /\ file' = [file EXCEPT ![i] = [by |-> p, part |-> "empty"]]
          /\ io'[p] = [io[p] EXCEPT !.phase = "open", !.made = made, !.robbed = robbed]
      BY <1>7, OpenOutputMoves
    <2>2. made = io[p].made \cup {i} /\ robbed = io[p].robbed \ {i}
      OBVIOUS
    <2> HIDE DEF made, robbed
    <2>3. /\ io'[p].phase = "open" /\ io'[p].made = made /\ io'[p].robbed = robbed
          /\ io'[p].wrote = io[p].wrote
      BY <1>1, <2>1 DEF Transfer
    <2>4. Running(p) /\ i \in Paths /\ i \notin io[p].wrote
      BY <1>6, <2>1
    <2>5. file'[i].by = p /\ \A x \in Paths \ {i} : file'[x] = file[x]
      BY <1>1, <2>1, <2>4 DEF Files
    <2>6. \A x : Settled(p, x)' => x \in io[p].wrote /\ Settled(p, x)
      BY <2>3 DEF Settled
    <2>7. io[p].made \subseteq Paths
      BY <1>1 DEF Transfer
    <2> HIDE DEF i
    <2>8. /\ io[p].wrote \subseteq io[p].made
          /\ \A x \in io[p].made \ io[p].robbed : file[x].by = p
          /\ \A x \in Paths \ io[p].robbed : Settled(p, x) => file[x].part = "whole"
      BY <1>5, <2>1, <2>4
    <2>9. \A x \in made \ robbed : file'[x].by = p
      BY <2>2, <2>5, <2>7, <2>8
    <2>10. ASSUME NEW x \in Paths \ robbed, Settled(p, x)' PROVE file'[x].part = "whole"
      <3>1. x # i /\ x \notin io[p].robbed
        BY <2>2, <2>4, <2>6, <2>10
      <3> QED
        BY <2>5, <2>6, <2>8, <2>10, <3>1
    <2> QED
      BY <2>2, <2>3, <2>8, <2>9, <2>10
  <1>8. CASE WriteOutput(p)
    <2> DEFINE i == Target(p)
    <2>1. /\ Wanted(p) /\ UNCHANGED call /\ io[p].phase = "open"
          /\ io'[p] = [io[p] EXCEPT !.phase = "got"]
      BY <1>8, WriteOutputMoves
    <2>2. /\ io'[p].made = io[p].made /\ io'[p].robbed = io[p].robbed
          /\ io'[p].wrote = io[p].wrote
      BY <1>1, <2>1 DEF Transfer
    <2>3. Running(p) /\ i \in Paths /\ Target(p)' = i
      BY <1>6, <2>1
    <2>4. \A x : Settled(p, x)' => x = i \/ Settled(p, x)
      BY <2>2, <2>3 DEF Settled
    <2>5. /\ io[p].wrote \subseteq io[p].made
          /\ \A x \in io[p].made \ io[p].robbed : file[x].by = p
          /\ \A x \in Paths \ io[p].robbed : Settled(p, x) => file[x].part = "whole"
      BY <1>5, <2>1, <2>3
    <2>6. io[p].made \subseteq Paths
      BY <1>1 DEF Transfer
    <2>7. CASE /\ i \notin io[p].robbed
               /\ file' = [file EXCEPT ![i] = [by |-> p, part |-> "whole"]]
      <3> HIDE DEF i
      <3>1. file'[i].by = p /\ file'[i].part = "whole" /\ \A x \in Paths \ {i} : file'[x] = file[x]
        BY <1>1, <2>3, <2>7 DEF Files
      <3> QED
        BY <2>2, <2>4, <2>5, <2>6, <3>1
    <2>8. CASE i \in io[p].robbed /\ UNCHANGED file
      BY <2>2, <2>4, <2>5, <2>8
    <2>9. CASE /\ i \in io[p].robbed
               /\ file' = [file EXCEPT ![i] = [by |-> p, part |-> "short"]]
      <3> HIDE DEF i
      <3>1. \A x \in Paths \ {i} : file'[x] = file[x]
        BY <1>1, <2>3, <2>9 DEF Files
      <3> QED
        BY <2>2, <2>4, <2>5, <2>6, <2>9, <3>1
    <2> QED
      BY <1>8, <2>7, <2>8, <2>9, WriteOutputMoves
  <1>9. CASE CloseOutput(p)
    <2> DEFINE i == Target(p)
               wrote == io[p].wrote \cup {i}
    <2>1. /\ Wanted(p) /\ io[p].phase = "got" /\ UNCHANGED file
          /\ PassWith(p, mem[p]) /\ mem[p] \in Pointers
          /\ io'[p] = [io[p] EXCEPT !.phase = "none", !.wrote = wrote]
      BY <1>9, CloseOutputMoves
    <2>2. wrote = io[p].wrote \cup {i}
      OBVIOUS
    <2> HIDE DEF wrote
    <2>3. /\ io'[p].phase = "none" /\ io'[p].made = io[p].made /\ io'[p].robbed = io[p].robbed
          /\ io'[p].wrote = wrote
      BY <1>1, <2>1 DEF Transfer
    <2>4. Running(p) /\ At(p, {"write"}) /\ i \in io[p].made
      BY <2>1, WantedFacts DEF Wanted, Made
    <2>5. Keeps(p)
      BY <2>1, <2>4, PassMoves DEF Passes, Arrives, Returns
    <2>6. \A x : Settled(p, x)' => Settled(p, x)
      BY <2>1, <2>2, <2>3, <2>4 DEF Settled
    <2>7. /\ io[p].wrote \subseteq io[p].made
          /\ \A x \in io[p].made \ io[p].robbed : file[x].by = p
          /\ \A x \in Paths \ io[p].robbed : Settled(p, x) => file[x].part = "whole"
      BY <1>5, <2>4, <2>5
    <2> QED
      BY <2>1, <2>2, <2>3, <2>4, <2>6, <2>7
  <1>10. CASE Aside(p) /\ ~(Start(p) \/ Kill(p))
    <2>1. /\ Running(p) /\ UNCHANGED file
          /\ io'[p].made = io[p].made /\ io'[p].robbed = io[p].robbed
          /\ io'[p].wrote = io[p].wrote
          /\ io'[p].phase = "none" \/ (call'[p] = call[p] /\ At(p, {"read"}))
      BY <1>10 DEF Aside
    <2>2. Keeps(p) \/ call'[p] = call[p]
      <3>1. Rests(p) \/ Skips(p) \/ StepPasses(p) \/ StepFails(p)
        BY <1>10, AsideMoves
      <3> QED
        BY <3>1 DEF Rests, Skips, StepPasses, StepFails, Passes, Fails, Arrives, Returns
    <2>3. ~(At(p, {"write"})' /\ io'[p].phase = "got")
      BY <2>1 DEF At, Current, Steps
    <2>4. \A x : Settled(p, x)' => Settled(p, x)
      BY <2>1, <2>3 DEF Settled
    <2> QED
      BY <1>5, <2>1, <2>2, <2>4
  <1> QED
    BY <1>2, <1>3, <1>4, <1>7, <1>8, <1>9, <1>10, OutputSteps

\* The next step of a script that writes: what was written stays written, and
\* what there was nothing to write to stays so.
LEMMA RememberedOn ==
    ASSUME WriteScripts, Base, NEW p \in Procs, Running(p), Remembered(p),
           Arrives(p, call[p].pc + 1),
           io[p].wrote \subseteq io'[p].wrote,
           \A i \in io'[p].wrote \ io[p].wrote : WritesTo(p, call[p].pc, i),
           \A b \in Buffers : mem'[p][b] # "null" => mem[p][b] # "null" \/ b \in Sets(Current(p)),
           \A i \in Paths :
               /\ WritesTo(p, call[p].pc, i) /\ Given(p, Current(p))
               /\ Outputs[i] \notin call[p].std /\ mem'[p][Outputs[i]] # "null"
               => i \in io'[p].wrote
    PROVE  Remembered(p)'
  <1> DEFINE k == call[p].pc
  <1> SUFFICES ASSUME Writing(p)'
               PROVE  /\ Succeeded(p)' => call'[p].pc > Len(Steps(p)')
                      /\ \A i \in io'[p].wrote : \E j \in 1..(call'[p].pc - 1) : WritesTo(p, j, i)'
                      /\ \A j \in 1..(call'[p].pc - 1), i \in Paths :
                            /\ WritesTo(p, j, i)' /\ Given(p, Steps(p)[j])'
                            /\ Outputs[i] \notin call'[p].std /\ mem'[p][Outputs[i]] # "null"
                            => i \in io'[p].wrote
    BY DEF Remembered
  <1>1. /\ Keeps(p) /\ call'[p].pc = k + 1
        /\ call'[p].rc = IF k + 1 > Len(Steps(p)) THEN "success" ELSE "running"
    BY DEF Arrives
  <1>2. /\ k \in Nat /\ k >= 1 /\ Current(p) = Steps(p)[k]
    BY StepFacts DEF Current
  <1>3. Writing(p)
    BY <1>1, WritingBefore
  <1>4. /\ call'[p].std = call[p].std /\ Steps(p)' = Steps(p)
        /\ \A j, i : WritesTo(p, j, i)' = WritesTo(p, j, i)
        /\ \A j : Given(p, Steps(p)[j])' = Given(p, Steps(p)[j])
    BY <1>1 DEF Keeps, Steps, WritesTo, Given
  <1>5. /\ \A i \in io[p].wrote : \E j \in 1..(k - 1) : WritesTo(p, j, i)
        /\ \A j \in 1..(k - 1), i \in Paths :
              /\ WritesTo(p, j, i) /\ Given(p, Steps(p)[j])
              /\ Outputs[i] \notin call[p].std /\ mem[p][Outputs[i]] # "null"
              => i \in io[p].wrote
    BY <1>3 DEF Remembered
  <1>6. \A j \in 1..(k - 1) : \A i : WritesTo(p, j, i) => Outputs[i] \notin Sets(Current(p))
    BY <1>3, WritingStep
  <1>7. \A i \in io'[p].wrote \ io[p].wrote : WritesTo(p, k, i)
    OBVIOUS
  <1>11. \A i \in Paths :
               /\ WritesTo(p, k, i) /\ Given(p, Current(p))
               /\ Outputs[i] \notin call[p].std /\ mem'[p][Outputs[i]] # "null"
               => i \in io'[p].wrote
    OBVIOUS
  <1> HIDE DEF k
  <1>8. Succeeded(p)' => call'[p].pc > Len(Steps(p)')
    BY <1>1, <1>4 DEF Succeeded
  <1>9. ASSUME NEW i \in io'[p].wrote PROVE \E j \in 1..((k + 1) - 1) : WritesTo(p, j, i)
    <2>1. CASE i \in io[p].wrote
      <3>1. PICK j \in 1..(k - 1) : WritesTo(p, j, i)
        BY <1>5, <2>1
      <3>2. j \in 1..((k + 1) - 1)
        BY <1>2
      <3> QED
        BY <3>1, <3>2
    <2>2. CASE i \notin io[p].wrote
      <3>1. k \in 1..((k + 1) - 1)
        BY <1>2
      <3> QED
        BY <1>7, <1>9, <2>2, <3>1
    <2> QED
      BY <2>1, <2>2
  <1>10. ASSUME NEW j \in 1..((k + 1) - 1), NEW i \in Paths,
                WritesTo(p, j, i), Given(p, Steps(p)[j]),
                Outputs[i] \notin call[p].std, mem'[p][Outputs[i]] # "null"
         PROVE  i \in io'[p].wrote
    <2>1. j = k \/ j \in 1..(k - 1)
      BY <1>2
    <2>2. CASE j = k
      BY <1>2, <1>10, <1>11, <2>2
    <2>3. CASE j \in 1..(k - 1)
      <3>1. Outputs[i] \in Buffers /\ Outputs[i] \notin Sets(Current(p))
        BY <1>6, <1>10, <2>3, OutputsDiffer
      <3>2. mem[p][Outputs[i]] # "null"
        BY <1>10, <3>1
      <3> QED
        BY <1>5, <1>10, <2>3, <3>2
    <2> QED
      BY <2>1, <2>2, <2>3
  <1> QED
    BY <1>1, <1>4, <1>8, <1>9, <1>10

\* Nothing moves but the pointer that an input is read into.
LEMMA RememberedStill ==
    ASSUME WriteScripts, Base, NEW p \in Procs, Running(p), Remembered(p),
           call'[p] = call[p], io'[p].wrote = io[p].wrote,
           \A b \in Buffers : mem'[p][b] # "null" => mem[p][b] # "null" \/ b \in Sets(Current(p))
    PROVE  Remembered(p)'
  <1>1. /\ Writing(p)' = Writing(p) /\ Succeeded(p)' = Succeeded(p)
        /\ Steps(p)' = Steps(p)
        /\ \A j, i : WritesTo(p, j, i)' = WritesTo(p, j, i)
        /\ \A j : Given(p, Steps(p)[j])' = Given(p, Steps(p)[j])
    BY DEF Writing, OnCourse, Succeeded, Steps, WritesTo, Given
  <1>2. ASSUME Writing(p), NEW j \in 1..(call[p].pc - 1), NEW i \in Paths, WritesTo(p, j, i),
               mem'[p][Outputs[i]] # "null"
        PROVE  mem[p][Outputs[i]] # "null"
    BY <1>2, WritingStep, OutputsDiffer
  <1> QED
    BY <1>1, <1>2 DEF Remembered

\* free() makes no pointer NULL, and none that is NULL anything else.
LEMMA FreedNull ==
    ASSUME NEW m \in Pointers, NEW bufs, NEW b \in Buffers
    PROVE  Freed(m, bufs)[b] = "null" <=> m[b] = "null"
  BY DEF Freed, Pointers, MemStates

LEMMA RememberedOwn ==
    ASSUME WriteScripts, Base, NEW p \in Procs, ProcStep(p), Remembered(p)
    PROVE  Remembered(p)'
  <1> DEFINE k == call[p].pc
  <1>1. io[p] \in Transfer /\ mem[p] \in Pointers
    BY TypedParts
  <1>2. CASE Start(p)
    <2>1. /\ call'[p].rc = "running" /\ call'[p].pc = 1
          /\ \E n \in Nat : io'[p] = [NoIo EXCEPT !.pipe = n]
      BY <1>2, StartMoves
    <2>2. NoIo \in Transfer
      BY DEF NoIo, Transfer, Phases
    <2>3. \A n : [NoIo EXCEPT !.pipe = n].wrote = NoIo.wrote
      BY <2>2 DEF Transfer
    <2>4. io'[p].wrote = {}
      BY <2>1, <2>3 DEF NoIo
    <2> QED
      BY <2>1, <2>4 DEF Remembered, Succeeded
  <1>3. CASE Kill(p)
    <2>1. call'[p].rc = "killed"
      BY <1>3, KillMoves
    <2> QED
      BY <2>1 DEF Remembered, Writing, OnCourse
  <1>4. ASSUME Running(p), Fails(p) PROVE Remembered(p)'
    BY <1>4, WritingEnds DEF Remembered
  <1>5. ASSUME Running(p), Passes(p), Arrives(p, k + 1) => Remembered(p)'
        PROVE  Remembered(p)'
    BY <1>5, WritingGoesOn DEF Remembered
  <1>6. ASSUME Running(p)
        PROVE  /\ Current(p) = Steps(p)[k]
               /\ \A i \in Paths : WritesTo(p, k, i) =>
                     Current(p).op = "write" /\ Current(p).buf = Outputs[i]
    BY DEF Current, WritesTo
  <1>7. CASE Skip(p)
    <2>1. /\ Running(p) /\ UNCHANGED io
          /\ Given(p, Current(p)) => Current(p).op = "write" /\ mem[p][Current(p).buf] = "null"
      BY <1>7 DEF Skip
    <2>2. Arrives(p, k + 1)
          /\ \E bufs : mem'[p] = Freed(mem[p], bufs)
      BY <1>7, SkipMoves
    <2>3. \A b \in Buffers : mem'[p][b] = "null" <=> mem[p][b] = "null"
      BY <1>1, <2>2, FreedNull
    <2>4. ASSUME NEW i \in Paths, WritesTo(p, k, i), Given(p, Current(p)),
                 mem'[p][Outputs[i]] # "null"
          PROVE  FALSE
      BY <1>6, <2>1, <2>3, <2>4, OutputsDiffer
    <2> QED
      BY <2>1, <2>2, <2>3, <2>4, RememberedOn
  <1>8. CASE OpenOutput(p) \/ WriteOutput(p)
    <2>1. Wanted(p) /\ UNCHANGED <<call, mem>>
      BY <1>8 DEF OpenOutput, WriteOutput
    <2>2. io'[p].wrote = io[p].wrote
      <3>1. CASE OpenOutput(p)
        <4> DEFINE made == io[p].made \cup {Target(p)}
                   robbed == io[p].robbed \ {Target(p)}
        <4>1. io'[p] = [io[p] EXCEPT !.phase = "open", !.made = made, !.robbed = robbed]
          BY <3>1, OpenOutputMoves
        <4> HIDE DEF made, robbed
        <4> QED
          BY <1>1, <4>1 DEF Transfer
      <3>2. CASE WriteOutput(p)
        BY <1>1, <3>2, WriteOutputMoves DEF Transfer
      <3> QED
        BY <1>8, <3>1, <3>2
    <2> QED
      BY <2>1, <2>2, WantedFacts, RememberedStill
  <1>9. CASE WriteShort(p) \/ RefuseOutput(p) \/ OutputFails(p)
    <2>1. Wanted(p) /\ FailWith(p, mem[p])
      BY <1>9, WriteShortMoves, OutputFailsMoves
    <2>2. Running(p) /\ Fails(p)
      BY <1>1, <2>1, WantedFacts, FailMoves
    <2> QED
      BY <1>4, <2>2
  <1>10. CASE CloseOutput(p) \/ WriteStream(p)
    <2>1. /\ Wanted(p) /\ PassWith(p, mem[p])
          /\ io'[p].wrote = IF OnStream(p) THEN io[p].wrote ELSE io[p].wrote \cup {Target(p)}
      <3>1. CASE CloseOutput(p)
        <4> DEFINE wrote == io[p].wrote \cup {Target(p)}
        <4>1. /\ Wanted(p) /\ ~OnStream(p) /\ PassWith(p, mem[p])
              /\ io'[p] = [io[p] EXCEPT !.phase = "none", !.wrote = wrote]
          BY <3>1, CloseOutputMoves
        <4> HIDE DEF wrote
        <4>2. io'[p].wrote = wrote
          BY <1>1, <4>1 DEF Transfer
        <4> QED
          BY <4>1, <4>2 DEF wrote
      <3>2. CASE WriteStream(p)
        BY <3>2, WriteStreamMoves
      <3> QED
        BY <1>10, <3>1, <3>2
    <2>2. /\ Running(p) /\ Current(p).op = "write" /\ Target(p) \in Paths
          /\ Current(p).buf = Outputs[Target(p)]
      BY <2>1, WantedFacts
    <2>3. Passes(p) /\ mem'[p] = Freed(mem[p], Current(p).done)
      BY <1>1, <2>1, <2>2, PassMoves
    <2>4. \A b \in Buffers : mem'[p][b] = "null" <=> mem[p][b] = "null"
      BY <1>1, <2>3, FreedNull
    <2>5. WritesTo(p, k, Target(p))
      BY <2>2 DEF WritesTo, Current
    <2>6. ASSUME NEW i \in Paths, WritesTo(p, k, i), Outputs[i] \notin call[p].std
          PROVE  i \in io'[p].wrote
      <3>1. i = Target(p)
        BY <1>6, <2>2, <2>6, OutputsDiffer
      <3>2. ~OnStream(p)
        BY <2>2, <2>6, <3>1 DEF OnStream
      <3> QED
        BY <2>1, <3>1, <3>2
    <2>7. /\ io[p].wrote \subseteq io'[p].wrote
          /\ \A i \in io'[p].wrote \ io[p].wrote : WritesTo(p, k, i)
      BY <2>1, <2>5
    <2>8. ASSUME Arrives(p, k + 1) PROVE Remembered(p)'
      BY <2>2, <2>4, <2>6, <2>7, <2>8, RememberedOn
    <2> QED
      BY <1>5, <2>2, <2>3, <2>8
  <1>11. CASE \/ Pass(p) \/ Fail(p) \/ Dispatch(p) \/ DispatchFails(p) \/ DispatchTooEarly(p)
              \/ OpenInput(p) \/ ReadInput(p) \/ CloseInput(p) \/ InputFails(p) \/ ReadStream(p)
    <2>1. Running(p) /\ Current(p).op # "write"
      BY <1>11 DEF Pass, Fail, Dispatch, DispatchFails, DispatchTooEarly, OpenInput, ReadInput,
                   CloseInput, InputFails, ReadStream, At, LocalOps
    <2>2. ~(Start(p) \/ OpenOutput(p) \/ WriteOutput(p) \/ WriteShort(p) \/ CloseOutput(p))
      BY <2>1 DEF Start, OpenOutput, WriteOutput, WriteShort, CloseOutput, Wanted, At, Running
    <2>3. Kill(p) \/ io'[p].wrote = io[p].wrote
      BY <2>2, OutputSteps DEF Aside
    <2>4. Rests(p) \/ StepPasses(p) \/ StepFails(p)
      BY <1>11, LocalMoves, InputMoves
    <2>5. CASE Rests(p)
      <3>1. call'[p] = call[p]
        BY <2>5 DEF Rests
      <3>2. \A b \in Buffers : mem'[p][b] # "null" => mem[p][b] # "null" \/ b \in Sets(Current(p))
        BY <1>1, <2>5 DEF Rests, Sets, Pointers
      <3> QED
        BY <1>3, <2>1, <2>3, <3>1, <3>2, RememberedStill
    <2>6. CASE StepPasses(p)
      <3>1. Passes(p)
        BY <2>6 DEF StepPasses
      <3>2. PICK m \in Pointers : PassMem(p, m) /\ mem'[p] = Freed(m, Current(p).done)
        BY <2>6 DEF StepPasses
      <3>3. \A b \in Buffers : mem'[p][b] # "null" => mem[p][b] # "null" \/ b \in Sets(Current(p))
        BY <3>2, FreedNull DEF PassMem
      <3>4. \A i : ~WritesTo(p, k, i)
        BY <2>1 DEF WritesTo, Current
      <3>5. ASSUME io'[p].wrote = io[p].wrote, Arrives(p, k + 1) PROVE Remembered(p)'
        BY <2>1, <3>3, <3>4, <3>5, RememberedOn
      <3> QED
        BY <1>3, <1>5, <2>1, <2>3, <3>1, <3>5
    <2>7. CASE StepFails(p)
      BY <1>4, <2>7 DEF StepFails
    <2> QED
      BY <2>4, <2>5, <2>6, <2>7
  <1> QED
    BY <1>2, <1>3, <1>7, <1>8, <1>9, <1>10, <1>11 DEF ProcStep

\* What is due at the end has been written.
LEMMA DueWritten ==
    ASSUME WriteScripts, Base, NEW p \in Procs, Succeeded(p), Filed(p), Remembered(p),
           NEW i \in Due(p)
    PROVE  /\ i \in io[p].wrote
           /\ i \in io[p].robbed \/ file[i] = [by |-> p, part |-> "whole"]
  <1>1. PICK k \in 1..Len(Steps(p)) :
           WritesTo(p, k, i) /\ Given(p, Steps(p)[k])
    BY DEF Due, WritesTo
  <1>2. /\ i \in Paths /\ Outputs[i] \notin call[p].std /\ mem[p][Outputs[i]] # "null"
    BY DEF Due
  <1>3. Writing(p)
    BY <1>1 DEF Writing, OnCourse, Succeeded, WritesTo
  <1>4. call[p].pc > Len(Steps(p)) /\ call[p].pc \in Nat /\ Len(Steps(p)) \in Nat
    <2>1. /\ call[p].name \in Menu /\ call[p] \in Calling
      BY Parts DEF Base, InScript, Succeeded
    <2>2. Steps(p) \in Seq(Step)
      BY <2>1, ScriptsAssumption DEF WellFormed, Steps
    <2> QED
      BY <1>3, <2>1, <2>2 DEF Remembered, Calling
  <1>5. k \in 1..(call[p].pc - 1)
    BY <1>4
  <1>6. i \in io[p].wrote
    BY <1>1, <1>2, <1>3, <1>5 DEF Remembered
  <1>7. ASSUME i \notin io[p].robbed
        PROVE  file[i] = [by |-> p, part |-> "whole"]
    <2>1. file[i].by = p /\ file[i].part = "whole"
      BY <1>2, <1>3, <1>6, <1>7 DEF Filed, Settled
    <2>2. file[i] \in [by: Procs \cup {User, Nobody}, part: {"none", "empty", "short", "whole"}]
      BY <1>2, TypedParts DEF Files
    <2> QED
      BY <2>1, <2>2
  <1> QED
    BY <1>6, <1>7

(***************************************************************************)
(* A tool of tools/fapi that exits with 0 has left every result it was     *)
(* returned, whole, in its file, for any number of processes on the same   *)
(* paths, unless one with --force has taken the path since, where its      *)
(* script writes each output once, after its last change, and ends only    *)
(* after the last step (WritesAll, open_write_and_close).                  *)
(***************************************************************************)
THEOREM OutputsKept ==
    ASSUME WriteScripts
    PROVE  Spec => []OutputsWhole
  <1> DEFINE I == InFiles /\ \A p \in Procs : Filed(p) /\ Remembered(p)
  <1>1. Init => I
    <2> SUFFICES ASSUME Init PROVE I
      OBVIOUS
    <2>1. \A p \in Procs : Filed(p) /\ Remembered(p)
      BY DEF Init, Idle, Filed, Remembered, Writing, OnCourse
    <2> QED
      BY <2>1, InFilesInit
  <1>2. I /\ [Next]_vars => I'
    <2> SUFFICES ASSUME I, [Next]_vars PROVE I'
      OBVIOUS
    <2>1. Base /\ \A p \in Procs : Made(p)
      BY DEF InFiles, Transfers
    <2>2. CASE \E p \in Procs : ProcStep(p)
      <3>1. PICK p \in Procs : ProcStep(p)
        BY <2>2
      <3>2. ASSUME NEW q \in Procs \ {p} PROVE Filed(q)' /\ Remembered(q)'
        <4>0. Apart(p) /\ io[q] \in Transfer
          BY <2>1, <3>1, ProcStepFits, TypedParts DEF StepFits
        <4>1. /\ call'[q] = call[q] /\ mem'[q] = mem[q] /\ io'[q].wrote = io[q].wrote
          BY <4>0 DEF Apart, Transfer
        <4>2. Remembered(q)'
          BY <4>1 DEF Remembered, Writing, OnCourse, Succeeded, Steps, WritesTo, Given
        <4> QED
          BY <2>1, <3>1, <4>2, FiledOthers
      <3>3. Filed(p)' /\ Remembered(p)'
        BY <2>1, <3>1, FiledOwn, RememberedOwn
      <3> QED
        BY <3>2, <3>3, InFilesNext
    <2>3. CASE ChangeInput
      <3>1. ASSUME NEW p \in Procs PROVE Filed(p)' /\ Remembered(p)'
        <4>1. UNCHANGED <<call, mem, hash, file>> /\ io[p] \in Transfer
          BY <2>1, <2>3, ChangeInputMoves, TypedParts
        <4>2. io'[p] = io[p] \/ \E x : io'[p] = [io[p] EXCEPT !.excused = x]
          BY <2>1, <2>3, ChangeInputMoves
        <4>3. /\ io'[p].wrote = io[p].wrote /\ io'[p].made = io[p].made
              /\ io'[p].robbed = io[p].robbed /\ io'[p].phase = io[p].phase
          BY <4>1, <4>2 DEF Transfer
        <4>4. Remembered(p)'
          BY <4>1, <4>3 DEF Remembered, Writing, OnCourse, Succeeded, Steps, WritesTo, Given
        <4>5. Writing(p)' = Writing(p) /\ \A i : Settled(p, i)' = Settled(p, i)
          BY <4>1, <4>3 DEF Writing, OnCourse, Steps, Settled, At, Running, Current, Given, Target
        <4> QED
          BY <4>1, <4>3, <4>4, <4>5 DEF Filed
      <3> QED
        BY <3>1, InFilesNext
    <2>4. CASE UNCHANGED vars
      <3>1. UNCHANGED <<call, mem, io, file>>
        BY <2>4 DEF vars
      <3>2. ASSUME NEW p \in Procs PROVE Filed(p)' /\ Remembered(p)'
        <4>1. Remembered(p)'
          BY <3>1 DEF Remembered, Writing, OnCourse, Succeeded, Steps, WritesTo, Given
        <4>2. Writing(p)' = Writing(p) /\ \A i : Settled(p, i)' = Settled(p, i)
          BY <3>1 DEF Writing, OnCourse, Steps, Settled, At, Running, Current, Given, Target
        <4> QED
          BY <3>1, <4>1, <4>2 DEF Filed
      <3> QED
        BY <3>2, InFilesNext
    <2> QED
      BY <2>2, <2>3, <2>4, NextSteps
  <1>3. I => OutputsWhole
    BY DueWritten DEF OutputsWhole, InFiles
  <1> QED
    BY <1>1, <1>2, <1>3, PTL DEF Spec
=============================================================================
