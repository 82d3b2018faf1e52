---------------------------- MODULE LedgerProofs ----------------------------
(***************************************************************************)
(* Session files and the ledger of sessions, for any number of processes,  *)
(* files and sessions.                                                     *)
(*                                                                         *)
(* First, every step of a tool is one of ten moves of sessions.  Then      *)
(* two arguments over these moves.  A session file acts as a lock: while a *)
(* tool holds the session it has restored from a file, the context in that *)
(* file is stale, so nobody else can restore from it, and the tool may     *)
(* overwrite it.  And a session has one owner at a time: a process, or the *)
(* one file with its current context.                                      *)
(***************************************************************************)
EXTENDS ToolLedger, ToolRuntimeProofs

-----------------------------------------------------------------------------
(* What a step of a script does to a process.                              *)

\* The result of a step keeps the session objects and has nothing in memory.
LEMMA AfterStep ==
    ASSUME NEW h \in Process, NEW step \in Step,
           NEW r \in {Advance(h, step), FailStep(h, step)}
    PROVE  /\ r \in Process
           /\ r.hold = h.hold /\ r.path = h.path /\ r.phase = h.phase
           /\ r.micro = "ready" /\ r.buf = 0
<1>1. ASSUME NEW u \in Process, NEW n \in Nat
      PROVE  Goes(u, n) \in Process /\ Goes(u, n).path = u.path
  BY GoesType DEF Goes, Process
<1>2. ASSUME NEW code \in ToolRc \cup {"keep"}
      PROVE  SetRc(h, code) \in Process /\ SetRc(h, code).path = h.path
  <2>1. SetRc(h, code) \in Process
    BY SetRcType
  <2>2. SetRc(h, code).path = h.path
    BY DEF SetRc, Process
  <2>. QED
    BY <2>1, <2>2
<1>3. ASSUME r = Advance(h, step) PROVE r.path = h.path
  <2>. DEFINE code == IF step.resets THEN "success" ELSE "keep"
              u == SetRc(h, code)
  <2>1. code \in ToolRc \cup {"keep"}
    BY DEF ToolRc
  <2>. HIDE DEF code
  <2>2. u \in Process /\ u.path = h.path
    BY <1>2, <2>1
  <2>3. r = Goes(u, u.pc + 1)
    BY <1>3 DEF Advance, NextStep, code
  <2>. HIDE DEF u
  <2>4. u.pc + 1 \in Nat
    BY <2>2 DEF Process
  <2>. QED
    BY <1>1, <2>2, <2>3, <2>4
<1>4. ASSUME r = FailStep(h, step) PROVE r.path = h.path
  <2>. DEFINE u == SetRc(h, step.code)
              n == CASE step.then = 0 -> Len(Script(h)) + 1
                     [] step.then = 1 -> h.pc + 1
                     [] OTHER -> step.then
              v == Goes(u, n)
  <2>1. u \in Process /\ u.path = h.path
    BY <1>2 DEF Step
  <2>2. Script(h) \in Seq(Step)
    BY ScriptAssumption DEF Script, Process
  <2>3. n \in Nat
    BY <2>2 DEF Process, Step
  <2>4. r = [v EXCEPT !.failed = TRUE]
    BY <1>4 DEF FailStep
  <2>. HIDE DEF u, n
  <2>5. v \in Process /\ v.path = h.path
    BY <1>1, <2>1, <2>3
  <2>. HIDE DEF v
  <2>. QED
    BY <2>4, <2>5 DEF Process
<1>. QED
  BY <1>3, <1>4, AdvanceType, FailStepType

\* A session object enters a slot, with the path it will be written to.
LEMMA HoldingPath ==
    ASSUME NEW r \in Process, NEW x \in Slots, NEW s \in 0..MaxSessions,
           NEW f \in Files \cup {NoFile}, NEW b \in BOOLEAN
    PROVE  Holding(r, x, s, f, b).path = [r.path EXCEPT ![x] = f]
BY DEF Holding, Process

-----------------------------------------------------------------------------
(* The moves.                                                              *)

\* Between two accesses of a step; a reader has a file in mind.
Steady(r) ==
    /\ Orderly(r)
    /\ r.micro = "read" => r.pc \in 1..Len(Script(r)) /\ r.opening \in Files

Base == TypeOK /\ \A p \in Procs : Steady(proc[p])

\* Only p moves.
Moves(p) ==
    /\ proc' \in [Procs -> Process]
    /\ \A q \in Procs \ {p} : proc'[q] = proc[q]
    /\ Steady(proc'[p])

\* Process p keeps its session objects.
Keeps(p) ==
    \A x \in Slots :
        /\ proc'[p].hold[x] = proc[p].hold[x]
        /\ proc[p].hold[x] # 0 => proc'[p].path[x] = proc[p].path[x]

\* What the process reads is in a file.
Reads(p) ==
    proc'[p].micro = "read" =>
        \E f \in Files : proc'[p].buf = file[f] /\ proc'[p].opening = f

Quiet(p) ==
    /\ Keeps(p) /\ Reads(p)
    /\ ~InFlight(p) /\ ~InFlight(p)'
    /\ proc'[p].buf \in {0, proc[p].buf} \cup {file[f] : f \in Files}
    /\ UNCHANGED <<sess, counter, file, lost>>

\* fopen has emptied the file of the session in slot x.
Empties(p, x) ==
    /\ Keeps(p) /\ proc[p].hold[x] # 0 /\ proc[p].path[x] \in Files
    /\ ~InFlight(p) /\ proc'[p].micro = "open" /\ proc'[p].buf = proc[p].buf
    /\ file' = [file EXCEPT ![proc[p].path[x]] = 0]
    /\ lost' = lost \cup {s \in Sids : Current(s, file[proc[p].path[x]])}
    /\ UNCHANGED <<sess, counter>>

\* Session s enters slot x, with path f.
Gains(p, s, x, f) ==
    /\ proc'[p].hold = [proc[p].hold EXCEPT ![x] = s]
    /\ proc'[p].path = [proc[p].path EXCEPT ![x] = f]
    /\ ~InFlight(p) /\ proc'[p].micro \in {"ready", "pcr", "close"}
    /\ proc'[p].buf \in {0, proc[p].buf}
    /\ \A t \in Sids \ {s} : sess'[t] = sess[t]
    /\ sess'[s].st = "loaded" /\ sess'[s].conn = {p} /\ sess'[s].cid \in {0, sess[s].cid}
    /\ lost' = lost \ {s}
    /\ UNCHANGED <<counter, file>>

\* Only tpm2_session_open with a path gives a new session a file.
Starts(p, s, x, f) ==
    /\ sess[s].st = "free" /\ sess'[s].cid = 0 /\ Gains(p, s, x, f)
    /\ Ready(p, AcquireOps) /\ x = Slot(p)
    /\ f = NoFile \/ Cur(p).op = "open"

Restores(p, s, x, f) ==
    /\ proc[p].micro = "read" /\ Current(s, proc[p].buf) /\ f = proc[p].opening
    /\ x = Slot(p) /\ Gains(p, s, x, f)

\* The session object of slot x is freed.
Frees(p, x) ==
    /\ proc[p].hold[x] \in Sids
    /\ InFlight(p) => x = Slot(p)
    /\ proc'[p].hold = [proc[p].hold EXCEPT ![x] = 0]
    /\ proc'[p].path = [proc[p].path EXCEPT ![x] = NoFile]
    /\ proc'[p].micro = "ready" /\ proc'[p].buf = 0
    /\ UNCHANGED counter

\* ... after a flush, a failure, or a write of the context to the file.
Flushes(p, x) ==
    /\ Frees(p, x) /\ ~InFlight(p)
    /\ sess' = [sess EXCEPT ![proc[p].hold[x]] = FreeSession]
    /\ lost' = lost \ {proc[p].hold[x]}
    /\ UNCHANGED file

Strands(p, x) ==
    /\ Frees(p, x)
    /\ lost' = lost \cup {s \in Sids : s = proc[p].hold[x] /\ sess[s].st # "free"}
    /\ UNCHANGED <<sess, file>>

Parks(p, x) ==
    /\ Frees(p, x) /\ InFlight(p)
    /\ file' = [file EXCEPT ![proc[p].path[x]] = proc[p].buf]
    /\ lost' = lost \cup {s \in Sids : Current(s, file[proc[p].path[x]])}
    /\ UNCHANGED sess

\* The TPM saves the session of slot x under a new number.
Saves(p, x) ==
    /\ Keeps(p) /\ ~InFlight(p) /\ InFlight(p)' /\ x = Slot(p) /\ Slot(p)' = Slot(p)
    /\ proc[p].hold[x] \in Sids
    /\ counter' = counter + 1 /\ proc'[p].buf = counter + 1
    /\ \A t \in Sids \ {proc[p].hold[x]} : sess'[t] = sess[t]
    /\ sess'[proc[p].hold[x]].st = "saved" /\ sess'[proc[p].hold[x]].cid = counter + 1
    /\ UNCHANGED <<file, lost>>

\* The process is gone, by exit or by a kill.
Ends(p) ==
    /\ \A x \in Slots : proc'[p].hold[x] = 0
    /\ proc'[p].micro = "ready" /\ proc'[p].buf = 0
    /\ Disconnect(p)
    /\ \/ Exit(p) /\ lost' = lost \ {s \in Sids : sess'[s].st = "free"}
       \/ lost' = {s \in lost \cup {proc[p].hold[x] : x \in Slots} :
                      s \in Sids /\ sess'[s].st # "free"}
    /\ UNCHANGED <<counter, file>>

\* A session is flushed by its handle.
Purges(p, s) ==
    /\ Ready(p, {"flushListed"}) /\ Keeps(p) /\ ~InFlight(p) /\ proc'[p].micro = "ready" /\ proc'[p].buf = proc[p].buf
    /\ sess' = [sess EXCEPT ![s] = FreeSession]
    /\ lost' = lost \ {s}
    /\ UNCHANGED <<counter, file>>

SessionMove(p) ==
    /\ Moves(p)
    /\ \/ Quiet(p)
       \/ Ends(p)
       \/ \E x \in Slots :
             \/ Empties(p, x) \/ Flushes(p, x) \/ Strands(p, x)
             \/ Parks(p, x) \/ Saves(p, x)
             \/ \E s \in Sids, f \in Files \cup {NoFile} :
                   Starts(p, s, x, f) \/ Restores(p, s, x, f)
       \/ \E s \in Sids : Purges(p, s)

-----------------------------------------------------------------------------
(* Every step of a tool is one of the moves.                               *)

LEMMA BecomeMoves ==
    ASSUME TypeOK, NEW p \in Procs, NEW r \in Process, Become(p, r), Steady(r)
    PROVE  Moves(p) /\ proc'[p] = r
BY DEF TypeOK, Become, Moves

\* A running process between two steps, and one that has a session in hand.
LEMMA ReadySteady ==
    ASSUME NEW r, r.phase # "idle", r.micro = "ready"
    PROVE  Steady(r)
BY DEF Steady, Orderly, InHand

LEMMA InHandSteady ==
    ASSUME NEW p \in Procs, AtStep(p), NEW r, InHand(r),
           r.phase = proc[p].phase, r.pc = proc[p].pc, r.tool = proc[p].tool,
           r.hold[Slot(p)] # 0
    PROVE  Steady(r)
<1>1. Script(r) = Script(proc[p])
  BY DEF Script
<1>. QED
  BY <1>1 DEF Steady, Orderly, InHand, AtStep, Running, Slot, Cur

LEMMA StepMoves ==
    ASSUME Base, NEW p \in Procs, AtStep(p), ~InFlight(p), Succeed(p) \/ Fail(p),
           UNCHANGED <<sess, counter, file, lost>>
    PROVE  SessionMove(p)
<1>1. PICK r \in {Advance(proc[p], Cur(p)), FailStep(proc[p], Cur(p))} : Become(p, r)
  BY DEF Succeed, Fail
<1>2. proc[p] \in Process /\ Cur(p) \in Step /\ TypeOK
  BY CurType DEF Base, TypeOK
<1>3. /\ r \in Process /\ r.hold = proc[p].hold /\ r.path = proc[p].path
      /\ r.micro = "ready" /\ r.buf = 0 /\ r.phase # "idle"
  BY <1>1, <1>2, AfterStep DEF AtStep, Running
<1>4. Moves(p) /\ proc'[p] = r
  BY <1>1, <1>2, <1>3, BecomeMoves, ReadySteady
<1>5. Quiet(p)
  BY <1>3, <1>4 DEF Quiet, Keeps, Reads, InFlight
<1>. QED
  BY <1>4, <1>5 DEF SessionMove

\* A change of the process alone that leaves its session objects.
LEMMA QuietMoves ==
    ASSUME Base, NEW p \in Procs, NEW r \in Process, Become(p, r),
           \A x \in Slots : /\ r.hold[x] = proc[p].hold[x]
                            /\ r.hold[x] # 0 => r.path[x] = proc[p].path[x],
           ~InFlight(p), r.micro \notin {"read", "saved"}, r.buf \in {0, proc[p].buf},
           Steady(r), UNCHANGED <<sess, counter, file, lost>>
    PROVE  SessionMove(p)
<1>1. Moves(p) /\ proc'[p] = r
  BY BecomeMoves DEF Base
<1>2. Quiet(p)
  BY <1>1 DEF Quiet, Keeps, Reads, InFlight
<1>. QED
  BY <1>1, <1>2 DEF SessionMove

LEMMA EndMoves ==
    ASSUME Base, NEW p \in Procs, Exit(p) \/ Kill(p)
    PROVE  SessionMove(p)
<1>1. PICK status \in ToolRc \cup {"killed"}, failed \in BOOLEAN :
         Become(p, Gone(status, failed))
  <2>1. proc[p] \in Process
    BY DEF Base, TypeOK
  <2>2. ExitCode(proc[p]) \in ToolRc \cup {"killed"} /\ proc[p].failed \in BOOLEAN
    BY <2>1 DEF ExitCode, Process
  <2>. QED
    BY <2>2 DEF Exit, Kill
<1>. DEFINE r == Gone(status, failed)
<1>2. /\ r \in Process /\ r.micro = "ready" /\ r.buf = 0
      /\ \A x \in Slots : r.hold[x] = 0
  BY GoneType
<1>. HIDE DEF r
<1>3. Moves(p) /\ proc'[p] = r
  <2>1. Steady(r)
    BY <1>2 DEF Steady, Orderly, InHand
  <2>. QED
    BY <1>1, <1>2, <2>1, BecomeMoves DEF Base, r
<1>4. Ends(p)
  BY <1>2, <1>3 DEF Ends, Exit, Kill
<1>. QED
  BY <1>3, <1>4 DEF SessionMove

LEMMA MainMoves ==
    ASSUME Base, NEW p \in Procs,
           \/ Invoke(p) \/ InvokeFails(p) \/ CallOnstop(p)
           \/ Work(p) \/ SkipOptional(p)
    PROVE  SessionMove(p)
<1>. proc[p] \in Process /\ Steady(proc[p]) /\ Orderly(proc[p])
  BY DEF Base, TypeOK, Steady
<1>1. CASE Invoke(p)
  <2>1. PICK t \in Tools, c \in BOOLEAN : Become(p, Fresh(t, c))
    BY <1>1 DEF Invoke
  <2>. DEFINE r == Fresh(t, c)
  <2>2. /\ r \in Process /\ r.micro = "ready" /\ r.buf = 0
        /\ \A x \in Slots : r.hold[x] = 0
    BY FreshType DEF Fresh
  <2>3. /\ \A x \in Slots : proc[p].hold[x] = 0
        /\ proc[p].micro = "ready"
    BY <1>1 DEF Invoke, Running, Orderly
  <2>. HIDE DEF r
  <2>4. Steady(r)
    BY <2>2 DEF Steady, Orderly, InHand
  <2>. QED
    BY <1>1, <2>1, <2>2, <2>3, <2>4, QuietMoves DEF Invoke, InFlight, r
<1>2. CASE InvokeFails(p)
  <2>1. PICK code \in {"general_error", "tcti_error"} : Become(p, Gone(code, TRUE))
    BY <1>2 DEF InvokeFails
  <2>. DEFINE r == Gone(code, TRUE)
  <2>2. /\ r \in Process /\ r.micro = "ready" /\ r.buf = 0
        /\ \A x \in Slots : r.hold[x] = 0
    BY GoneType DEF ToolRc
  <2>3. /\ \A x \in Slots : proc[p].hold[x] = 0
        /\ proc[p].micro = "ready"
    BY <1>2 DEF InvokeFails, Running, Orderly
  <2>. HIDE DEF r
  <2>4. Steady(r)
    BY <2>2 DEF Steady, Orderly, InHand
  <2>. QED
    BY <1>2, <2>1, <2>2, <2>3, <2>4, QuietMoves DEF InvokeFails, InFlight, r
<1>3. CASE CallOnstop(p)
  <2>. DEFINE r == [proc[p] EXCEPT !.phase = "onstop", !.pc = 1]
  <2>1. /\ r \in Process
        /\ r.hold = proc[p].hold /\ r.path = proc[p].path /\ r.buf = proc[p].buf
        /\ r.micro = proc[p].micro /\ r.phase = "onstop"
    BY DEF Process
  <2>. HIDE DEF r
  <2>2. proc[p].micro = "ready"
    BY <1>3 DEF CallOnstop, AtStep, Running, Steady, Orderly, InHand, Process
  <2>3. Steady(r)
    BY <2>1, <2>2, ReadySteady
  <2>. QED
    BY <1>3, <2>1, <2>2, <2>3, QuietMoves DEF CallOnstop, InFlight, r
<1>4. CASE Work(p)
  BY <1>4, StepMoves DEF Work, Ready, InFlight
<1>5. CASE SkipOptional(p)
  <2>. DEFINE r == NextStep(proc[p])
  <2>1. /\ r \in Process /\ r.hold = proc[p].hold /\ r.micro = "ready" /\ r.buf = 0
        /\ r.phase = proc[p].phase
    BY NextStepType
  <2>2. r.path = proc[p].path
    BY DEF NextStep, Goes, Process
  <2>. HIDE DEF r
  <2>3. Steady(r)
    BY <1>5, <2>1, ReadySteady DEF SkipOptional, Ready, AtStep, Running
  <2>. QED
    BY <1>5, <2>1, <2>2, <2>3, QuietMoves DEF SkipOptional, Ready, InFlight, r
<1>. QED
  BY <1>1, <1>2, <1>3, <1>4, <1>5

\* A session object has entered the slot of the step.
LEMMA GainMoves ==
    ASSUME Base, NEW p \in Procs, AtStep(p), ~InFlight(p),
           NEW s \in Sids, NEW f \in Files \cup {NoFile}, NEW b \in BOOLEAN,
           NEW h, h = Holding(proc[p], Slot(p), s, f, b),
           NEW r, Become(p, r),
           \/ r = Advance(h, Cur(p))
           \/ r = [h EXCEPT !.micro = "pcr"]
           \/ r = [h EXCEPT !.micro = "close", !.buf = 0, !.opening = NoFile],
           \A t \in Sids \ {s} : sess'[t] = sess[t],
           sess'[s].st = "loaded", sess'[s].conn = {p},
           sess'[s].cid \in {0, sess[s].cid},
           lost' = lost \ {s}, UNCHANGED <<counter, file>>
    PROVE  Moves(p) /\ Gains(p, s, Slot(p), f) /\ Slot(p) \in Slots
<1>1. proc[p] \in Process /\ TypeOK /\ Cur(p) \in Step /\ Slot(p) \in Slots
  BY CurType DEF Base, TypeOK
<1>2. s \in 0..MaxSessions
  BY SessionsAssumption DEF Sids
<1>3. /\ h \in Process /\ h.buf = proc[p].buf
      /\ h.phase = proc[p].phase /\ h.pc = proc[p].pc /\ h.tool = proc[p].tool
      /\ h.hold = [proc[p].hold EXCEPT ![Slot(p)] = s]
      /\ h.path = [proc[p].path EXCEPT ![Slot(p)] = f]
  BY <1>1, <1>2, HoldingType, HoldingPath
<1>4. /\ r \in Process /\ r.hold = h.hold /\ r.path = h.path
      /\ r.micro \in {"ready", "pcr", "close"} /\ r.buf \in {0, proc[p].buf}
  <2>1. CASE r = Advance(h, Cur(p))
    BY <1>1, <1>3, <2>1, AfterStep
  <2>2. CASE r = [h EXCEPT !.micro = "pcr"]
    BY <1>3, <2>2 DEF Process
  <2>. DEFINE u == [h EXCEPT !.micro = "close"]
              v == [u EXCEPT !.buf = 0]
  <2>3. CASE r = [v EXCEPT !.opening = NoFile]
    <3>1. u \in Process /\ u.hold = h.hold /\ u.path = h.path /\ u.micro = "close"
      BY <1>3 DEF Process
    <3>. HIDE DEF u
    <3>2. /\ v \in Process /\ v.hold = h.hold /\ v.path = h.path /\ v.micro = "close"
          /\ v.buf = 0
      BY <3>1 DEF Process
    <3>. HIDE DEF v
    <3>. QED
      BY <2>3, <3>2 DEF Process
  <2>. QED
    BY <2>1, <2>2, <2>3
<1>5. Steady(r)
  <2>1. h.hold[Slot(p)] # 0
    BY <1>1, <1>3, SessionsAssumption DEF Process, Sids
  <2>2. CASE r = Advance(h, Cur(p))
    BY <1>1, <1>3, <2>2, AfterStep, ReadySteady DEF AtStep, Running
  <2>3. CASE r = [h EXCEPT !.micro = "pcr"]
    <3>1. /\ r.micro = "pcr" /\ r.phase = h.phase /\ r.pc = h.pc /\ r.tool = h.tool
          /\ r.hold = h.hold
      BY <1>3, <2>3 DEF Process
    <3>2. InHand(r)
      BY <3>1 DEF InHand
    <3>3. r.hold[Slot(p)] # 0 /\ r.phase = proc[p].phase /\ r.pc = proc[p].pc
      BY <1>3, <2>1, <3>1
    <3>4. r.tool = proc[p].tool
      BY <1>3, <3>1
    <3>. QED
      BY <3>2, <3>3, <3>4, InHandSteady
  <2>4. CASE r = [h EXCEPT !.micro = "close", !.buf = 0, !.opening = NoFile]
    <3>1. /\ r.micro = "close" /\ r.phase = h.phase /\ r.pc = h.pc /\ r.tool = h.tool
          /\ r.hold = h.hold
      BY <1>3, <2>4 DEF Process
    <3>2. InHand(r)
      BY <3>1 DEF InHand
    <3>3. r.hold[Slot(p)] # 0 /\ r.phase = proc[p].phase /\ r.pc = proc[p].pc
      BY <1>3, <2>1, <3>1
    <3>4. r.tool = proc[p].tool
      BY <1>3, <3>1
    <3>. QED
      BY <3>2, <3>3, <3>4, InHandSteady
  <2>. QED
    BY <2>2, <2>3, <2>4
<1>6. Moves(p) /\ proc'[p] = r
  BY <1>1, <1>4, <1>5, BecomeMoves
<1>. QED
  BY <1>1, <1>3, <1>4, <1>6 DEF Gains

LEMMA AcquireMoves ==
    ASSUME Base, NEW p \in Procs, Acquire(p)
    PROVE  SessionMove(p)
<1>. proc[p] \in Process /\ Steady(proc[p]) /\ TypeOK
  BY DEF Base, TypeOK
<1>1. ASSUME Ready(p, AcquireOps), NEW s \in Sids, NEW trial \in BOOLEAN,
             NEW f \in Files \cup {NoFile}, NEW b \in BOOLEAN, b = FALSE,
             Started(p, s, trial), UNCHANGED <<counter, file>>,
             f = NoFile \/ Cur(p).op = "open",
             NEW h, h = Holding(proc[p], Slot(p), s, f, b),
             \/ Become(p, Advance(h, Cur(p)))
             \/ Become(p, [h EXCEPT !.micro = "pcr"])
      PROVE  SessionMove(p)
  <2>1. /\ \A t \in Sids \ {s} : sess'[t] = sess[t]
        /\ sess'[s].st = "loaded" /\ sess'[s].conn = {p} /\ sess'[s].cid = 0
        /\ lost' = lost \ {s} /\ sess[s].st = "free"
    BY <1>1 DEF Started, StartAuthSession, TypeOK
  <2>2. PICK r : /\ Become(p, r)
                 /\ r = Advance(h, Cur(p)) \/ r = [h EXCEPT !.micro = "pcr"]
    BY <1>1
  <2>5. AtStep(p) /\ ~InFlight(p)
    BY <1>1 DEF Ready, InFlight
  <2>3. Moves(p) /\ Gains(p, s, Slot(p), f) /\ Slot(p) \in Slots
    BY <1>1, <2>1, <2>2, <2>5, GainMoves
  <2>4. Starts(p, s, Slot(p), f)
    BY <1>1, <2>1, <2>3 DEF Starts
  <2>. QED
    BY <2>3, <2>4 DEF SessionMove
<1>. DEFINE no == FALSE
<1>. no \in BOOLEAN /\ no = FALSE
  OBVIOUS
<1>. HIDE DEF no
<1>2. CASE AuthPassword(p)
  <2>1. PICK s \in Sids :
          /\ Started(p, s, no)
          /\ Become(p, Advance(Holding(proc[p], Slot(p), s, NoFile, no), Cur(p)))
    BY <1>2 DEF AuthPassword, no
  <2>. QED
    BY <1>1, <1>2, <2>1 DEF AuthPassword, Ready, AcquireOps
<1>3. CASE AuthPcr(p)
  <2>1. PICK s \in Sids :
          /\ Started(p, s, no)
          /\ Become(p, [Holding(proc[p], Slot(p), s, NoFile, no) EXCEPT !.micro = "pcr"])
    BY <1>3 DEF AuthPcr, no
  <2>. QED
    BY <1>1, <1>3, <2>1 DEF AuthPcr, Ready, AcquireOps
<1>4. CASE PolicyBuildPcr(p)
  <2>1. AtStep(p) /\ ~InFlight(p) /\ UNCHANGED <<sess, counter, file, lost>>
    BY <1>4 DEF PolicyBuildPcr, InFlight
  <2>. DEFINE r == [proc[p] EXCEPT !.micro = "close"]
  <2>2. CASE Become(p, r)
    <3>1. /\ r \in Process /\ r.hold = proc[p].hold /\ r.path = proc[p].path
          /\ r.micro = "close" /\ r.buf = proc[p].buf
          /\ r.phase = proc[p].phase /\ r.pc = proc[p].pc /\ r.tool = proc[p].tool
      BY DEF Process
    <3>. HIDE DEF r
    <3>2. proc[p].hold[Slot(p)] # 0
      BY <1>4 DEF PolicyBuildPcr, Steady, Orderly, InHand, Slot, Cur
    <3>3. Steady(r)
      BY <2>1, <3>1, <3>2, InHandSteady DEF InHand
    <3>. QED
      BY <2>1, <2>2, <3>1, <3>3, QuietMoves
  <2>. QED
    BY <1>4, <2>1, <2>2, StepMoves DEF PolicyBuildPcr
<1>5. CASE OpenSession(p)
  <2>1. PICK s \in Sids, trial \in BOOLEAN, f \in Files \cup {NoFile} :
          /\ f = NoFile \/ Cur(p).op = "open"
          /\ Started(p, s, trial)
          /\ Become(p, Advance(Holding(proc[p], Slot(p), s, f, no), Cur(p)))
    BY <1>5 DEF OpenSession, no
  <2>. QED
    BY <1>1, <1>5, <2>1 DEF OpenSession, Ready, AcquireOps
<1>6. CASE AcquireFails(p)
  BY <1>6, StepMoves DEF AcquireFails, Ready, InFlight
<1>7. CASE ReadContext(p)
  <2>1. PICK f \in Files :
          Become(p, [proc[p] EXCEPT !.micro = "read", !.buf = file[f], !.opening = f])
    BY <1>7 DEF ReadContext
  <2>. DEFINE r == [proc[p] EXCEPT !.micro = "read", !.buf = file[f], !.opening = f]
  <2>2. /\ r \in Process /\ r.hold = proc[p].hold /\ r.path = proc[p].path
        /\ r.micro = "read" /\ r.buf = file[f] /\ r.opening = f
        /\ r.phase = proc[p].phase /\ r.pc = proc[p].pc /\ r.tool = proc[p].tool
    BY DEF Process, TypeOK
  <2>. HIDE DEF r
  <2>3. Moves(p) /\ proc'[p] = r
    <3>1. Script(r) = Script(proc[p])
      BY <2>2 DEF Script
    <3>2. Steady(r)
      BY <1>7, <2>2, <3>1
         DEF Steady, Orderly, InHand, ReadContext, Ready, AtStep, Running
    <3>. QED
      BY <2>1, <2>2, <3>2, BecomeMoves DEF r
  <2>4. Quiet(p)
    BY <1>7, <2>2, <2>3 DEF Quiet, Keeps, Reads, InFlight, ReadContext, Ready
  <2>. QED
    BY <2>3, <2>4 DEF SessionMove
<1>8. CASE LoadContext(p)
  <2>1. /\ AtStep(p) /\ ~InFlight(p) /\ UNCHANGED <<counter, file>>
        /\ proc[p].micro = "read" /\ proc[p].opening \in Files
    BY <1>8 DEF LoadContext, InFlight, Steady
  <2>. DEFINE b == Cur(p).op = "restoreFinal"
              held(s) == Holding(proc[p], Slot(p), s, proc[p].opening, b)
  <2>2. PICK s \in Sids :
          /\ Current(s, proc[p].buf)
          /\ ContextLoad(s, p)
          /\ lost' = lost \ {s}
          /\ Become(p, IF Cur(p).op = "auth" /\ sess[s].trial
                       THEN [held(s) EXCEPT !.micro = "close", !.buf = 0,
                                            !.opening = NoFile]
                       ELSE Advance(held(s), Cur(p)))
    BY <1>8 DEF LoadContext
  <2>. DEFINE h == held(s)
  <2>3. b \in BOOLEAN
    OBVIOUS
  <2>. HIDE DEF b
  <2>4. PICK r : /\ Become(p, r)
                 /\ \/ r = Advance(h, Cur(p))
                    \/ r = [h EXCEPT !.micro = "close", !.buf = 0, !.opening = NoFile]
    BY <2>2
  <2>5. /\ \A t \in Sids \ {s} : sess'[t] = sess[t]
        /\ sess'[s].st = "loaded" /\ sess'[s].conn = {p} /\ sess'[s].cid = sess[s].cid
    BY <2>2 DEF ContextLoad, TypeOK, Session
  <2>6. h = Holding(proc[p], Slot(p), s, proc[p].opening, b)
    OBVIOUS
  <2>. HIDE DEF h, held
  <2>7. /\ Moves(p) /\ Gains(p, s, Slot(p), proc[p].opening)
        /\ Slot(p) \in Slots
    BY <2>1, <2>2, <2>3, <2>4, <2>5, <2>6, GainMoves
  <2>. QED
    BY <2>1, <2>2, <2>7 DEF SessionMove, Restores
<1>9. CASE LoadContextFails(p)
  BY <1>9, StepMoves DEF LoadContextFails, InFlight
<1>. QED
  BY <1>2, <1>3, <1>4, <1>5, <1>6, <1>7, <1>8, <1>9 DEF Acquire

\* tpm2_session_close returns.
LEMMA CloseMoves ==
    ASSUME Base, NEW p \in Procs, AtStep(p), Held(p) # 0, NEW ok \in BOOLEAN,
           CloseReturns(p, ok), UNCHANGED counter
    PROVE  /\ Moves(p) /\ Frees(p, Slot(p)) /\ Slot(p) \in Slots
           /\ proc[p].hold[Slot(p)] = Held(p) /\ proc[p].path[Slot(p)] = Path(p)
<1>. DEFINE z == 0
            b == FALSE
            h == Holding(proc[p], Slot(p), z, NoFile, b)
<1>1. proc[p] \in Process /\ TypeOK /\ Cur(p) \in Step /\ Slot(p) \in Slots
  BY CurType DEF Base, TypeOK
<1>2. z \in 0..MaxSessions /\ b \in BOOLEAN /\ h = Released(p)
  BY SessionsAssumption DEF Released
<1>3. PICK r \in {Advance(h, Cur(p)), FailStep(h, Cur(p))} : Become(p, r)
  BY <1>2 DEF CloseReturns
<1>. HIDE DEF z, b
<1>4. /\ h \in Process /\ h.phase # "idle"
      /\ h.hold = [proc[p].hold EXCEPT ![Slot(p)] = z]
      /\ h.path = [proc[p].path EXCEPT ![Slot(p)] = NoFile]
  <2>1. /\ h \in Process /\ h.phase = proc[p].phase
        /\ h.hold = [proc[p].hold EXCEPT ![Slot(p)] = z]
        /\ h.path = [proc[p].path EXCEPT ![Slot(p)] = NoFile]
    BY <1>1, <1>2, HoldingType, HoldingPath
  <2>. QED
    BY <2>1 DEF AtStep, Running
<1>. HIDE DEF h
<1>5. /\ r \in Process /\ r.hold = h.hold /\ r.path = h.path
      /\ r.micro = "ready" /\ r.buf = 0 /\ r.phase # "idle"
  BY <1>1, <1>3, <1>4, AfterStep
<1>6. Moves(p) /\ proc'[p] = r
  BY <1>1, <1>3, <1>5, BecomeMoves, ReadySteady
<1>7. Held(p) \in Sids
  BY <1>1, HeldSid DEF Held
<1>. QED
  BY <1>1, <1>4, <1>5, <1>6, <1>7 DEF Frees, Held, Path, z

LEMMA GiveUpMoves ==
    ASSUME Base, NEW p \in Procs, AtStep(p), Held(p) # 0,
           CloseGivesUp(p), UNCHANGED file
    PROVE  SessionMove(p)
<1>. DEFINE ok == FALSE
<1>1. ok \in BOOLEAN /\ CloseReturns(p, ok)
  BY DEF CloseGivesUp
<1>. HIDE DEF ok
<1>2. Moves(p) /\ Frees(p, Slot(p)) /\ Slot(p) \in Slots /\ proc[p].hold[Slot(p)] = Held(p)
  BY <1>1, CloseMoves DEF CloseGivesUp
<1>3. Strands(p, Slot(p))
  BY <1>2 DEF Strands, CloseGivesUp, Stranded
<1>. QED
  BY <1>2, <1>3 DEF SessionMove

LEMMA ReleaseMoves ==
    ASSUME Base, NEW p \in Procs, Release(p)
    PROVE  SessionMove(p)
<1>. proc[p] \in Process /\ Orderly(proc[p]) /\ TypeOK
  BY DEF Base, TypeOK, Steady
<1>. DEFINE yes == TRUE
<1>. yes \in BOOLEAN /\ yes = TRUE
  OBVIOUS
<1>. HIDE DEF yes
<1>1. ASSUME AtStep(p), InHand(proc[p]) PROVE Held(p) # 0
  BY <1>1 DEF Orderly, Held, Slot, Cur
<1>2. CASE CloseNothing(p)
  BY <1>2, StepMoves DEF CloseNothing, Ready, InFlight
<1>3. CASE OpenFile(p)
  <2>. DEFINE r == [proc[p] EXCEPT !.micro = "open"]
  <2>1. /\ r \in Process /\ r.hold = proc[p].hold /\ r.path = proc[p].path
        /\ r.micro = "open" /\ r.buf = proc[p].buf
        /\ r.phase = proc[p].phase /\ r.pc = proc[p].pc /\ r.tool = proc[p].tool
    BY DEF Process
  <2>. HIDE DEF r
  <2>2. Moves(p) /\ proc'[p] = r
    <3>1. Steady(r)
      BY <1>3, <2>1, InHandSteady DEF OpenFile, Closing, Held, InHand
    <3>. QED
      BY <1>3, <2>1, <3>1, BecomeMoves DEF OpenFile, r
  <2>3. AtStep(p) /\ Held(p) # 0 /\ Path(p) # NoFile /\ ~InFlight(p)
    BY <1>3 DEF OpenFile, Closing, InFlight
  <2>4. Slot(p) \in Slots /\ proc[p].path[Slot(p)] \in Files /\ proc[p].hold[Slot(p)] # 0
    BY <2>3, CurType DEF Path, Held, Process
  <2>5. Empties(p, Slot(p))
    BY <1>3, <2>1, <2>2, <2>3, <2>4 DEF Empties, Keeps, OpenFile, Path
  <2>. QED
    BY <2>2, <2>4, <2>5 DEF SessionMove
<1>4. CASE OpenFileFails(p)
  BY <1>4, GiveUpMoves DEF OpenFileFails, Closing
<1>5. ASSUME Flushing(p) PROVE AtStep(p) /\ Held(p) # 0 /\ ~InFlight(p)
  BY <1>1, <1>5 DEF Flushing, Closing, InHand, InFlight
<1>6. CASE Flush(p)
  <2>1. AtStep(p) /\ Held(p) # 0 /\ ~InFlight(p) /\ CloseReturns(p, yes)
    BY <1>5, <1>6 DEF Flush
  <2>2. /\ Moves(p) /\ Frees(p, Slot(p)) /\ Slot(p) \in Slots
        /\ proc[p].hold[Slot(p)] = Held(p)
    BY <1>6, <2>1, CloseMoves DEF Flush
  <2>3. Flushes(p, Slot(p))
    BY <1>6, <2>1, <2>2 DEF Flushes, Flush, FlushContext
  <2>. QED
    BY <2>2, <2>3 DEF SessionMove
<1>7. CASE FlushFails(p)
  BY <1>5, <1>7, GiveUpMoves DEF FlushFails
<1>8. CASE SaveContext(p)
  <2>. DEFINE n == counter + 1
              r == [proc[p] EXCEPT !.micro = "saved", !.buf = n]
  <2>1. AtStep(p) /\ ~InFlight(p) /\ Held(p) # 0 /\ n \in Nat
    BY <1>1, <1>8 DEF SaveContext, Saving, InHand, InFlight, TypeOK
  <2>2. /\ Become(p, r) /\ UNCHANGED <<file, lost>> /\ counter' = n
        /\ sess' = [sess EXCEPT ![Held(p)].st = "saved", ![Held(p)].cid = n,
                                ![Held(p)].conn = {}]
    BY <1>8 DEF SaveContext, ContextSave
  <2>. HIDE DEF n
  <2>3. /\ r \in Process /\ r.hold = proc[p].hold /\ r.path = proc[p].path
        /\ r.phase = proc[p].phase /\ r.tool = proc[p].tool /\ r.pc = proc[p].pc
        /\ r.micro = "saved" /\ r.buf = n
    BY <2>1 DEF Process
  <2>. HIDE DEF r
  <2>4. Moves(p) /\ proc'[p] = r
    <3>1. Steady(r)
      BY <2>1, <2>3, InHandSteady DEF Held, InHand
    <3>. QED
      BY <2>2, <2>3, <3>1, BecomeMoves
  <2>5. Slot(p) \in Slots /\ Held(p) = proc[p].hold[Slot(p)] /\ Held(p) \in Sids
    BY <2>1, CurType, HeldSid DEF Held
  <2>6. Slot(p)' = Slot(p)
    BY <2>3, <2>4 DEF Slot, Cur, Script
  <2>7. /\ \A t \in Sids \ {Held(p)} : sess'[t] = sess[t]
        /\ sess'[Held(p)].st = "saved" /\ sess'[Held(p)].cid = n
    BY <2>2, <2>5 DEF TypeOK, Session
  <2>8. Keeps(p) /\ InFlight(p)' /\ proc'[p].buf = n
    BY <2>3, <2>4 DEF Keeps, InFlight
  <2>9. Saves(p, Slot(p))
    BY <2>1, <2>2, <2>5, <2>6, <2>7, <2>8 DEF Saves, n
  <2>. QED
    BY <2>4, <2>5, <2>9 DEF SessionMove
<1>9. CASE SaveContextFails(p)
  BY <1>1, <1>9, GiveUpMoves DEF SaveContextFails, Saving, InHand
<1>10. ASSUME AtStep(p), proc[p].micro = "saved" PROVE Held(p) # 0 /\ InFlight(p)
  BY <1>1, <1>10 DEF InHand, InFlight
<1>11. CASE WriteContext(p)
  <2>1. AtStep(p) /\ InFlight(p) /\ Held(p) # 0 /\ CloseReturns(p, yes)
    BY <1>10, <1>11 DEF WriteContext
  <2>2. /\ Moves(p) /\ Frees(p, Slot(p)) /\ Slot(p) \in Slots
        /\ proc[p].path[Slot(p)] = Path(p)
    BY <1>11, <2>1, CloseMoves DEF WriteContext
  <2>3. Parks(p, Slot(p))
    BY <1>11, <2>1, <2>2 DEF Parks, WriteContext
  <2>. QED
    BY <2>2, <2>3 DEF SessionMove
<1>12. CASE WriteContextFails(p)
  <2>1. PICK ok \in BOOLEAN : CloseReturns(p, ok)
    BY <1>12 DEF WriteContextFails
  <2>2. AtStep(p) /\ Held(p) # 0
    BY <1>10, <1>12 DEF WriteContextFails
  <2>3. /\ Moves(p) /\ Frees(p, Slot(p)) /\ Slot(p) \in Slots
        /\ proc[p].hold[Slot(p)] = Held(p)
    BY <1>12, <2>1, <2>2, CloseMoves DEF WriteContextFails
  <2>4. Strands(p, Slot(p))
    BY <1>12, <2>3 DEF Strands, WriteContextFails, Stranded
  <2>. QED
    BY <2>3, <2>4 DEF SessionMove
<1>. QED
  BY <1>2, <1>3, <1>4, <1>6, <1>7, <1>8, <1>9, <1>11, <1>12 DEF Release

LEMMA BulkMoves ==
    ASSUME Base, NEW p \in Procs, BulkFlush(p)
    PROVE  SessionMove(p)
<1>. proc[p] \in Process /\ TypeOK
  BY DEF Base, TypeOK
<1>1. CASE ListHandles(p)
  <2>1. PICK L \in Listing(Cur(p).op) :
          Become(p, [Advance(proc[p], Cur(p)) EXCEPT !.listed = L])
    BY <1>1 DEF ListHandles
  <2>2. L \in SUBSET Sids
    BY <1>1, <2>1 DEF ListHandles, Ready, Listing
  <2>3. AtStep(p) /\ ~InFlight(p)
    BY <1>1 DEF ListHandles, Ready, InFlight
  <2>. DEFINE a == Advance(proc[p], Cur(p))
              r == [a EXCEPT !.listed = L]
  <2>4. /\ a \in Process /\ a.hold = proc[p].hold /\ a.path = proc[p].path
        /\ a.micro = "ready" /\ a.buf = 0 /\ a.phase # "idle"
    BY <2>3, AfterStep, CurType DEF AtStep, Running
  <2>. HIDE DEF a
  <2>5. /\ r \in Process /\ r.hold = proc[p].hold /\ r.path = proc[p].path
        /\ r.micro = "ready" /\ r.buf = 0 /\ r.phase # "idle"
    BY <2>2, <2>4 DEF Process
  <2>6. Become(p, r)
    BY <2>1 DEF a
  <2>. HIDE DEF r
  <2>. QED
    BY <1>1, <2>3, <2>5, <2>6, QuietMoves, ReadySteady DEF ListHandles
<1>2. CASE ListHandlesFails(p)
  BY <1>2, StepMoves DEF ListHandlesFails, Ready, InFlight
<1>3. CASE FlushListed(p)
  <2>1. PICK s \in proc[p].listed :
          /\ FlushContext(s) /\ lost' = lost \ {s}
          /\ Become(p, [proc[p] EXCEPT !.listed = @ \ {s}])
    BY <1>3 DEF FlushListed
  <2>. DEFINE r == [proc[p] EXCEPT !.listed = @ \ {s}]
  <2>2. s \in Sids
    BY DEF Process
  <2>3. /\ r \in Process /\ r.hold = proc[p].hold /\ r.path = proc[p].path
        /\ r.micro = "ready" /\ r.buf = proc[p].buf /\ r.phase # "idle"
    BY <1>3 DEF Process, FlushListed, Ready, AtStep, Running
  <2>. HIDE DEF r
  <2>4. Moves(p) /\ proc'[p] = r
    BY <2>1, <2>3, BecomeMoves, ReadySteady DEF r
  <2>5. Ready(p, {"flushListed"}) /\ ~InFlight(p) /\ UNCHANGED <<counter, file>>
    BY <1>3 DEF FlushListed, Ready, InFlight
  <2>6. Purges(p, s)
    BY <2>1, <2>3, <2>4, <2>5 DEF Purges, Keeps, FlushContext
  <2>. QED
    BY <2>2, <2>4, <2>6 DEF SessionMove
<1>4. CASE FlushListedFails(p)
  BY <1>4, StepMoves DEF FlushListedFails, Ready, InFlight
<1>5. CASE FlushListedDone(p)
  BY <1>5, StepMoves DEF FlushListedDone, Ready, InFlight
<1>. QED
  BY <1>1, <1>2, <1>3, <1>4, <1>5 DEF BulkFlush

LEMMA EveryStepMoves ==
    ASSUME Base, Next
    PROVE  (\E p \in Procs : SessionMove(p)) \/ UNCHANGED vars
BY MainMoves, EndMoves, AcquireMoves, ReleaseMoves, BulkMoves
   DEF Next, ToolStep, Finished

-----------------------------------------------------------------------------
(* Context numbers.                                                        *)

\* A saved session has a number of its own.
Numbered == \A s \in Sids : sess[s].st = "saved" => sess[s].cid # 0

Numbers == Bounded /\ Distinct /\ Numbered

LEMMA InitBase == Init => Base /\ Numbers
<1>. SUFFICES ASSUME Init PROVE Base /\ Numbers
  OBVIOUS
<1>1. Inv
  BY InitInv
<1>2. \A p \in Procs : proc[p].micro = "ready"
  BY GoneType DEF Init, ToolRc
<1>3. Base
  BY <1>1, <1>2 DEF Base, Inv, Steady
<1>4. Numbered
  <2>1. \A s \in Sids : s # 0
    BY SessionsAssumption DEF Sids
  <2>. QED
    BY <2>1 DEF Numbered, Init, FreeSession
<1>. QED
  BY <1>1, <1>3, <1>4 DEF Numbers, Inv

LEMMA MoveBase ==
    ASSUME Base, TypeOK', NEW p \in Procs, SessionMove(p)
    PROVE  Base'
<1>1. ASSUME NEW q \in Procs PROVE Steady(proc'[q])
  BY DEF SessionMove, Moves, Base
<1>2. ASSUME NEW q \in Procs PROVE Steady(proc[q])'
  BY <1>1 DEF Steady, Orderly, InHand, Script
<1>. QED
  BY <1>2 DEF Base

\* No number comes back to life: what is current after a move was current
\* before, or is the fresh number of the session that was saved.
LEMMA MoveCurrent ==
    ASSUME Base, TypeOK', NEW p \in Procs, SessionMove(p),
           NEW s \in Sids, NEW c, Current(s, c)'
    PROVE  /\ c \in Nat
           /\ \/ sess'[s] = sess[s] /\ Current(s, c)
              \/ \E x \in Slots : Saves(p, x) /\ s = proc[p].hold[x] /\ c = counter + 1
<1>. TypeOK /\ sess \in [Sids -> Session] /\ sess' \in [Sids -> Session] /\ c \in Nat
  BY DEF Base, TypeOK, Current, Session
<1>. sess'[s].st = "saved" /\ sess'[s].cid = c
  BY DEF Current
<1>1. CASE Quiet(p)
  BY <1>1 DEF Quiet, Current
<1>2. CASE Ends(p)
  BY <1>2 DEF Ends, Disconnect, FreeSession, Current
<1>3. CASE \E x \in Slots : Empties(p, x) \/ Strands(p, x) \/ Parks(p, x)
  BY <1>3 DEF Empties, Strands, Parks, Current
<1>4. CASE \E x \in Slots : Flushes(p, x)
  BY <1>4 DEF Flushes, FreeSession, Current
<1>5. ASSUME NEW x \in Slots, Saves(p, x)
      PROVE  \/ sess'[s] = sess[s] /\ Current(s, c)
             \/ s = proc[p].hold[x] /\ c = counter + 1
  BY <1>5 DEF Saves, Current
<1>6. CASE \E x \in Slots, t \in Sids, f \in Files \cup {NoFile} :
              Starts(p, t, x, f) \/ Restores(p, t, x, f)
  BY <1>6 DEF Starts, Restores, Gains, Current
<1>7. CASE \E t \in Sids : Purges(p, t)
  BY <1>7 DEF Purges, FreeSession, Current
<1>. QED
  BY <1>1, <1>2, <1>3, <1>4, <1>5, <1>6, <1>7 DEF SessionMove

\* What a move does to the numbers that are stored.
LEMMA MoveNumbers ==
    ASSUME Base, Bounded, TypeOK', NEW p \in Procs, SessionMove(p)
    PROVE  /\ counter' \in Nat /\ counter <= counter'
           /\ \A s \in Sids : sess'[s].cid <= counter'
           /\ \A f \in Files : file'[f] <= counter'
           /\ \A q \in Procs : proc'[q].buf <= counter'
<1>. /\ TypeOK /\ counter \in Nat /\ sess \in [Sids -> Session]
     /\ file \in [Files -> Nat] /\ proc \in [Procs -> Process]
  BY DEF Base, TypeOK
<1>. /\ \A s \in Sids : sess[s].cid \in Nat /\ sess[s].cid <= counter
     /\ \A f \in Files : file[f] <= counter
     /\ \A q \in Procs : proc[q].buf \in Nat /\ proc[q].buf <= counter
     /\ \A q \in Procs \ {p} : proc'[q] = proc[q]
  BY DEF Bounded, Session, Process, SessionMove, Moves
<1>. FreeSession.cid = 0
  BY DEF FreeSession
<1>1. CASE Quiet(p)
  BY <1>1 DEF Quiet
<1>2. CASE Ends(p)
  BY <1>2 DEF Ends, Disconnect
<1>3. CASE \E x \in Slots : Empties(p, x)
  BY <1>3 DEF Empties
<1>4. CASE \E x \in Slots : Flushes(p, x)
  BY <1>4 DEF Flushes, Frees
<1>5. CASE \E x \in Slots : Strands(p, x)
  BY <1>5 DEF Strands, Frees
<1>6. CASE \E x \in Slots : Parks(p, x)
  BY <1>6 DEF Parks, Frees
<1>7. CASE \E x \in Slots : Saves(p, x)
  BY <1>7 DEF Saves
<1>8. CASE \E x \in Slots, t \in Sids, f \in Files \cup {NoFile} :
              Starts(p, t, x, f) \/ Restores(p, t, x, f)
  BY <1>8 DEF Starts, Restores, Gains
<1>9. CASE \E t \in Sids : Purges(p, t)
  BY <1>9 DEF Purges
<1>. QED
  BY <1>1, <1>2, <1>3, <1>4, <1>5, <1>6, <1>7, <1>8, <1>9 DEF SessionMove

LEMMA NumbersKept ==
    ASSUME Base, Numbers, TypeOK', NEW p \in Procs, SessionMove(p)
    PROVE  Numbers'
<1>. TypeOK /\ counter \in Nat
  BY DEF Base, TypeOK
<1>1. Bounded'
  BY MoveNumbers DEF Numbers, Bounded
<1>2. ASSUME NEW s \in Sids, NEW c, Current(s, c)'
      PROVE  Current(s, c) \/ (c = counter + 1 /\ c \in Nat)
  BY <1>2, MoveCurrent
<1>3. \A s \in Sids : sess[s].cid \in Nat /\ sess[s].cid <= counter
  BY DEF Numbers, Bounded, TypeOK, Session
<1>4. Distinct'
  <2>. SUFFICES ASSUME NEW s \in Sids, NEW t \in Sids, NEW c,
                       Current(s, c)', Current(t, c)'
                PROVE  s = t
    BY DEF Distinct, Current
  <2>1. CASE Current(s, c) /\ Current(t, c)
    BY <2>1 DEF Numbers, Distinct, Current
  <2>2. CASE ~Current(s, c) \/ ~Current(t, c)
    <3>1. c = counter + 1 /\ ~Current(s, c) /\ ~Current(t, c)
      BY <1>2, <1>3, <2>2 DEF Current
    <3>2. PICK x \in Slots : Saves(p, x) /\ s = proc[p].hold[x]
      BY <3>1, MoveCurrent
    <3>3. PICK y \in Slots : Saves(p, y) /\ t = proc[p].hold[y]
      BY <3>1, MoveCurrent
    <3>. QED
      BY <3>2, <3>3 DEF Saves
  <2>. QED
    BY <2>1, <2>2
<1>5. Numbered'
  <2>. SUFFICES ASSUME NEW s \in Sids, Current(s, 0)' PROVE FALSE
    BY DEF Numbered, Current
  <2>1. Current(s, 0)
    BY <1>2
  <2>. QED
    BY <2>1 DEF Numbers, Numbered, Current
<1>. QED
  BY <1>1, <1>4, <1>5 DEF Numbers

\* Base and Numbers are invariants of any tools whatsoever.
LEMMA NextBase == Base /\ Numbers /\ [Next]_vars => Base' /\ Numbers'
<1>. SUFFICES ASSUME Base, Numbers, [Next]_vars PROVE Base' /\ Numbers'
  OBVIOUS
<1>1. TypeOK'
  BY NextType DEF Base
<1>2. CASE UNCHANGED vars
  BY <1>2 DEF vars, Base, TypeOK, Steady, Orderly, InHand, Script,
              Numbers, Bounded, Distinct, Numbered
<1>3. CASE \E p \in Procs : SessionMove(p)
  BY <1>1, <1>3, MoveBase, NumbersKept
<1>. QED
  BY <1>2, <1>3, EveryStepMoves

-----------------------------------------------------------------------------
(* A session file is a lock.                                               *)

\* No tool is of the kind of startauthsession, which names a file to create.
NoNewFiles ==
    \A t \in Tools : \A script \in {Onrun[t], Onstop[t]} :
        \A i \in 1..Len(script) : script[i].op # "open"

\* The close of the session in slot x will replace file f.
Linked(p, x, f) == proc[p].hold[x] # 0 /\ proc[p].path[x] = f

PathLock ==
    \A p, q \in Procs, x, y \in Slots, f \in Files :
        Linked(p, x, f) /\ Linked(q, y, f) => p = q /\ x = y

PathStale ==
    \A p \in Procs, x \in Slots, f \in Files :
        Linked(p, x, f) => \A s \in Sids : ~Current(s, file[f])

\* A context that was read and can still be loaded is still in its file.
ReadCurrent ==
    \A p \in Procs : proc[p].micro = "read" =>
        \A s \in Sids : Current(s, proc[p].buf) =>
            file[proc[p].opening] = proc[p].buf

Locks == PathLock /\ PathStale /\ ReadCurrent

LEMMA InitLocks == Init => Locks
<1>. SUFFICES ASSUME Init PROVE Locks
  OBVIOUS
<1>1. ASSUME NEW p \in Procs
      PROVE  proc[p].micro = "ready" /\ \A x \in Slots : proc[p].hold[x] = 0
  BY GoneType DEF Init, ToolRc
<1>. QED
  BY <1>1 DEF Locks, PathLock, PathStale, ReadCurrent, Linked

\* A move changes a file only through a link to it.
LEMMA MoveFile ==
    ASSUME Base, NEW p \in Procs, SessionMove(p), NEW f \in Files, file'[f] # file[f]
    PROVE  /\ \E x \in Slots :
                 /\ Linked(p, x, f)
                 /\ \/ Empties(p, x) /\ file'[f] = 0
                    \/ Parks(p, x) /\ file'[f] = proc[p].buf
           /\ \A g \in Files : g # f => file'[g] = file[g]
<1>. file \in [Files -> Nat]
  BY DEF Base, TypeOK
<1>1. CASE Quiet(p)
  BY <1>1 DEF Quiet
<1>2. CASE Ends(p)
  BY <1>2 DEF Ends
<1>3. ASSUME NEW x \in Slots, Empties(p, x)
      PROVE  /\ Linked(p, x, f) /\ file'[f] = 0
             /\ \A g \in Files : g # f => file'[g] = file[g]
  BY <1>3 DEF Empties, Linked
<1>4. CASE \E x \in Slots : Flushes(p, x)
  BY <1>4 DEF Flushes
<1>5. CASE \E x \in Slots : Strands(p, x)
  BY <1>5 DEF Strands
<1>6. ASSUME NEW x \in Slots, Parks(p, x)
      PROVE  /\ Linked(p, x, f) /\ file'[f] = proc[p].buf
             /\ \A g \in Files : g # f => file'[g] = file[g]
  <2>1. proc[p].hold[x] # 0
    BY <1>6, SessionsAssumption DEF Parks, Frees, Sids
  <2>. QED
    BY <1>6, <2>1 DEF Parks, Linked
<1>7. CASE \E x \in Slots : Saves(p, x)
  BY <1>7 DEF Saves
<1>8. CASE \E x \in Slots, t \in Sids, g \in Files \cup {NoFile} :
              Starts(p, t, x, g) \/ Restores(p, t, x, g)
  BY <1>8 DEF Starts, Restores, Gains
<1>9. CASE \E t \in Sids : Purges(p, t)
  BY <1>9 DEF Purges
<1>. QED
  BY <1>1, <1>2, <1>3, <1>4, <1>5, <1>6, <1>7, <1>8, <1>9 DEF SessionMove

\* A new link comes from a session file that was read.
LEMMA MoveLink ==
    ASSUME Base, NoNewFiles, NEW p \in Procs, SessionMove(p),
           NEW q \in Procs, NEW y \in Slots, NEW f \in Files, Linked(q, y, f)'
    PROVE  \/ Linked(q, y, f)
           \/ q = p /\ \E s \in Sids : Restores(p, s, y, f)
<1>. /\ TypeOK /\ proc[p] \in Process /\ proc'[q].hold[y] # 0 /\ proc'[q].path[y] = f
     /\ NoFile \notin Files /\ 0 \notin Sids
  BY ProcsAssumption, SessionsAssumption DEF Base, TypeOK, Linked, Sids
<1>. SUFFICES ASSUME q = p PROVE Linked(q, y, f) \/ \E s \in Sids : Restores(p, s, y, f)
  BY DEF SessionMove, Moves, Linked
<1>. proc[p].hold \in [Slots -> 0..MaxSessions] /\ proc[p].path \in [Slots -> Files \cup {NoFile}]
  BY DEF Process
<1>1. CASE Quiet(p)
  BY <1>1 DEF Quiet, Keeps, Linked
<1>2. CASE Ends(p)
  BY <1>2 DEF Ends
<1>3. CASE \E x \in Slots : Empties(p, x)
  BY <1>3 DEF Empties, Keeps, Linked
<1>4. CASE \E x \in Slots : Flushes(p, x) \/ Strands(p, x) \/ Parks(p, x)
  BY <1>4 DEF Flushes, Strands, Parks, Frees, Linked
<1>5. CASE \E x \in Slots : Saves(p, x)
  BY <1>5 DEF Saves, Keeps, Linked
<1>6. ASSUME NEW x \in Slots, NEW s \in Sids, NEW g \in Files \cup {NoFile}, Starts(p, s, x, g)
      PROVE  Linked(q, y, f)
  <2>1. g = NoFile
    <3>. SUFFICES ASSUME AtStep(p), Cur(p).op = "open" PROVE FALSE
      BY <1>6 DEF Starts, Ready
    <3>. QED
      BY DEF AtStep, Cur, Script, NoNewFiles, Process
  <2>. QED
    BY <1>6, <2>1 DEF Starts, Gains, Linked
<1>7. ASSUME NEW x \in Slots, NEW s \in Sids, NEW g \in Files \cup {NoFile}, Restores(p, s, x, g)
      PROVE  Linked(q, y, f) \/ Restores(p, s, y, f)
  <2>1. CASE x = y
    BY <1>7, <2>1 DEF Restores, Gains
  <2>2. CASE x # y
    BY <1>7, <2>2 DEF Restores, Gains, Linked
  <2>. QED
    BY <2>1, <2>2
<1>8. CASE \E s \in Sids : Purges(p, s)
  BY <1>8 DEF Purges, Keeps, Linked
<1>. QED
  BY <1>1, <1>2, <1>3, <1>4, <1>5, <1>6, <1>7, <1>8 DEF SessionMove

LEMMA LocksKept ==
    ASSUME NoNewFiles, Base, Numbers, Locks, TypeOK', NEW p \in Procs, SessionMove(p)
    PROVE  Locks'
<1>. /\ TypeOK /\ counter \in Nat /\ file \in [Files -> Nat]
     /\ \A f \in Files : file[f] \in Nat /\ file[f] <= counter
     /\ \A q \in Procs : proc[q].buf \in Nat /\ proc[q].buf <= counter
  BY DEF Base, TypeOK, Numbers, Bounded, Process
\* What is current after the move and not above the counter was current before.
<1>1. ASSUME NEW s \in Sids, NEW c \in Nat, c <= counter, Current(s, c)'
      PROVE  sess'[s] = sess[s] /\ Current(s, c)
  BY <1>1, MoveCurrent
\* A file somebody reads a loadable session from has no links.
<1>2. ASSUME NEW s \in Sids, NEW x \in Slots, NEW f \in Files, Restores(p, s, x, f)
      PROVE  /\ Current(s, file[f])
             /\ \A q \in Procs, y \in Slots : ~Linked(q, y, f)
  <2>1. proc[p].micro = "read" /\ Current(s, proc[p].buf) /\ f = proc[p].opening
    BY <1>2 DEF Restores
  <2>2. file[f] = proc[p].buf
    BY <2>1 DEF Locks, ReadCurrent
  <2>. QED
    BY <2>1, <2>2 DEF Locks, PathStale
<1>3. ASSUME NEW s \in Sids, NEW t \in Sids, NEW x \in Slots, NEW y \in Slots,
             NEW f \in Files, Restores(p, s, x, f), Restores(p, t, y, f)
      PROVE  x = y
  <2>. SUFFICES ASSUME x # y PROVE FALSE
    OBVIOUS
  <2>1. /\ proc[p].hold \in [Slots -> 0..MaxSessions]
        /\ proc[p].path \in [Slots -> Files \cup {NoFile}] /\ s # 0
    BY SessionsAssumption DEF TypeOK, Process, Sids
  <2>2. /\ proc'[p].hold = [proc[p].hold EXCEPT ![x] = s]
        /\ proc'[p].path = [proc[p].path EXCEPT ![x] = f]
        /\ proc'[p].hold = [proc[p].hold EXCEPT ![y] = t]
        /\ proc'[p].path = [proc[p].path EXCEPT ![y] = f]
    BY <1>3 DEF Restores, Gains
  <2>3. proc[p].hold[x] = s /\ proc[p].path[x] = f
    BY <2>1, <2>2
  <2>. QED
    BY <1>2, <1>3, <2>1, <2>3 DEF Linked
<1>6. PathLock'
  <2>. SUFFICES ASSUME NEW q \in Procs, NEW r \in Procs, NEW x \in Slots, NEW y \in Slots,
                       NEW f \in Files, Linked(q, x, f)', Linked(r, y, f)'
                PROVE  q = r /\ x = y
    BY DEF PathLock
  <2>1. CASE Linked(q, x, f) /\ Linked(r, y, f)
    BY <2>1 DEF Locks, PathLock
  <2>2. CASE \E s \in Sids : q = p /\ Restores(p, s, x, f)
    <3>1. PICK s \in Sids : q = p /\ Restores(p, s, x, f)
      BY <2>2
    <3>2. PICK t \in Sids : r = p /\ Restores(p, t, y, f)
      BY <1>2, <3>1, MoveLink
    <3>3. x = y
      BY <1>3, <3>1, <3>2
    <3>. QED
      BY <3>1, <3>2, <3>3
  <2>3. CASE \E s \in Sids : r = p /\ Restores(p, s, y, f)
    <3>1. PICK s \in Sids : r = p /\ Restores(p, s, y, f)
      BY <2>3
    <3>2. PICK t \in Sids : q = p /\ Restores(p, t, x, f)
      BY <1>2, <3>1, MoveLink
    <3>3. x = y
      BY <1>3, <3>1, <3>2
    <3>. QED
      BY <3>1, <3>2, <3>3
  <2>. QED
    BY <2>1, <2>2, <2>3, MoveLink
<1>4. PathStale'
  <2>. SUFFICES ASSUME NEW q \in Procs, NEW y \in Slots, NEW f \in Files, Linked(q, y, f)',
                       NEW s \in Sids, NEW c, c = file'[f], Current(s, c)'
                PROVE  FALSE
    BY DEF PathStale, Current
  <2>1. CASE file'[f] # file[f]
    <3>1. PICK x \in Slots :
            /\ Linked(p, x, f)
            /\ \/ Empties(p, x) /\ c = 0
               \/ Parks(p, x) /\ c = proc[p].buf
      BY <2>1, MoveFile
    <3>2. CASE Empties(p, x) /\ c = 0
      <4>1. Current(s, c)
        BY <1>1, <3>2
      <4>. QED
        BY <3>2, <4>1 DEF Numbers, Numbered, Current
    <3>3. CASE Parks(p, x)
      <4>1. Linked(q, y, f)
        BY <3>3, MoveLink, <1>2, <3>1
      <4>2. q = p /\ y = x
        BY <3>1, <4>1 DEF Locks, PathLock
      <4>3. proc'[p].hold[x] = 0
        BY <3>3 DEF Parks, Frees, Base, TypeOK, Process
      <4>. QED
        BY <4>2, <4>3 DEF Linked
    <3>. QED
      BY <3>1, <3>2, <3>3
  <2>2. CASE file'[f] = file[f]
    <3>1. sess'[s] = sess[s] /\ Current(s, file[f])
      BY <1>1, <2>2
    <3>2. ~Linked(q, y, f)
      BY <3>1 DEF Locks, PathStale
    <3>3. PICK t \in Sids : Restores(p, t, y, f)
      BY <3>2, MoveLink
    <3>4. Current(t, file[f])
      BY <1>2, <3>3
    <3>5. s = t
      BY <3>1, <3>4 DEF Numbers, Distinct, Current
    <3>6. sess'[t].st = "loaded"
      BY <3>3 DEF Restores, Gains
    <3>. QED
      BY <3>1, <3>4, <3>5, <3>6 DEF Current
  <2>. QED
    BY <2>1, <2>2
<1>5. ReadCurrent'
  <2>. SUFFICES ASSUME NEW q \in Procs, proc'[q].micro = "read", NEW s \in Sids,
                       NEW c, c = proc'[q].buf, Current(s, c)'
                PROVE  file'[proc'[q].opening] = c
    BY DEF ReadCurrent, Current
  <2>1. CASE q # p
    <3>1. proc'[q] = proc[q] /\ proc[q].micro = "read"
      BY <2>1 DEF SessionMove, Moves
    <3>2. Current(s, c) /\ c = proc[q].buf
      BY <1>1, <3>1
    <3>. DEFINE f == proc[q].opening
    <3>3. f \in Files /\ file[f] = c /\ Current(s, file[f])
      BY <3>1, <3>2 DEF Base, Steady, Locks, ReadCurrent
    <3>4. file'[f] = file[f]
      <4>. SUFFICES ASSUME file'[f] # file[f] PROVE FALSE
        OBVIOUS
      <4>. HIDE DEF f
      <4>1. PICK x \in Slots : Linked(p, x, f)
        BY <3>3, MoveFile
      <4>. QED
        BY <3>3, <4>1 DEF Locks, PathStale
    <3>. QED
      BY <3>1, <3>3, <3>4
  <2>2. CASE q = p
    <3>1. Quiet(p)
      BY <2>2 DEF SessionMove, Ends, Empties, Flushes, Strands, Parks, Frees, Saves,
                  Starts, Restores, Gains, Purges, InFlight
    <3>. QED
      BY <2>2, <3>1 DEF Quiet, Reads
  <2>. QED
    BY <2>1, <2>2
<1>. QED
  BY <1>4, <1>5, <1>6 DEF Locks

(***************************************************************************)
(* A tool that closes the session it restored with -S, or with a session:  *)
(* argument, replaces a file whose context nobody can load any more, and   *)
(* never the only copy of somebody's session.  This holds of every set of  *)
(* tools that create no session file of their own (tpm2_session_open with  *)
(* a path, as startauthsession does), flushcontext included.               *)
(***************************************************************************)
THEOREM OnlyStaleFilesReplaced ==
    ASSUME NoNewFiles
    PROVE  Spec => NoForeignOverwrite
<1>1. Init => Base /\ Numbers /\ Locks
  BY InitBase, InitLocks
<1>2. ASSUME Base, Numbers, Locks, [Next]_vars
      PROVE  Base' /\ Numbers' /\ Locks'
  <2>1. Base' /\ Numbers' /\ TypeOK'
    BY <1>2, NextBase DEF Base
  <2>2. CASE UNCHANGED vars
    BY <1>2, <2>1, <2>2 DEF vars, Locks, PathLock, PathStale, ReadCurrent, Linked, Current
  <2>3. CASE \E p \in Procs : SessionMove(p)
    BY <1>2, <2>1, <2>3, LocksKept
  <2>. QED
    BY <1>2, <2>1, <2>2, <2>3, EveryStepMoves
<1>3. ASSUME Base, Locks, [Next]_vars
      PROVE  [\A f \in Files : file'[f] # file[f] =>
                 \A s \in Sids : ~Current(s, file[f])]_vars
  <2>1. CASE \E p \in Procs : SessionMove(p)
    <3>. SUFFICES ASSUME NEW f \in Files, file'[f] # file[f], NEW s \in Sids
                  PROVE  ~Current(s, file[f])
      OBVIOUS
    <3>1. PICK p \in Procs : SessionMove(p)
      BY <2>1
    <3>2. PICK x \in Slots : Linked(p, x, f)
      BY <1>3, <3>1, MoveFile
    <3>. QED
      BY <1>3, <3>2 DEF Locks, PathStale
  <2>2. CASE UNCHANGED vars
    BY <2>2
  <2>. QED
    BY <1>3, <2>1, <2>2, EveryStepMoves
<1>. QED
  BY <1>1, <1>2, <1>3, PTL DEF Spec, NoForeignOverwrite

-----------------------------------------------------------------------------
(* The owner of a session.                                                 *)

\* A context is in one file only.
OneFile == \A f, g \in Files : file[f] = file[g] /\ file[f] # 0 => f = g

Sound == Inv /\ Base /\ Numbers /\ OneFile

HeldBy(s, p) == \E x \in Slots : proc[p].hold[x] = s
StoredIn(s, f) == Current(s, file[f])

\* The owner of a session, without CHOOSE.
OwnerFacts(s) ==
    /\ sess[s].st = "free" => Owner(s) = Nobody
    /\ \A p \in Procs : HeldBy(s, p) => sess[s].st # "free" /\ Owner(s) = p
    /\ \A f \in Files : StoredIn(s, f) =>
          (\A p \in Procs : ~HeldBy(s, p)) /\ Owner(s) = f
    /\ \/ sess[s].st = "free"
       \/ \E p \in Procs : HeldBy(s, p)
       \/ \E f \in Files : StoredIn(s, f)
       \/ Owner(s) = Lost

\* A held session is not in a file: the context its holder is about to write
\* is in no file yet.
LEMMA HeldNotStored ==
    ASSUME Sound, NEW s \in Sids, NEW p \in Procs, HeldBy(s, p)
    PROVE  /\ sess[s].st # "free"
           /\ \A f \in Files : ~StoredIn(s, f)
           /\ sess[s].st = "loaded" \/ (InFlight(p) /\ Current(s, proc[p].buf))
           /\ sess[s].st = "loaded" => sess[s].conn = {p}
<1>1. PICK x \in Slots : proc[p].hold[x] = s
  BY DEF HeldBy
<1>2. s # 0
  BY SessionsAssumption DEF Sids
<1>3. \/ InFlight(p) /\ Current(s, proc[p].buf)
      \/ sess[s].st = "loaded" /\ sess[s].conn = {p}
  BY <1>1, <1>2 DEF Sound, Inv, RightView
<1>. QED
  BY <1>3 DEF Sound, Inv, Private, StoredIn, Current

LEMMA OwnersKnown == Sound => \A s \in Sids : OwnerFacts(s)
<1>. SUFFICES ASSUME Sound, NEW s \in Sids PROVE OwnerFacts(s)
  OBVIOUS
<1>1. s # 0
  BY SessionsAssumption DEF Sids
<1>2. (\E a \in Pointers : proc[a[1]].hold[a[2]] = s) <=> \E p \in Procs : HeldBy(s, p)
  <2>1. ASSUME NEW p \in Procs, NEW x \in Slots, proc[p].hold[x] = s
        PROVE  \E a \in Pointers : proc[a[1]].hold[a[2]] = s
    <3>1. <<p, x>> \in Pointers
      BY <1>1, <2>1 DEF Pointers
    <3>. QED
      BY <2>1, <3>1
  <2>2. ASSUME NEW a \in Pointers, proc[a[1]].hold[a[2]] = s
        PROVE  a[1] \in Procs /\ HeldBy(s, a[1])
    BY <2>2 DEF Pointers, HeldBy
  <2>. QED
    BY <2>1, <2>2 DEF HeldBy
<1>3. sess[s].st = "free" => Owner(s) = Nobody
  BY DEF Owner
<1>4. ASSUME NEW p \in Procs, HeldBy(s, p)
      PROVE  sess[s].st # "free" /\ Owner(s) = p
  <2>1. sess[s].st # "free"
    BY <1>4, HeldNotStored
  <2>2. Owner(s) = Holder(s)
    BY <1>2, <1>4, <2>1 DEF Owner
  <2>3. \A q \in Procs : HeldBy(s, q) => q = p
    BY <1>1, <1>4 DEF HeldBy, Sound, Inv, Alone
  <2>4. Holder(s) = CHOOSE q \in Procs : HeldBy(s, q)
    BY DEF Holder, HeldBy
  <2>. QED
    BY <1>4, <2>1, <2>2, <2>3, <2>4
<1>5. ASSUME NEW f \in Files, StoredIn(s, f)
      PROVE  (\A p \in Procs : ~HeldBy(s, p)) /\ Owner(s) = f
  <2>1. \A p \in Procs : ~HeldBy(s, p)
    BY <1>5, HeldNotStored
  <2>2. sess[s].st # "free" /\ file[f] = sess[s].cid /\ file[f] # 0
    BY <1>5 DEF StoredIn, Current, Sound, Numbers, Numbered
  <2>3. Owner(s) = Parking(s)
    BY <1>2, <1>5, <2>1, <2>2 DEF Owner, StoredIn
  <2>4. \A g \in Files : StoredIn(s, g) => g = f
    BY <2>2 DEF StoredIn, Current, Sound, OneFile
  <2>5. Parking(s) = CHOOSE g \in Files : StoredIn(s, g)
    BY DEF Parking, StoredIn
  <2>. QED
    BY <1>5, <2>1, <2>3, <2>4, <2>5
<1>6. ASSUME sess[s].st # "free", \A p \in Procs : ~HeldBy(s, p),
             \A f \in Files : ~StoredIn(s, f)
      PROVE  Owner(s) = Lost
  BY <1>2, <1>6 DEF Owner, StoredIn
<1>. QED
  BY <1>3, <1>4, <1>5, <1>6 DEF OwnerFacts

LEMMA OwnersKnownNext == Sound' => \A s \in Sids : OwnerFacts(s)'
<1>1. (Sound => \A s \in Sids : OwnerFacts(s))'
  BY OwnersKnown, PTL
<1>. QED
  BY <1>1

LEMMA OneFileKept ==
    ASSUME Sound, NEW p \in Procs, SessionMove(p)
    PROVE  OneFile'
<1>. SUFFICES ASSUME NEW f \in Files, NEW g \in Files, file'[f] = file'[g], file'[f] # 0, f # g
              PROVE  FALSE
  BY DEF OneFile
<1>. Base /\ OneFile
  BY DEF Sound
<1>1. ASSUME NEW h \in Files, file'[h] # file[h], file'[h] # 0
      PROVE  /\ \A k \in Files : k # h => file'[k] = file[k]
             /\ \A k \in Files : file[k] # file'[h]
  BY <1>1, MoveFile DEF Parks, Sound, Inv, Private
<1>2. CASE file'[f] # file[f]
  BY <1>1, <1>2
<1>3. CASE file'[g] # file[g]
  BY <1>1, <1>3
<1>. QED
  BY <1>2, <1>3 DEF OneFile

LEMMA OwnerSame ==
    ASSUME Sound, Sound', NEW s \in Sids,
           (sess'[s].st = "free") <=> (sess[s].st = "free"),
           \A q \in Procs : HeldBy(s, q)' <=> HeldBy(s, q),
           (\A q \in Procs : ~HeldBy(s, q)) =>
               \A f \in Files : StoredIn(s, f)' <=> StoredIn(s, f)
    PROVE  Owner(s)' = Owner(s)
<1>1. OwnerFacts(s) /\ OwnerFacts(s)'
  BY OwnersKnown, OwnersKnownNext
<1>. QED
  BY <1>1 DEF OwnerFacts

\* How the ledger lets p change an owner.
OwnerMove(p, from, to) ==
    \/ from = to
    \/ Ledger!Start(p, from, to) \/ Ledger!Take(p, from, to) \/ Ledger!Park(p, from, to)
    \/ Ledger!Flush(p, from, to) \/ Ledger!Lose(p, from, to) \/ Ledger!Recover(p, from, to)

\* p no longer holds the session: it is in a file, free or lost.
LEMMA OwnerDrops ==
    ASSUME Sound, Sound', NEW p \in Procs, NEW s \in Sids, HeldBy(s, p),
           \A q \in Procs : ~HeldBy(s, q)'
    PROVE  OwnerMove(p, Owner(s), Owner(s)')
<1>1. OwnerFacts(s) /\ OwnerFacts(s)'
  BY OwnersKnown, OwnersKnownNext
<1>2. Owner(s) = p
  BY <1>1 DEF OwnerFacts
<1>3. Owner(s)' \in Files \cup {Nobody, Lost}
  BY <1>1 DEF OwnerFacts
<1>. QED
  BY <1>2, <1>3 DEF OwnerMove, Ledger!Park, Ledger!Flush, Ledger!Lose

\* The file the session was in is replaced.
LEMMA OwnerReplaced ==
    ASSUME Sound, Sound', NEW p \in Procs, NEW s \in Sids, NEW f \in Files,
           StoredIn(s, f), sess' = sess, file'[f] # file[f],
           \A g \in Files : g # f => file'[g] = file[g],
           \A q \in Procs : HeldBy(s, q)' => HeldBy(s, q)
    PROVE  OwnerMove(p, Owner(s), Owner(s)')
<1>1. OwnerFacts(s) /\ OwnerFacts(s)'
  BY OwnersKnown, OwnersKnownNext
<1>2. Owner(s) = f /\ \A q \in Procs : ~HeldBy(s, q)'
  BY <1>1 DEF OwnerFacts
<1>3. \A g \in Files : ~StoredIn(s, g)' /\ sess'[s].st # "free"
  BY DEF StoredIn, Current, Sound, OneFile, Numbers, Numbered
<1>4. Owner(s)' = Lost
  BY <1>1, <1>2, <1>3 DEF OwnerFacts
<1>. QED
  BY <1>2, <1>4 DEF OwnerMove, Ledger!Lose

LEMMA HoldTypes ==
    ASSUME Sound, NEW p \in Procs
    PROVE  proc[p].hold \in [Slots -> 0..MaxSessions] /\ 0 \notin Sids
<1>1. proc[p] \in Process
  BY DEF Sound, Base, TypeOK
<1>2. 0 \notin Sids
  BY SessionsAssumption DEF Sids
<1>. QED
  BY <1>1, <1>2 DEF Process

LEMMA OthersHold ==
    ASSUME NEW p \in Procs, Moves(p), NEW s, NEW q \in Procs, q # p
    PROVE  HeldBy(s, q)' <=> HeldBy(s, q)
<1>1. proc'[q] = proc[q]
  BY DEF Moves
<1>. QED
  BY <1>1 DEF HeldBy

\* A session enters a slot of p; the one that was in it is forgotten.
LEMMA OwnerGains ==
    ASSUME Sound, Sound', NEW p \in Procs, Moves(p), NEW t \in Sids, NEW x \in Slots,
           NEW f \in Files \cup {NoFile}, Starts(p, t, x, f) \/ Restores(p, t, x, f),
           NEW s \in Sids
    PROVE  OwnerMove(p, Owner(s), Owner(s)')
<1>. DEFINE old == proc[p].hold[x]
<1>0. /\ proc[p].hold \in [Slots -> 0..MaxSessions] /\ 0 \notin Sids
      /\ \A q \in Procs : q # p => (HeldBy(s, q)' <=> HeldBy(s, q))
  BY HoldTypes, OthersHold
<1>1. /\ proc'[p].hold = [proc[p].hold EXCEPT ![x] = t]
      /\ \A u \in Sids \ {t} : sess'[u] = sess[u]
      /\ UNCHANGED file
  BY DEF Starts, Restores, Gains
<1>2. OwnerFacts(s) /\ OwnerFacts(s)'
  BY OwnersKnown, OwnersKnownNext
<1>3. CASE s = t
  <2>1. HeldBy(s, p)'
    BY <1>0, <1>1, <1>3 DEF HeldBy
  <2>2. Owner(s)' = p
    BY <1>2, <2>1 DEF OwnerFacts
  <2>3. CASE Starts(p, t, x, f)
    <3>1. Owner(s) = Nobody
      BY <1>2, <1>3, <2>3 DEF Starts, OwnerFacts
    <3>. QED
      BY <2>2, <3>1 DEF OwnerMove, Ledger!Start
  <2>4. CASE Restores(p, t, x, f)
    <3>1. Current(s, proc[p].buf) /\ ~InFlight(p)
      BY <1>3, <2>4 DEF Restores, Gains
    <3>2. ASSUME NEW q \in Procs, HeldBy(s, q) PROVE FALSE
      <4>1. InFlight(q) /\ Current(s, proc[q].buf)
        BY <3>1, <3>2, HeldNotStored DEF Current
      <4>. QED
        BY <3>1, <4>1 DEF Current, Sound, Inv, Private
    <3>3. Owner(s) \in Files \cup {Lost}
      BY <1>2, <3>1, <3>2 DEF OwnerFacts, Current
    <3>. QED
      BY <2>2, <3>3 DEF OwnerMove, Ledger!Take, Ledger!Recover
  <2>. QED
    BY <2>3, <2>4
<1>4. CASE s # t /\ s = old
  <2>1. HeldBy(s, p)
    BY <1>4 DEF HeldBy
  <2>2. \A q \in Procs, y \in Slots : proc[q].hold[y] = s => q = p /\ y = x
    BY <1>0, <1>4 DEF Sound, Inv, Alone
  <2>3. ASSUME NEW q \in Procs PROVE ~HeldBy(s, q)'
    BY <1>0, <1>1, <1>4, <2>2 DEF HeldBy
  <2>. QED
    BY <2>1, <2>3, OwnerDrops
<1>5. CASE s # t /\ s # old
  <2>1. sess'[s] = sess[s] /\ (HeldBy(s, p)' <=> HeldBy(s, p))
    BY <1>0, <1>1, <1>5 DEF HeldBy
  <2>2. \A g \in Files : StoredIn(s, g)' <=> StoredIn(s, g)
    BY <1>1, <2>1 DEF StoredIn, Current
  <2>3. \A q \in Procs : HeldBy(s, q)' <=> HeldBy(s, q)
    BY <1>0, <2>1
  <2>. QED
    BY <2>1, <2>2, <2>3, OwnerSame DEF OwnerMove
<1>. QED
  BY <1>3, <1>4, <1>5

\* p frees the session object of slot x; it may have replaced its file.
LEMMA OwnerFrees ==
    ASSUME Sound, Sound', NEW p \in Procs, Moves(p), NEW x \in Slots,
           Flushes(p, x) \/ Strands(p, x) \/ Parks(p, x), SessionMove(p), NEW s \in Sids
    PROVE  OwnerMove(p, Owner(s), Owner(s)')
<1>. DEFINE old == proc[p].hold[x]
<1>0. /\ proc[p].hold \in [Slots -> 0..MaxSessions] /\ 0 \notin Sids
      /\ \A q \in Procs : q # p => (HeldBy(s, q)' <=> HeldBy(s, q))
  BY HoldTypes, OthersHold
<1>1. proc'[p].hold = [proc[p].hold EXCEPT ![x] = 0]
  BY DEF Flushes, Strands, Parks, Frees
<1>2. CASE s = old
  <2>1. HeldBy(s, p)
    BY <1>2 DEF HeldBy
  <2>2. \A q \in Procs, y \in Slots : proc[q].hold[y] = s => q = p /\ y = x
    BY <1>0, <1>2 DEF Sound, Inv, Alone
  <2>3. ASSUME NEW q \in Procs PROVE ~HeldBy(s, q)'
    BY <1>0, <1>1, <2>2 DEF HeldBy
  <2>. QED
    BY <2>1, <2>3, OwnerDrops
<1>3. CASE s # old
  <2>1. \A q \in Procs : HeldBy(s, q)' <=> HeldBy(s, q)
    BY <1>0, <1>1, <1>3 DEF HeldBy
  <2>2. sess'[s] = sess[s]
    BY <1>3 DEF Flushes, Strands, Parks, Sound, Base, TypeOK
  <2>3. CASE \E f \in Files : StoredIn(s, f) /\ file'[f] # file[f]
    <3>1. PICK f \in Files : StoredIn(s, f) /\ file'[f] # file[f]
      BY <2>3
    <3>2. \A g \in Files : g # f => file'[g] = file[g]
      BY <3>1, MoveFile DEF Sound
    <3>3. sess' = sess
      BY <3>1 DEF Flushes, Strands, Parks
    <3>. QED
      BY <2>1, <3>1, <3>2, <3>3, OwnerReplaced
  <2>4. CASE \A f \in Files : StoredIn(s, f) => file'[f] = file[f]
    <3>1. ASSUME NEW f \in Files, StoredIn(s, f)', file'[f] # file[f] PROVE FALSE
      <4>1. Parks(p, x) /\ file'[f] = proc[p].buf /\ InFlight(p)
        BY <3>1 DEF Flushes, Strands, Parks, Sound, Base, TypeOK
      <4>2. Current(old, proc[p].buf) /\ old \in Sids
        BY <1>0, <4>1 DEF Parks, Frees, Sound, Inv, RightView
      <4>. QED
        BY <1>3, <2>2, <3>1, <4>1, <4>2
           DEF StoredIn, Current, Sound, Numbers, Distinct
    <3>2. \A f \in Files : StoredIn(s, f)' <=> StoredIn(s, f)
      BY <2>2, <2>4, <3>1 DEF StoredIn, Current
    <3>. QED
      BY <2>1, <2>2, <3>2, OwnerSame DEF OwnerMove
  <2>. QED
    BY <2>3, <2>4
<1>. QED
  BY <1>2, <1>3

\* p keeps its session objects; it may have emptied or saved.
LEMMA OwnerKeeps ==
    ASSUME Sound, Sound', NEW p \in Procs, Moves(p), NEW x \in Slots,
           Quiet(p) \/ Empties(p, x) \/ Saves(p, x), SessionMove(p), NEW s \in Sids
    PROVE  OwnerMove(p, Owner(s), Owner(s)')
<1>0. \A q \in Procs : q # p => (HeldBy(s, q)' <=> HeldBy(s, q))
  BY OthersHold
<1>1. Keeps(p)
  BY DEF Quiet, Empties, Saves
<1>2. \A q \in Procs : HeldBy(s, q)' <=> HeldBy(s, q)
  BY <1>0, <1>1 DEF HeldBy, Keeps
<1>3. CASE \E q \in Procs : HeldBy(s, q)
  <2>1. PICK q \in Procs : HeldBy(s, q)
    BY <1>3
  <2>2. Owner(s) = q /\ Owner(s)' = q
    BY <1>2, <2>1, OwnersKnown, OwnersKnownNext DEF OwnerFacts
  <2>. QED
    BY <2>2 DEF OwnerMove
<1>4. CASE \A q \in Procs : ~HeldBy(s, q)
  <2>1. sess'[s] = sess[s]
    BY <1>4 DEF Quiet, Empties, Saves, HeldBy
  <2>2. CASE \E f \in Files : StoredIn(s, f) /\ file'[f] # file[f]
    <3>1. PICK f \in Files : StoredIn(s, f) /\ file'[f] # file[f]
      BY <2>2
    <3>2. \A g \in Files : g # f => file'[g] = file[g]
      BY <3>1, MoveFile DEF Sound
    <3>3. sess' = sess
      BY <3>1 DEF Quiet, Empties, Saves
    <3>. QED
      BY <1>2, <3>1, <3>2, <3>3, OwnerReplaced
  <2>3. CASE \A f \in Files : StoredIn(s, f) => file'[f] = file[f]
    <3>1. ASSUME NEW f \in Files, StoredIn(s, f)', file'[f] # file[f] PROVE FALSE
      <4>1. file'[f] = 0
        BY <3>1 DEF Quiet, Empties, Saves, Sound, Base, TypeOK
      <4>. QED
        BY <3>1, <4>1 DEF StoredIn, Current, Sound, Numbers, Numbered
    <3>2. \A f \in Files : StoredIn(s, f)' <=> StoredIn(s, f)
      BY <2>1, <2>3, <3>1 DEF StoredIn, Current
    <3>. QED
      BY <1>2, <2>1, <3>2, OwnerSame DEF OwnerMove
  <2>. QED
    BY <2>2, <2>3
<1>. QED
  BY <1>3, <1>4

\* p is gone; a resource manager may flush what it left loaded.
LEMMA OwnerEnds ==
    ASSUME Sound, Sound', NEW p \in Procs, Moves(p), Ends(p), NEW s \in Sids
    PROVE  OwnerMove(p, Owner(s), Owner(s)')
<1>0. 0 \notin Sids /\ \A q \in Procs : q # p => (HeldBy(s, q)' <=> HeldBy(s, q))
  BY HoldTypes, OthersHold
<1>1. ~HeldBy(s, p)' /\ file' = file
  BY <1>0 DEF Ends, HeldBy
<1>2. \/ sess'[s] = sess[s]
      \/ sess'[s] = FreeSession /\ sess[s].st = "loaded" /\ sess[s].conn = {p}
  BY DEF Ends, Disconnect
<1>3. OwnerFacts(s) /\ OwnerFacts(s)'
  BY OwnersKnown, OwnersKnownNext
<1>4. CASE HeldBy(s, p)
  <2>1. \A q \in Procs : HeldBy(s, q) => q = p
    BY <1>3, <1>4 DEF OwnerFacts
  <2>. QED
    BY <1>0, <1>1, <1>4, <2>1, OwnerDrops
<1>5. CASE ~HeldBy(s, p)
  <2>1. \A q \in Procs : HeldBy(s, q)' <=> HeldBy(s, q)
    BY <1>0, <1>1, <1>5
  <2>2. CASE sess'[s] = sess[s]
    <3>1. \A f \in Files : StoredIn(s, f)' <=> StoredIn(s, f)
      BY <1>1, <2>2 DEF StoredIn, Current
    <3>. QED
      BY <2>1, <2>2, <3>1, OwnerSame DEF OwnerMove
  <2>3. CASE sess'[s] # sess[s]
    <3>1. sess'[s].st = "free" /\ sess[s].st = "loaded" /\ sess[s].conn = {p}
      BY <1>2, <2>3 DEF FreeSession
    <3>2. \A q \in Procs : ~HeldBy(s, q)
      BY <1>5, <3>1, HeldNotStored
    <3>3. Owner(s) = Lost /\ Owner(s)' = Nobody
      BY <1>3, <3>1, <3>2 DEF OwnerFacts, StoredIn, Current
    <3>. QED
      BY <3>3 DEF OwnerMove, Ledger!Recover
  <2>. QED
    BY <2>2, <2>3
<1>. QED
  BY <1>4, <1>5

LEMMA OwnersMove ==
    ASSUME NoBulkFlush, Sound, Sound', NEW p \in Procs, SessionMove(p), NEW s \in Sids
    PROVE  OwnerMove(p, Owner(s), Owner(s)')
<1>1. Moves(p)
  BY DEF SessionMove
<1>2. \A t \in Sids : ~Purges(p, t)
  <2>1. proc[p] \in Process
    BY DEF Sound, Base, TypeOK
  <2>2. ~Ready(p, {"flushListed"})
    BY <2>1 DEF NoBulkFlush, Ready, AtStep, Cur, Script, Process
  <2>. QED
    BY <2>2 DEF Purges
<1>3. CASE Quiet(p)
  <2>1. "auth" \in Slots
    BY DEF Slots
  <2>. QED
    BY <1>1, <1>3, <2>1, OwnerKeeps
<1>4. CASE Ends(p)
  BY <1>1, <1>4, OwnerEnds
<1>5. ASSUME NEW x \in Slots, Empties(p, x) \/ Saves(p, x)
      PROVE  OwnerMove(p, Owner(s), Owner(s)')
  BY <1>1, <1>5, OwnerKeeps
<1>6. ASSUME NEW x \in Slots, Flushes(p, x) \/ Strands(p, x) \/ Parks(p, x)
      PROVE  OwnerMove(p, Owner(s), Owner(s)')
  BY <1>1, <1>6, OwnerFrees
<1>7. ASSUME NEW x \in Slots, NEW t \in Sids, NEW f \in Files \cup {NoFile},
             Starts(p, t, x, f) \/ Restores(p, t, x, f)
      PROVE  OwnerMove(p, Owner(s), Owner(s)')
  BY <1>1, <1>7, OwnerGains
<1>. QED
  BY <1>2, <1>3, <1>4, <1>5, <1>6, <1>7 DEF SessionMove

(***************************************************************************)
(* The tools implement the session ledger.  However processes that open,   *)
(* restore and close sessions interleave, fail and are killed, a session   *)
(* has one owner at every moment, and one process at a time changes who    *)
(* that is, the way SessionLedger allows: nothing passes from process to   *)
(* process, nothing in a file is freed, and nothing that was lost comes    *)
(* back to a file (tpm2_session_open, tpm2_session_restore and             *)
(* tpm2_session_close; no tool flushes sessions by handle).                *)
(***************************************************************************)
THEOREM ToolsKeepLedger ==
    ASSUME NoBulkFlush
    PROVE  Spec => KeepsLedger
<1>1. Init => Sound
  <2>. SUFFICES ASSUME Init PROVE Sound
    OBVIOUS
  <2>1. OneFile
    BY ParkedAssumption DEF Init, OneFile
  <2>. QED
    BY <2>1, InitInv, InitBase DEF Sound
<1>2. Sound /\ [Next]_vars => Sound'
  <2>. SUFFICES ASSUME Sound, [Next]_vars PROVE Sound'
    OBVIOUS
  <2>1. Inv' /\ Base' /\ Numbers'
    BY NextInv, NextBase DEF Sound
  <2>2. OneFile'
    <3>1. CASE UNCHANGED vars
      BY <3>1 DEF vars, Sound, OneFile
    <3>. QED
      BY <3>1, OneFileKept, EveryStepMoves DEF Sound
  <2>. QED
    BY <2>1, <2>2 DEF Sound
<1>3. Init /\ Sound => Ledger!Init
  <2>. SUFFICES ASSUME Init, Sound, NEW s \in Sids PROVE Owner(s) \in Files \cup {Nobody}
    BY DEF Ledger!Init
  <2>1. \A p \in Procs, x \in Slots : proc[p].hold[x] = 0
    BY GoneType DEF Init, ToolRc
  <2>2. \A p \in Procs : ~HeldBy(s, p)
    BY <2>1, SessionsAssumption DEF HeldBy, Sids
  <2>3. sess[s].st = "free" \/ \E f \in Files : StoredIn(s, f)
    BY ParkedAssumption DEF Init, FreeSession, StoredIn, Current
  <2>. QED
    BY <2>2, <2>3, OwnersKnown DEF OwnerFacts
<1>4. Sound /\ Sound' /\ [Next]_vars => [Ledger!Next]_[s \in Sids |-> Owner(s)]
  <2>. SUFFICES ASSUME Sound, Sound', [Next]_vars
                PROVE  [Ledger!Next]_[s \in Sids |-> Owner(s)]
    OBVIOUS
  <2>1. CASE UNCHANGED vars
    <3>1. \A s \in Sids : Owner(s)' = Owner(s)
      BY <2>1 DEF vars, Owner, Holder, Parking, Pointers, Current
    <3>. QED
      BY <3>1
  <2>2. ASSUME NEW p \in Procs, SessionMove(p) PROVE Ledger!Next
    <3>1. \A s \in Sids : Owner(s)' \in Files \cup Procs \cup {Nobody, Lost}
      BY OwnersKnownNext DEF OwnerFacts
    <3>2. \A s \in Sids : OwnerMove(p, Owner(s), Owner(s)')
      BY <2>2, OwnersMove
    <3>. QED
      BY <3>1, <3>2 DEF OwnerMove, Ledger!Next, Ledger!Move
  <2>. QED
    BY <2>1, <2>2, EveryStepMoves DEF Sound
<1>. QED
  BY <1>1, <1>2, <1>3, <1>4, PTL DEF Spec, KeepsLedger, Ledger!Spec

=============================================================================
