----------------------------- MODULE FlowProofs -----------------------------
(***************************************************************************)
(* Sessions are not forgotten and failures not hidden, for any number of   *)
(* processes, files and sessions, and any tools whose scripts meet the     *)
(* criteria of ScriptFlow.                                                 *)
(*                                                                         *)
(* First, every step of a process is one of six moves of control.  A       *)
(* process that runs a tidy tool has a session in a slot only where the    *)
(* criteria expect one: it overwrites none, and has none when it exits.    *)
(* With the moves of sessions of LedgerProofs this shows that a session    *)
(* the TPM has room for stays reachable.  A process that runs an honest    *)
(* tool and had a failure has it in rc, and nothing can take it away.      *)
(***************************************************************************)
EXTENDS LedgerProofs, ScriptFlow

-----------------------------------------------------------------------------
(* The moves of control, from process state r to process state n.          *)

OnStep(r) == r.phase # "idle" /\ r.pc \in 1..Len(Script(r))
StepOf(r) == Script(r)[r.pc]

RcKept(r, n) == n.rc = r.rc /\ n.stopRc = r.stopRc
RcSet(r, n, code) ==
    IF r.phase = "onrun" THEN n.rc = code /\ n.stopRc = r.stopRc
    ELSE n.rc = r.rc /\ n.stopRc = code

\* The process executes a step, and touches no other slot.
Steps(r, n) ==
    /\ OnStep(r)
    /\ n.phase = r.phase /\ n.tool = r.tool
    /\ \A y \in Slots : y # StepOf(r).slot => n.hold[y] = r.hold[y]

\* An access of a step that is not its last.
Within(r, n) ==
    /\ Steps(r, n) /\ n.pc = r.pc /\ RcKept(r, n) /\ n.failed = r.failed
    /\ InHand(r) => InHand(n)
    /\ \/ n.hold[StepOf(r).slot] = r.hold[StepOf(r).slot]
       \/ StepOf(r).op \in AcquireOps /\ InHand(n)
    /\ n.micro \in {"read", "pcr", "close"} => StepOf(r).op \in AcquireOps
    /\ n.micro \in {"open", "saved"} =>
          /\ StepOf(r).op \in AcquireOps \cup CloseOps
          /\ n.path[StepOf(r).slot] \in Files

\* The step ends, with success or not.
Passes(r, n) ==
    /\ Steps(r, n) /\ n.pc = r.pc + 1 /\ n.micro = "ready" /\ n.failed = r.failed
    /\ RcKept(r, n) \/ (StepOf(r).resets /\ RcSet(r, n, "success"))
    /\ n.hold[StepOf(r).slot] # 0 =>
          \/ StepOf(r).op \in AcquireOps
          \/ /\ n.hold[StepOf(r).slot] = r.hold[StepOf(r).slot]
             /\ ~Closes(StepOf(r), StepOf(r).slot)

Fails(r, n) ==
    /\ Steps(r, n) /\ n.pc = Target(Script(r), r.pc) /\ n.micro = "ready" /\ n.failed = TRUE
    /\ IF StepOf(r).code = "keep" THEN RcKept(r, n) ELSE RcSet(r, n, StepOf(r).code)
    /\ n.hold[StepOf(r).slot] # 0 =>
          /\ n.hold[StepOf(r).slot] = r.hold[StepOf(r).slot]
          /\ ~InHand(r) /\ StepOf(r).op \notin CloseOps

\* main starts the tool, calls onstop, and exits or is killed.
Begins(n) ==
    /\ n.phase = "onrun" /\ n.pc = 1 /\ n.micro = "ready" /\ n.failed = FALSE
    /\ \A x \in Slots : n.hold[x] = 0

Stops(r, n) ==
    /\ r.phase = "onrun" /\ ~OnStep(r)
    /\ n.phase = "onstop" /\ n.pc = 1 /\ n.tool = r.tool /\ n.micro = "ready"
    /\ n.hold = r.hold /\ n.failed = r.failed /\ RcKept(r, n)

Leaves(n) == n.phase = "idle" /\ n.micro = "ready" /\ \A x \in Slots : n.hold[x] = 0

Control(r, n) ==
    \/ Begins(n) \/ Leaves(n) \/ Stops(r, n)
    \/ Within(r, n) \/ Passes(r, n) \/ Fails(r, n)

\* Which operations go through which accesses.
Fits(r) ==
    /\ InHand(r) \/ r.micro = "read" => OnStep(r)
    /\ r.micro \in {"read", "pcr", "close"} => StepOf(r).op \in AcquireOps
    /\ r.micro \in {"open", "saved"} =>
          /\ StepOf(r).op \in AcquireOps \cup CloseOps
          /\ r.path[StepOf(r).slot] \in Files

-----------------------------------------------------------------------------
(* What the interpreter's operators do to control.                         *)

LEMMA SetRcControl ==
    ASSUME NEW h \in Process, NEW code \in ToolRc \cup {"keep"}
    PROVE  LET u == SetRc(h, code)
           IN  /\ u \in Process
               /\ u.pc = h.pc /\ u.phase = h.phase /\ u.tool = h.tool
               /\ u.hold = h.hold /\ u.failed = h.failed
               /\ code = "keep" => RcKept(h, u)
               /\ code # "keep" => RcSet(h, u, code)
<1>1. SetRc(h, code) \in Process
  BY SetRcType
<1>. QED
  BY <1>1 DEF SetRc, RcKept, RcSet, Process

LEMMA GoesControl ==
    ASSUME NEW u \in Process, NEW k \in Nat
    PROVE  LET v == Goes(u, k)
           IN  /\ v \in Process
               /\ v.pc = k /\ v.phase = u.phase /\ v.tool = u.tool
               /\ v.hold = u.hold /\ v.failed = u.failed /\ v.micro = "ready"
               /\ RcKept(u, v)
<1>1. Goes(u, k) \in Process
  BY GoesType
<1>. QED
  BY <1>1 DEF Goes, RcKept, Process

LEMMA AdvanceControl ==
    ASSUME NEW h \in Process, NEW step \in Step, NEW a, a = Advance(h, step)
    PROVE  /\ a \in Process
           /\ a.pc = h.pc + 1 /\ a.phase = h.phase /\ a.tool = h.tool
           /\ a.hold = h.hold /\ a.failed = h.failed /\ a.micro = "ready"
           /\ RcKept(h, a) \/ (step.resets /\ RcSet(h, a, "success"))
<1>. DEFINE code == IF step.resets THEN "success" ELSE "keep"
            u == SetRc(h, code)
            v == Goes(u, u.pc + 1)
<1>1. code \in ToolRc \cup {"keep"} /\ (code = "keep" \/ (step.resets /\ code = "success"))
  BY DEF ToolRc
<1>. HIDE DEF code
<1>2. /\ u \in Process /\ u.pc = h.pc /\ u.phase = h.phase /\ u.tool = h.tool
      /\ u.hold = h.hold /\ u.failed = h.failed
      /\ code = "keep" => RcKept(h, u)
      /\ code # "keep" => RcSet(h, u, code)
  BY <1>1, SetRcControl
<1>3. a = v
  BY DEF Advance, NextStep, code
<1>. HIDE DEF u
<1>4. u.pc + 1 \in Nat
  BY <1>2 DEF Process
<1>5. /\ v \in Process /\ v.pc = u.pc + 1 /\ v.phase = u.phase /\ v.tool = u.tool
      /\ v.hold = u.hold /\ v.failed = u.failed /\ v.micro = "ready" /\ RcKept(u, v)
  BY <1>2, <1>4, GoesControl
<1>. HIDE DEF v
<1>. QED
  BY <1>1, <1>2, <1>3, <1>5 DEF RcKept, RcSet

LEMMA FailControl ==
    ASSUME NEW h \in Process, OnStep(h), StepOf(h) \in Step,
           NEW a, a = FailStep(h, StepOf(h))
    PROVE  /\ a \in Process
           /\ a.pc = Target(Script(h), h.pc) /\ a.phase = h.phase /\ a.tool = h.tool
           /\ a.hold = h.hold /\ a.failed = TRUE /\ a.micro = "ready"
           /\ StepOf(h).code = "keep" => RcKept(h, a)
           /\ StepOf(h).code # "keep" => RcSet(h, a, StepOf(h).code)
<1>. DEFINE step == StepOf(h)
            u == SetRc(h, step.code)
            k == CASE step.then = 0 -> Len(Script(h)) + 1
                   [] step.then = 1 -> h.pc + 1
                   [] OTHER -> step.then
            v == Goes(u, k)
<1>1. k = Target(Script(h), h.pc)
  BY DEF Target, StepOf
<1>2. k \in Nat
  <2>1. Script(h) \in Seq(Step)
    BY ScriptAssumption DEF Script, Process
  <2>. QED
    BY <2>1 DEF Process, Step
<1>3. a = [v EXCEPT !.failed = TRUE] /\ step \in Step
  BY DEF FailStep
<1>. HIDE DEF k, step
<1>4. step.code \in ToolRc \cup {"keep"}
  BY <1>3 DEF Step
<1>5. /\ u \in Process /\ u.pc = h.pc /\ u.phase = h.phase /\ u.tool = h.tool
      /\ u.hold = h.hold
      /\ step.code = "keep" => RcKept(h, u)
      /\ step.code # "keep" => RcSet(h, u, step.code)
  BY <1>4, SetRcControl
<1>. HIDE DEF u
<1>6. /\ v \in Process /\ v.pc = k /\ v.phase = u.phase /\ v.tool = u.tool
      /\ v.hold = u.hold /\ v.micro = "ready" /\ RcKept(u, v)
  BY <1>2, <1>5, GoesControl
<1>. HIDE DEF v
<1>7. /\ a \in Process /\ a.pc = v.pc /\ a.phase = v.phase /\ a.tool = v.tool
      /\ a.hold = v.hold /\ a.failed = TRUE /\ a.micro = v.micro /\ RcKept(v, a)
  BY <1>3, <1>6 DEF Process, RcKept
<1>. QED
  BY <1>1, <1>5, <1>6, <1>7 DEF RcKept, RcSet, step

LEMMA HoldingControl ==
    ASSUME NEW r \in Process, NEW x \in Slots, NEW s \in 0..MaxSessions,
           NEW f \in Files \cup {NoFile}, NEW b \in BOOLEAN,
           NEW h, h = Holding(r, x, s, f, b)
    PROVE  /\ h \in Process
           /\ h.pc = r.pc /\ h.phase = r.phase /\ h.tool = r.tool /\ h.micro = r.micro
           /\ h.failed = r.failed /\ RcKept(r, h)
           /\ h.hold[x] = s
           /\ \A y \in Slots : y # x => h.hold[y] = r.hold[y]
<1>1. h \in Process
  BY HoldingType
<1>. QED
  BY <1>1 DEF Holding, RcKept, Process

-----------------------------------------------------------------------------
(* Every step of a process is a move of control.                           *)

\* Only p moves, and it makes a move of control.
Turn(p) ==
    /\ \A q \in Procs \ {p} : proc'[q] = proc[q]
    /\ Control(proc[p], proc'[p])

LEMMA BecomeIs ==
    ASSUME TypeOK, NEW p \in Procs, NEW n, Become(p, n)
    PROVE  proc'[p] = n /\ \A q \in Procs \ {p} : proc'[q] = proc[q]
BY DEF TypeOK, Become

LEMMA StepIs ==
    ASSUME NEW p \in Procs
    PROVE  /\ AtStep(p) <=> OnStep(proc[p])
           /\ Cur(p) = StepOf(proc[p]) /\ Slot(p) = StepOf(proc[p]).slot
BY DEF AtStep, Running, OnStep, Cur, StepOf, Slot

\* The step passes or fails with the session objects as they are.
LEMMA PlainTurn ==
    ASSUME Base, NEW p \in Procs, AtStep(p), ~InHand(proc[p]),
           \/ Succeed(p) /\ (Cur(p).op = "close" => Held(p) = 0)
           \/ Fail(p) /\ Cur(p).op \notin CloseOps
    PROVE  Turn(p)
<1>1. TypeOK /\ proc[p] \in Process /\ Cur(p) \in Step /\ Slot(p) \in Slots
  BY CurType DEF Base, TypeOK, Slot, Step
<1>2. OnStep(proc[p]) /\ Cur(p) = StepOf(proc[p]) /\ Slot(p) = StepOf(proc[p]).slot
  BY StepIs
<1>3. CASE Succeed(p) /\ (Cur(p).op = "close" => Held(p) = 0)
  <2>. DEFINE n == Advance(proc[p], Cur(p))
  <2>1. /\ n.pc = proc[p].pc + 1 /\ n.phase = proc[p].phase /\ n.tool = proc[p].tool
        /\ n.hold = proc[p].hold /\ n.failed = proc[p].failed /\ n.micro = "ready"
        /\ RcKept(proc[p], n) \/ (Cur(p).resets /\ RcSet(proc[p], n, "success"))
    BY <1>1, AdvanceControl
  <2>2. proc'[p] = n /\ \A q \in Procs \ {p} : proc'[q] = proc[q]
    BY <1>1, <1>3, BecomeIs DEF Succeed
  <2>. HIDE DEF n
  <2>3. Held(p) = 0 \/ ~Closes(Cur(p), Slot(p))
    BY <1>3 DEF Closes
  <2>4. Passes(proc[p], n)
    BY <1>2, <2>1, <2>3 DEF Passes, Steps, Held, Slot
  <2>. QED
    BY <2>2, <2>4 DEF Turn, Control
<1>4. CASE Fail(p) /\ Cur(p).op \notin CloseOps
  <2>. DEFINE n == FailStep(proc[p], Cur(p))
              step == StepOf(proc[p])
  <2>0. n = FailStep(proc[p], step) /\ step \in Step
    BY <1>1, <1>2
  <2>2. proc'[p] = n /\ \A q \in Procs \ {p} : proc'[q] = proc[q]
    BY <1>1, <1>4, BecomeIs DEF Fail
  <2>. HIDE DEF n
  <2>1. /\ n.pc = Target(Script(proc[p]), proc[p].pc) /\ n.phase = proc[p].phase
        /\ n.tool = proc[p].tool /\ n.hold = proc[p].hold /\ n.failed = TRUE
        /\ n.micro = "ready"
        /\ step.code = "keep" => RcKept(proc[p], n)
        /\ step.code # "keep" => RcSet(proc[p], n, step.code)
    BY <1>1, <1>2, <2>0, FailControl
  <2>3. Fails(proc[p], n)
    BY <1>2, <1>4, <2>0, <2>1 DEF Fails, Steps
  <2>. QED
    BY <2>2, <2>3 DEF Turn, Control
<1>. QED
  BY <1>3, <1>4

\* Another access of the same step, which leaves the session objects.
LEMMA WithinTurn ==
    ASSUME Base, NEW p \in Procs, AtStep(p), NEW n \in Process, Become(p, n),
           n.pc = proc[p].pc, n.phase = proc[p].phase, n.tool = proc[p].tool,
           n.hold = proc[p].hold, n.failed = proc[p].failed, RcKept(proc[p], n),
           InHand(proc[p]) => InHand(n),
           n.micro \in {"read", "pcr", "close"} => Cur(p).op \in AcquireOps,
           n.micro \in {"open", "saved"} =>
               Cur(p).op \in AcquireOps \cup CloseOps /\ n.path[Slot(p)] \in Files
    PROVE  Turn(p)
<1>1. OnStep(proc[p]) /\ Cur(p) = StepOf(proc[p]) /\ Slot(p) = StepOf(proc[p]).slot
  BY StepIs
<1>2. Within(proc[p], n)
  BY <1>1 DEF Within, Steps
<1>3. proc'[p] = n /\ \A q \in Procs \ {p} : proc'[q] = proc[q]
  BY BecomeIs DEF Base
<1>. QED
  BY <1>2, <1>3 DEF Turn, Control

LEMMA MainTurn ==
    ASSUME Base, NEW p \in Procs,
           \/ Invoke(p) \/ InvokeFails(p) \/ Kill(p)
           \/ CallOnstop(p) \/ Exit(p) \/ Work(p) \/ SkipOptional(p)
    PROVE  Turn(p)
<1>. TypeOK /\ proc[p] \in Process
  BY DEF Base, TypeOK
<1>1. CASE Invoke(p)
  <2>1. PICK t \in Tools, c \in BOOLEAN : Become(p, Fresh(t, c))
    BY <1>1 DEF Invoke
  <2>2. Begins(Fresh(t, c))
    BY DEF Begins, Fresh
  <2>. QED
    BY <2>1, <2>2, BecomeIs DEF Turn, Control
<1>2. ASSUME NEW status \in ToolRc \cup {"killed"}, NEW failed \in BOOLEAN,
             Become(p, Gone(status, failed))
      PROVE  Turn(p)
  <2>1. Leaves(Gone(status, failed))
    BY GoneType DEF Leaves
  <2>. QED
    BY <1>2, <2>1, BecomeIs DEF Turn, Control
<1>. DEFINE yes == TRUE
<1>. yes \in BOOLEAN /\ yes = TRUE
  OBVIOUS
<1>. HIDE DEF yes
<1>3. CASE InvokeFails(p)
  <2>1. PICK code \in {"general_error", "tcti_error"} : Become(p, Gone(code, yes))
    BY <1>3 DEF InvokeFails, yes
  <2>. QED
    BY <1>2, <2>1 DEF ToolRc
<1>4. CASE Kill(p)
  BY <1>2, <1>4 DEF Kill, Process
<1>5. CASE Exit(p)
  <2>1. ExitCode(proc[p]) \in ToolRc
    BY DEF ExitCode, Process
  <2>. QED
    BY <1>2, <1>5, <2>1 DEF Exit, Process
<1>6. CASE CallOnstop(p)
  <2>. DEFINE n == [proc[p] EXCEPT !.phase = "onstop", !.pc = 1]
  <2>1. /\ n.phase = "onstop" /\ n.pc = 1 /\ n.tool = proc[p].tool
        /\ n.micro = proc[p].micro /\ n.hold = proc[p].hold /\ n.failed = proc[p].failed
        /\ RcKept(proc[p], n)
    BY DEF Process, RcKept
  <2>2. proc[p].phase = "onrun" /\ ~OnStep(proc[p]) /\ Become(p, n)
    BY <1>6, StepIs DEF CallOnstop
  <2>3. proc[p].micro = "ready"
    BY <2>2 DEF Base, Steady, Orderly, InHand, OnStep, Process
  <2>. HIDE DEF n
  <2>4. Stops(proc[p], n)
    BY <2>1, <2>2, <2>3 DEF Stops
  <2>. QED
    BY <2>2, <2>4, BecomeIs DEF Turn, Control
<1>7. CASE Work(p)
  BY <1>7, PlainTurn DEF Work, Ready, InHand, WorkOps, CloseOps
<1>8. CASE SkipOptional(p)
  <2>1. AtStep(p) /\ Cur(p).optional /\ Become(p, NextStep(proc[p]))
    BY <1>8 DEF SkipOptional, Ready
  <2>. DEFINE n == Goes(proc[p], proc[p].pc + 1)
  <2>2. proc[p].pc + 1 \in Nat
    BY DEF Process
  <2>3. /\ n.pc = proc[p].pc + 1 /\ n.phase = proc[p].phase /\ n.tool = proc[p].tool
        /\ n.hold = proc[p].hold /\ n.failed = proc[p].failed /\ n.micro = "ready"
        /\ RcKept(proc[p], n)
    BY <2>2, GoesControl
  <2>4. proc'[p] = n /\ \A q \in Procs \ {p} : proc'[q] = proc[q]
    BY <2>1, BecomeIs DEF NextStep
  <2>. HIDE DEF n
  <2>5. Passes(proc[p], n)
    BY <2>1, <2>3, StepIs DEF Passes, Steps, Closes
  <2>. QED
    BY <2>4, <2>5 DEF Turn, Control
<1>. QED
  BY <1>1, <1>3, <1>4, <1>5, <1>6, <1>7, <1>8

\* A session enters the slot of a step that acquires one.
LEMMA GainTurn ==
    ASSUME Base, NEW p \in Procs, AtStep(p), ~InHand(proc[p]), Cur(p).op \in AcquireOps,
           NEW s \in Sids, NEW f \in Files \cup {NoFile}, NEW b \in BOOLEAN,
           NEW h, h = Holding(proc[p], Slot(p), s, f, b), NEW n, Become(p, n),
           \/ n = Advance(h, Cur(p))
           \/ n = [h EXCEPT !.micro = "pcr"]
           \/ n = [h EXCEPT !.micro = "close", !.buf = 0, !.opening = NoFile]
    PROVE  Turn(p)
<1>1. /\ TypeOK /\ proc[p] \in Process /\ Cur(p) \in Step /\ Slot(p) \in Slots
      /\ s \in 0..MaxSessions
  BY CurType, SessionsAssumption DEF Base, TypeOK, Slot, Step, Sids
<1>2. OnStep(proc[p]) /\ Cur(p) = StepOf(proc[p]) /\ Slot(p) = StepOf(proc[p]).slot
  BY StepIs
<1>3. /\ h \in Process
      /\ h.pc = proc[p].pc /\ h.phase = proc[p].phase /\ h.tool = proc[p].tool
      /\ h.failed = proc[p].failed /\ RcKept(proc[p], h)
      /\ \A y \in Slots : y # Slot(p) => h.hold[y] = proc[p].hold[y]
  BY <1>1, HoldingControl
<1>4. proc'[p] = n /\ \A q \in Procs \ {p} : proc'[q] = proc[q]
  BY <1>1, BecomeIs
<1>5. CASE n = Advance(h, Cur(p))
  <2>1. /\ n.pc = h.pc + 1 /\ n.phase = h.phase /\ n.tool = h.tool
        /\ n.hold = h.hold /\ n.failed = h.failed /\ n.micro = "ready"
        /\ RcKept(h, n) \/ (Cur(p).resets /\ RcSet(h, n, "success"))
    BY <1>1, <1>3, <1>5, AdvanceControl
  <2>2. RcKept(proc[p], n) \/ (Cur(p).resets /\ RcSet(proc[p], n, "success"))
    BY <1>3, <2>1 DEF RcKept, RcSet
  <2>3. Passes(proc[p], n)
    BY <1>2, <1>3, <2>1, <2>2 DEF Passes, Steps
  <2>. QED
    BY <1>4, <2>3 DEF Turn, Control
<1>6. CASE \/ n = [h EXCEPT !.micro = "pcr"]
           \/ n = [h EXCEPT !.micro = "close", !.buf = 0, !.opening = NoFile]
  <2>1. /\ n.pc = h.pc /\ n.phase = h.phase /\ n.tool = h.tool
        /\ n.hold = h.hold /\ n.failed = h.failed /\ n.micro \in {"pcr", "close"}
        /\ RcKept(h, n)
    BY <1>3, <1>6 DEF Process, RcKept
  <2>2. RcKept(proc[p], n) /\ InHand(n)
    BY <1>3, <2>1 DEF RcKept, InHand
  <2>3. Within(proc[p], n)
    BY <1>2, <1>3, <2>1, <2>2 DEF Within, Steps
  <2>. QED
    BY <1>4, <2>3 DEF Turn, Control
<1>. QED
  BY <1>5, <1>6

LEMMA AcquireTurn ==
    ASSUME Base, NEW p \in Procs, Fits(proc[p]), Acquire(p)
    PROVE  Turn(p)
<1>. TypeOK /\ proc[p] \in Process /\ Steady(proc[p])
  BY DEF Base, TypeOK
<1>0. Cur(p) = StepOf(proc[p]) /\ Slot(p) = StepOf(proc[p]).slot
  BY StepIs
<1>. DEFINE no == FALSE
<1>. no \in BOOLEAN /\ no = FALSE
  OBVIOUS
<1>. HIDE DEF no
<1>1. ASSUME NEW ops, Ready(p, ops), ops \subseteq AcquireOps
      PROVE  AtStep(p) /\ ~InHand(proc[p]) /\ Cur(p).op \in AcquireOps
  BY <1>1 DEF Ready, InHand
<1>2. CASE AuthPassword(p)
  <2>1. PICK s \in Sids :
          Become(p, Advance(Holding(proc[p], Slot(p), s, NoFile, no), Cur(p)))
    BY <1>2 DEF AuthPassword, no
  <2>2. AtStep(p) /\ ~InHand(proc[p]) /\ Cur(p).op \in AcquireOps
    BY <1>1, <1>2 DEF AuthPassword, AcquireOps
  <2>. QED
    BY <2>1, <2>2, GainTurn
<1>3. CASE AuthPcr(p)
  <2>1. PICK s \in Sids :
          Become(p, [Holding(proc[p], Slot(p), s, NoFile, no) EXCEPT !.micro = "pcr"])
    BY <1>3 DEF AuthPcr, no
  <2>2. AtStep(p) /\ ~InHand(proc[p]) /\ Cur(p).op \in AcquireOps
    BY <1>1, <1>3 DEF AuthPcr, AcquireOps
  <2>. QED
    BY <2>1, <2>2, GainTurn
<1>4. CASE PolicyBuildPcr(p)
  <2>1. AtStep(p) /\ proc[p].micro = "pcr" /\ Cur(p).op \in AcquireOps
    BY <1>0, <1>4 DEF PolicyBuildPcr, Fits
  <2>2. CASE Succeed(p)
    <3>. DEFINE n == Advance(proc[p], Cur(p))
    <3>1. Cur(p) \in Step
      BY <2>1, CurType
    <3>2. /\ n.pc = proc[p].pc + 1 /\ n.phase = proc[p].phase /\ n.tool = proc[p].tool
          /\ n.hold = proc[p].hold /\ n.failed = proc[p].failed /\ n.micro = "ready"
          /\ RcKept(proc[p], n) \/ (Cur(p).resets /\ RcSet(proc[p], n, "success"))
      BY <3>1, AdvanceControl
    <3>3. proc'[p] = n /\ \A q \in Procs \ {p} : proc'[q] = proc[q]
      BY <2>2, BecomeIs DEF Succeed
    <3>. HIDE DEF n
    <3>4. Passes(proc[p], n)
      BY <1>0, <2>1, <3>2, StepIs DEF Passes, Steps
    <3>. QED
      BY <3>3, <3>4 DEF Turn, Control
  <2>. DEFINE n == [proc[p] EXCEPT !.micro = "close"]
  <2>3. CASE Become(p, n)
    <3>1. /\ n \in Process
          /\ n.pc = proc[p].pc /\ n.phase = proc[p].phase /\ n.tool = proc[p].tool
          /\ n.hold = proc[p].hold /\ n.failed = proc[p].failed /\ n.micro = "close"
          /\ RcKept(proc[p], n)
      BY DEF Process, RcKept
    <3>. HIDE DEF n
    <3>2. InHand(n)
      BY <3>1 DEF InHand
    <3>. QED
      BY <2>1, <2>3, <3>1, <3>2, WithinTurn
  <2>. QED
    BY <1>4, <2>2, <2>3 DEF PolicyBuildPcr
<1>5. CASE OpenSession(p)
  <2>1. PICK s \in Sids, f \in Files \cup {NoFile} :
          Become(p, Advance(Holding(proc[p], Slot(p), s, f, no), Cur(p)))
    BY <1>5 DEF OpenSession, no
  <2>2. AtStep(p) /\ ~InHand(proc[p]) /\ Cur(p).op \in AcquireOps
    BY <1>1, <1>5 DEF OpenSession, AcquireOps
  <2>. QED
    BY <2>1, <2>2, GainTurn
<1>6. ASSUME AtStep(p), Cur(p).op \in AcquireOps, ~InHand(proc[p]), Fail(p)
      PROVE  Turn(p)
  BY <1>6, PlainTurn DEF AcquireOps, CloseOps
<1>7. CASE AcquireFails(p)
  BY <1>1, <1>6, <1>7 DEF AcquireFails
<1>8. CASE ReadContext(p)
  <2>1. PICK f \in Files :
          Become(p, [proc[p] EXCEPT !.micro = "read", !.buf = file[f], !.opening = f])
    BY <1>8 DEF ReadContext
  <2>. DEFINE n == [proc[p] EXCEPT !.micro = "read", !.buf = file[f], !.opening = f]
  <2>2. /\ n \in Process
        /\ n.pc = proc[p].pc /\ n.phase = proc[p].phase /\ n.tool = proc[p].tool
        /\ n.hold = proc[p].hold /\ n.failed = proc[p].failed /\ n.micro = "read"
        /\ RcKept(proc[p], n)
    BY DEF Process, RcKept, TypeOK
  <2>3. Become(p, n)
    BY <2>1
  <2>. HIDE DEF n
  <2>4. AtStep(p) /\ ~InHand(proc[p]) /\ Cur(p).op \in AcquireOps
    BY <1>1, <1>8 DEF ReadContext, AcquireOps
  <2>. QED
    BY <2>2, <2>3, <2>4, WithinTurn
<1>9. ASSUME AtStep(p), proc[p].micro = "read"
      PROVE  Cur(p).op \in AcquireOps /\ ~InHand(proc[p])
  BY <1>0, <1>9 DEF Fits, InHand
<1>10. CASE LoadContext(p)
  <2>. DEFINE b == Cur(p).op = "restoreFinal"
              held(s) == Holding(proc[p], Slot(p), s, proc[p].opening, b)
  <2>1. AtStep(p) /\ proc[p].micro = "read" /\ proc[p].opening \in Files
    BY <1>10 DEF LoadContext, Steady
  <2>2. PICK s \in Sids :
          Become(p, IF Cur(p).op = "auth" /\ sess[s].trial
                    THEN [held(s) EXCEPT !.micro = "close", !.buf = 0, !.opening = NoFile]
                    ELSE Advance(held(s), Cur(p)))
    BY <1>10 DEF LoadContext
  <2>. DEFINE h == held(s)
  <2>3. h = Holding(proc[p], Slot(p), s, proc[p].opening, b) /\ b \in BOOLEAN
    OBVIOUS
  <2>4. PICK n : /\ Become(p, n)
                 /\ \/ n = Advance(h, Cur(p))
                    \/ n = [h EXCEPT !.micro = "close", !.buf = 0, !.opening = NoFile]
    BY <2>2
  <2>. HIDE DEF h, held, b
  <2>. QED
    BY <1>9, <2>1, <2>3, <2>4, GainTurn
<1>11. CASE LoadContextFails(p)
  BY <1>6, <1>9, <1>11 DEF LoadContextFails
<1>. QED
  BY <1>2, <1>3, <1>4, <1>5, <1>7, <1>8, <1>10, <1>11 DEF Acquire

\* tpm2_session_close returns.
LEMMA CloseTurn ==
    ASSUME Base, NEW p \in Procs, AtStep(p), NEW ok \in BOOLEAN, CloseReturns(p, ok)
    PROVE  Turn(p)
<1>. DEFINE no == FALSE
            z == 0
<1>. no \in BOOLEAN /\ no = FALSE /\ z = 0
  OBVIOUS
<1>. HIDE DEF no, z
<1>1. /\ TypeOK /\ proc[p] \in Process /\ Cur(p) \in Step /\ Slot(p) \in Slots
      /\ z \in 0..MaxSessions
  BY CurType, SessionsAssumption DEF Base, TypeOK, Slot, Step
<1>2. OnStep(proc[p]) /\ Cur(p) = StepOf(proc[p]) /\ Slot(p) = StepOf(proc[p]).slot
  BY StepIs
<1>. DEFINE h == Released(p)
<1>3. h = Holding(proc[p], Slot(p), z, NoFile, no)
  BY DEF Released
<1>. HIDE DEF h
<1>4. /\ h \in Process
      /\ h.pc = proc[p].pc /\ h.phase = proc[p].phase /\ h.tool = proc[p].tool
      /\ h.failed = proc[p].failed /\ RcKept(proc[p], h)
      /\ h.hold[Slot(p)] = 0
      /\ \A y \in Slots : y # Slot(p) => h.hold[y] = proc[p].hold[y]
  BY <1>1, <1>3, HoldingControl
<1>5. Script(h) = Script(proc[p]) /\ StepOf(h) = Cur(p) /\ OnStep(h)
  <2>1. Script(h) = Script(proc[p])
    BY <1>4 DEF Script
  <2>. QED
    BY <1>2, <1>4, <2>1 DEF StepOf, OnStep
<1>6. PICK n : Become(p, n) /\ (n = Advance(h, Cur(p)) \/ n = FailStep(h, Cur(p)))
  BY DEF CloseReturns, h
<1>7. proc'[p] = n /\ \A q \in Procs \ {p} : proc'[q] = proc[q]
  BY <1>1, <1>6, BecomeIs
<1>8. CASE n = Advance(h, Cur(p))
  <2>1. /\ n.pc = h.pc + 1 /\ n.phase = h.phase /\ n.tool = h.tool
        /\ n.hold = h.hold /\ n.failed = h.failed /\ n.micro = "ready"
        /\ RcKept(h, n) \/ (Cur(p).resets /\ RcSet(h, n, "success"))
    BY <1>1, <1>4, <1>8, AdvanceControl
  <2>2. RcKept(proc[p], n) \/ (Cur(p).resets /\ RcSet(proc[p], n, "success"))
    BY <1>4, <2>1 DEF RcKept, RcSet
  <2>3. Passes(proc[p], n)
    BY <1>2, <1>4, <2>1, <2>2 DEF Passes, Steps
  <2>. QED
    BY <1>7, <2>3 DEF Turn, Control
<1>9. CASE n = FailStep(h, Cur(p))
  <2>0. n = FailStep(h, StepOf(h)) /\ StepOf(h) \in Step
    BY <1>1, <1>5, <1>9
  <2>1. /\ n.pc = Target(Script(h), h.pc) /\ n.phase = h.phase /\ n.tool = h.tool
        /\ n.hold = h.hold /\ n.failed = TRUE /\ n.micro = "ready"
        /\ StepOf(h).code = "keep" => RcKept(h, n)
        /\ StepOf(h).code # "keep" => RcSet(h, n, StepOf(h).code)
    BY <1>4, <1>5, <2>0, FailControl
  <2>2. IF Cur(p).code = "keep" THEN RcKept(proc[p], n) ELSE RcSet(proc[p], n, Cur(p).code)
    BY <1>4, <1>5, <2>1 DEF RcKept, RcSet
  <2>3. n.pc = Target(Script(proc[p]), proc[p].pc)
    BY <1>4, <1>5, <2>1
  <2>4. Fails(proc[p], n)
    BY <1>2, <1>4, <2>1, <2>2, <2>3 DEF Fails, Steps
  <2>. QED
    BY <1>7, <2>4 DEF Turn, Control
<1>. QED
  BY <1>6, <1>8, <1>9

LEMMA ReleaseTurn ==
    ASSUME Base, NEW p \in Procs, Fits(proc[p]), Release(p)
    PROVE  Turn(p)
<1>. TypeOK /\ proc[p] \in Process
  BY DEF Base, TypeOK
<1>0. Cur(p) = StepOf(proc[p]) /\ Slot(p) = StepOf(proc[p]).slot
  BY StepIs
<1>. DEFINE no == FALSE
            yes == TRUE
<1>. no \in BOOLEAN /\ no = FALSE /\ yes \in BOOLEAN /\ yes = TRUE
  OBVIOUS
<1>. HIDE DEF no, yes
<1>1. ASSUME Closing(p) \/ Flushing(p) \/ Saving(p) PROVE AtStep(p)
  BY <1>1 DEF Closing, Flushing, Saving
<1>2. CASE CloseNothing(p)
  BY <1>2, PlainTurn DEF CloseNothing, Ready, InHand
<1>3. CASE OpenFile(p)
  <2>1. AtStep(p) /\ Path(p) # NoFile /\ Slot(p) \in Slots
    BY <1>1, <1>3, CurType DEF OpenFile, Slot, Step
  <2>2. Cur(p).op \in AcquireOps \cup CloseOps
    BY <1>0, <1>3 DEF OpenFile, Closing, Fits, CloseOps
  <2>3. proc[p].path[Slot(p)] \in Files
    BY <2>1 DEF Path, Process
  <2>. DEFINE n == [proc[p] EXCEPT !.micro = "open"]
  <2>4. /\ n \in Process
        /\ n.pc = proc[p].pc /\ n.phase = proc[p].phase /\ n.tool = proc[p].tool
        /\ n.hold = proc[p].hold /\ n.failed = proc[p].failed /\ n.micro = "open"
        /\ n.path = proc[p].path /\ RcKept(proc[p], n)
    BY DEF Process, RcKept
  <2>5. Become(p, n)
    BY <1>3 DEF OpenFile
  <2>. HIDE DEF n
  <2>6. InHand(n)
    BY <2>4 DEF InHand
  <2>. QED
    BY <2>1, <2>2, <2>3, <2>4, <2>5, <2>6, WithinTurn
<1>4. CASE SaveContext(p)
  <2>1. AtStep(p) /\ proc[p].micro = "open"
    BY <1>4 DEF SaveContext, Saving
  <2>2. Cur(p).op \in AcquireOps \cup CloseOps /\ proc[p].path[Slot(p)] \in Files
    BY <1>0, <2>1 DEF Fits
  <2>. DEFINE c == counter + 1
              n == [proc[p] EXCEPT !.micro = "saved", !.buf = c]
  <2>6. c \in Nat
    BY DEF TypeOK
  <2>4. Become(p, n)
    BY <1>4 DEF SaveContext
  <2>. HIDE DEF c
  <2>3. /\ n \in Process
        /\ n.pc = proc[p].pc /\ n.phase = proc[p].phase /\ n.tool = proc[p].tool
        /\ n.hold = proc[p].hold /\ n.failed = proc[p].failed /\ n.micro = "saved"
        /\ n.path = proc[p].path /\ RcKept(proc[p], n)
    BY <2>6 DEF Process, RcKept
  <2>. HIDE DEF n
  <2>5. InHand(n)
    BY <2>3 DEF InHand
  <2>. QED
    BY <2>1, <2>2, <2>3, <2>4, <2>5, WithinTurn
<1>5. CASE OpenFileFails(p) \/ FlushFails(p) \/ SaveContextFails(p)
  <2>1. AtStep(p) /\ CloseReturns(p, no)
    BY <1>1, <1>5 DEF OpenFileFails, FlushFails, SaveContextFails, CloseGivesUp, no
  <2>. QED
    BY <2>1, CloseTurn
<1>6. CASE Flush(p) \/ WriteContext(p)
  <2>1. AtStep(p) /\ CloseReturns(p, yes)
    BY <1>1, <1>6 DEF Flush, WriteContext, yes
  <2>. QED
    BY <2>1, CloseTurn
<1>7. CASE WriteContextFails(p)
  <2>1. PICK ok \in BOOLEAN : CloseReturns(p, ok)
    BY <1>7 DEF WriteContextFails
  <2>. QED
    BY <1>7, <2>1, CloseTurn DEF WriteContextFails
<1>. QED
  BY <1>2, <1>3, <1>4, <1>5, <1>6, <1>7 DEF Release

LEMMA BulkTurn ==
    ASSUME Base, NEW p \in Procs, BulkFlush(p)
    PROVE  Turn(p)
<1>. TypeOK /\ proc[p] \in Process
  BY DEF Base, TypeOK
<1>1. AtStep(p) /\ ~InHand(proc[p]) /\ Cur(p).op \in BulkOps /\ proc[p].micro = "ready"
  BY DEF BulkFlush, ListHandles, ListHandlesFails, FlushListed, FlushListedFails,
         FlushListedDone, Ready, InHand, BulkOps
<1>2. CASE Succeed(p) \/ Fail(p)
  BY <1>1, <1>2, PlainTurn DEF BulkOps, CloseOps
<1>3. CASE ListHandles(p)
  <2>1. PICK L \in Listing(Cur(p).op) :
          Become(p, [Advance(proc[p], Cur(p)) EXCEPT !.listed = L])
    BY <1>3 DEF ListHandles
  <2>. DEFINE a == Advance(proc[p], Cur(p))
              n == [a EXCEPT !.listed = L]
  <2>2. /\ a \in Process
        /\ a.pc = proc[p].pc + 1 /\ a.phase = proc[p].phase /\ a.tool = proc[p].tool
        /\ a.hold = proc[p].hold /\ a.failed = proc[p].failed /\ a.micro = "ready"
        /\ RcKept(proc[p], a) \/ (Cur(p).resets /\ RcSet(proc[p], a, "success"))
    BY <1>1, AdvanceControl, CurType
  <2>3. Become(p, n)
    BY <2>1
  <2>. HIDE DEF a
  <2>4. /\ n.pc = a.pc /\ n.phase = a.phase /\ n.tool = a.tool /\ n.hold = a.hold
        /\ n.failed = a.failed /\ n.micro = a.micro /\ RcKept(a, n)
    BY <2>2 DEF Process, RcKept
  <2>5. proc'[p] = n /\ \A q \in Procs \ {p} : proc'[q] = proc[q]
    BY <2>3, BecomeIs
  <2>. HIDE DEF n
  <2>6. RcKept(proc[p], n) \/ (Cur(p).resets /\ RcSet(proc[p], n, "success"))
    BY <2>2, <2>4 DEF RcKept, RcSet
  <2>7. Passes(proc[p], n)
    BY <1>1, <2>2, <2>4, <2>6, StepIs DEF Passes, Steps, Closes, BulkOps
  <2>. QED
    BY <2>5, <2>7 DEF Turn, Control
<1>4. CASE FlushListed(p)
  <2>1. PICK s \in proc[p].listed : Become(p, [proc[p] EXCEPT !.listed = @ \ {s}])
    BY <1>4 DEF FlushListed
  <2>. DEFINE n == [proc[p] EXCEPT !.listed = @ \ {s}]
  <2>2. /\ n \in Process
        /\ n.pc = proc[p].pc /\ n.phase = proc[p].phase /\ n.tool = proc[p].tool
        /\ n.hold = proc[p].hold /\ n.failed = proc[p].failed /\ n.micro = "ready"
        /\ RcKept(proc[p], n)
    BY <1>1 DEF Process, RcKept
  <2>3. Become(p, n)
    BY <2>1
  <2>. HIDE DEF n
  <2>. QED
    BY <1>1, <2>2, <2>3, WithinTurn
<1>. QED
  BY <1>2, <1>3, <1>4
     DEF BulkFlush, ListHandlesFails, FlushListedFails, FlushListedDone

LEMMA EveryStepTurns ==
    ASSUME Base, \A p \in Procs : Fits(proc[p]), Next
    PROVE  (\E p \in Procs : Turn(p)) \/ UNCHANGED vars
BY MainTurn, AcquireTurn, ReleaseTurn, BulkTurn DEF Next, ToolStep, Finished

\* Which operations go through which accesses stays known.
LEMMA FitsKept ==
    ASSUME NEW r \in Process, NEW n \in Process, Fits(r), Control(r, n)
    PROVE  Fits(n)
<1>1. CASE n.micro = "ready"
  BY <1>1 DEF Fits, InHand
<1>2. CASE Within(r, n)
  <2>1. Script(n) = Script(r) /\ n.pc = r.pc
    BY <1>2 DEF Within, Steps, Script
  <2>2. StepOf(n) = StepOf(r) /\ OnStep(n)
    BY <1>2, <2>1 DEF StepOf, OnStep, Within, Steps
  <2>. QED
    BY <1>2, <2>2 DEF Fits, Within
<1>. QED
  BY <1>1, <1>2 DEF Control, Begins, Leaves, Stops, Passes, Fails

-----------------------------------------------------------------------------
(* Failures are not hidden.                                                *)

\* Every tool that is not known to hide failures is honest.
HonestScripts == \A t \in Tools \ Masking : Honest(Onrun[t]) /\ Honest(Onstop[t])

\* No later step assigns its result to rc.
Settled(script, i) == \A k \in i..Len(script) : ~script[k].resets

\* A failure is in the rc of onrun, or in the one of onstop.
Recorded(r) ==
    /\ r.phase = "onrun" /\ r.failed =>
          r.rc # "success" /\ Settled(Onrun[r.tool], r.pc)
    /\ r.phase = "onstop" /\ r.failed /\ r.rc = "success" =>
          r.stopRc # "success" /\ Settled(Onstop[r.tool], r.pc)

LEMMA RecordedKept ==
    ASSUME NEW r \in Process, NEW n \in Process, Control(r, n),
           Honest(Onrun[n.tool]), Honest(Onstop[n.tool]),
           n.tool = r.tool => Recorded(r)
    PROVE  Recorded(n)
<1>. /\ Onrun[n.tool] \in Seq(Step) /\ Onstop[n.tool] \in Seq(Step)
     /\ r.pc \in Nat /\ n.pc \in Nat
  BY ScriptAssumption DEF Process
<1>1. CASE Begins(n)
  BY <1>1 DEF Begins, Recorded
<1>2. CASE Leaves(n)
  BY <1>2 DEF Leaves, Recorded
<1>3. CASE Stops(r, n)
  BY <1>3 DEF Stops, Recorded, RcKept
<1>4. ASSUME Steps(r, n)
      PROVE  /\ n.phase = r.phase /\ n.tool = r.tool /\ r.phase # "idle" /\ Recorded(r)
             /\ Script(r) = IF r.phase = "onrun" THEN Onrun[n.tool] ELSE Onstop[n.tool]
             /\ r.pc \in 1..Len(Script(r)) /\ StepOf(r) = Script(r)[r.pc]
             /\ Script(r) \in Seq(Step)
             /\ r.phase \in {"onrun", "onstop"} /\ Honest(Script(r))
  BY <1>4 DEF Steps, OnStep, StepOf, Script, Process
<1>5. CASE Within(r, n)
  BY <1>4, <1>5 DEF Within, RcKept, Recorded
<1>6. CASE Passes(r, n)
  <2>1. ASSUME Settled(Script(r), r.pc)
        PROVE  RcKept(r, n) /\ Settled(Script(r), n.pc)
    <3>1. ~StepOf(r).resets
      BY <1>4, <1>6, <2>1 DEF Passes, Settled
    <3>2. Settled(Script(r), r.pc + 1)
      BY <1>4, <1>6, <2>1 DEF Passes, Settled
    <3>. QED
      BY <1>6, <3>1, <3>2 DEF Passes
  <2>2. CASE r.phase = "onrun"
    BY <1>4, <1>6, <2>1, <2>2 DEF Passes, Recorded, RcKept
  <2>3. CASE r.phase = "onstop"
    <3>1. n.rc = r.rc
      BY <1>6, <2>3 DEF Passes, RcKept, RcSet
    <3>. QED
      BY <1>4, <1>6, <2>1, <2>3, <3>1 DEF Passes, Recorded, RcKept
  <2>. QED
    BY <1>4, <1>6, <2>2, <2>3 DEF Passes
<1>7. CASE Fails(r, n)
  <2>1. StepOf(r).code \notin {"keep", "success"} /\ Settled(Script(r), n.pc)
    BY <1>4, <1>7 DEF Fails, Honest, Settled
  <2>2. RcSet(r, n, StepOf(r).code)
    BY <1>7, <2>1 DEF Fails
  <2>. QED
    BY <1>4, <1>7, <2>1, <2>2 DEF Fails, RcSet, Recorded
<1>. QED
  BY <1>1, <1>2, <1>3, <1>5, <1>6, <1>7 DEF Control

Honesty ==
    \A p \in Procs : /\ Fits(proc[p])
                     /\ proc[p].tool \notin Masking => Recorded(proc[p])

LEMMA InitIdle ==
    ASSUME Init, NEW p \in Procs
    PROVE  /\ proc[p].phase = "idle" /\ proc[p].micro = "ready"
           /\ \A x \in Slots : proc[p].hold[x] = 0
BY GoneType DEF Init, ToolRc

(***************************************************************************)
(* A tool exits with 0 only if no call whose result the code can look at   *)
(* reported a failure (the fclose of a session file is not among them):    *)
(* main takes the exit code from onrun or, if that passed, from onstop. It *)
(* holds of any number of processes running any tools that put every       *)
(* failure into rc and do not assign to it again (Honest); MCFlows         *)
(* evaluates which of the tools do.                                        *)
(***************************************************************************)
THEOREM ExitCodesHonest ==
    ASSUME HonestScripts
    PROVE  Spec => []HonestExit
<1>1. Init => Base /\ Numbers /\ Honesty
  BY InitBase, InitIdle DEF Honesty, Fits, Recorded, InHand
<1>2. Base /\ Numbers /\ Honesty /\ [Next]_vars => Base' /\ Numbers' /\ Honesty'
  <2>. SUFFICES ASSUME Base, Numbers, Honesty, [Next]_vars
                PROVE  Base' /\ Numbers' /\ Honesty'
    OBVIOUS
  <2>1. Base' /\ Numbers'
    BY NextBase
  <2>2. \A p \in Procs : proc[p] \in Process /\ proc'[p] \in Process
    BY <2>1 DEF Base, TypeOK
  <2>3. ASSUME NEW q \in Procs
        PROVE  /\ Fits(proc'[q])
               /\ proc'[q].tool \notin Masking => Recorded(proc'[q])
    <3>1. CASE proc'[q] = proc[q]
      BY <3>1 DEF Honesty
    <3>2. CASE proc'[q] # proc[q]
      <4>1. Control(proc[q], proc'[q])
        BY <3>2, EveryStepTurns DEF Turn, vars, Honesty
      <4>2. Fits(proc'[q])
        BY <2>2, <4>1, FitsKept DEF Honesty
      <4>3. ASSUME proc'[q].tool \notin Masking PROVE Recorded(proc'[q])
        <5>1. Honest(Onrun[proc'[q].tool]) /\ Honest(Onstop[proc'[q].tool])
          BY <2>2, <4>3 DEF HonestScripts, Process
        <5>. QED
          BY <2>2, <4>1, <4>3, <5>1, RecordedKept DEF Honesty
      <4>. QED
        BY <4>2, <4>3
    <3>. QED
      BY <3>1, <3>2
  <2>4. ASSUME NEW q \in Procs
        PROVE  /\ Fits(proc[q])'
               /\ (proc[q].tool \notin Masking => Recorded(proc[q]))'
    BY <2>3 DEF Fits, Recorded, InHand, OnStep, StepOf, Script, Settled
  <2>. QED
    BY <2>1, <2>4 DEF Honesty
<1>3. Honesty => HonestExit
  BY DEF Honesty, HonestExit, Recorded, ExitCode
<1>. QED
  BY <1>1, <1>2, <1>3, PTL DEF Spec

-----------------------------------------------------------------------------
(* Pointers are set only where ScriptFlow expects it.                      *)

TidyScripts == \A t \in Tools : Tidy(Onrun[t], Onstop[t])

\* A pointer that is set before a step and that the step does not close.
LEMMA SurvivesPass ==
    ASSUME NEW script \in Seq(Step), NEW i \in 1..Len(script), NEW x \in Slots,
           NEW j \in 0..(i - 1), Survives(script, x, j, i), ~Closes(script[i], x)
    PROVE  Survives(script, x, j, i + 1)
<1>. SUFFICES ASSUME NEW k \in (j + 1)..i, Closes(script[k], x)
              PROVE  \E m \in (j + 1)..(k - 1) : Target(script, m) \in (k + 1)..(i + 1)
  BY DEF Survives
<1>1. k \in (j + 1)..(i - 1)
  OBVIOUS
<1>2. PICK m \in (j + 1)..(k - 1) : Target(script, m) \in (k + 1)..i
  BY <1>1 DEF Survives
<1>3. Target(script, m) \in (k + 1)..(i + 1)
  BY <1>2
<1>. QED
  BY <1>3

LEMMA SurvivesJump ==
    ASSUME NEW script \in Seq(Step), NEW i \in 1..Len(script), NEW x \in Slots,
           NEW j \in 0..(i - 1), Survives(script, x, j, i), ~Closes(script[i], x),
           Target(script, i) \in (i + 1)..(Len(script) + 1)
    PROVE  Survives(script, x, j, Target(script, i))
<1>. DEFINE e == Target(script, i)
<1>. e \in (i + 1)..(Len(script) + 1) /\ e = Target(script, i) /\ Len(script) \in Nat
  OBVIOUS
<1>. HIDE DEF e
<1>. SUFFICES ASSUME NEW k \in (j + 1)..(e - 1), Closes(script[k], x)
              PROVE  \E m \in (j + 1)..(k - 1) : Target(script, m) \in (k + 1)..e
  BY DEF Survives
<1>1. CASE k < i
  <2>1. PICK m \in (j + 1)..(k - 1) : Target(script, m) \in (k + 1)..i
    BY <1>1 DEF Survives
  <2>2. Target(script, m) \in (k + 1)..e
    BY <2>1
  <2>. QED
    BY <2>2
<1>2. CASE k > i
  <2>1. i \in (j + 1)..(k - 1) /\ Target(script, i) \in (k + 1)..e
    BY <1>2
  <2>. QED
    BY <2>1
<1>3. k # i
  OBVIOUS
<1>. QED
  BY <1>1, <1>2, <1>3

LEMMA MayHoldNext ==
    ASSUME NEW script \in Seq(Step), Forward(script), NEW i \in 1..Len(script),
           NEW entry, NEW x \in MayHold(script, entry, i), ~Closes(script[i], x),
           NEW e \in {i + 1, Target(script, i)}
    PROVE  x \in MayHold(script, entry, e)
<1>1. Target(script, i) \in (i + 1)..(Len(script) + 1) /\ x \in Slots
  BY DEF Forward, MayHold
<1>2. e \in Nat /\ i < e
  BY <1>1
<1>3. ASSUME NEW j \in 0..(i - 1), Survives(script, x, j, i)
      PROVE  Survives(script, x, j, e)
  BY <1>1, <1>3, SurvivesPass, SurvivesJump
<1>4. CASE x \in entry /\ Survives(script, x, 0, i)
  <2>1. 0 \in 0..(i - 1)
    OBVIOUS
  <2>. QED
    BY <1>1, <1>3, <1>4, <2>1 DEF MayHold
<1>5. ASSUME NEW j \in 1..(i - 1), script[j].op \in AcquireOps, script[j].slot = x,
             Survives(script, x, j, i)
      PROVE  x \in MayHold(script, entry, e)
  <2>1. Survives(script, x, j, e)
    BY <1>3, <1>5
  <2>2. j \in 1..(e - 1)
    BY <1>2
  <2>. QED
    BY <1>1, <1>5, <2>1, <2>2 DEF MayHold
<1>. QED
  BY <1>4, <1>5 DEF MayHold

LEMMA MayHoldAcquired ==
    ASSUME NEW script \in Seq(Step), NEW i \in 1..Len(script), NEW entry,
           script[i].op \in AcquireOps
    PROVE  script[i].slot \in MayHold(script, entry, i + 1)
<1>1. script[i] \in Step
  OBVIOUS
<1>2. script[i].slot \in Slots
  BY <1>1 DEF Step
<1>3. Survives(script, script[i].slot, i, i + 1)
  BY DEF Survives
<1>4. i \in 1..((i + 1) - 1)
  OBVIOUS
<1>. QED
  BY <1>2, <1>3, <1>4 DEF MayHold

\* What the caller of the running function has left in the slots.
Entry(r) == IF r.phase = "onrun" THEN {} ELSE AtEnd(Onrun[r.tool], {})

\* A pointer is set where it may be, or has just been set by this step.
Flows(r) ==
    r.phase # "idle" =>
        /\ r.pc \in 1..(Len(Script(r)) + 1)
        /\ \A x \in Slots : r.hold[x] # 0 =>
              \/ x \in MayHold(Script(r), Entry(r), r.pc)
              \/ InHand(r) /\ StepOf(r).op \in AcquireOps /\ x = StepOf(r).slot

LEMMA FlowsKept ==
    ASSUME TidyScripts, NEW r \in Process, NEW n \in Process, Fits(r), Flows(r), Control(r, n)
    PROVE  Flows(n)
<1>. Onrun[r.tool] \in Seq(Step) /\ Onstop[r.tool] \in Seq(Step)
  BY ScriptAssumption DEF Process
<1>. DEFINE script == Script(r)
            i == r.pc
<1>1. CASE Begins(n)
  <2>1. Script(n) \in Seq(Step)
    BY ScriptAssumption DEF Script, Process
  <2>. QED
    BY <1>1, <2>1 DEF Begins, Flows
<1>2. CASE Leaves(n)
  BY <1>2 DEF Leaves, Flows
<1>3. CASE Stops(r, n)
  <2>1. Script(r) = Onrun[r.tool] /\ Script(n) = Onstop[r.tool] /\ Entry(r) = {}
        /\ Entry(n) = AtEnd(Onrun[r.tool], {})
    BY <1>3 DEF Stops, Script, Entry
  <2>2. ~InHand(r) /\ i = Len(Onrun[r.tool]) + 1
    BY <1>3, <2>1 DEF Stops, Fits, Flows, OnStep, Process
  <2>3. ASSUME NEW x \in Slots, n.hold[x] # 0
        PROVE  x \in MayHold(Script(n), Entry(n), 1)
    <3>1. x \in AtEnd(Onrun[r.tool], {})
      BY <1>3, <2>1, <2>2, <2>3 DEF Stops, Flows, AtEnd
    <3>2. Survives(Script(n), x, 0, 1)
      BY DEF Survives
    <3>. QED
      BY <2>1, <3>1, <3>2 DEF MayHold
  <2>. QED
    BY <1>3, <2>1, <2>3 DEF Stops, Flows
<1>4. ASSUME Steps(r, n)
      PROVE  /\ script \in Seq(Step) /\ Forward(script) /\ i \in 1..Len(script)
             /\ StepOf(r) = script[i] /\ StepOf(r).slot \in Slots
             /\ Script(n) = script /\ Entry(n) = Entry(r) /\ n.phase # "idle"
             /\ Target(script, i) \in (i + 1)..(Len(script) + 1)
  <2>1. script \in Seq(Step) /\ Forward(script) /\ i \in 1..Len(script)
    BY <1>4 DEF Steps, OnStep, Script, TidyScripts, Tidy, Process
  <2>2. script[i] \in Step
    BY <2>1
  <2>3. StepOf(r) = script[i] /\ Script(n) = script /\ Entry(n) = Entry(r) /\ n.phase # "idle"
    BY <1>4 DEF Steps, OnStep, Script, Entry, StepOf
  <2>. QED
    BY <2>1, <2>2, <2>3 DEF Forward, Step
<1>5. CASE Within(r, n)
  <2>1. Steps(r, n) /\ n.pc = i
    BY <1>5 DEF Within
  <2>2. StepOf(n) = StepOf(r)
    BY <1>4, <2>1 DEF StepOf
  <2>3. ASSUME NEW x \in Slots, n.hold[x] # 0
        PROVE  \/ x \in MayHold(script, Entry(r), i)
               \/ InHand(n) /\ StepOf(r).op \in AcquireOps /\ x = StepOf(r).slot
    <3>1. CASE n.hold[x] = r.hold[x]
      BY <1>5, <2>1, <2>3, <3>1 DEF Flows, Within, Steps, OnStep
    <3>2. CASE n.hold[x] # r.hold[x]
      BY <1>5, <2>1, <3>2 DEF Within, Steps
    <3>. QED
      BY <3>1, <3>2
  <2>4. n.pc \in 1..(Len(Script(n)) + 1)
    BY <1>4, <2>1
  <2>. QED
    BY <1>4, <2>1, <2>2, <2>3, <2>4 DEF Flows
<1>6. ASSUME Steps(r, n), n.pc \in {i + 1, Target(script, i)}, n.micro = "ready",
             NEW x \in Slots, n.hold[x] = r.hold[x], r.hold[x] # 0, ~Closes(script[i], x),
             x # StepOf(r).slot \/ ~InHand(r)
      PROVE  x \in MayHold(script, Entry(r), n.pc)
  <2>1. x \in MayHold(script, Entry(r), i)
    BY <1>6 DEF Flows, Steps, OnStep
  <2>. HIDE DEF script, i
  <2>. QED
    BY <1>4, <1>6, <2>1, MayHoldNext
<1>7. CASE Passes(r, n)
  <2>1. Steps(r, n) /\ n.pc = i + 1 /\ n.micro = "ready"
    BY <1>7 DEF Passes
  <2>2. ASSUME NEW x \in Slots, n.hold[x] # 0
        PROVE  x \in MayHold(script, Entry(r), n.pc)
    <3>1. CASE x # StepOf(r).slot
      <4>1. n.hold[x] = r.hold[x] /\ ~Closes(script[i], x)
        BY <1>4, <2>1, <3>1 DEF Steps, Closes
      <4>. QED
        BY <1>6, <2>1, <2>2, <3>1, <4>1
    <3>2. CASE x = StepOf(r).slot /\ StepOf(r).op \in AcquireOps
      <4>. HIDE DEF script, i
      <4>. QED
        BY <1>4, <2>1, <3>2, MayHoldAcquired
    <3>3. CASE x = StepOf(r).slot /\ StepOf(r).op \notin AcquireOps
      <4>1. n.hold[x] = r.hold[x] /\ ~Closes(script[i], x)
        BY <1>4, <1>7, <2>1, <2>2, <3>3 DEF Passes
      <4>2. x \in MayHold(script, Entry(r), i)
        BY <2>1, <2>2, <3>3, <4>1 DEF Flows, Steps, OnStep
      <4>. HIDE DEF script, i
      <4>. QED
        BY <1>4, <2>1, <4>1, <4>2, MayHoldNext
    <3>. QED
      BY <3>1, <3>2, <3>3
  <2>3. n.pc \in 1..(Len(Script(n)) + 1)
    BY <1>4, <2>1
  <2>. QED
    BY <1>4, <2>1, <2>2, <2>3 DEF Flows
<1>8. CASE Fails(r, n)
  <2>1. Steps(r, n) /\ n.pc = Target(script, i) /\ n.micro = "ready"
    BY <1>8 DEF Fails
  <2>2. ASSUME NEW x \in Slots, n.hold[x] # 0
        PROVE  x \in MayHold(script, Entry(r), n.pc)
    <3>1. CASE x # StepOf(r).slot
      <4>1. n.hold[x] = r.hold[x] /\ ~Closes(script[i], x)
        BY <1>4, <2>1, <3>1 DEF Steps, Closes
      <4>. QED
        BY <1>6, <2>1, <2>2, <3>1, <4>1
    <3>2. CASE x = StepOf(r).slot
      <4>1. n.hold[x] = r.hold[x] /\ ~InHand(r) /\ ~Closes(script[i], x)
        BY <1>4, <1>8, <2>1, <2>2, <3>2 DEF Fails, Closes, CloseOps
      <4>. QED
        BY <1>6, <2>1, <2>2, <4>1
    <3>. QED
      BY <3>1, <3>2
  <2>3. n.pc \in 1..(Len(Script(n)) + 1)
    <3>. HIDE DEF script, i
    <3>. QED
      BY <1>4, <2>1
  <2>. QED
    BY <1>4, <2>1, <2>2, <2>3 DEF Flows
<1>. QED
  BY <1>1, <1>2, <1>3, <1>5, <1>7, <1>8 DEF Control

\* A step that acquires a session has none in its slot; an exit has none left.
LEMMA SlotEmpty ==
    ASSUME TidyScripts, Base, NEW p \in Procs, Flows(proc[p]), AtStep(p),
           ~InHand(proc[p]), Cur(p).op \in AcquireOps
    PROVE  proc[p].hold[Slot(p)] = 0
<1>. DEFINE r == proc[p]
<1>1. r \in Process /\ Cur(p) \in Step
  BY CurType DEF Base, TypeOK
<1>2. OnStep(r) /\ Cur(p) = StepOf(r) /\ Slot(p) = StepOf(r).slot /\ Slot(p) \in Slots
  BY <1>1, StepIs DEF Step
<1>3. NoOverwrite(Script(r), Entry(r))
  BY <1>1, <1>2 DEF TidyScripts, Tidy, Script, Entry, Process
<1>4. Slot(p) \notin MayHold(Script(r), Entry(r), r.pc)
  BY <1>2, <1>3 DEF NoOverwrite, OnStep, StepOf
<1>. QED
  BY <1>2, <1>4 DEF Flows, OnStep

LEMMA ExitEmpty ==
    ASSUME TidyScripts, Base, NEW p \in Procs, Fits(proc[p]), Flows(proc[p]), Exit(p),
           NEW x \in Slots
    PROVE  proc[p].hold[x] = 0
<1>. DEFINE r == proc[p]
<1>1. r \in Process /\ r.phase = "onstop" /\ ~OnStep(r)
  BY StepIs DEF Base, TypeOK, Exit
<1>2. Script(r) = Onstop[r.tool] /\ Entry(r) = AtEnd(Onrun[r.tool], {})
  BY <1>1 DEF Script, Entry
<1>3. ~InHand(r) /\ r.pc = Len(Script(r)) + 1
  <2>1. Len(Script(r)) \in Nat
    BY <1>1, <1>2, ScriptAssumption DEF Process
  <2>. QED
    BY <1>1, <2>1 DEF Fits, Flows, OnStep, Process
<1>4. MayHold(Script(r), Entry(r), r.pc) = {}
  BY <1>1, <1>2, <1>3 DEF TidyScripts, Tidy, AtEnd, Process
<1>. QED
  BY <1>1, <1>3, <1>4 DEF Flows

-----------------------------------------------------------------------------
(* Sessions are not forgotten.                                             *)

Kept(s) ==
    \/ \E p \in Procs : HeldBy(s, p)
    \/ \E f \in Files : StoredIn(s, f)
    \/ s \in lost

AllKept == \A s \in Sids : sess[s].st # "free" => Kept(s)

LEMMA KeptReachable == AllKept => NoForgottenSession
<1>. SUFFICES ASSUME AllKept, NEW s \in Sids, sess[s].st # "free"
              PROVE  Reachable(s) \/ s \in lost
  BY DEF NoForgottenSession
<1>1. ASSUME NEW p \in Procs, NEW x \in Slots, proc[p].hold[x] = s
      PROVE  \E a \in Pointers : proc[a[1]].hold[a[2]] = s
  <2>1. s # 0
    BY SessionsAssumption DEF Sids
  <2>2. <<p, x>> \in Pointers
    BY <1>1, <2>1 DEF Pointers
  <2>. QED
    BY <1>1, <2>2
<1>. QED
  BY <1>1 DEF AllKept, Kept, HeldBy, StoredIn, Reachable

\* A session nobody holds keeps its context in a file, or is given up.
LEMMA KeptStored ==
    ASSUME Base, NEW p \in Procs, SessionMove(p), NEW s \in Sids, sess'[s] = sess[s],
           NEW f \in Files, StoredIn(s, f)
    PROVE  StoredIn(s, f)' \/ s \in lost'
<1>1. CASE file'[f] = file[f]
  BY <1>1 DEF StoredIn, Current
<1>2. CASE file'[f] # file[f]
  <2>1. PICK x \in Slots : Linked(p, x, f) /\ (Empties(p, x) \/ Parks(p, x))
    BY <1>2, MoveFile
  <2>2. proc[p].path[x] = f
    BY <2>1 DEF Linked
  <2>. QED
    BY <2>1, <2>2 DEF Empties, Parks, StoredIn
<1>. QED
  BY <1>1, <1>2

LEMMA MoveKept ==
    ASSUME NoBulkFlush, TidyScripts, Sound, NEW p \in Procs, SessionMove(p),
           Fits(proc[p]), Flows(proc[p]), AllKept,
           NEW s \in Sids, sess'[s].st # "free"
    PROVE  Kept(s)'
<1>. Base /\ Moves(p) /\ sess \in [Sids -> Session] /\ proc[p] \in Process
  BY DEF Sound, Base, TypeOK, SessionMove
<1>0. /\ proc[p].hold \in [Slots -> 0..MaxSessions] /\ 0 \notin Sids
      /\ \A q \in Procs : q # p => (HeldBy(s, q)' <=> HeldBy(s, q))
  BY HoldTypes, OthersHold
\* Nothing happens to the session.
<1>1. ASSUME sess'[s] = sess[s], HeldBy(s, p) => HeldBy(s, p)' \/ s \in lost',
             s \in lost => s \in lost'
      PROVE  Kept(s)'
  <2>1. CASE \E q \in Procs : HeldBy(s, q)
    BY <1>0, <1>1, <2>1 DEF Kept
  <2>2. CASE \E f \in Files : StoredIn(s, f)
    BY <1>1, <2>2, KeptStored DEF Kept
  <2>3. CASE s \in lost
    BY <1>1, <2>3 DEF Kept
  <2>. QED
    BY <1>1, <2>1, <2>2, <2>3 DEF AllKept, Kept
<1>2. CASE Quiet(p)
  BY <1>1, <1>2 DEF Quiet, Keeps, HeldBy
<1>3. ASSUME NEW x \in Slots, Empties(p, x) PROVE Kept(s)'
  BY <1>1, <1>3 DEF Empties, Keeps, HeldBy
<1>4. ASSUME NEW x \in Slots, Saves(p, x) PROVE Kept(s)'
  <2>1. HeldBy(s, p) => HeldBy(s, p)'
    BY <1>4 DEF Saves, Keeps, HeldBy
  <2>2. CASE s = proc[p].hold[x]
    BY <2>1, <2>2 DEF HeldBy, Kept
  <2>3. CASE s # proc[p].hold[x]
    BY <1>1, <1>4, <2>1, <2>3 DEF Saves
  <2>. QED
    BY <2>2, <2>3
<1>5. ASSUME NEW x \in Slots, NEW t \in Sids, NEW f \in Files \cup {NoFile},
             Starts(p, t, x, f) \/ Restores(p, t, x, f)
      PROVE  Kept(s)'
  <2>1. /\ proc'[p].hold = [proc[p].hold EXCEPT ![x] = t]
        /\ \A u \in Sids \ {t} : sess'[u] = sess[u]
        /\ lost' = lost \ {t} /\ x = Slot(p)
    BY <1>5 DEF Starts, Restores, Gains
  <2>2. AtStep(p) /\ ~InHand(proc[p]) /\ Cur(p).op \in AcquireOps
    <3>1. CASE Starts(p, t, x, f)
      BY <3>1 DEF Starts, Ready, InHand
    <3>2. CASE Restores(p, t, x, f)
      BY <3>2, StepIs DEF Restores, Fits, InHand
    <3>. QED
      BY <1>5, <3>1, <3>2
  <2>3. proc[p].hold[x] = 0
    BY <2>1, <2>2, SlotEmpty
  <2>4. CASE s = t
    BY <1>0, <2>1, <2>4 DEF HeldBy, Kept
  <2>5. CASE s # t
    <3>1. HeldBy(s, p) => HeldBy(s, p)'
      BY <1>0, <2>1, <2>3 DEF HeldBy
    <3>. QED
      BY <1>1, <2>1, <2>5, <3>1
  <2>. QED
    BY <2>4, <2>5
<1>6. ASSUME NEW x \in Slots, Frees(p, x), s # proc[p].hold[x]
      PROVE  HeldBy(s, p) => HeldBy(s, p)'
  BY <1>0, <1>6 DEF Frees, HeldBy
<1>7. ASSUME NEW x \in Slots, Flushes(p, x) PROVE Kept(s)'
  <2>1. s # proc[p].hold[x]
    BY <1>7 DEF Flushes, FreeSession
  <2>. QED
    BY <1>1, <1>6, <1>7, <2>1 DEF Flushes
<1>8. ASSUME NEW x \in Slots, Strands(p, x) PROVE Kept(s)'
  <2>1. CASE s = proc[p].hold[x]
    BY <1>8, <2>1 DEF Strands, Kept
  <2>2. CASE s # proc[p].hold[x]
    BY <1>1, <1>6, <1>8, <2>2 DEF Strands
  <2>. QED
    BY <2>1, <2>2
<1>9. ASSUME NEW x \in Slots, Parks(p, x) PROVE Kept(s)'
  <2>1. CASE s = proc[p].hold[x]
    <3>1. InFlight(p) /\ x = Slot(p)
      BY <1>9 DEF Parks, Frees
    <3>2. Current(s, proc[p].buf)
      BY <1>0, <2>1, <3>1 DEF Sound, Inv, RightView
    <3>3. PICK f \in Files : f = proc[p].path[x]
      BY <3>1, StepIs DEF Fits, InFlight
    <3>4. file'[f] = proc[p].buf /\ sess' = sess
      BY <1>9, <3>3 DEF Parks, Base, TypeOK
    <3>5. StoredIn(s, f)'
      BY <3>2, <3>4 DEF StoredIn, Current
    <3>. QED
      BY <3>3, <3>5 DEF Kept
  <2>2. CASE s # proc[p].hold[x]
    BY <1>1, <1>6, <1>9, <2>2 DEF Parks
  <2>. QED
    BY <2>1, <2>2
<1>10. CASE Ends(p)
  <2>1. sess'[s] = sess[s]
    BY <1>10 DEF Ends, Disconnect, FreeSession
  <2>2. s \in lost => s \in lost'
    BY <1>10 DEF Ends
  <2>3. HeldBy(s, p) => s \in lost'
    <3>1. CASE Exit(p)
      BY <1>0, <3>1, ExitEmpty DEF HeldBy
    <3>2. CASE lost' = {u \in lost \cup {proc[p].hold[x] : x \in Slots} :
                          u \in Sids /\ sess'[u].st # "free"}
      BY <3>2 DEF HeldBy
    <3>. QED
      BY <1>10, <3>1, <3>2 DEF Ends
  <2>. QED
    BY <1>1, <2>1, <2>2, <2>3
<1>11. \A t \in Sids : ~Purges(p, t)
  <2>1. ~Ready(p, {"flushListed"})
    BY DEF NoBulkFlush, Ready, AtStep, Cur, Script, Process
  <2>. QED
    BY <2>1 DEF Purges
<1>. QED
  BY <1>2, <1>3, <1>4, <1>5, <1>7, <1>8, <1>9, <1>10, <1>11 DEF SessionMove

Remembered ==
    /\ Sound /\ AllKept
    /\ \A p \in Procs : Fits(proc[p]) /\ Flows(proc[p])

(***************************************************************************)
(* Tidy tools forget no session: while the TPM has a slot for one, a tool  *)
(* holds it or a file has its current context, unless a kill, a failure    *)
(* inside tpm2_session_close or the replacement of its file took it away.  *)
(* It holds of any number of processes running any tools that close on     *)
(* every path what they open or restore (Tidy), and that do not flush by   *)
(* handle; MCFlows evaluates which of the tools do.                        *)
(***************************************************************************)
THEOREM SessionsRemembered ==
    ASSUME NoBulkFlush, TidyScripts
    PROVE  Spec => []NoForgottenSession
<1>1. Init => Remembered
  <2>. SUFFICES ASSUME Init PROVE Remembered
    OBVIOUS
  <2>1. Sound
    <3>1. OneFile
      BY ParkedAssumption DEF Init, OneFile
    <3>. QED
      BY <3>1, InitInv, InitBase DEF Sound
  <2>2. AllKept
    BY ParkedAssumption DEF Init, AllKept, Kept, StoredIn, Current, FreeSession
  <2>. QED
    BY <2>1, <2>2, InitIdle DEF Remembered, Fits, Flows, InHand
<1>2. Remembered /\ [Next]_vars => Remembered'
  <2>. SUFFICES ASSUME Remembered, [Next]_vars PROVE Remembered'
    OBVIOUS
  <2>1. Inv' /\ Base' /\ Numbers'
    BY NextInv, NextBase DEF Remembered, Sound
  <2>2. CASE UNCHANGED vars
    <3>0. sess' = sess /\ file' = file /\ proc' = proc /\ lost' = lost
      BY <2>2 DEF vars
    <3>1. OneFile'
      BY <3>0 DEF Remembered, Sound, OneFile
    <3>3. AllKept'
      <4>1. ASSUME NEW s \in Sids, Kept(s) PROVE Kept(s)'
        BY <3>0, <4>1 DEF Kept, HeldBy, StoredIn, Current
      <4>. QED
        BY <3>0, <4>1 DEF Remembered, AllKept
    <3>2. ASSUME NEW q \in Procs PROVE Fits(proc[q])' /\ Flows(proc[q])'
      <4>1. Fits(proc'[q]) /\ Flows(proc'[q])
        BY <3>0 DEF Remembered
      <4>. QED
        BY <4>1 DEF Fits, Flows, InHand, OnStep, StepOf, Script, Entry
    <3>. QED
      BY <2>1, <3>1, <3>2, <3>3 DEF Remembered, Sound
  <2>3. ASSUME NEW p \in Procs, SessionMove(p) PROVE OneFile' /\ AllKept'
    BY <2>3, OneFileKept, MoveKept DEF Remembered, AllKept
  <2>4. ASSUME NEW p \in Procs, Turn(p), NEW q \in Procs
        PROVE  Fits(proc[q])' /\ Flows(proc[q])'
    <3>1. proc[q] \in Process /\ proc'[q] \in Process
      BY <2>1 DEF Remembered, Sound, Base, TypeOK
    <3>2. Fits(proc'[q]) /\ Flows(proc'[q])
      <4>1. CASE q = p
        BY <2>4, <3>1, <4>1, FitsKept, FlowsKept DEF Turn, Remembered
      <4>2. CASE q # p
        BY <2>4, <4>2 DEF Turn, Remembered
      <4>. QED
        BY <4>1, <4>2
    <3>. QED
      BY <3>2 DEF Fits, Flows, InHand, OnStep, StepOf, Script, Entry
  <2>. QED
    BY <2>1, <2>2, <2>3, <2>4, EveryStepMoves, EveryStepTurns DEF Remembered, Sound
<1>3. Remembered => NoForgottenSession
  BY KeptReachable DEF Remembered
<1>. QED
  BY <1>1, <1>2, <1>3, PTL DEF Spec

=============================================================================
