------------------------- MODULE ToolRuntimeProofs --------------------------
(***************************************************************************)
(* What holds of the tool runtime for any number of processes, files and   *)
(* sessions and any tools whatever their scripts: first types and results, *)
(* then that sessions are held exclusively.                                *)
(***************************************************************************)
EXTENDS ToolRuntime, TLAPS

-----------------------------------------------------------------------------
(* Types of the operators the actions are built from.                      *)

\* The step a process is at is a step, and so has a slot.
LEMMA CurType ==
    ASSUME TypeOK, NEW p \in Procs, AtStep(p)
    PROVE  Cur(p) \in Step /\ Slot(p) \in Slots
<1>1. proc[p] \in Process
  BY DEF TypeOK
<1>2. proc[p].tool \in Tools
  BY <1>1 DEF Process
<1>3. Script(proc[p]) \in Seq(Step)
  BY <1>2, ScriptAssumption DEF Script
<1>4. Cur(p) \in Step
  BY <1>3 DEF Cur, AtStep
<1>. QED
  BY <1>4 DEF Slot, Step

\* A fresh process image is a process.
LEMMA FreshType ==
    ASSUME NEW t \in Tools, NEW c \in BOOLEAN
    PROVE  Fresh(t, c) \in Process
BY ProcsAssumption, SessionsAssumption DEF Fresh, Process, ToolRc

\* What is left of a process that ended is a process.
LEMMA GoneType ==
    ASSUME NEW status \in ToolRc \cup {"killed"}, NEW failed \in BOOLEAN
    PROVE  /\ Gone(status, failed) \in Process
           /\ Gone(status, failed).phase = "idle"
           /\ Gone(status, failed).micro = "ready"
           /\ Gone(status, failed).buf = 0
           /\ \A x \in Slots : Gone(status, failed).hold[x] = 0
<1>. DEFINE t == CHOOSE t \in Tools : TRUE
<1>1. t \in Tools
  BY ProcsAssumption
<1>. HIDE DEF t
<1>2. Fresh(t, FALSE) \in Process
  BY <1>1, FreshType
<1>3. Gone(status, failed)
        = [Fresh(t, FALSE) EXCEPT !.phase = "idle", !.status = status,
                                  !.failed = failed]
  BY DEF Gone, t
<1>4. [Fresh(t, FALSE) EXCEPT !.phase = "idle", !.status = status,
                              !.failed = failed] \in Process
  BY <1>2 DEF Process
<1>. QED
  BY <1>3, <1>4, <1>2 DEF Fresh, Process

\* Setting rc keeps everything else of a process.
LEMMA SetRcType ==
    ASSUME NEW r \in Process, NEW code \in ToolRc \cup {"keep"}
    PROVE  /\ SetRc(r, code) \in Process
           /\ SetRc(r, code).hold = r.hold
           /\ SetRc(r, code).phase = r.phase
           /\ SetRc(r, code).pc = r.pc
BY DEF SetRc, Process, ToolRc

\* A step begins with no context in memory and the same sessions.
LEMMA GoesType ==
    ASSUME NEW r \in Process, NEW n \in Nat
    PROVE  /\ Goes(r, n) \in Process
           /\ Goes(r, n).hold = r.hold
           /\ Goes(r, n).phase = r.phase
           /\ Goes(r, n).micro = "ready"
           /\ Goes(r, n).buf = 0
<1>. DEFINE u == [r EXCEPT !.pc = n]
<1>1. /\ u \in Process
      /\ u.hold = r.hold
      /\ u.phase = r.phase
  BY DEF Process
<1>. DEFINE v == [u EXCEPT !.micro = "ready"]
            w == [v EXCEPT !.buf = 0]
<1>2. Goes(r, n) = [w EXCEPT !.opening = NoFile]
  BY DEF Goes
<1>. HIDE DEF u
<1>3. v \in Process /\ v.hold = r.hold /\ v.phase = r.phase /\ v.micro = "ready"
  BY <1>1 DEF Process
<1>. HIDE DEF v
<1>4. /\ w \in Process
      /\ w.hold = r.hold
      /\ w.phase = r.phase
      /\ w.micro = "ready"
      /\ w.buf = 0
  BY <1>3 DEF Process
<1>. HIDE DEF w
<1>. QED
  BY <1>2, <1>4 DEF Process

LEMMA NextStepType ==
    ASSUME NEW r \in Process
    PROVE  /\ NextStep(r) \in Process
           /\ NextStep(r).hold = r.hold
           /\ NextStep(r).phase = r.phase
           /\ NextStep(r).micro = "ready"
           /\ NextStep(r).buf = 0
<1>1. r.pc + 1 \in Nat
  BY DEF Process
<1>. QED
  BY <1>1, GoesType DEF NextStep

LEMMA AdvanceType ==
    ASSUME NEW r \in Process, NEW step \in Step
    PROVE  /\ Advance(r, step) \in Process
           /\ Advance(r, step).hold = r.hold
           /\ Advance(r, step).phase = r.phase
           /\ Advance(r, step).micro = "ready"
           /\ Advance(r, step).buf = 0
<1>. DEFINE code == IF step.resets THEN "success" ELSE "keep"
<1>1. code \in ToolRc \cup {"keep"}
  BY DEF ToolRc
<1>. HIDE DEF code
<1>2. Advance(r, step) = NextStep(SetRc(r, code))
  BY DEF Advance, code
<1>. QED
  BY <1>1, <1>2, SetRcType, NextStepType

\* A failing step leaves the sessions to the process, wherever it goes on.
LEMMA FailStepType ==
    ASSUME NEW r \in Process, NEW step \in Step
    PROVE  /\ FailStep(r, step) \in Process
           /\ FailStep(r, step).hold = r.hold
           /\ FailStep(r, step).phase = r.phase
           /\ FailStep(r, step).micro = "ready"
           /\ FailStep(r, step).buf = 0
<1>1. step.code \in ToolRc \cup {"keep"} /\ step.then \in Nat
  BY DEF Step
<1>. DEFINE u == SetRc(r, step.code)
            n == CASE step.then = 0 -> Len(Script(r)) + 1
                   [] step.then = 1 -> r.pc + 1
                   [] OTHER -> step.then
            v == Goes(u, n)
<1>2. u \in Process /\ u.hold = r.hold /\ u.phase = r.phase
  BY <1>1, SetRcType
<1>3. Script(r) \in Seq(Step)
  BY ScriptAssumption DEF Script, Process
<1>4. n \in Nat
  BY <1>1, <1>3 DEF Process
<1>5. FailStep(r, step) = [v EXCEPT !.failed = TRUE]
  BY DEF FailStep
<1>. HIDE DEF u, n
<1>6. /\ v \in Process
      /\ v.hold = r.hold
      /\ v.phase = r.phase
      /\ v.micro = "ready"
      /\ v.buf = 0
  BY <1>2, <1>4, GoesType
<1>. HIDE DEF v
<1>. QED
  BY <1>5, <1>6 DEF Process

\* A session object put into a slot.
LEMMA HoldingType ==
    ASSUME NEW r \in Process, NEW x \in Slots, NEW s \in 0..MaxSessions,
           NEW f \in Files \cup {NoFile}, NEW isFinal \in BOOLEAN
    PROVE  /\ Holding(r, x, s, f, isFinal) \in Process
           /\ Holding(r, x, s, f, isFinal).hold = [r.hold EXCEPT ![x] = s]
           /\ Holding(r, x, s, f, isFinal).phase = r.phase
           /\ Holding(r, x, s, f, isFinal).pc = r.pc
           /\ Holding(r, x, s, f, isFinal).tool = r.tool
           /\ Holding(r, x, s, f, isFinal).micro = r.micro
           /\ Holding(r, x, s, f, isFinal).buf = r.buf
BY DEF Holding, Process

-----------------------------------------------------------------------------
(* Type correctness.                                                       *)

LEMMA BecomeType ==
    ASSUME TypeOK, NEW p \in Procs, NEW r \in Process, Become(p, r)
    PROVE  proc' \in [Procs -> Process]
BY DEF TypeOK, Become

\* The results of the current step, whatever they are.
LEMMA StepResultType ==
    ASSUME TypeOK, NEW p \in Procs, AtStep(p)
    PROVE  /\ Advance(proc[p], Cur(p)) \in Process
           /\ FailStep(proc[p], Cur(p)) \in Process
           /\ \A s \in 0..MaxSessions, f \in Files \cup {NoFile}, b \in BOOLEAN :
                 LET r == Holding(proc[p], Slot(p), s, f, b)
                 IN  /\ r \in Process
                     /\ Advance(r, Cur(p)) \in Process
                     /\ FailStep(r, Cur(p)) \in Process
<1>1. proc[p] \in Process
  BY DEF TypeOK
<1>2. Cur(p) \in Step /\ Slot(p) \in Slots
  BY CurType
<1>3. ASSUME NEW s \in 0..MaxSessions, NEW f \in Files \cup {NoFile},
             NEW b \in BOOLEAN
      PROVE  LET r == Holding(proc[p], Slot(p), s, f, b)
             IN  /\ r \in Process
                 /\ Advance(r, Cur(p)) \in Process
                 /\ FailStep(r, Cur(p)) \in Process
  <2>. DEFINE r == Holding(proc[p], Slot(p), s, f, b)
  <2>1. r \in Process
    BY <1>1, <1>2, HoldingType
  <2>. HIDE DEF r
  <2>2. Advance(r, Cur(p)) \in Process /\ FailStep(r, Cur(p)) \in Process
    BY <1>2, <2>1, AdvanceType, FailStepType
  <2>. QED
    BY <2>1, <2>2 DEF r
<1>. QED
  BY <1>1, <1>2, <1>3, AdvanceType, FailStepType

LEMMA CloseReturnsType ==
    ASSUME TypeOK, NEW p \in Procs, AtStep(p), NEW ok \in BOOLEAN,
           CloseReturns(p, ok)
    PROVE  proc' \in [Procs -> Process]
<1>1. 0 \in 0..MaxSessions
  BY SessionsAssumption
<1>2. /\ Advance(Released(p), Cur(p)) \in Process
      /\ FailStep(Released(p), Cur(p)) \in Process
  BY <1>1, StepResultType DEF Released
<1>. QED
  BY <1>2, BecomeType DEF CloseReturns

LEMMA DisconnectType ==
    ASSUME TypeOK, NEW p \in Procs, Disconnect(p)
    PROVE  sess' \in [Sids -> Session]
BY DEF TypeOK, Disconnect, Session, FreeSession

LEMMA StartedType ==
    ASSUME TypeOK, NEW p \in Procs, NEW s \in Sids, NEW trial \in BOOLEAN,
           Started(p, s, trial)
    PROVE  sess' \in [Sids -> Session] /\ lost' \in SUBSET Sids
BY DEF TypeOK, Started, StartAuthSession, Session

LEMMA FlushType ==
    ASSUME TypeOK, NEW s \in Sids, FlushContext(s)
    PROVE  sess' \in [Sids -> Session]
BY DEF TypeOK, FlushContext, Session, FreeSession

LEMMA InitType == Init => TypeOK
<1>. SUFFICES ASSUME Init PROVE TypeOK
  OBVIOUS
<1>1. sess \in [Sids -> Session]
  BY ParkedAssumption, SessionsAssumption DEF Init, Session, FreeSession, Sids
<1>2. file \in [Files -> Nat] /\ counter \in Nat
  BY ParkedAssumption, SessionsAssumption DEF Init
<1>3. Gone("success", FALSE) \in Process
  BY GoneType DEF ToolRc
<1>. QED
  BY <1>1, <1>2, <1>3 DEF Init, TypeOK

\* The steps that move only the process: r is what becomes of it.
LEMMA QuietType ==
    ASSUME TypeOK, NEW p \in Procs, NEW r \in Process, Become(p, r),
           UNCHANGED <<sess, counter, file, lost>>, runs' \in Nat
    PROVE  TypeOK'
BY BecomeType DEF TypeOK

LEMMA MainType ==
    ASSUME TypeOK, NEW p \in Procs
    PROVE  /\ Invoke(p) => TypeOK'
           /\ InvokeFails(p) => TypeOK'
           /\ CallOnstop(p) => TypeOK'
           /\ Exit(p) => TypeOK'
           /\ Kill(p) => TypeOK'
           /\ Work(p) => TypeOK'
           /\ SkipOptional(p) => TypeOK'
<1>. proc[p] \in Process
  BY DEF TypeOK
<1>1. ASSUME Invoke(p) PROVE TypeOK'
  <2>1. PICK t \in Tools, c \in BOOLEAN : Become(p, Fresh(t, c))
    BY <1>1 DEF Invoke
  <2>2. runs' \in Nat
    BY <1>1 DEF Invoke, TypeOK
  <2>. QED
    BY <1>1, <2>1, <2>2, FreshType, QuietType DEF Invoke
<1>2. ASSUME InvokeFails(p) PROVE TypeOK'
  <2>1. PICK code \in {"general_error", "tcti_error"} : Become(p, Gone(code, TRUE))
    BY <1>2 DEF InvokeFails
  <2>2. runs' \in Nat
    BY <1>2 DEF InvokeFails, TypeOK
  <2>3. Gone(code, TRUE) \in Process
    BY GoneType DEF ToolRc
  <2>. QED
    BY <1>2, <2>1, <2>2, <2>3, QuietType DEF InvokeFails
<1>3. ASSUME CallOnstop(p) PROVE TypeOK'
  <2>1. [proc[p] EXCEPT !.phase = "onstop", !.pc = 1] \in Process
    BY DEF Process
  <2>. QED
    BY <1>3, <2>1, QuietType DEF CallOnstop, TypeOK
<1>4. ASSUME Exit(p) PROVE TypeOK'
  <2>1. ExitCode(proc[p]) \in ToolRc /\ proc[p].failed \in BOOLEAN
    BY DEF Process, ExitCode
  <2>2. proc' \in [Procs -> Process]
    BY <1>4, <2>1, GoneType, BecomeType DEF Exit
  <2>. QED
    BY <1>4, <2>2, DisconnectType DEF Exit, TypeOK
<1>5. ASSUME Kill(p) PROVE TypeOK'
  <2>1. proc[p].failed \in BOOLEAN
    BY DEF Process
  <2>2. proc' \in [Procs -> Process]
    BY <1>5, <2>1, GoneType, BecomeType DEF Kill
  <2>. QED
    BY <1>5, <2>2, DisconnectType DEF Kill, TypeOK
<1>6. ASSUME Work(p) PROVE TypeOK'
  BY <1>6, StepResultType, QuietType DEF Work, Ready, Succeed, Fail, TypeOK
<1>7. ASSUME SkipOptional(p) PROVE TypeOK'
  BY <1>7, NextStepType, QuietType DEF SkipOptional, TypeOK
<1>. QED
  BY <1>1, <1>2, <1>3, <1>4, <1>5, <1>6, <1>7

LEMMA AcquireStepType ==
    ASSUME TypeOK, NEW p \in Procs, Acquire(p)
    PROVE  TypeOK'
<1>. proc[p] \in Process /\ runs \in Nat
  BY DEF TypeOK
<1>. Sids \subseteq 0..MaxSessions
  BY SessionsAssumption DEF Sids
<1>1. CASE AuthPassword(p)
  <2>1. AtStep(p)
    BY <1>1 DEF AuthPassword, Ready
  <2>2. PICK s \in Sids :
          /\ Started(p, s, FALSE)
          /\ Become(p, Advance(Holding(proc[p], Slot(p), s, NoFile, FALSE), Cur(p)))
    BY <1>1 DEF AuthPassword
  <2>3. proc' \in [Procs -> Process]
    BY <2>1, <2>2, StepResultType, BecomeType
  <2>. QED
    BY <1>1, <2>2, <2>3, StartedType DEF AuthPassword, TypeOK
<1>2. CASE AuthPcr(p)
  <2>1. AtStep(p)
    BY <1>2 DEF AuthPcr, Ready
  <2>2. PICK s \in Sids :
          /\ Started(p, s, FALSE)
          /\ Become(p, [Holding(proc[p], Slot(p), s, NoFile, FALSE) EXCEPT
                            !.micro = "pcr"])
    BY <1>2 DEF AuthPcr
  <2>3. Holding(proc[p], Slot(p), s, NoFile, FALSE) \in Process
    BY <2>1, StepResultType
  <2>4. [Holding(proc[p], Slot(p), s, NoFile, FALSE) EXCEPT !.micro = "pcr"]
            \in Process
    BY <2>3 DEF Process
  <2>5. proc' \in [Procs -> Process]
    BY <2>2, <2>4, BecomeType
  <2>. QED
    BY <1>2, <2>2, <2>5, StartedType DEF AuthPcr, TypeOK
<1>3. CASE PolicyBuildPcr(p)
  <2>1. [proc[p] EXCEPT !.micro = "close"] \in Process
    BY DEF Process
  <2>. QED
    BY <1>3, <2>1, StepResultType, QuietType DEF PolicyBuildPcr, Succeed
<1>4. CASE OpenSession(p)
  <2>1. AtStep(p)
    BY <1>4 DEF OpenSession, Ready
  <2>2. PICK s \in Sids, trial \in BOOLEAN, f \in Files \cup {NoFile} :
          /\ Started(p, s, trial)
          /\ Become(p, Advance(Holding(proc[p], Slot(p), s, f, FALSE), Cur(p)))
    BY <1>4 DEF OpenSession
  <2>3. proc' \in [Procs -> Process]
    BY <2>1, <2>2, StepResultType, BecomeType
  <2>. QED
    BY <1>4, <2>2, <2>3, StartedType DEF OpenSession, TypeOK
<1>5. CASE AcquireFails(p)
  BY <1>5, StepResultType, QuietType DEF AcquireFails, Ready, Fail
<1>6. CASE ReadContext(p)
  <2>1. PICK f \in Files :
          Become(p, [proc[p] EXCEPT !.micro = "read", !.buf = file[f],
                                    !.opening = f])
    BY <1>6 DEF ReadContext
  <2>2. [proc[p] EXCEPT !.micro = "read", !.buf = file[f], !.opening = f]
            \in Process
    BY DEF Process, TypeOK
  <2>. QED
    BY <1>6, <2>1, <2>2, QuietType DEF ReadContext
<1>7. CASE LoadContext(p)
  <2>. DEFINE isFinal == Cur(p).op = "restoreFinal"
              r(s) == Holding(proc[p], Slot(p), s, proc[p].opening, isFinal)
  <2>1. AtStep(p) /\ proc[p].opening \in Files \cup {NoFile}
    BY <1>7 DEF LoadContext, Process
  <2>2. PICK s \in Sids :
          /\ ContextLoad(s, p)
          /\ lost' = lost \ {s}
          /\ Become(p, IF Cur(p).op = "auth" /\ sess[s].trial
                       THEN [r(s) EXCEPT !.micro = "close", !.buf = 0,
                                         !.opening = NoFile]
                       ELSE Advance(r(s), Cur(p)))
    BY <1>7 DEF LoadContext
  <2>3. r(s) \in Process /\ Advance(r(s), Cur(p)) \in Process
    BY <2>1, StepResultType
  <2>. HIDE DEF r
  <2>4. [r(s) EXCEPT !.micro = "close", !.buf = 0, !.opening = NoFile] \in Process
    BY <2>3 DEF Process
  <2>5. proc' \in [Procs -> Process]
    BY <2>2, <2>3, <2>4, BecomeType
  <2>6. sess' \in [Sids -> Session]
    BY <2>2 DEF ContextLoad, TypeOK, Session
  <2>. QED
    BY <1>7, <2>2, <2>5, <2>6 DEF LoadContext, TypeOK
<1>8. CASE LoadContextFails(p)
  BY <1>8, StepResultType, QuietType DEF LoadContextFails, Fail
<1>. QED
  BY <1>1, <1>2, <1>3, <1>4, <1>5, <1>6, <1>7, <1>8 DEF Acquire

LEMMA ReleaseStepType ==
    ASSUME TypeOK, NEW p \in Procs, Release(p)
    PROVE  TypeOK'
<1>. proc[p] \in Process /\ runs \in Nat /\ counter \in Nat
  BY DEF TypeOK
<1>1. CASE CloseNothing(p)
  BY <1>1, StepResultType, QuietType DEF CloseNothing, Ready, Succeed
<1>2. CASE OpenFile(p)
  <2>1. [proc[p] EXCEPT !.micro = "open"] \in Process
    BY DEF Process
  <2>2. proc' \in [Procs -> Process]
    BY <1>2, <2>1, BecomeType DEF OpenFile
  <2>. QED
    BY <1>2, <2>2 DEF OpenFile, TypeOK
<1>3. ASSUME AtStep(p), CloseGivesUp(p), UNCHANGED file PROVE TypeOK'
  <2>1. proc' \in [Procs -> Process]
    BY <1>3, CloseReturnsType DEF CloseGivesUp
  <2>2. lost' \in SUBSET Sids
    BY <1>3 DEF CloseGivesUp, Stranded, TypeOK
  <2>. QED
    BY <1>3, <2>1, <2>2 DEF CloseGivesUp, TypeOK
<1>4. CASE OpenFileFails(p)
  BY <1>3, <1>4 DEF OpenFileFails, Closing
<1>5. CASE Flush(p)
  <2>1. AtStep(p)
    BY <1>5 DEF Flush, Flushing, Closing
  <2>2. proc' \in [Procs -> Process]
    BY <1>5, <2>1, CloseReturnsType DEF Flush
  <2>3. sess' \in [Sids -> Session]
    BY <1>5 DEF Flush, FlushContext, Session, FreeSession, TypeOK
  <2>. QED
    BY <1>5, <2>2, <2>3 DEF Flush, TypeOK
<1>6. CASE FlushFails(p)
  BY <1>3, <1>6 DEF FlushFails, Flushing, Closing
<1>7. CASE SaveContext(p)
  <2>. counter + 1 \in Nat
    BY DEF TypeOK
  <2>1. [proc[p] EXCEPT !.micro = "saved", !.buf = counter + 1] \in Process
    <3>. DEFINE n == counter + 1
    <3>. HIDE DEF n
    <3>1. n \in Nat => [proc[p] EXCEPT !.micro = "saved", !.buf = n] \in Process
      BY DEF Process
    <3>. QED
      BY <3>1 DEF n
  <2>2. proc' \in [Procs -> Process]
    BY <1>7, <2>1, BecomeType DEF SaveContext
  <2>3. sess' \in [Sids -> Session]
    BY <1>7 DEF SaveContext, ContextSave, Session, TypeOK
  <2>. QED
    BY <1>7, <2>2, <2>3 DEF SaveContext, ContextSave, TypeOK
<1>8. CASE SaveContextFails(p)
  BY <1>3, <1>8 DEF SaveContextFails, Saving
<1>9. CASE WriteContext(p)
  <2>1. proc' \in [Procs -> Process]
    BY <1>9, CloseReturnsType DEF WriteContext
  <2>2. file' \in [Files -> Nat]
    BY <1>9 DEF WriteContext, TypeOK, Process
  <2>. QED
    BY <1>9, <2>1, <2>2 DEF WriteContext, TypeOK
<1>10. CASE WriteContextFails(p)
  <2>1. PICK ok \in BOOLEAN : CloseReturns(p, ok)
    BY <1>10 DEF WriteContextFails
  <2>2. proc' \in [Procs -> Process]
    BY <1>10, <2>1, CloseReturnsType DEF WriteContextFails
  <2>3. lost' \in SUBSET Sids
    BY <1>10 DEF WriteContextFails, Stranded, TypeOK
  <2>. QED
    BY <1>10, <2>2, <2>3 DEF WriteContextFails, TypeOK
<1>. QED
  BY <1>1, <1>2, <1>4, <1>5, <1>6, <1>7, <1>8, <1>9, <1>10 DEF Release

LEMMA BulkFlushType ==
    ASSUME TypeOK, NEW p \in Procs, BulkFlush(p)
    PROVE  TypeOK'
<1>. proc[p] \in Process /\ runs \in Nat
  BY DEF TypeOK
<1>1. CASE ListHandles(p)
  <2>1. PICK L \in Listing(Cur(p).op) :
          Become(p, [Advance(proc[p], Cur(p)) EXCEPT !.listed = L])
    BY <1>1 DEF ListHandles
  <2>2. L \in SUBSET Sids
    BY <1>1, <2>1 DEF ListHandles, Ready, Listing
  <2>3. Advance(proc[p], Cur(p)) \in Process
    BY <1>1, StepResultType DEF ListHandles, Ready
  <2>4. [Advance(proc[p], Cur(p)) EXCEPT !.listed = L] \in Process
    BY <2>2, <2>3 DEF Process
  <2>. QED
    BY <1>1, <2>1, <2>4, QuietType DEF ListHandles
<1>2. CASE ListHandlesFails(p)
  BY <1>2, StepResultType, QuietType DEF ListHandlesFails, Ready, Fail
<1>3. CASE FlushListed(p)
  <2>1. PICK s \in Sids :
          /\ FlushContext(s)
          /\ lost' = lost \ {s}
          /\ Become(p, [proc[p] EXCEPT !.listed = @ \ {s}])
    BY <1>3 DEF FlushListed, Process
  <2>2. [proc[p] EXCEPT !.listed = @ \ {s}] \in Process
    BY DEF Process
  <2>3. proc' \in [Procs -> Process]
    BY <2>1, <2>2, BecomeType
  <2>. QED
    BY <1>3, <2>1, <2>3, FlushType DEF FlushListed, TypeOK
<1>4. CASE FlushListedFails(p)
  BY <1>4, StepResultType, QuietType DEF FlushListedFails, Ready, Fail
<1>5. CASE FlushListedDone(p)
  BY <1>5, StepResultType, QuietType DEF FlushListedDone, Ready, Succeed
<1>. QED
  BY <1>1, <1>2, <1>3, <1>4, <1>5 DEF BulkFlush

LEMMA NextType == TypeOK /\ [Next]_vars => TypeOK'
<1>. SUFFICES ASSUME TypeOK, [Next]_vars PROVE TypeOK'
  OBVIOUS
<1>1. CASE UNCHANGED vars
  BY <1>1 DEF vars, TypeOK
<1>2. CASE Finished
  BY <1>2 DEF Finished, vars, TypeOK
<1>3. CASE \E p \in Procs : Invoke(p) \/ InvokeFails(p) \/ Kill(p) \/ ToolStep(p)
  BY <1>3, MainType, AcquireStepType, ReleaseStepType, BulkFlushType DEF ToolStep
<1>. QED
  BY <1>1, <1>2, <1>3 DEF Next

(***************************************************************************)
(* The state of the processes, the TPM and the session files stays within  *)
(* its types, whatever tools with whatever scripts run: control is always  *)
(* at a step or past the end of a script, and session pointers are NULL or *)
(* name one of the TPM's sessions (main, tpm2_session_open, _restore and   *)
(* _close).                                                                *)
(***************************************************************************)
THEOREM TypeCorrect == Spec => []TypeOK
BY InitType, NextType, PTL DEF Spec

-----------------------------------------------------------------------------
(***************************************************************************)
(* Sessions are held exclusively: for any number of processes, files and   *)
(* sessions and any tools that do not flush sessions by handle.            *)
(*                                                                         *)
(* The argument is about context numbers.  A process that saves a session  *)
(* has its new context in memory until it writes it to a file.  Until then *)
(* nobody else has that context, because its number is fresh: not another  *)
(* process, and not a file.  So nobody else can load the session, and once *)
(* it is in the file the process no longer holds it.                       *)
(***************************************************************************)

\* No tool is of the kind of flushcontext by handle or by property.
NoBulkFlush ==
    \A t \in Tools : \A script \in {Onrun[t], Onstop[t]} :
        \A i \in 1..Len(script) : script[i].op # "flushListed"

\* A process between two accesses of a step that works on the session in hand.
InHand(r) == r.micro \in {"pcr", "close", "open", "saved"}

Orderly(r) ==
    /\ r.phase = "idle" => r.micro = "ready" /\ \A x \in Slots : r.hold[x] = 0
    /\ InHand(r) => /\ r.pc \in 1..Len(Script(r))
                    /\ r.hold[Script(r)[r.pc].slot] # 0

\* The two halves of ExclusiveSessions, pointer by pointer.
Alone ==
    \A p, q \in Procs, x, y \in Slots :
        proc[p].hold[x] # 0 /\ proc[p].hold[x] = proc[q].hold[y]
            => p = q /\ x = y

RightView ==
    \A p \in Procs, x \in Slots :
        LET s == proc[p].hold[x]
        IN  s # 0 => IF InFlight(p) /\ x = Slot(p)
                     THEN Current(s, proc[p].buf)
                     ELSE sess[s].st = "loaded" /\ sess[s].conn = {p}

\* No context number is above the TPM's counter; none serves two sessions.
Bounded ==
    /\ \A s \in Sids : sess[s].cid <= counter
    /\ \A f \in Files : file[f] <= counter
    /\ \A p \in Procs : proc[p].buf <= counter

Distinct ==
    \A s, t \in Sids :
        sess[s].st = "saved" /\ sess[t].st = "saved" /\ sess[s].cid = sess[t].cid
            => s = t

\* The context a process is about to write is in no other memory or file.
Private ==
    \A p \in Procs : InFlight(p) =>
        /\ proc[p].buf # 0
        /\ \A f \in Files : file[f] # proc[p].buf
        /\ \A q \in Procs : q # p => proc[q].buf # proc[p].buf

Inv ==
    /\ TypeOK
    /\ \A p \in Procs : Orderly(proc[p])
    /\ Alone /\ RightView
    /\ Bounded /\ Distinct /\ Private

LEMMA HalvesSuffice == TypeOK /\ Alone /\ RightView => ExclusiveSessions
<1>. SUFFICES ASSUME TypeOK, Alone, RightView PROVE ExclusiveSessions
  OBVIOUS
<1>1. ASSUME NEW a \in Pointers
      PROVE  /\ a[1] \in Procs
             /\ a[2] \in Slots
             /\ a = <<a[1], a[2]>>
             /\ proc[a[1]].hold[a[2]] # 0
  BY <1>1 DEF Pointers
<1>2. ASSUME NEW a \in Pointers, NEW b \in Pointers,
             proc[a[1]].hold[a[2]] = proc[b[1]].hold[b[2]]
      PROVE  a = b
  <2>1. a[1] = b[1] /\ a[2] = b[2]
    BY <1>1, <1>2 DEF Alone
  <2>. QED
    BY <1>1, <2>1
<1>3. ASSUME NEW a \in Pointers
      PROVE  LET p == a[1]
                 s == proc[p].hold[a[2]]
             IN  IF InFlight(p) /\ a[2] = Slot(p)
                 THEN Current(s, proc[p].buf)
                 ELSE sess[s].st = "loaded" /\ sess[s].conn = {p}
  BY <1>1 DEF RightView
<1>. QED
  BY <1>2, <1>3 DEF ExclusiveSessions

LEMMA InitInv == Init => Inv
<1>. SUFFICES ASSUME Init PROVE Inv
  OBVIOUS
<1>1. TypeOK
  BY InitType
<1>2. ASSUME NEW p \in Procs
      PROVE  /\ proc[p].phase = "idle"
             /\ proc[p].micro = "ready"
             /\ proc[p].buf = 0
             /\ \A x \in Slots : proc[p].hold[x] = 0
  BY GoneType DEF Init, ToolRc
<1>3. \A p \in Procs : Orderly(proc[p])
  BY <1>2 DEF Orderly, InHand
<1>4. Alone /\ RightView /\ Private
  BY <1>2 DEF Alone, RightView, Private, InFlight
<1>5. \A s \in Sids : sess[s].cid \in {0, s} /\ (sess[s].st = "saved" => sess[s].cid = s)
  BY DEF Init, FreeSession
<1>6. Distinct
  BY <1>5 DEF Distinct
<1>7. Bounded
  <2>1. counter = MaxSessions /\ file = Parked
    BY DEF Init
  <2>. QED
    BY <1>2, <1>5, <2>1, SessionsAssumption, ParkedAssumption DEF Bounded, Sids
<1>. QED
  BY <1>1, <1>3, <1>4, <1>6, <1>7 DEF Inv

-----------------------------------------------------------------------------
(* The kinds of steps: what an action has to be like to preserve Inv.      *)

\* The slot of a process depends on nothing but the process.
LEMMA SlotOf ==
    ASSUME NEW p, proc'[p] = proc[p]
    PROVE  Slot(p)' = Slot(p) /\ InFlight(p)' = InFlight(p)
BY DEF Slot, Cur, Script, InFlight

LEMMA OrderlyKept ==
    ASSUME NEW p, proc'[p] = proc[p], Orderly(proc[p])
    PROVE  Orderly(proc[p])'
BY DEF Orderly, InHand, Script

LEMMA HeldSid ==
    ASSUME TypeOK, NEW p \in Procs, NEW x \in Slots, proc[p].hold[x] # 0
    PROVE  proc[p].hold[x] \in Sids
BY SessionsAssumption DEF TypeOK, Process, Sids

\* No session changes hands, and no context enters a file.
LEMMA QuietInv ==
    ASSUME Inv, TypeOK', NEW p \in Procs, NEW r \in Process, Become(p, r),
           UNCHANGED <<sess, counter>>,
           \A f \in Files : file'[f] \in {0, file[f]},
           r.hold = proc[p].hold, ~InFlight(p), r.micro # "saved",
           r.buf \in {0, proc[p].buf} \cup {file[f] : f \in Files},
           Orderly(r)
    PROVE  Inv'
<1>1. /\ proc'[p] = r
      /\ \A q \in Procs \ {p} : proc'[q] = proc[q]
      /\ \A q \in Procs : proc'[q].hold = proc[q].hold
  BY DEF Become, Inv, TypeOK
<1>2. ~InFlight(p)'
  BY <1>1 DEF InFlight
<1>3. \A q \in Procs \ {p} : Slot(q)' = Slot(q) /\ InFlight(q)' = InFlight(q)
  BY <1>1, SlotOf
<1>4. \A q \in Procs : Orderly(proc[q])'
  <2>1. ASSUME NEW q \in Procs \ {p} PROVE Orderly(proc[q])'
    BY <1>1, <2>1, OrderlyKept DEF Inv
  <2>2. Orderly(proc[p])'
    BY <1>1 DEF Orderly, InHand, Script
  <2>. QED
    BY <2>1, <2>2
<1>5. Alone'
  BY <1>1 DEF Alone, Inv
<1>6. RightView'
  <2>. SUFFICES ASSUME NEW q \in Procs, NEW x \in Slots, proc[q].hold[x] # 0
                PROVE  IF InFlight(q)' /\ x = Slot(q)'
                       THEN Current(proc[q].hold[x], proc[q].buf)'
                       ELSE /\ sess'[proc[q].hold[x]].st = "loaded"
                            /\ sess'[proc[q].hold[x]].conn = {q}
    BY <1>1 DEF RightView
  <2>1. CASE q = p
    BY <1>2, <2>1 DEF RightView, Inv
  <2>2. CASE q # p
    BY <1>1, <1>3, <2>2 DEF RightView, Inv, Current
  <2>. QED
    BY <2>1, <2>2
<1>7. Bounded'
  <2>1. counter \in Nat /\ file \in [Files -> Nat] /\ proc[p].buf <= counter
    BY DEF Inv, TypeOK, Bounded
  <2>2. r.buf <= counter
    BY <2>1 DEF Inv, Bounded
  <2>. QED
    BY <1>1, <2>1, <2>2 DEF Bounded, Inv
<1>8. Distinct'
  BY DEF Distinct, Inv
<1>9. Private'
  <2>. SUFFICES ASSUME NEW q \in Procs, InFlight(q)'
                PROVE  /\ proc'[q].buf # 0
                       /\ \A f \in Files : file'[f] # proc'[q].buf
                       /\ \A o \in Procs : o # q => proc'[o].buf # proc'[q].buf
    BY DEF Private
  <2>1. q # p /\ InFlight(q) /\ proc'[q] = proc[q]
    BY <1>1, <1>2, <1>3
  <2>2. r.buf # proc[q].buf
    BY <2>1 DEF Private, Inv
  <2>. QED
    BY <1>1, <2>1, <2>2 DEF Private, Inv
<1>. QED
  BY <1>4, <1>5, <1>6, <1>7, <1>8, <1>9 DEF Inv

\* A session nobody holds, loaded by p into its slot x.
LEMMA AcquireInv ==
    ASSUME Inv, TypeOK', NEW p \in Procs, NEW r \in Process, Become(p, r),
           NEW s \in Sids, NEW x \in Slots, NEW loaded,
           \A q \in Procs, y \in Slots : proc[q].hold[y] # s,
           loaded.st = "loaded", loaded.conn = {p}, loaded.cid <= counter,
           sess' = [sess EXCEPT ![s] = loaded],
           UNCHANGED <<counter, file>>,
           r.hold = [proc[p].hold EXCEPT ![x] = s],
           ~InFlight(p), r.micro # "saved", r.buf \in {0, proc[p].buf}, Orderly(r)
    PROVE  Inv'
<1>1. /\ proc'[p] = r
      /\ \A q \in Procs \ {p} : proc'[q] = proc[q]
      /\ \A q \in Procs, y \in Slots :
            proc'[q].hold[y] = IF q = p /\ y = x THEN s ELSE proc[q].hold[y]
  BY DEF Become, Inv, TypeOK, Process
<1>2. ~InFlight(p)'
  BY <1>1 DEF InFlight
<1>3. \A q \in Procs \ {p} : Slot(q)' = Slot(q) /\ InFlight(q)' = InFlight(q)
  BY <1>1, SlotOf
<1>4. \A q \in Procs : Orderly(proc[q])'
  <2>1. ASSUME NEW q \in Procs \ {p} PROVE Orderly(proc[q])'
    BY <1>1, <2>1, OrderlyKept DEF Inv
  <2>2. Orderly(proc[p])'
    BY <1>1 DEF Orderly, InHand, Script
  <2>. QED
    BY <2>1, <2>2
<1>5. Alone'
  BY <1>1 DEF Alone, Inv
<1>6. \A t \in Sids \ {s} : sess'[t] = sess[t]
  BY DEF Inv, TypeOK
<1>7. sess'[s] = loaded
  BY DEF Inv, TypeOK
<1>8. RightView'
  <2>. SUFFICES ASSUME NEW q \in Procs, NEW y \in Slots, proc'[q].hold[y] # 0
                PROVE  IF InFlight(q)' /\ y = Slot(q)'
                       THEN Current(proc[q].hold[y], proc[q].buf)'
                       ELSE /\ sess'[proc'[q].hold[y]].st = "loaded"
                            /\ sess'[proc'[q].hold[y]].conn = {q}
    BY DEF RightView
  <2>1. CASE q = p /\ y = x
    <3>1. proc'[q].hold[y] = s /\ ~InFlight(q)'
      BY <1>1, <1>2, <2>1
    <3>2. sess'[s].st = "loaded" /\ sess'[s].conn = {q}
      BY <1>7, <2>1
    <3>. QED
      BY <3>1, <3>2
  <2>. DEFINE t == proc[q].hold[y]
  <2>2. CASE ~(q = p /\ y = x)
    <3>1. t # 0 /\ proc'[q].hold[y] = t /\ t # s
      BY <1>1, <2>2
    <3>2. t \in Sids
      BY <3>1, HeldSid DEF Inv
    <3>3. sess'[t] = sess[t]
      BY <1>6, <3>1, <3>2
    <3>4. IF InFlight(q) /\ y = Slot(q)
          THEN Current(t, proc[q].buf)
          ELSE sess[t].st = "loaded" /\ sess[t].conn = {q}
      BY <3>1 DEF RightView, Inv
    <3>5. CASE q = p
      <4>1. ~InFlight(q) /\ ~InFlight(q)'
        BY <1>2, <3>5
      <4>. QED
        BY <3>1, <3>3, <3>4, <4>1
    <3>6. CASE q # p
      BY <1>1, <1>3, <3>1, <3>3, <3>4, <3>6 DEF Current
    <3>. QED
      BY <3>5, <3>6
  <2>. QED
    BY <2>1, <2>2
<1>9. Bounded'
  <2>1. counter \in Nat
    BY DEF Inv, TypeOK
  <2>. QED
    BY <1>1, <1>6, <1>7, <2>1 DEF Bounded, Inv
<1>10. Distinct'
  BY <1>6, <1>7 DEF Distinct, Inv
<1>11. Private'
  BY <1>1, <1>2, <1>3 DEF Private, Inv, InFlight
<1>. QED
  BY <1>4, <1>5, <1>8, <1>9, <1>10, <1>11 DEF Inv

\* p gives up the session s of its slot x: the pointer is NULL again.
LEMMA ReleaseInv ==
    ASSUME Inv, TypeOK', NEW p \in Procs, NEW r \in Process, Become(p, r),
           NEW x \in Slots, NEW s \in Sids, s = proc[p].hold[x],
           InFlight(p) => x = Slot(p),
           \A t \in Sids \ {s} : sess'[t] = sess[t],
           sess'[s] \in {sess[s], FreeSession},
           UNCHANGED counter,
           \A f \in Files : \/ file'[f] = file[f]
                            \/ InFlight(p) /\ file'[f] = proc[p].buf,
           r.hold = [proc[p].hold EXCEPT ![x] = 0],
           r.phase # "idle", r.micro = "ready", r.buf = 0
    PROVE  Inv'
<1>1. /\ proc'[p] = r
      /\ \A q \in Procs \ {p} : proc'[q] = proc[q]
      /\ \A q \in Procs, y \in Slots :
            proc'[q].hold[y] = IF q = p /\ y = x THEN 0 ELSE proc[q].hold[y]
  BY DEF Become, Inv, TypeOK, Process
<1>2. ~InFlight(p)'
  BY <1>1 DEF InFlight
<1>3. \A q \in Procs \ {p} : Slot(q)' = Slot(q) /\ InFlight(q)' = InFlight(q)
  BY <1>1, SlotOf
<1>4. \A q \in Procs : Orderly(proc[q])'
  <2>1. ASSUME NEW q \in Procs \ {p} PROVE Orderly(proc[q])'
    BY <1>1, <2>1, OrderlyKept DEF Inv
  <2>2. Orderly(proc[p])'
    BY <1>1 DEF Orderly, InHand, Script
  <2>. QED
    BY <2>1, <2>2
<1>5. Alone'
  BY <1>1 DEF Alone, Inv
<1>6. s # 0
  BY SessionsAssumption DEF Sids
<1>7. RightView'
  <2>. SUFFICES ASSUME NEW q \in Procs, NEW y \in Slots, proc'[q].hold[y] # 0
                PROVE  IF InFlight(q)' /\ y = Slot(q)'
                       THEN Current(proc[q].hold[y], proc[q].buf)'
                       ELSE /\ sess'[proc'[q].hold[y]].st = "loaded"
                            /\ sess'[proc'[q].hold[y]].conn = {q}
    BY DEF RightView
  <2>. DEFINE t == proc[q].hold[y]
  <2>1. t # 0 /\ proc'[q].hold[y] = t /\ ~(q = p /\ y = x)
    BY <1>1
  <2>2. t # s
    BY <1>6, <2>1 DEF Alone, Inv
  <2>3. t \in Sids
    BY <2>1, HeldSid DEF Inv
  <2>4. sess'[t] = sess[t]
    BY <2>2, <2>3
  <2>5. IF InFlight(q) /\ y = Slot(q)
        THEN Current(t, proc[q].buf)
        ELSE sess[t].st = "loaded" /\ sess[t].conn = {q}
    BY <2>1 DEF RightView, Inv
  <2>6. CASE q = p
    BY <1>2, <2>1, <2>4, <2>5, <2>6
  <2>7. CASE q # p
    BY <1>1, <1>3, <2>1, <2>4, <2>5, <2>7 DEF Current
  <2>. QED
    BY <2>6, <2>7
<1>8. Bounded'
  <2>1. counter \in Nat /\ proc[p].buf <= counter
    BY DEF Inv, TypeOK, Bounded
  <2>2. \A f \in Files : file'[f] <= counter
    BY <2>1 DEF Inv, Bounded
  <2>3. \A t \in Sids : sess'[t].cid <= counter
    BY <2>1 DEF Inv, Bounded, FreeSession
  <2>. QED
    BY <1>1, <2>1, <2>2, <2>3 DEF Bounded, Inv
<1>9. Distinct'
  BY DEF Distinct, Inv, FreeSession
<1>10. Private'
  <2>. SUFFICES ASSUME NEW q \in Procs, InFlight(q)'
                PROVE  /\ proc'[q].buf # 0
                       /\ \A f \in Files : file'[f] # proc'[q].buf
                       /\ \A o \in Procs : o # q => proc'[o].buf # proc'[q].buf
    BY DEF Private
  <2>1. q # p /\ InFlight(q) /\ proc'[q] = proc[q]
    BY <1>1, <1>2, <1>3
  <2>. QED
    BY <1>1, <2>1 DEF Private, Inv
<1>. QED
  BY <1>4, <1>5, <1>7, <1>8, <1>9, <1>10 DEF Inv

-----------------------------------------------------------------------------
(* Every action is of one of these kinds.                                  *)

LEMMA StepResult ==
    ASSUME TypeOK, NEW p \in Procs, AtStep(p),
           NEW r \in {Advance(proc[p], Cur(p)), FailStep(proc[p], Cur(p))}
    PROVE  /\ r \in Process
           /\ r.hold = proc[p].hold
           /\ r.phase # "idle" /\ r.micro = "ready" /\ r.buf = 0
           /\ Orderly(r)
<1>1. proc[p] \in Process /\ proc[p].phase # "idle"
  BY DEF TypeOK, AtStep, Running
<1>2. Cur(p) \in Step
  BY CurType
<1>3. /\ r \in Process
      /\ r.hold = proc[p].hold
      /\ r.phase # "idle" /\ r.micro = "ready" /\ r.buf = 0
  BY <1>1, <1>2, AdvanceType, FailStepType
<1>. QED
  BY <1>3 DEF Orderly, InHand

LEMMA HoldingResult ==
    ASSUME TypeOK, NEW p \in Procs, AtStep(p), NEW s \in 0..MaxSessions,
           NEW f \in Files \cup {NoFile}, NEW b \in BOOLEAN,
           NEW h, h = Holding(proc[p], Slot(p), s, f, b),
           NEW r \in {Advance(h, Cur(p)), FailStep(h, Cur(p))}
    PROVE  /\ r \in Process
           /\ r.hold = [proc[p].hold EXCEPT ![Slot(p)] = s]
           /\ r.phase # "idle" /\ r.micro = "ready" /\ r.buf = 0
           /\ Orderly(r)
<1>1. proc[p] \in Process /\ proc[p].phase # "idle"
  BY DEF TypeOK, AtStep, Running
<1>2. Cur(p) \in Step /\ Slot(p) \in Slots
  BY CurType
<1>3. /\ h \in Process
      /\ h.hold = [proc[p].hold EXCEPT ![Slot(p)] = s]
      /\ h.phase = proc[p].phase
  BY <1>1, <1>2, HoldingType
<1>4. /\ r \in Process
      /\ r.hold = [proc[p].hold EXCEPT ![Slot(p)] = s]
      /\ r.phase # "idle" /\ r.micro = "ready" /\ r.buf = 0
  BY <1>1, <1>2, <1>3, AdvanceType, FailStepType
<1>. QED
  BY <1>4 DEF Orderly, InHand

\* A free session is nobody's; nor is the one whose context a reader has.
LEMMA FreeUnheld ==
    ASSUME Inv, NEW s \in Sids, sess[s].st = "free",
           NEW q \in Procs, NEW y \in Slots
    PROVE  proc[q].hold[y] # s
<1>1. s # 0
  BY SessionsAssumption DEF Sids
<1>. QED
  BY <1>1 DEF Inv, RightView, Current

LEMMA ReadUnheld ==
    ASSUME Inv, NEW p \in Procs, ~InFlight(p),
           NEW s \in Sids, Current(s, proc[p].buf),
           NEW q \in Procs, NEW y \in Slots
    PROVE  proc[q].hold[y] # s
<1>. SUFFICES ASSUME proc[q].hold[y] = s PROVE FALSE
  OBVIOUS
<1>1. s # 0
  BY SessionsAssumption DEF Sids
<1>2. InFlight(q) /\ Current(s, proc[q].buf)
  BY <1>1 DEF Inv, RightView, Current
<1>. QED
  BY <1>2 DEF Inv, Private, Current

\* Each step of a script that leaves the sessions where they are.
LEMMA QuietStep ==
    ASSUME Inv, TypeOK', NEW p \in Procs, AtStep(p), ~InFlight(p),
           Succeed(p) \/ Fail(p), UNCHANGED <<sess, counter, file>>
    PROVE  Inv'
<1>1. PICK r \in {Advance(proc[p], Cur(p)), FailStep(proc[p], Cur(p))} : Become(p, r)
  BY DEF Succeed, Fail
<1>2. /\ r \in Process
      /\ r.hold = proc[p].hold
      /\ r.micro # "saved" /\ r.buf = 0
      /\ Orderly(r)
  BY StepResult DEF Inv
<1>. QED
  BY <1>1, <1>2, QuietInv

\* The process image is gone, and a resource manager may have noticed.
LEMMA GoneInv ==
    ASSUME Inv, TypeOK', NEW p \in Procs, NEW status, NEW failed \in BOOLEAN,
           status \in ToolRc \cup {"killed"}, Become(p, Gone(status, failed)),
           Disconnect(p), UNCHANGED <<counter, file>>
    PROVE  Inv'
<1>. DEFINE r == Gone(status, failed)
<1>1. /\ r.phase = "idle" /\ r.micro = "ready" /\ r.buf = 0
      /\ \A x \in Slots : r.hold[x] = 0
  BY GoneType
<1>. HIDE DEF r
<1>2. proc'[p] = r /\ \A q \in Procs \ {p} : proc'[q] = proc[q]
  BY DEF Become, Inv, TypeOK, r
<1>3. ~InFlight(p)'
  BY <1>1, <1>2 DEF InFlight
<1>4. \A q \in Procs \ {p} : Slot(q)' = Slot(q) /\ InFlight(q)' = InFlight(q)
  BY <1>2, SlotOf
<1>5. \A q \in Procs : Orderly(proc[q])'
  <2>1. ASSUME NEW q \in Procs \ {p} PROVE Orderly(proc[q])'
    BY <1>2, <2>1, OrderlyKept DEF Inv
  <2>2. Orderly(proc[p])'
    BY <1>1, <1>2 DEF Orderly, InHand
  <2>. QED
    BY <2>1, <2>2
<1>6. Alone'
  BY <1>1, <1>2 DEF Alone, Inv
<1>7. ASSUME NEW s \in Sids
      PROVE  \/ sess'[s] = sess[s]
             \/ sess[s].st = "loaded" /\ sess[s].conn = {p} /\ sess'[s] = FreeSession
  BY DEF Disconnect
<1>8. RightView'
  <2>. SUFFICES ASSUME NEW q \in Procs, NEW y \in Slots, proc'[q].hold[y] # 0
                PROVE  IF InFlight(q)' /\ y = Slot(q)'
                       THEN Current(proc[q].hold[y], proc[q].buf)'
                       ELSE /\ sess'[proc'[q].hold[y]].st = "loaded"
                            /\ sess'[proc'[q].hold[y]].conn = {q}
    BY DEF RightView
  <2>. DEFINE t == proc[q].hold[y]
  <2>1. q # p /\ proc'[q] = proc[q] /\ t # 0
    BY <1>1, <1>2
  <2>2. t \in Sids
    BY <2>1, HeldSid DEF Inv
  <2>3. IF InFlight(q) /\ y = Slot(q)
        THEN Current(t, proc[q].buf)
        ELSE sess[t].st = "loaded" /\ sess[t].conn = {q}
    BY <2>1 DEF RightView, Inv
  <2>4. sess'[t] = sess[t]
    BY <1>7, <2>1, <2>2, <2>3 DEF Current
  <2>. QED
    BY <1>4, <2>1, <2>3, <2>4 DEF Current
<1>9. Bounded'
  <2>1. counter \in Nat
    BY DEF Inv, TypeOK
  <2>2. \A s \in Sids : sess'[s].cid <= counter
    BY <1>7, <2>1 DEF Bounded, Inv, FreeSession
  <2>. QED
    BY <1>1, <1>2, <2>1, <2>2 DEF Bounded, Inv
<1>10. Distinct'
  BY <1>7 DEF Distinct, Inv, FreeSession
<1>11. Private'
  BY <1>1, <1>2, <1>3, <1>4 DEF Private, Inv
<1>. QED
  BY <1>5, <1>6, <1>8, <1>9, <1>10, <1>11 DEF Inv

LEMMA MainInv ==
    ASSUME Inv, TypeOK', NEW p \in Procs
    PROVE  /\ Invoke(p) => Inv'
           /\ InvokeFails(p) => Inv'
           /\ CallOnstop(p) => Inv'
           /\ Exit(p) => Inv'
           /\ Kill(p) => Inv'
           /\ Work(p) => Inv'
           /\ SkipOptional(p) => Inv'
<1>. proc[p] \in Process /\ Orderly(proc[p])
  BY DEF Inv, TypeOK
<1>1. ASSUME Invoke(p) PROVE Inv'
  <2>1. PICK t \in Tools, c \in BOOLEAN : Become(p, Fresh(t, c))
    BY <1>1 DEF Invoke
  <2>. DEFINE r == Fresh(t, c)
  <2>2. r \in Process
    BY FreshType
  <2>3. \A x \in Slots : proc[p].hold[x] = 0
    BY <1>1 DEF Invoke, Running, Orderly
  <2>4. proc[p].hold = [x \in Slots |-> 0]
    BY <2>3 DEF Process
  <2>5. /\ r.hold = proc[p].hold
        /\ r.micro = "ready" /\ r.buf = 0 /\ r.phase # "idle"
    BY <2>4 DEF Fresh
  <2>. HIDE DEF r
  <2>6. Orderly(r)
    BY <2>5 DEF Orderly, InHand
  <2>7. ~InFlight(p)
    BY <1>1 DEF Invoke, Running, Orderly, InFlight
  <2>. QED
    BY <1>1, <2>1, <2>2, <2>5, <2>6, <2>7, QuietInv DEF Invoke, r
<1>2. ASSUME InvokeFails(p) PROVE Inv'
  <2>1. PICK code \in {"general_error", "tcti_error"} : Become(p, Gone(code, TRUE))
    BY <1>2 DEF InvokeFails
  <2>. DEFINE r == Gone(code, TRUE)
  <2>2. /\ r \in Process
        /\ r.phase = "idle" /\ r.micro = "ready" /\ r.buf = 0
        /\ \A x \in Slots : r.hold[x] = 0
    BY GoneType DEF ToolRc
  <2>. HIDE DEF r
  <2>3. \A x \in Slots : proc[p].hold[x] = 0
    BY <1>2 DEF InvokeFails, Running, Orderly
  <2>4. r.hold = proc[p].hold
    BY <2>2, <2>3 DEF Process
  <2>5. Orderly(r)
    BY <2>2 DEF Orderly, InHand
  <2>6. ~InFlight(p)
    BY <1>2 DEF InvokeFails, Running, Orderly, InFlight
  <2>. QED
    BY <1>2, <2>1, <2>2, <2>4, <2>5, <2>6, QuietInv DEF InvokeFails, r
<1>3. ASSUME CallOnstop(p) PROVE Inv'
  <2>. DEFINE r == [proc[p] EXCEPT !.phase = "onstop", !.pc = 1]
  <2>1. /\ r \in Process
        /\ r.hold = proc[p].hold /\ r.buf = proc[p].buf
        /\ r.micro = proc[p].micro /\ r.phase = "onstop"
    BY DEF Process
  <2>. HIDE DEF r
  <2>2. ~InHand(proc[p])
    BY <1>3 DEF CallOnstop, AtStep, Running, Orderly
  <2>3. Orderly(r) /\ r.micro # "saved" /\ ~InFlight(p)
    BY <2>1, <2>2 DEF Orderly, InHand, InFlight
  <2>. QED
    BY <1>3, <2>1, <2>3, QuietInv DEF CallOnstop, r
<1>4. ASSUME Exit(p) PROVE Inv'
  <2>1. ExitCode(proc[p]) \in ToolRc \cup {"killed"} /\ proc[p].failed \in BOOLEAN
    BY DEF Process, ExitCode
  <2>. QED
    BY <1>4, <2>1, GoneInv DEF Exit
<1>5. ASSUME Kill(p) PROVE Inv'
  <2>1. proc[p].failed \in BOOLEAN
    BY DEF Process
  <2>. QED
    BY <1>5, <2>1, GoneInv DEF Kill
<1>6. ASSUME Work(p) PROVE Inv'
  BY <1>6, QuietStep DEF Work, Ready, InFlight
<1>7. ASSUME SkipOptional(p) PROVE Inv'
  <2>. DEFINE r == NextStep(proc[p])
  <2>1. /\ r \in Process
        /\ r.hold = proc[p].hold /\ r.phase = proc[p].phase
        /\ r.micro = "ready" /\ r.buf = 0
    BY NextStepType
  <2>. HIDE DEF r
  <2>2. Orderly(r) /\ ~InFlight(p)
    BY <1>7, <2>1 DEF SkipOptional, Ready, AtStep, Running, Orderly, InHand, InFlight
  <2>. QED
    BY <1>7, <2>1, <2>2, QuietInv DEF SkipOptional, r
<1>. QED
  BY <1>1, <1>2, <1>3, <1>4, <1>5, <1>6, <1>7

\* A process that has put a session into the slot of the step it is at.
LEMMA InHandOrderly ==
    ASSUME TypeOK, NEW p \in Procs, AtStep(p), NEW s \in Sids, NEW r,
           r.hold = [proc[p].hold EXCEPT ![Slot(p)] = s],
           r.phase = proc[p].phase, r.pc = proc[p].pc, r.tool = proc[p].tool
    PROVE  Orderly(r)
<1>1. Slot(p) \in Slots /\ proc[p].hold \in [Slots -> 0..MaxSessions]
  BY CurType DEF TypeOK, Process
<1>2. s # 0
  BY SessionsAssumption DEF Sids
<1>3. Script(r) = Script(proc[p])
  BY DEF Script
<1>4. r.hold[Slot(p)] # 0
  BY <1>1, <1>2
<1>. QED
  BY <1>3, <1>4 DEF Orderly, AtStep, Running, Slot, Cur

\* tpm2_session_open: the session comes from StartAuthSession.
LEMMA StartedInv ==
    ASSUME Inv, TypeOK', NEW p \in Procs, NEW r \in Process, Become(p, r),
           NEW s \in Sids, NEW trial, Started(p, s, trial),
           NEW x \in Slots, r.hold = [proc[p].hold EXCEPT ![x] = s],
           ~InFlight(p), r.micro # "saved", r.buf \in {0, proc[p].buf}, Orderly(r),
           UNCHANGED <<counter, file>>
    PROVE  Inv'
<1>. DEFINE new == [st |-> "loaded", cid |-> 0, conn |-> {p}, trial |-> trial]
<1>1. new.st = "loaded" /\ new.conn = {p} /\ new.cid <= counter
  BY DEF Inv, TypeOK
<1>2. sess' = [sess EXCEPT ![s] = new]
  BY DEF Started, StartAuthSession
<1>3. \A q \in Procs, y \in Slots : proc[q].hold[y] # s
  BY FreeUnheld DEF Started
<1>. HIDE DEF new
<1>. QED
  BY <1>1, <1>2, <1>3, AcquireInv

\* ... and the step is over.
LEMMA StartsInv ==
    ASSUME Inv, TypeOK', NEW p \in Procs, AtStep(p), ~InFlight(p),
           NEW s \in Sids, NEW trial, Started(p, s, trial),
           NEW f \in Files \cup {NoFile},
           Become(p, Advance(Holding(proc[p], Slot(p), s, f, FALSE), Cur(p))),
           UNCHANGED <<counter, file>>
    PROVE  Inv'
<1>. DEFINE b == FALSE
            h == Holding(proc[p], Slot(p), s, f, b)
            r == Advance(h, Cur(p))
<1>1. TypeOK /\ Slot(p) \in Slots
  BY CurType DEF Inv
<1>2. s \in 0..MaxSessions /\ b \in BOOLEAN
  BY SessionsAssumption DEF Sids
<1>. HIDE DEF b, h
<1>3. /\ r \in Process
      /\ r.hold = [proc[p].hold EXCEPT ![Slot(p)] = s]
      /\ r.micro = "ready" /\ r.buf = 0
      /\ Orderly(r)
  BY <1>1, <1>2, HoldingResult DEF h
<1>. HIDE DEF r
<1>4. Become(p, r)
  BY DEF r, h, b
<1>. QED
  BY <1>1, <1>3, <1>4, StartedInv

LEMMA AcquireStepInv ==
    ASSUME Inv, TypeOK', NEW p \in Procs, Acquire(p)
    PROVE  Inv'
<1>. TypeOK /\ proc[p] \in Process /\ Orderly(proc[p])
  BY DEF Inv, TypeOK
<1>. Sids \subseteq 0..MaxSessions
  BY SessionsAssumption DEF Sids
<1>1. CASE AuthPassword(p)
  <2>1. AtStep(p) /\ ~InFlight(p)
    BY <1>1 DEF AuthPassword, Ready, InFlight
  <2>2. PICK s \in Sids :
          /\ Started(p, s, FALSE)
          /\ Become(p, Advance(Holding(proc[p], Slot(p), s, NoFile, FALSE), Cur(p)))
    BY <1>1 DEF AuthPassword
  <2>. QED
    BY <1>1, <2>1, <2>2, StartsInv DEF AuthPassword
<1>2. CASE AuthPcr(p)
  <2>1. AtStep(p) /\ ~InFlight(p)
    BY <1>2 DEF AuthPcr, Ready, InFlight
  <2>2. PICK s \in Sids :
          /\ Started(p, s, FALSE)
          /\ Become(p, [Holding(proc[p], Slot(p), s, NoFile, FALSE) EXCEPT
                            !.micro = "pcr"])
    BY <1>2 DEF AuthPcr
  <2>. DEFINE b == FALSE
              h == Holding(proc[p], Slot(p), s, NoFile, b)
              r == [h EXCEPT !.micro = "pcr"]
  <2>3. Slot(p) \in Slots /\ b \in BOOLEAN /\ NoFile \in Files \cup {NoFile}
    BY <2>1, CurType
  <2>. HIDE DEF b
  <2>4. /\ h \in Process
        /\ h.hold = [proc[p].hold EXCEPT ![Slot(p)] = s]
        /\ h.phase = proc[p].phase /\ h.pc = proc[p].pc
        /\ h.tool = proc[p].tool /\ h.buf = proc[p].buf
    BY <2>3, HoldingType
  <2>. HIDE DEF h
  <2>5. /\ r \in Process
        /\ r.hold = [proc[p].hold EXCEPT ![Slot(p)] = s]
        /\ r.phase = proc[p].phase /\ r.pc = proc[p].pc
        /\ r.tool = proc[p].tool /\ r.buf = proc[p].buf
        /\ r.micro = "pcr"
    BY <2>4 DEF Process
  <2>. HIDE DEF r
  <2>6. Orderly(r)
    BY <2>1, <2>5, InHandOrderly
  <2>7. Become(p, r)
    BY <2>2 DEF r, h, b
  <2>. QED
    BY <1>2, <2>1, <2>2, <2>3, <2>5, <2>6, <2>7, StartedInv DEF AuthPcr
<1>3. CASE PolicyBuildPcr(p)
  <2>1. AtStep(p) /\ ~InFlight(p)
    BY <1>3 DEF PolicyBuildPcr, InFlight
  <2>2. CASE Succeed(p)
    BY <1>3, <2>1, <2>2, QuietStep DEF PolicyBuildPcr
  <2>. DEFINE r == [proc[p] EXCEPT !.micro = "close"]
  <2>3. CASE Become(p, r)
    <3>1. /\ r \in Process
          /\ r.hold = proc[p].hold /\ r.buf = proc[p].buf
          /\ r.micro = "close" /\ r.phase = proc[p].phase
          /\ r.pc = proc[p].pc /\ r.tool = proc[p].tool
      BY DEF Process
    <3>. HIDE DEF r
    <3>2. Orderly(r)
      BY <1>3, <2>1, <3>1
         DEF Orderly, InHand, PolicyBuildPcr, AtStep, Running, Script
    <3>. QED
      BY <1>3, <2>1, <2>3, <3>1, <3>2, QuietInv DEF PolicyBuildPcr
  <2>. QED
    BY <1>3, <2>2, <2>3 DEF PolicyBuildPcr
<1>4. CASE OpenSession(p)
  <2>1. AtStep(p) /\ ~InFlight(p)
    BY <1>4 DEF OpenSession, Ready, InFlight
  <2>2. PICK s \in Sids, trial \in BOOLEAN, f \in Files \cup {NoFile} :
          /\ Started(p, s, trial)
          /\ Become(p, Advance(Holding(proc[p], Slot(p), s, f, FALSE), Cur(p)))
    BY <1>4 DEF OpenSession
  <2>. QED
    BY <1>4, <2>1, <2>2, StartsInv DEF OpenSession
<1>5. CASE AcquireFails(p)
  BY <1>5, QuietStep DEF AcquireFails, Ready, InFlight
<1>6. CASE ReadContext(p)
  <2>1. PICK f \in Files :
          Become(p, [proc[p] EXCEPT !.micro = "read", !.buf = file[f],
                                    !.opening = f])
    BY <1>6 DEF ReadContext
  <2>. DEFINE r == [proc[p] EXCEPT !.micro = "read", !.buf = file[f], !.opening = f]
  <2>2. /\ r \in Process
        /\ r.hold = proc[p].hold /\ r.buf = file[f]
        /\ r.micro = "read" /\ r.phase = proc[p].phase
    BY DEF Process, TypeOK
  <2>. HIDE DEF r
  <2>3. Orderly(r) /\ ~InFlight(p)
    BY <1>6, <2>2 DEF Orderly, InHand, ReadContext, Ready, AtStep, Running, InFlight
  <2>. QED
    BY <1>6, <2>1, <2>2, <2>3, QuietInv DEF ReadContext, r
<1>7. CASE LoadContext(p)
  <2>1. /\ AtStep(p) /\ ~InFlight(p)
        /\ proc[p].opening \in Files \cup {NoFile}
    BY <1>7 DEF LoadContext, InFlight, Process
  <2>. DEFINE isFinal == Cur(p).op = "restoreFinal"
              held(s) == Holding(proc[p], Slot(p), s, proc[p].opening, isFinal)
  <2>2. PICK s \in Sids :
          /\ Current(s, proc[p].buf)
          /\ ContextLoad(s, p)
          /\ Become(p, IF Cur(p).op = "auth" /\ sess[s].trial
                       THEN [held(s) EXCEPT !.micro = "close", !.buf = 0,
                                            !.opening = NoFile]
                       ELSE Advance(held(s), Cur(p)))
    BY <1>7 DEF LoadContext
  <2>. DEFINE h == held(s)
              u == [h EXCEPT !.micro = "close", !.buf = 0, !.opening = NoFile]
              new == [sess[s] EXCEPT !.st = "loaded", !.conn = {p}]
  <2>3. Slot(p) \in Slots /\ isFinal \in BOOLEAN
    BY <2>1, CurType
  <2>. HIDE DEF isFinal
  <2>4. /\ h \in Process
        /\ h.hold = [proc[p].hold EXCEPT ![Slot(p)] = s]
        /\ h.phase = proc[p].phase /\ h.pc = proc[p].pc
        /\ h.tool = proc[p].tool
    BY <2>1, <2>3, HoldingType
  <2>5. PICK r : /\ r \in {u, Advance(h, Cur(p))}
                 /\ Become(p, r)
    BY <2>2
  <2>6. /\ r \in Process
        /\ r.hold = [proc[p].hold EXCEPT ![Slot(p)] = s]
        /\ r.micro # "saved" /\ r.buf = 0
        /\ Orderly(r)
    <3>1. CASE r = u
      <4>. HIDE DEF h
      <4>1. /\ u \in Process
            /\ u.hold = h.hold /\ u.phase = h.phase
            /\ u.pc = h.pc /\ u.tool = h.tool
            /\ u.buf = 0 /\ u.micro = "close"
        BY <2>4 DEF Process
      <4>. HIDE DEF u
      <4>2. Orderly(u)
        BY <2>1, <2>4, <4>1, InHandOrderly
      <4>. QED
        BY <2>4, <3>1, <4>1, <4>2
    <3>2. CASE r = Advance(h, Cur(p))
      <4>. DEFINE f == proc[p].opening
      <4>1. h = Holding(proc[p], Slot(p), s, f, isFinal)
        OBVIOUS
      <4>. HIDE DEF h, f
      <4>2. f \in Files \cup {NoFile}
        BY <2>1 DEF f
      <4>. QED
        BY <2>1, <2>3, <3>2, <4>1, <4>2, HoldingResult
    <3>. HIDE DEF h, u
    <3>. QED
      BY <2>5, <3>1, <3>2
  <2>7. new.st = "loaded" /\ new.conn = {p} /\ new.cid <= counter
    BY DEF Inv, TypeOK, Bounded, Session
  <2>8. sess' = [sess EXCEPT ![s] = new]
    BY <2>2 DEF ContextLoad, TypeOK, Session
  <2>9. \A q \in Procs, y \in Slots : proc[q].hold[y] # s
    BY <2>1, <2>2, ReadUnheld
  <2>. HIDE DEF new, h, u, held
  <2>. QED
    BY <1>7, <2>1, <2>3, <2>5, <2>6, <2>7, <2>8, <2>9, AcquireInv DEF LoadContext
<1>8. CASE LoadContextFails(p)
  BY <1>8, QuietStep DEF LoadContextFails, InFlight
<1>. QED
  BY <1>1, <1>2, <1>3, <1>4, <1>5, <1>6, <1>7, <1>8 DEF Acquire

\* tpm2_session_close returns: the pointer the step works on is NULL again.
LEMMA CloseReturnsInv ==
    ASSUME Inv, TypeOK', NEW p \in Procs, AtStep(p), Held(p) # 0,
           NEW ok \in BOOLEAN, CloseReturns(p, ok),
           \A t \in Sids \ {Held(p)} : sess'[t] = sess[t],
           sess'[Held(p)] \in {sess[Held(p)], FreeSession},
           UNCHANGED counter,
           \A f \in Files : \/ file'[f] = file[f]
                            \/ InFlight(p) /\ file'[f] = proc[p].buf
    PROVE  Inv'
<1>. DEFINE z == 0
            b == FALSE
            h == Holding(proc[p], Slot(p), z, NoFile, b)
<1>1. TypeOK /\ Slot(p) \in Slots
  BY CurType DEF Inv
<1>2. /\ z \in 0..MaxSessions /\ b \in BOOLEAN /\ h = Released(p)
      /\ NoFile \in Files \cup {NoFile}
  BY SessionsAssumption DEF Released
<1>. HIDE DEF z, b
<1>3. PICK r \in {Advance(h, Cur(p)), FailStep(h, Cur(p))} : Become(p, r)
  BY <1>2 DEF CloseReturns
<1>4. /\ r \in Process
      /\ r.hold = [proc[p].hold EXCEPT ![Slot(p)] = z]
      /\ r.phase # "idle" /\ r.micro = "ready" /\ r.buf = 0
  <2>1. h = Holding(proc[p], Slot(p), z, NoFile, b)
    OBVIOUS
  <2>. HIDE DEF h
  <2>. QED
    BY <1>1, <1>2, <1>3, <2>1, HoldingResult
<1>5. Held(p) \in Sids
  BY <1>1, HeldSid DEF Held
<1>6. r.hold = [proc[p].hold EXCEPT ![Slot(p)] = 0]
  BY <1>4 DEF z
<1>. HIDE DEF h
<1>. QED
  BY <1>1, <1>3, <1>4, <1>5, <1>6, ReleaseInv DEF Held

LEMMA GivesUpInv ==
    ASSUME Inv, TypeOK', NEW p \in Procs, AtStep(p), Held(p) # 0,
           CloseGivesUp(p), UNCHANGED file
    PROVE  Inv'
BY CloseReturnsInv DEF CloseGivesUp

\* A step that has a session in hand really holds one.
LEMMA InHandHeld ==
    ASSUME Inv, NEW p \in Procs, AtStep(p), InHand(proc[p])
    PROVE  Held(p) # 0
BY DEF Inv, Orderly, Held, Slot, Cur

\* The session gets a context number that was never used before.
LEMMA SaveContextInv ==
    ASSUME Inv, TypeOK', NEW p \in Procs, SaveContext(p)
    PROVE  Inv'
<1>. DEFINE n == counter + 1
            s == Held(p)
            x == Slot(p)
            r == [proc[p] EXCEPT !.micro = "saved", !.buf = n]
<1>1. /\ AtStep(p) /\ proc[p].micro = "open" /\ TypeOK
      /\ proc[p] \in Process /\ counter \in Nat
  BY DEF SaveContext, Saving, Inv, TypeOK
<1>2. /\ s # 0 /\ s = proc[p].hold[x] /\ x \in Slots
  BY <1>1, InHandHeld, CurType DEF InHand, Held
<1>3. s \in Sids
  BY <1>1, <1>2, HeldSid
<1>4. /\ Become(p, r) /\ file' = file
      /\ counter' = n
      /\ sess' = [sess EXCEPT ![s].st = "saved", ![s].cid = n, ![s].conn = {}]
  BY DEF SaveContext, ContextSave
<1>5. n \in Nat /\ n > counter
  BY <1>1
<1>. HIDE DEF n
<1>6. /\ r.hold = proc[p].hold /\ r.buf = n /\ r.micro = "saved"
      /\ r.phase = proc[p].phase /\ r.pc = proc[p].pc /\ r.tool = proc[p].tool
  BY <1>1 DEF Process
<1>. HIDE DEF r
<1>7. /\ proc'[p] = r
      /\ \A q \in Procs \ {p} : proc'[q] = proc[q]
      /\ \A q \in Procs : proc'[q].hold = proc[q].hold
  BY <1>1, <1>4, <1>6 DEF Become, TypeOK
<1>8. /\ InFlight(p)' /\ ~InFlight(p)
      /\ Slot(p)' = x
  BY <1>1, <1>6, <1>7 DEF InFlight, Slot, Cur, Script
<1>. HIDE DEF s, x
<1>9. /\ \A t \in Sids \ {s} : sess'[t] = sess[t]
      /\ sess'[s].st = "saved" /\ sess'[s].cid = n
  BY <1>1, <1>3, <1>4 DEF TypeOK, Session
<1>10. \A q \in Procs \ {p} : Slot(q)' = Slot(q) /\ InFlight(q)' = InFlight(q)
  BY <1>7, SlotOf
<1>11. \A q \in Procs : Orderly(proc[q])'
  <2>1. ASSUME NEW q \in Procs \ {p} PROVE Orderly(proc[q])'
    BY <1>7, <2>1, OrderlyKept DEF Inv
  <2>2. Orderly(proc[p]) /\ InHand(proc[p]) /\ proc[p].phase # "idle"
    BY <1>1 DEF Inv, InHand, AtStep, Running
  <2>3. Orderly(r)
    BY <1>6, <2>2 DEF Orderly, InHand, Script
  <2>4. Orderly(proc[p])'
    BY <1>7, <2>3 DEF Orderly, InHand, Script
  <2>. QED
    BY <2>1, <2>4
<1>12. Alone'
  BY <1>7 DEF Alone, Inv
<1>13. RightView'
  <2>. SUFFICES ASSUME NEW q \in Procs, NEW y \in Slots, proc[q].hold[y] # 0
                PROVE  IF InFlight(q)' /\ y = Slot(q)'
                       THEN Current(proc[q].hold[y], proc[q].buf)'
                       ELSE /\ sess'[proc[q].hold[y]].st = "loaded"
                            /\ sess'[proc[q].hold[y]].conn = {q}
    BY <1>7 DEF RightView
  <2>. DEFINE t == proc[q].hold[y]
  <2>1. t \in Sids
    BY HeldSid DEF Inv
  <2>2. IF InFlight(q) /\ y = Slot(q)
        THEN Current(t, proc[q].buf)
        ELSE sess[t].st = "loaded" /\ sess[t].conn = {q}
    BY DEF RightView, Inv
  <2>3. CASE q = p /\ y = x
    <3>1. proc'[q].hold[y] = s /\ proc'[q].buf = n
      BY <1>2, <1>6, <1>7, <2>3
    <3>. QED
      BY <1>8, <1>9, <2>3, <3>1 DEF Current
  <2>4. CASE ~(q = p /\ y = x)
    <3>1. t # s
      BY <1>2, <2>4 DEF Alone, Inv
    <3>2. sess'[t] = sess[t] /\ proc'[q].hold[y] = t
      BY <1>7, <1>9, <2>1, <3>1
    <3>3. CASE q = p
      BY <1>8, <2>2, <2>4, <3>2, <3>3
    <3>4. CASE q # p
      BY <1>7, <1>10, <2>2, <3>2, <3>4 DEF Current
    <3>. QED
      BY <3>3, <3>4
  <2>. QED
    BY <2>3, <2>4
<1>14. Bounded'
  <2>1. \A t \in Sids : sess[t].cid \in Nat
    BY <1>1 DEF TypeOK, Session
  <2>2. \A t \in Sids : sess'[t].cid <= n
    BY <1>1, <1>5, <1>9, <2>1 DEF Bounded, Inv
  <2>3. \A f \in Files : file'[f] <= n
    BY <1>1, <1>4, <1>5 DEF Bounded, Inv, TypeOK
  <2>4. \A q \in Procs : proc[q].buf \in Nat
    BY <1>1 DEF TypeOK, Process
  <2>5. \A q \in Procs : proc'[q].buf <= n
    BY <1>1, <1>5, <1>6, <1>7, <2>4 DEF Bounded, Inv
  <2>. QED
    BY <1>4, <2>2, <2>3, <2>5 DEF Bounded
<1>15. Distinct'
  <2>1. \A t \in Sids : sess[t].cid \in Nat /\ sess[t].cid # n
    BY <1>1, <1>5 DEF TypeOK, Session, Bounded, Inv
  <2>. QED
    BY <1>9, <2>1 DEF Distinct, Inv
<1>16. Private'
  <2>1. \A q \in Procs : proc[q].buf # n
    <3>1. \A q \in Procs : proc[q].buf \in Nat /\ proc[q].buf <= counter
      BY <1>1 DEF TypeOK, Process, Bounded, Inv
    <3>. QED
      BY <1>1, <1>5, <3>1
  <2>2. \A f \in Files : file'[f] # n
    <3>1. \A f \in Files : file[f] \in Nat /\ file[f] <= counter
      BY <1>1 DEF TypeOK, Bounded, Inv
    <3>. QED
      BY <1>1, <1>4, <1>5, <3>1
  <2>3. n # 0
    BY <1>1, <1>5
  <2>. QED
    BY <1>4, <1>6, <1>7, <1>10, <2>1, <2>2, <2>3 DEF Private, Inv
<1>. QED
  BY <1>11, <1>12, <1>13, <1>14, <1>15, <1>16 DEF Inv

LEMMA ReleaseStepInv ==
    ASSUME Inv, TypeOK', NEW p \in Procs, Release(p)
    PROVE  Inv'
<1>. TypeOK /\ proc[p] \in Process /\ Orderly(proc[p])
  BY DEF Inv, TypeOK
<1>1. CASE CloseNothing(p)
  BY <1>1, QuietStep DEF CloseNothing, Ready, InFlight
<1>2. CASE OpenFile(p)
  <2>. DEFINE r == [proc[p] EXCEPT !.micro = "open"]
  <2>1. AtStep(p) /\ Held(p) # 0 /\ ~InFlight(p)
    BY <1>2 DEF OpenFile, Closing, InFlight
  <2>2. /\ r \in Process
        /\ r.hold = proc[p].hold /\ r.buf = proc[p].buf
        /\ r.micro = "open" /\ r.phase = proc[p].phase
        /\ r.pc = proc[p].pc /\ r.tool = proc[p].tool
    BY DEF Process
  <2>3. Become(p, r)
    BY <1>2 DEF OpenFile
  <2>. HIDE DEF r
  <2>4. Script(r) = Script(proc[p])
    BY <2>2 DEF Script
  <2>5. Orderly(r)
    BY <2>1, <2>2, <2>4
       DEF Orderly, AtStep, Running, Held, Slot, Cur
  <2>6. \A f \in Files : file'[f] \in {0, file[f]}
    BY <1>2 DEF OpenFile, TypeOK
  <2>. QED
    BY <1>2, <2>1, <2>2, <2>3, <2>5, <2>6, QuietInv DEF OpenFile
<1>3. CASE OpenFileFails(p)
  BY <1>3, GivesUpInv DEF OpenFileFails, Closing
<1>4. ASSUME Flushing(p) PROVE AtStep(p) /\ Held(p) # 0 /\ ~InFlight(p)
  BY <1>4, InHandHeld DEF Flushing, Closing, InHand, InFlight
<1>5. CASE Flush(p)
  <2>1. AtStep(p) /\ Held(p) # 0 /\ CloseReturns(p, TRUE)
    BY <1>4, <1>5 DEF Flush
  <2>2. /\ \A t \in Sids \ {Held(p)} : sess'[t] = sess[t]
        /\ sess'[Held(p)] = FreeSession
    <3>1. Held(p) \in Sids
      BY <2>1, HeldSid, CurType DEF Held
    <3>. QED
      BY <1>5, <3>1 DEF Flush, FlushContext, TypeOK
  <2>. DEFINE ok == TRUE
  <2>3. ok \in BOOLEAN /\ CloseReturns(p, ok)
    BY <2>1
  <2>. HIDE DEF ok
  <2>. QED
    BY <1>5, <2>1, <2>2, <2>3, CloseReturnsInv DEF Flush
<1>6. CASE FlushFails(p)
  BY <1>4, <1>6, GivesUpInv DEF FlushFails
<1>7. CASE SaveContext(p)
  BY <1>7, SaveContextInv
<1>8. CASE SaveContextFails(p)
  BY <1>8, InHandHeld, GivesUpInv DEF SaveContextFails, Saving, InHand
<1>9. ASSUME AtStep(p), proc[p].micro = "saved" PROVE Held(p) # 0 /\ InFlight(p)
  BY <1>9, InHandHeld DEF InHand, InFlight
<1>10. CASE WriteContext(p)
  <2>. DEFINE ok == TRUE
  <2>1. ok \in BOOLEAN /\ CloseReturns(p, ok)
    BY <1>10 DEF WriteContext
  <2>. HIDE DEF ok
  <2>2. \A f \in Files : file'[f] = file[f] \/ file'[f] = proc[p].buf
    BY <1>10 DEF WriteContext, TypeOK
  <2>. QED
    BY <1>9, <1>10, <2>1, <2>2, CloseReturnsInv DEF WriteContext
<1>11. CASE WriteContextFails(p)
  <2>1. PICK ok \in BOOLEAN : CloseReturns(p, ok)
    BY <1>11 DEF WriteContextFails
  <2>. QED
    BY <1>9, <1>11, <2>1, CloseReturnsInv DEF WriteContextFails
<1>. QED
  BY <1>1, <1>2, <1>3, <1>5, <1>6, <1>7, <1>8, <1>10, <1>11 DEF Release

LEMMA BulkFlushInv ==
    ASSUME NoBulkFlush, Inv, TypeOK', NEW p \in Procs, BulkFlush(p)
    PROVE  Inv'
<1>. TypeOK /\ proc[p] \in Process
  BY DEF Inv, TypeOK
<1>1. ~Ready(p, {"flushListed"})
  BY DEF NoBulkFlush, Ready, AtStep, Cur, Script, Process
<1>2. CASE ListHandles(p)
  <2>1. PICK L \in Listing(Cur(p).op) :
          Become(p, [Advance(proc[p], Cur(p)) EXCEPT !.listed = L])
    BY <1>2 DEF ListHandles
  <2>2. L \in SUBSET Sids
    BY <1>2, <2>1 DEF ListHandles, Ready, Listing
  <2>3. AtStep(p) /\ ~InFlight(p)
    BY <1>2 DEF ListHandles, Ready, InFlight
  <2>. DEFINE a == Advance(proc[p], Cur(p))
              r == [a EXCEPT !.listed = L]
  <2>4. /\ a \in Process /\ a.hold = proc[p].hold /\ a.phase # "idle"
        /\ a.micro = "ready" /\ a.buf = 0
    BY <2>3, StepResult
  <2>. HIDE DEF a
  <2>5. /\ r \in Process /\ r.hold = proc[p].hold /\ r.phase # "idle"
        /\ r.micro = "ready" /\ r.buf = 0
    BY <2>2, <2>4 DEF Process
  <2>6. Become(p, r)
    BY <2>1 DEF a
  <2>. HIDE DEF r
  <2>7. Orderly(r)
    BY <2>5 DEF Orderly, InHand
  <2>. QED
    BY <1>2, <2>3, <2>5, <2>6, <2>7, QuietInv DEF ListHandles
<1>3. CASE ListHandlesFails(p)
  BY <1>3, QuietStep DEF ListHandlesFails, Ready, InFlight
<1>. QED
  BY <1>1, <1>2, <1>3
     DEF BulkFlush, FlushListed, FlushListedFails, FlushListedDone

LEMMA NextInv ==
    ASSUME NoBulkFlush
    PROVE  Inv /\ [Next]_vars => Inv'
<1>. SUFFICES ASSUME Inv, [Next]_vars PROVE Inv'
  OBVIOUS
<1>1. TypeOK'
  BY NextType DEF Inv
<1>2. ASSUME UNCHANGED vars PROVE Inv'
  <2>1. \A p \in Procs : Slot(p)' = Slot(p) /\ InFlight(p)' = InFlight(p)
    BY <1>2, SlotOf DEF vars
  <2>2. \A p \in Procs : Orderly(proc[p])'
    BY <1>2, OrderlyKept DEF vars, Inv
  <2>3. RightView'
    BY <1>2, <2>1 DEF vars, Inv, RightView, Current
  <2>4. Alone' /\ Bounded' /\ Distinct'
    BY <1>2 DEF vars, Inv, Alone, Bounded, Distinct
  <2>5. Private'
    BY <1>2, <2>1 DEF vars, Inv, Private
  <2>. QED
    BY <1>1, <2>2, <2>3, <2>4, <2>5 DEF Inv
<1>3. CASE \E p \in Procs : Invoke(p) \/ InvokeFails(p) \/ Kill(p) \/ ToolStep(p)
  BY <1>1, <1>3, MainInv, AcquireStepInv, ReleaseStepInv, BulkFlushInv DEF ToolStep
<1>. QED
  BY <1>2, <1>3 DEF Next, Finished

(***************************************************************************)
(* Unless a tool flushes sessions by handle or by property, a session is   *)
(* held through one pointer of one process only, and the TPM's view of it  *)
(* agrees with the holder's, however processes that open, restore and      *)
(* close sessions interleave, fail and are killed (tpm2_session_open,      *)
(* tpm2_session_restore, tpm2_session_close).                              *)
(***************************************************************************)
THEOREM SessionsExclusive ==
    ASSUME NoBulkFlush
    PROVE  Spec => []ExclusiveSessions
<1>1. Init => Inv
  BY InitInv
<1>2. Inv /\ [Next]_vars => Inv'
  BY NextInv
<1>3. Inv => ExclusiveSessions
  BY HalvesSuffice DEF Inv
<1>. QED
  BY <1>1, <1>2, <1>3, PTL DEF Spec
=============================================================================
