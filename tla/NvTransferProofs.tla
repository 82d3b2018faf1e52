-------------------------- MODULE NvTransferProofs --------------------------
(***************************************************************************)
(* What holds of nvread and nvwrite for any number of processes and any    *)
(* sizes of index, buffer and transfer.                                    *)
(***************************************************************************)
EXTENDS NvTransfer, TLAPS

-----------------------------------------------------------------------------
(* What the actions do to the process that takes them, field by field.     *)

SameOptions(r, s) ==
    /\ r.tool = s.tool
    /\ r.askedSize = s.askedSize /\ r.askedOffset = s.askedOffset
    /\ r.cpHash = s.cpHash /\ r.policy = s.policy

SameHistory(r, s) == r.alone = s.alone /\ r.fault = s.fault /\ r.wrote = s.wrote

SamePosition(r, s) ==
    /\ r.size = s.size /\ r.offset = s.offset
    /\ r.doneOffset = s.doneOffset /\ r.spent = s.spent

Others(p) == \A q \in Procs \ {p} : proc'[q] = proc[q]

\* A tool that returns stays where it was.
LEMMA ReturnEffect ==
    ASSUME proc \in [Procs -> Process], NEW p \in Procs,
           NEW rc \in {"success", "general_error", "option_error", "tpm_error"},
           Return(p, rc)
    PROVE  /\ proc' \in [Procs -> Process]
           /\ Others(p)
           /\ proc'[p].pc = "idle" /\ proc'[p].rc = rc
           /\ SameOptions(proc'[p], proc[p])
           /\ SameHistory(proc'[p], proc[p])
           /\ SamePosition(proc'[p], proc[p])
<1>. DEFINE r == proc[p]
            s == [r EXCEPT !.pc = "idle", !.rc = rc]
<1>1. r \in Process
  OBVIOUS
<1>2. proc' = [proc EXCEPT ![p] = s]
  BY DEF Return
<1>. HIDE DEF r
<1>3. /\ s \in Process
      /\ s.pc = "idle" /\ s.rc = rc
      /\ SameOptions(s, r) /\ SamePosition(s, r) /\ SameHistory(s, r)
  BY <1>1 DEF Process, SameOptions, SamePosition, SameHistory
<1>. HIDE DEF s
<1>. QED
  BY <1>2, <1>3 DEF Others, r

LEMMA FailEffect ==
    ASSUME proc \in [Procs -> Process], NEW p \in Procs, Fail(p)
    PROVE  /\ proc' \in [Procs -> Process]
           /\ Others(p)
           /\ proc'[p].pc = "idle" /\ proc'[p].rc = "tpm_error" /\ proc'[p].fault
           /\ SameOptions(proc'[p], proc[p])
           /\ proc'[p].alone = proc[p].alone /\ proc'[p].wrote = proc[p].wrote
           /\ SamePosition(proc'[p], proc[p])
           /\ UNCHANGED <<index, data, buffer, runs>>
<1>. DEFINE r == proc[p]
            b == TRUE
            s == [r EXCEPT !.pc = "idle", !.rc = "tpm_error", !.fault = b]
<1>1. r \in Process /\ b \in BOOLEAN
  OBVIOUS
<1>2. proc' = [proc EXCEPT ![p] = s]
  BY DEF Fail
<1>3. b
  OBVIOUS
<1>. HIDE DEF r, b
<1>4. /\ s \in Process
      /\ s.pc = "idle" /\ s.rc = "tpm_error" /\ s.fault = b
      /\ SameOptions(s, r) /\ SamePosition(s, r)
      /\ s.alone = r.alone /\ s.wrote = r.wrote
  BY <1>1 DEF Process, SameOptions, SamePosition
<1>. HIDE DEF s
<1>. QED
  BY <1>2, <1>3, <1>4 DEF Others, r, Fail, nv

\* A tool that goes on to its next phase stays where it was.
LEMMA PhaseEffect ==
    ASSUME proc \in [Procs -> Process], NEW p \in Procs,
           NEW pc \in {"idle", "public", "auth", "max", "transfer"},
           proc' = [proc EXCEPT ![p].pc = pc]
    PROVE  /\ proc' \in [Procs -> Process]
           /\ Others(p)
           /\ proc'[p].pc = pc /\ proc'[p].rc = proc[p].rc
           /\ SameOptions(proc'[p], proc[p])
           /\ SameHistory(proc'[p], proc[p])
           /\ SamePosition(proc'[p], proc[p])
BY DEF Process, SameOptions, SameHistory, SamePosition, Others

LEMMA ClampedType ==
    ASSUME NEW value \in Nat
    PROVE  Clamped(value) \in 1..MaxNvBuffer
BY BufferAssumption DEF Clamped

LEMMA MaxBufferSizeEffect ==
    ASSUME proc \in [Procs -> Process], NEW p \in Procs, MaxBufferSize(p)
    PROVE  /\ proc' \in [Procs -> Process]
           /\ Others(p)
           /\ proc[p].pc = "max"
           /\ proc'[p].pc = "transfer" /\ proc'[p].rc = proc[p].rc
           /\ SameOptions(proc'[p], proc[p])
           /\ SameHistory(proc'[p], proc[p])
           /\ SamePosition(proc'[p], proc[p])
           /\ UNCHANGED <<index, data, buffer, runs>>
<1>1. PICK value \in BufferMax \cup {DefaultBuffer} :
          proc' = [proc EXCEPT ![p].maxData = Clamped(value), ![p].pc = "transfer"]
  BY DEF MaxBufferSize
<1>. DEFINE n == Clamped(value)
<1>2. n \in 0..MaxNvBuffer
  BY ClampedType, BufferAssumption
<1>3. proc' = [proc EXCEPT ![p].maxData = n, ![p].pc = "transfer"]
  BY <1>1
<1>. HIDE DEF n
<1>. QED
  BY <1>2, <1>3 DEF MaxBufferSize, Process, SameOptions, SameHistory, SamePosition, Others, nv

\* The others see that the index has changed, and nothing else.
Disturbs(p) ==
    \A q \in Procs \ {p} :
        /\ proc'[q].pc = proc[q].pc /\ proc'[q].rc = proc[q].rc
        /\ SameOptions(proc'[q], proc[q]) /\ SamePosition(proc'[q], proc[q])
        /\ ~proc'[q].alone
        /\ proc'[q].fault = proc[q].fault /\ proc'[q].wrote = proc[q].wrote

LEMMA DisturbedImage ==
    ASSUME proc \in [Procs -> Process], NEW p \in Procs, NEW s \in Process,
           proc' = [Disturbed(p) EXCEPT ![p] = s]
    PROVE  /\ proc' \in [Procs -> Process]
           /\ proc'[p] = s
           /\ Disturbs(p)
<1>1. ASSUME NEW q \in Procs \ {p}
      PROVE  /\ proc'[q] \in Process
             /\ proc'[q].pc = proc[q].pc /\ proc'[q].rc = proc[q].rc
             /\ SameOptions(proc'[q], proc[q]) /\ SamePosition(proc'[q], proc[q])
             /\ ~proc'[q].alone
             /\ proc'[q].fault = proc[q].fault /\ proc'[q].wrote = proc[q].wrote
  <2>. DEFINE r == proc[q]
              b == FALSE
              t == [r EXCEPT !.alone = b]
  <2>1. r \in Process /\ b \in BOOLEAN
    OBVIOUS
  <2>2. proc'[q] = t
    BY DEF Disturbed
  <2>3. ~b
    OBVIOUS
  <2>. HIDE DEF r, b
  <2>4. /\ t \in Process
        /\ t.pc = r.pc /\ t.rc = r.rc
        /\ SameOptions(t, r) /\ SamePosition(t, r)
        /\ t.alone = b /\ t.fault = r.fault /\ t.wrote = r.wrote
    BY <2>1 DEF Process, SameOptions, SamePosition
  <2>. QED
    BY <2>2, <2>3, <2>4 DEF r
<1>2. proc'[p] = s /\ proc' = [q \in Procs |-> proc'[q]]
  BY DEF Disturbed
<1>. QED
  BY <1>1, <1>2 DEF Disturbs

-----------------------------------------------------------------------------
(* Types.  An nvread has buffered what it has read, and no more than its   *)
(* offset has moved; an nvwrite never counts beyond the size it began with. *)

ReadSizes(p) ==
    proc[p].tool = "nvread" =>
        /\ buffer[p] \in Bytes(proc[p].doneOffset)
        /\ proc[p].doneOffset <= proc[p].offset
        /\ proc[p].pc \in {"auth", "public"} => proc[p].doneOffset = 0

WriteSizes(p) ==
    proc[p].tool = "nvwrite" => proc[p].doneOffset + proc[p].size <= Word - 1

TypeInv == TypeOK /\ \A p \in Procs : ReadSizes(p) /\ WriteSizes(p)

\* The numbers of a chunk that moves an nvread on.
LEMMA ReadOnEffect ==
    ASSUME TypeInv, NEW p \in Procs, proc[p].tool = "nvread",
           NEW n \in Nat, n <= proc[p].size, proc[p].offset + n <= Word - 1,
           ReadOn(p, n)
    PROVE  /\ proc' \in [Procs -> Process]
           /\ Others(p)
           /\ proc'[p].pc = proc[p].pc /\ proc'[p].rc = proc[p].rc
           /\ SameOptions(proc'[p], proc[p]) /\ SameHistory(proc'[p], proc[p])
           /\ proc'[p].size = proc[p].size - n
           /\ proc'[p].offset = proc[p].offset + n
           /\ proc'[p].doneOffset = proc[p].doneOffset + n
           /\ proc'[p].spent = proc[p].policy
<1>. DEFINE r == proc[p]
            size == r.size - n
            offset == r.offset + n
            done == r.doneOffset + n
            spent == r.policy
            u == [r EXCEPT !.size = size, !.offset = offset]
            s == [u EXCEPT !.doneOffset = done, !.spent = spent]
<1>1. r \in Process
  BY DEF TypeInv, TypeOK
<1>2. /\ r.size \in 0..(Word - 1) /\ r.offset \in 0..(Word - 1)
      /\ r.doneOffset \in 0..(Word - 1) /\ r.doneOffset <= r.offset
      /\ spent \in BOOLEAN
  BY <1>1 DEF TypeInv, ReadSizes, Process
<1>3. /\ size \in 0..(Word - 1) /\ offset \in 0..(Word - 1)
      /\ done \in 0..(Word - 1)
  BY <1>2, IndexAssumption
<1>4. proc' = [proc EXCEPT ![p].size = size, ![p].offset = offset,
                           ![p].doneOffset = done, ![p].spent = spent]
  BY DEF ReadOn
<1>. HIDE DEF size, offset, done, spent
<1>5. proc' = [proc EXCEPT ![p] = s]
  BY <1>4
<1>. HIDE DEF r
<1>6. /\ u \in Process
      /\ u.pc = r.pc /\ u.rc = r.rc
      /\ SameOptions(u, r) /\ SameHistory(u, r)
      /\ u.size = size /\ u.offset = offset
  BY <1>1, <1>2, <1>3 DEF Process, SameOptions, SameHistory
<1>. HIDE DEF u
<1>7. /\ s \in Process
      /\ s.pc = u.pc /\ s.rc = u.rc
      /\ SameOptions(s, u) /\ SameHistory(s, u)
      /\ s.size = u.size /\ s.offset = u.offset
      /\ s.doneOffset = done /\ s.spent = spent
  BY <1>6, <1>2, <1>3 DEF Process, SameOptions, SameHistory
<1>. HIDE DEF s
<1>8. proc' \in [Procs -> Process] /\ Others(p) /\ proc'[p] = s
  BY <1>5, <1>7 DEF Others, TypeInv, TypeOK
<1>. QED
  BY <1>6, <1>7, <1>8 DEF r, size, offset, done, spent, SameOptions, SameHistory

\* The numbers of a chunk that moves an nvwrite on.
LEMMA WriteOnEffect ==
    ASSUME TypeInv, NEW p \in Procs, proc[p].tool = "nvwrite",
           NEW n \in Nat, n <= proc[p].size,
           proc' = [Disturbed(p) EXCEPT
                        ![p].size = @ - n, ![p].doneOffset = @ + n,
                        ![p].spent = proc[p].policy, ![p].wrote = TRUE]
    PROVE  /\ proc' \in [Procs -> Process]
           /\ Disturbs(p)
           /\ proc'[p].pc = proc[p].pc /\ proc'[p].rc = proc[p].rc
           /\ SameOptions(proc'[p], proc[p])
           /\ proc'[p].alone = proc[p].alone /\ proc'[p].fault = proc[p].fault
           /\ proc'[p].wrote
           /\ proc'[p].size = proc[p].size - n
           /\ proc'[p].offset = proc[p].offset
           /\ proc'[p].doneOffset = proc[p].doneOffset + n
           /\ proc'[p].spent = proc[p].policy
<1>. DEFINE r == proc[p]
            size == r.size - n
            done == r.doneOffset + n
            spent == r.policy
            wrote == TRUE
            u == [r EXCEPT !.size = size, !.doneOffset = done]
            s == [u EXCEPT !.spent = spent, !.wrote = wrote]
<1>1. r \in Process
  BY DEF TypeInv, TypeOK
<1>2. /\ r.size \in 0..(Word - 1) /\ r.doneOffset \in 0..(Word - 1)
      /\ r.doneOffset + r.size <= Word - 1
      /\ spent \in BOOLEAN /\ wrote \in BOOLEAN
  BY <1>1 DEF TypeInv, WriteSizes, Process
<1>3. size \in 0..(Word - 1) /\ done \in 0..(Word - 1)
  BY <1>2, IndexAssumption
<1>4. proc' = [Disturbed(p) EXCEPT ![p].size = size, ![p].doneOffset = done,
                                   ![p].spent = spent, ![p].wrote = wrote]
  BY DEF Disturbed
<1>5. wrote
  OBVIOUS
<1>. HIDE DEF size, done, spent, wrote
<1>6. proc' = [Disturbed(p) EXCEPT ![p] = s]
  BY <1>4 DEF Disturbed
<1>. HIDE DEF r
<1>7. /\ u \in Process
      /\ u.pc = r.pc /\ u.rc = r.rc
      /\ SameOptions(u, r) /\ SameHistory(u, r)
      /\ u.size = size /\ u.offset = r.offset /\ u.doneOffset = done
  BY <1>1, <1>2, <1>3 DEF Process, SameOptions, SameHistory
<1>. HIDE DEF u
<1>8. /\ s \in Process
      /\ s.pc = u.pc /\ s.rc = u.rc
      /\ SameOptions(s, u) /\ s.alone = u.alone /\ s.fault = u.fault
      /\ s.size = u.size /\ s.offset = u.offset /\ s.doneOffset = u.doneOffset
      /\ s.spent = spent /\ s.wrote = wrote
  BY <1>7, <1>2, <1>3 DEF Process, SameOptions
<1>. HIDE DEF s
<1>9. proc' \in [Procs -> Process] /\ Disturbs(p) /\ proc'[p] = s
  BY <1>6, <1>8, DisturbedImage DEF TypeInv, TypeOK
<1>10. proc'[p].wrote /\ proc'[p].spent = r.policy
  BY <1>5, <1>8, <1>9 DEF spent
<1>11. /\ proc'[p].pc = r.pc /\ proc'[p].rc = r.rc
       /\ SameOptions(proc'[p], r)
       /\ proc'[p].alone = r.alone /\ proc'[p].fault = r.fault
  BY <1>7, <1>8, <1>9 DEF SameOptions, SameHistory
<1>12. /\ proc'[p].size = r.size - n
       /\ proc'[p].offset = r.offset
       /\ proc'[p].doneOffset = r.doneOffset + n
  BY <1>7, <1>8, <1>9 DEF size, done
<1>. QED
  BY <1>9, <1>10, <1>11, <1>12 DEF r

\* A tool that starts has read or written nothing.
LEMMA InvokeEffect ==
    ASSUME proc \in [Procs -> Process], NEW p \in Procs, NEW image \in Process,
           NEW loaded, Invoke(p, image, loaded)
    PROVE  /\ proc' \in [Procs -> Process]
           /\ Others(p)
           /\ proc'[p].tool = image.tool
           /\ proc'[p].pc = image.pc /\ proc'[p].rc = image.rc
           /\ proc'[p].askedSize = image.askedSize
           /\ proc'[p].askedOffset = image.askedOffset
           /\ SameHistory(proc'[p], image) /\ SamePosition(proc'[p], image)
           /\ buffer' = [buffer EXCEPT ![p] = loaded]
           /\ UNCHANGED <<index, data>> /\ runs < MaxRuns /\ runs' = runs + 1
<1>1. PICK cp \in BOOLEAN, policy \in BOOLEAN :
          proc' = [proc EXCEPT ![p] = [image EXCEPT !.cpHash = cp, !.policy = policy]]
  BY DEF Invoke
<1>. DEFINE s == [image EXCEPT !.cpHash = cp, !.policy = policy]
<1>2. /\ s \in Process
      /\ s.tool = image.tool /\ s.pc = image.pc /\ s.rc = image.rc
      /\ s.askedSize = image.askedSize /\ s.askedOffset = image.askedOffset
      /\ SameHistory(s, image) /\ SamePosition(s, image)
  BY DEF Process, SameHistory, SamePosition
<1>3. proc' = [proc EXCEPT ![p] = s]
  BY <1>1
<1>. HIDE DEF s
<1>4. proc' \in [Procs -> Process] /\ Others(p) /\ proc'[p] = s
  BY <1>2, <1>3 DEF Others
<1>. QED
  BY <1>2, <1>4 DEF Invoke, nv

LEMMA IdleType == Idle \in Process
BY IndexAssumption, BufferAssumption DEF Idle, Process

LEMMA Uint16Type ==
    ASSUME NEW n \in Nat
    PROVE  /\ Uint16(n) \in 0..(Word - 1)
           /\ n \in 0..(Word - 1) => Uint16(n) = n
BY IndexAssumption, BufferAssumption DEF Uint16

\* The state in which an nvread and an nvwrite start.
Fresh(r) ==
    /\ r.rc = "success" /\ r.doneOffset = 0
    /\ ~r.spent /\ r.alone /\ ~r.fault /\ ~r.wrote

LEMMA NvReadEffect ==
    ASSUME proc \in [Procs -> Process], NEW p \in Procs, NvRead(p)
    PROVE  /\ proc' \in [Procs -> Process]
           /\ Others(p)
           /\ proc'[p].tool = "nvread" /\ proc'[p].pc = "auth"
           /\ proc'[p].askedSize \in Sizes /\ proc'[p].askedOffset \in Offsets
           /\ Fresh(proc'[p]) /\ proc'[p].offset = 0
           /\ buffer' = [buffer EXCEPT ![p] = Blank(0)]
           /\ UNCHANGED <<index, data>> /\ runs < MaxRuns /\ runs' = runs + 1
<1>1. PICK size \in Sizes, offset \in Offsets :
          Invoke(p, [Idle EXCEPT !.tool = "nvread", !.pc = "auth",
                                 !.askedSize = size, !.askedOffset = offset],
                 Blank(0))
  BY DEF NvRead
<1>. DEFINE u == [Idle EXCEPT !.tool = "nvread", !.pc = "auth"]
            s == [u EXCEPT !.askedSize = size, !.askedOffset = offset]
<1>2. /\ u \in Process
      /\ u.tool = "nvread" /\ u.pc = "auth" /\ Fresh(u) /\ u.offset = 0
  BY IdleType DEF Idle, Process, Fresh
<1>3. Invoke(p, s, Blank(0))
  BY <1>1
<1>. HIDE DEF u
<1>4. /\ s \in Process
      /\ s.tool = "nvread" /\ s.pc = "auth" /\ Fresh(s) /\ s.offset = 0
      /\ s.askedSize = size /\ s.askedOffset = offset
  BY <1>2, InputAssumption DEF Process, Fresh
<1>. HIDE DEF s
<1>. QED
  BY <1>3, <1>4, InvokeEffect DEF SameHistory, SamePosition, Fresh

LEMMA NvWriteEffect ==
    ASSUME proc \in [Procs -> Process], NEW p \in Procs, NvWrite(p)
    PROVE  \E given \in InputGiven :
           /\ proc' \in [Procs -> Process]
           /\ Others(p)
           /\ proc'[p].tool = "nvwrite" /\ proc'[p].pc = "public"
           /\ proc'[p].askedSize \in Lengths /\ proc'[p].askedOffset \in WriteOffsets
           /\ proc'[p].offset = proc'[p].askedOffset
           /\ proc'[p].size = InputSize(given, proc'[p].askedSize)
           /\ Fresh(proc'[p])
           /\ buffer' = [buffer EXCEPT
                           ![p] = Input(p, given, proc'[p].askedSize, proc'[p].offset)]
           /\ UNCHANGED <<index, data>> /\ runs < MaxRuns /\ runs' = runs + 1
<1>1. PICK given \in InputGiven, length \in Lengths, offset \in WriteOffsets :
          Invoke(p, [Idle EXCEPT !.tool = "nvwrite", !.pc = "public",
                                 !.askedSize = length, !.askedOffset = offset,
                                 !.size = InputSize(given, length), !.offset = offset],
                 Input(p, given, length, offset))
  BY DEF NvWrite
<1>. DEFINE size == InputSize(given, length)
            loaded == Input(p, given, length, offset)
            u == [Idle EXCEPT !.tool = "nvwrite", !.pc = "public"]
            v == [u EXCEPT !.askedSize = length, !.askedOffset = offset]
            s == [v EXCEPT !.size = size, !.offset = offset]
<1>2. /\ size \in 0..(Word - 1) /\ length \in Nat
      /\ offset \in 0..(Word - 1) /\ offset \in Nat
  BY Uint16Type, InputAssumption, BufferAssumption, IndexAssumption DEF InputSize
<1>3. u \in Process /\ u.tool = "nvwrite" /\ u.pc = "public" /\ Fresh(u)
  BY IdleType DEF Idle, Process, Fresh
<1>4. Invoke(p, s, loaded)
  BY <1>1
<1>. HIDE DEF u, size, loaded
<1>5. /\ v \in Process /\ v.tool = "nvwrite" /\ v.pc = "public" /\ Fresh(v)
      /\ v.askedSize = length /\ v.askedOffset = offset
  BY <1>2, <1>3 DEF Process, Fresh
<1>. HIDE DEF v
<1>6. /\ s \in Process /\ s.tool = "nvwrite" /\ s.pc = "public" /\ Fresh(s)
      /\ s.askedSize = length /\ s.askedOffset = offset
      /\ s.size = size /\ s.offset = offset
  BY <1>2, <1>5 DEF Process, Fresh
<1>. HIDE DEF s
<1>7. /\ proc' \in [Procs -> Process]
      /\ Others(p)
      /\ proc'[p].tool = "nvwrite" /\ proc'[p].pc = "public"
      /\ proc'[p].askedSize = length /\ proc'[p].askedOffset = offset
      /\ proc'[p].size = size /\ proc'[p].offset = offset
      /\ Fresh(proc'[p])
      /\ buffer' = [buffer EXCEPT ![p] = loaded]
      /\ UNCHANGED <<index, data>> /\ runs < MaxRuns /\ runs' = runs + 1
  BY <1>4, <1>6, InvokeEffect DEF SameHistory, SamePosition, Fresh
<1>. QED
  BY <1>7 DEF size, loaded

\* The read that nvread goes on with fits the index it has looked at.
LEMMA ReadPublicEffect ==
    ASSUME TypeInv, NEW p \in Procs, ReadPublic(p)
    PROVE  /\ proc[p].tool = "nvread" /\ proc[p].pc = "public"
           /\ UNCHANGED <<index, data, buffer, runs>>
           /\ \/ Return(p, "tpm_error") \/ Return(p, "general_error")
              \/ /\ proc' \in [Procs -> Process]
                 /\ Others(p)
                 /\ proc'[p].pc = AfterPublic(p) /\ proc'[p].rc = proc[p].rc
                 /\ SameOptions(proc'[p], proc[p]) /\ SameHistory(proc'[p], proc[p])
                 /\ proc'[p].size = ReadSize(p)
                 /\ proc'[p].offset = Uint16(proc[p].askedOffset)
                 /\ proc'[p].doneOffset = proc[p].doneOffset
                 /\ proc'[p].spent = proc[p].spent
                 /\ proc'[p].offset + proc'[p].size <= index.size
<1>. DEFINE r == proc[p]
            size == ReadSize(p)
            offset == Uint16(proc[p].askedOffset)
            pc == AfterPublic(p)
            u == [r EXCEPT !.size = size, !.offset = offset]
            s == [u EXCEPT !.pc = pc]
<1>1. CASE Return(p, "tpm_error") \/ Return(p, "general_error")
  BY <1>1 DEF ReadPublic, Running, nv
<1>2. CASE /\ ReadFits(size, offset)
           /\ proc' = [proc EXCEPT ![p].size = size, ![p].offset = offset, ![p].pc = pc]
  <2>1. r \in Process /\ index.size \in 0..(Word - 1)
    BY DEF TypeInv, TypeOK, Index
  <2>2. r.askedSize \in Nat /\ r.askedOffset \in Nat
    BY <2>1 DEF Process
  <2>3. /\ size \in 0..(Word - 1) /\ offset \in 0..(Word - 1)
        /\ pc \in {"idle", "max"}
    BY <2>1, <2>2, Uint16Type DEF ReadSize, AfterPublic
  <2>4. offset + size <= index.size
    BY <1>2 DEF ReadFits
  <2>. HIDE DEF size, offset, pc
  <2>5. proc' = [proc EXCEPT ![p] = s]
    BY <1>2
  <2>. HIDE DEF r
  <2>6. /\ u \in Process
        /\ u.rc = r.rc /\ SameOptions(u, r) /\ SameHistory(u, r)
        /\ u.size = size /\ u.offset = offset
        /\ u.doneOffset = r.doneOffset /\ u.spent = r.spent
    BY <2>1, <2>3 DEF Process, SameOptions, SameHistory
  <2>. HIDE DEF u
  <2>7. /\ s \in Process /\ s.pc = pc
        /\ s.rc = u.rc /\ SameOptions(s, u) /\ SameHistory(s, u)
        /\ SamePosition(s, u)
    BY <2>3, <2>6 DEF Process, SameOptions, SameHistory, SamePosition
  <2>. HIDE DEF s
  <2>8. proc' \in [Procs -> Process] /\ Others(p) /\ proc'[p] = s
    BY <2>5, <2>7 DEF Others, TypeInv, TypeOK
  <2>. QED
    BY <2>4, <2>6, <2>7, <2>8
       DEF r, size, offset, pc, SameOptions, SameHistory, SamePosition,
           ReadPublic, Running, nv
<1>. QED
  BY <1>1, <1>2 DEF ReadPublic

LEMMA OtherToolEffect ==
    ASSUME TypeInv, NEW p \in Procs, OtherTool(p)
    PROVE  /\ proc' \in [Procs -> Process]
           /\ Disturbs(p)
           /\ proc'[p].tool = "none"
           /\ buffer' = [buffer EXCEPT ![p] = Blank(0)]
           /\ runs < MaxRuns /\ runs' = runs + 1
           /\ NvDefine \/ NvUndefine \/ NvWriteLock
<1>1. proc' = [Disturbed(p) EXCEPT ![p] = Idle]
  BY DEF OtherTool
<1>2. Idle \in Process /\ Idle.tool = "none"
  BY IdleType DEF Idle
<1>. HIDE DEF Idle
<1>3. proc' \in [Procs -> Process] /\ Disturbs(p) /\ proc'[p] = Idle
  BY <1>1, <1>2, DisturbedImage DEF TypeInv, TypeOK
<1>. QED
  BY <1>2, <1>3 DEF OtherTool

-----------------------------------------------------------------------------
(* The data moved.                                                         *)

LEMMA BlankType ==
    ASSUME NEW n \in Nat
    PROVE  Blank(n) \in Bytes(n) /\ \A j \in 0..(n - 1) : Blank(n)[j].at = j
BY DEF Blank, Bytes, Byte

\* What an nvwrite has in its buffer when it starts.
LEMMA LoadedType ==
    ASSUME NEW p \in Procs, NEW length \in Nat, NEW offset \in Nat
    PROVE  /\ Least(length, MaxNvBuffer) \in 0..(Word - 1)
           /\ Loaded(p, length, offset) \in Bytes(Least(length, MaxNvBuffer))
           /\ length <= MaxNvBuffer =>
                 /\ Least(length, MaxNvBuffer) = length
                 /\ \A i \in 0..(length - 1) :
                       /\ Loaded(p, length, offset)[i].by = p
                       /\ Loaded(p, length, offset)[i].at = offset + i
<1>. DEFINE m == Least(length, MaxNvBuffer)
            laps(i) == (length - 1 - i) \div MaxNvBuffer
<1>1. m \in 0..(Word - 1) /\ m <= length /\ (length <= MaxNvBuffer => m = length)
  BY BufferAssumption, IndexAssumption DEF Least
<1>2. ASSUME NEW i \in 0..(m - 1)
      PROVE  /\ laps(i) \in Int
             /\ length <= MaxNvBuffer => laps(i) = 0
  BY <1>1, BufferAssumption
<1>3. ASSUME NEW i \in 0..(m - 1)
      PROVE  MaxNvBuffer * laps(i) \in Int /\ (laps(i) = 0 => MaxNvBuffer * laps(i) = 0)
  BY <1>2, BufferAssumption
<1>4. Loaded(p, length, offset) =
        [i \in 0..(m - 1) |-> [by |-> p, at |-> offset + i + MaxNvBuffer * laps(i)]]
  BY DEF Loaded
<1>. HIDE DEF m, laps
<1>5. ASSUME NEW i \in 0..(m - 1)
      PROVE  /\ [by |-> p, at |-> offset + i + MaxNvBuffer * laps(i)] \in Byte
             /\ length <= MaxNvBuffer => offset + i + MaxNvBuffer * laps(i) = offset + i
  BY <1>1, <1>2, <1>3 DEF Byte
<1>6. Loaded(p, length, offset) \in Bytes(m)
  BY <1>4, <1>5 DEF Bytes
<1>7. ASSUME length <= MaxNvBuffer, NEW i \in 0..(length - 1)
      PROVE  /\ Loaded(p, length, offset)[i].by = p
             /\ Loaded(p, length, offset)[i].at = offset + i
  BY <1>1, <1>4, <1>5, <1>7
<1>. QED
  BY <1>1, <1>6, <1>7 DEF m

\* A command that returns the next n bytes of the index appends them.
LEMMA ReceivedType ==
    ASSUME TypeInv, NEW p \in Procs, proc[p].tool = "nvread",
           NEW n \in Nat, proc[p].offset + n <= index.size
    PROVE  LET done == proc[p].doneOffset
               b == Received(p, n)
           IN  /\ b \in Bytes(done + n)
               /\ \A i \in 0..(done - 1) : b[i] = buffer[p][i]
               /\ \A i \in done..(done + n - 1) :
                     /\ proc[p].offset + i - done \in 0..(index.size - 1)
                     /\ b[i] = data[proc[p].offset + i - done]
<1>. DEFINE done == proc[p].doneOffset
            offset == proc[p].offset
            b == Received(p, n)
<1>1. /\ done \in Nat /\ offset \in Nat /\ index.size \in Nat
      /\ offset + n <= index.size
      /\ data \in Bytes(index.size) /\ buffer[p] \in Bytes(done)
  BY IndexAssumption DEF TypeInv, TypeOK, ReadSizes, Process, Index
<1>2. b = [i \in 0..(done + n - 1) |->
              IF i < done THEN buffer[p][i] ELSE data[offset + i - done]]
  BY DEF Received
<1>. HIDE DEF done, offset, b
<1>3. \A i \in 0..(done - 1) : b[i] = buffer[p][i] /\ b[i] \in Byte
  BY <1>1, <1>2 DEF Bytes
<1>4. ASSUME NEW i \in done..(done + n - 1)
      PROVE  /\ offset + i - done \in 0..(index.size - 1)
             /\ b[i] = data[offset + i - done]
             /\ b[i] \in Byte
  <2>1. offset + i - done \in 0..(index.size - 1) /\ i \in 0..(done + n - 1) /\ ~(i < done)
    BY <1>1
  <2>2. data[offset + i - done] \in Byte
    BY <1>1, <2>1 DEF Bytes
  <2>. QED
    BY <1>2, <2>1, <2>2
<1>5. b \in Bytes(done + n)
  <2>1. ASSUME NEW i \in 0..(done + n - 1)
        PROVE  b[i] \in Byte
    <3>1. i \in 0..(done - 1) \/ i \in done..(done + n - 1)
      BY <1>1
    <3>. QED
      BY <3>1, <1>3, <1>4
  <2>2. b = [i \in 0..(done + n - 1) |-> b[i]]
    BY <1>2
  <2>. QED
    BY <1>1, <2>1, <2>2 DEF Bytes
<1>. QED
  BY <1>3, <1>4, <1>5 DEF done, offset, b

LEMMA WrittenType ==
    ASSUME TypeInv, NEW p \in Procs, proc[p].tool = "nvwrite", NEW n \in Nat
    PROVE  LET first == proc[p].offset + proc[p].doneOffset
               d == Written(p, n)
           IN  /\ d \in Bytes(index.size)
               /\ \A j \in 0..(index.size - 1) :
                     d[j] = IF j \in first..(first + n - 1)
                            THEN Buffered(p, j - proc[p].offset) ELSE data[j]
<1>1. /\ data \in Bytes(index.size) /\ index.size \in Nat
      /\ \E m \in 0..(Word - 1) : buffer[p] \in Bytes(m)
  BY IndexAssumption DEF TypeInv, TypeOK, Index
<1>2. \A i : Buffered(p, i) \in Byte
  BY <1>1 DEF Buffered, Junk, Elsewhere, Byte, Bytes
<1>. QED
  BY <1>1, <1>2 DEF Written, Bytes

\* A step that leaves the index and the buffers alone.
LEMMA QuietType ==
    ASSUME TypeInv, NEW p \in Procs, proc' \in [Procs -> Process], Others(p),
           UNCHANGED <<index, data, buffer, runs>>, ReadSizes(p)', WriteSizes(p)'
    PROVE  TypeInv'
BY DEF TypeInv, TypeOK, Others, ReadSizes, WriteSizes

LEMMA ReturnType ==
    ASSUME TypeInv, NEW p \in Procs, UNCHANGED <<index, data, buffer, runs>>,
           NEW rc \in {"success", "general_error", "option_error", "tpm_error"},
           Return(p, rc)
    PROVE  TypeInv'
<1>1. proc \in [Procs -> Process]
  BY DEF TypeInv, TypeOK
<1>2. ReadSizes(p)' /\ WriteSizes(p)'
  BY <1>1, ReturnEffect
     DEF TypeInv, ReadSizes, WriteSizes, SameOptions, SamePosition
<1>. QED
  BY <1>1, <1>2, ReturnEffect, QuietType

LEMMA PhaseType ==
    ASSUME TypeInv, NEW p \in Procs, UNCHANGED <<index, data, buffer, runs>>,
           NEW pc \in {"idle", "public", "auth", "max", "transfer"},
           proc' = [proc EXCEPT ![p].pc = pc],
           pc \in {"auth", "public"} /\ proc[p].tool = "nvread" =>
               proc[p].doneOffset = 0
    PROVE  TypeInv'
<1>1. proc \in [Procs -> Process]
  BY DEF TypeInv, TypeOK
<1>2. ReadSizes(p)' /\ WriteSizes(p)'
  BY <1>1, PhaseEffect
     DEF TypeInv, ReadSizes, WriteSizes, SameOptions, SamePosition
<1>. QED
  BY <1>1, <1>2, PhaseEffect, QuietType

\* A tool that starts, or one of the others, brings a buffer of its own.
LEMMA LoadsType ==
    ASSUME TypeInv, NEW p \in Procs, proc' \in [Procs -> Process],
           Others(p) \/ Disturbs(p),
           NEW n \in 0..(Word - 1), NEW b \in Bytes(n),
           buffer' = [buffer EXCEPT ![p] = b],
           index' \in Index, data' \in Bytes(index'.size), runs' \in 0..MaxRuns,
           ReadSizes(p)', WriteSizes(p)'
    PROVE  TypeInv'
<1>1. /\ \A q \in Procs \ {p} : buffer'[q] = buffer[q]
      /\ DOMAIN buffer' = Procs
      /\ \A q \in Procs : \E m \in 0..(Word - 1) : buffer'[q] \in Bytes(m)
  BY DEF TypeInv, TypeOK
<1>2. \A q \in Procs \ {p} : ReadSizes(q)' /\ WriteSizes(q)'
  BY <1>1 DEF TypeInv, Others, Disturbs, ReadSizes, WriteSizes,
              SameOptions, SamePosition
<1>. QED
  BY <1>1, <1>2 DEF TypeInv, TypeOK

LEMMA NewIndexType ==
    ASSUME NEW n \in IndexSizes
    PROVE  n \in 0..(Word - 1) /\ NewIndex(n) \in Index /\ NewIndex(n).size = n
BY IndexAssumption DEF NewIndex, NoIndex, Index

LEMMA NoIndexType == NoIndex \in Index /\ NoIndex.size = 0 /\ 0 \in 0..(Word - 1)
BY IndexAssumption, BufferAssumption DEF NoIndex, Index

LEMMA TypeInit == Init => TypeInv
<1>. SUFFICES ASSUME Init PROVE TypeInv
  OBVIOUS
<1>1. index \in Index
  BY NewIndexType, NoIndexType DEF Init, Index
<1>2. data \in Bytes(index.size)
  BY <1>1, BlankType DEF Init, Index
<1>3. proc \in [Procs -> Process] /\ \A p \in Procs : proc[p].tool = "none"
  BY IdleType DEF Init, Idle
<1>4. /\ DOMAIN buffer = Procs
      /\ \A p \in Procs : \E n \in 0..(Word - 1) : buffer[p] \in Bytes(n)
  <2>1. Blank(0) \in Bytes(0) /\ 0 \in 0..(Word - 1)
    BY BlankType, NoIndexType
  <2>2. buffer = [p \in Procs |-> Blank(0)]
    BY DEF Init
  <2>. QED
    BY <2>1, <2>2
<1>5. runs \in 0..MaxRuns
  BY RunsAssumption DEF Init
<1>. QED
  BY <1>1, <1>2, <1>3, <1>4, <1>5 DEF TypeInv, TypeOK, ReadSizes, WriteSizes

\* What the index and its data become when another tool has changed them.
LEMMA OtherToolIndex ==
    ASSUME TypeInv, NvDefine \/ NvUndefine \/ NvWriteLock
    PROVE  index' \in Index /\ data' \in Bytes(index'.size)
<1>1. CASE NvDefine
  BY <1>1, NewIndexType, BlankType, IndexAssumption DEF NvDefine
<1>2. CASE NvUndefine
  BY <1>2, NoIndexType, BlankType DEF NvUndefine
<1>3. CASE NvWriteLock
  BY <1>3 DEF NvWriteLock, TypeInv, TypeOK, Index
<1>. QED
  BY <1>1, <1>2, <1>3

\* A chunk is not larger than what is left, and than the TPM's buffer.
LEMMA ChunkType ==
    ASSUME TypeInv, NEW p \in Procs
    PROVE  /\ Least(proc[p].size, proc[p].maxData) \in Nat
           /\ Least(proc[p].size, proc[p].maxData) <= proc[p].size
<1>1. proc[p].size \in Nat /\ proc[p].maxData \in Nat
  BY IndexAssumption, BufferAssumption DEF TypeInv, TypeOK, Process
<1>. QED
  BY <1>1 DEF Least

\* A read that the TPM allows is inside the index.
LEMMA ReadChunkType ==
    ASSUME TypeInv, NEW p \in Procs, ReadChunk(p)
    PROVE  TypeInv'
<1>. DEFINE n == Least(proc[p].size, proc[p].maxData)
            done == proc[p].doneOffset
<1>1. n \in Nat /\ n <= proc[p].size
  BY ChunkType
<1>2. CASE Return(p, "tpm_error") /\ UNCHANGED buffer
  BY <1>2, ReturnType DEF ReadChunk, nv
<1>3. CASE /\ CanRead(p, proc[p].offset, n) /\ ReadOn(p, n)
           /\ buffer' = [buffer EXCEPT ![p] = Received(p, n)]
  <2>. HIDE DEF n
  <2>1. /\ proc[p].tool = "nvread" /\ proc[p].pc = "transfer"
        /\ UNCHANGED <<index, data, runs>>
    BY DEF ReadChunk, Running, nv
  <2>2. /\ index.size \in 0..(Word - 1) /\ proc[p].offset \in Nat
        /\ done \in Nat /\ done <= proc[p].offset
    BY <2>1, IndexAssumption DEF TypeInv, TypeOK, Index, Process, ReadSizes
  <2>3. proc[p].offset + n <= index.size
    BY <1>3 DEF CanRead
  <2>4. done + n \in 0..(Word - 1) /\ proc[p].offset + n <= Word - 1
    BY <2>2, <2>3, <1>1, IndexAssumption
  <2>5. Received(p, n) \in Bytes(done + n)
    BY <1>1, <2>1, <2>3, ReceivedType
  <2>6. /\ proc' \in [Procs -> Process] /\ Others(p)
        /\ proc'[p].tool = "nvread" /\ proc'[p].pc = "transfer"
        /\ proc'[p].offset = proc[p].offset + n
        /\ proc'[p].doneOffset = done + n
    BY <1>1, <1>3, <2>1, <2>4, ReadOnEffect DEF SameOptions
  <2>7. buffer'[p] = Received(p, n)
    BY <1>3 DEF TypeInv, TypeOK
  <2>. HIDE DEF done
  <2>8. ReadSizes(p)' /\ WriteSizes(p)'
    BY <1>1, <2>2, <2>5, <2>6, <2>7 DEF ReadSizes, WriteSizes
  <2>9. index' \in Index /\ data' \in Bytes(index'.size) /\ runs' \in 0..MaxRuns
    BY <2>1 DEF TypeInv, TypeOK
  <2>. QED
    BY <1>3, <2>4, <2>5, <2>6, <2>8, <2>9, LoadsType
<1>. QED
  BY <1>2, <1>3 DEF ReadChunk

LEMMA WriteChunkType ==
    ASSUME TypeInv, NEW p \in Procs, WriteChunk(p)
    PROVE  TypeInv'
<1>. DEFINE n == Least(proc[p].size, proc[p].maxData)
<1>1. n \in Nat /\ n <= proc[p].size
  BY ChunkType
<1>2. CASE Return(p, "tpm_error") /\ UNCHANGED nv
  BY <1>2, ReturnType DEF WriteChunk, nv
<1>3. CASE /\ index' = [index EXCEPT !.written = TRUE]
           /\ data' = Written(p, n)
           /\ proc' = [Disturbed(p) EXCEPT
                         ![p].size = @ - n, ![p].doneOffset = @ + n,
                         ![p].spent = proc[p].policy, ![p].wrote = TRUE]
  <2>. HIDE DEF n
  <2>1. proc[p].tool = "nvwrite" /\ UNCHANGED <<buffer, runs>>
    BY DEF WriteChunk, Running
  <2>2. index' \in Index /\ index'.size = index.size
    BY <1>3 DEF TypeInv, TypeOK, Index
  <2>3. data' \in Bytes(index'.size)
    BY <1>1, <1>3, <2>1, <2>2, WrittenType
  <2>4. /\ proc' \in [Procs -> Process] /\ Disturbs(p)
        /\ proc'[p].tool = "nvwrite"
        /\ proc'[p].size = proc[p].size - n
        /\ proc'[p].doneOffset = proc[p].doneOffset + n
    <3>1. /\ proc' \in [Procs -> Process] /\ Disturbs(p)
          /\ SameOptions(proc'[p], proc[p])
          /\ proc'[p].size = proc[p].size - n
          /\ proc'[p].doneOffset = proc[p].doneOffset + n
      BY <1>1, <1>3, <2>1, WriteOnEffect, Zenon
    <3>. QED
      BY <2>1, <3>1 DEF SameOptions
  <2>5. proc[p].size \in Nat /\ proc[p].doneOffset \in Nat
    BY IndexAssumption DEF TypeInv, TypeOK, Process
  <2>6. ReadSizes(p)' /\ WriteSizes(p)'
    BY <1>1, <2>1, <2>4, <2>5 DEF TypeInv, ReadSizes, WriteSizes
  <2>7. \A q \in Procs \ {p} : ReadSizes(q)' /\ WriteSizes(q)'
    BY <2>1, <2>4 DEF TypeInv, Disturbs, ReadSizes, WriteSizes,
                      SameOptions, SamePosition
  <2>. QED
    BY <2>1, <2>2, <2>3, <2>4, <2>6, <2>7 DEF TypeInv, TypeOK
<1>. QED
  BY <1>2, <1>3 DEF WriteChunk

LEMMA NvReadType ==
    ASSUME TypeInv, NEW p \in Procs, NvRead(p)
    PROVE  TypeInv'
<1>1. /\ proc' \in [Procs -> Process] /\ Others(p)
      /\ proc'[p].tool = "nvread" /\ proc'[p].doneOffset = 0 /\ proc'[p].offset = 0
      /\ buffer' = [buffer EXCEPT ![p] = Blank(0)]
      /\ UNCHANGED <<index, data>> /\ runs < MaxRuns /\ runs' = runs + 1
  BY NvReadEffect DEF TypeInv, TypeOK, Fresh
<1>2. Blank(0) \in Bytes(0) /\ 0 \in 0..(Word - 1)
  BY BlankType, NoIndexType
<1>3. buffer'[p] = Blank(0)
  BY <1>1 DEF TypeInv, TypeOK
<1>4. ReadSizes(p)' /\ WriteSizes(p)'
  BY <1>1, <1>2, <1>3 DEF ReadSizes, WriteSizes
<1>5. index' \in Index /\ data' \in Bytes(index'.size) /\ runs' \in 0..MaxRuns
  BY <1>1, RunsAssumption DEF TypeInv, TypeOK
<1>. QED
  BY <1>1, <1>2, <1>4, <1>5, LoadsType

LEMMA NvWriteType ==
    ASSUME TypeInv, NEW p \in Procs, NvWrite(p)
    PROVE  TypeInv'
<1>1. PICK given \in InputGiven :
        /\ proc' \in [Procs -> Process] /\ Others(p)
        /\ proc'[p].tool = "nvwrite" /\ proc'[p].doneOffset = 0
        /\ proc'[p].askedSize \in Lengths /\ proc'[p].askedOffset \in WriteOffsets
        /\ proc'[p].offset = proc'[p].askedOffset
        /\ buffer' = [buffer EXCEPT
                        ![p] = Input(p, given, proc'[p].askedSize, proc'[p].offset)]
        /\ UNCHANGED <<index, data>> /\ runs < MaxRuns /\ runs' = runs + 1
  BY NvWriteEffect DEF TypeInv, TypeOK, Fresh
<1>. DEFINE b == Input(p, given, proc'[p].askedSize, proc'[p].offset)
<1>2. proc'[p].askedSize \in Nat /\ proc'[p].offset \in Nat
  <2>1. Lengths \subseteq Nat /\ WriteOffsets \subseteq Nat
    BY InputAssumption, IndexAssumption
  <2>. QED
    BY <1>1, <2>1
<1>3. /\ [i \in 0..(MaxNvBuffer - 1) |-> Junk] \in Bytes(MaxNvBuffer)
      /\ MaxNvBuffer \in 0..(Word - 1)
  BY BufferAssumption, IndexAssumption DEF Bytes, Byte, Junk, Elsewhere
<1>4. \E n \in 0..(Word - 1) : b \in Bytes(n)
  BY <1>2, <1>3, LoadedType DEF Input
<1>5. proc'[p].size \in 0..(Word - 1)
  BY <1>1 DEF Process
<1>6. ReadSizes(p)' /\ WriteSizes(p)'
  BY <1>1, <1>5, IndexAssumption DEF ReadSizes, WriteSizes
<1>7. index' \in Index /\ data' \in Bytes(index'.size) /\ runs' \in 0..MaxRuns
  BY <1>1, RunsAssumption DEF TypeInv, TypeOK
<1>. QED
  BY <1>1, <1>4, <1>6, <1>7, LoadsType

LEMMA OtherToolType ==
    ASSUME TypeInv, NEW p \in Procs, OtherTool(p)
    PROVE  TypeInv'
<1>1. /\ proc' \in [Procs -> Process] /\ Disturbs(p)
      /\ proc'[p].tool = "none"
      /\ buffer' = [buffer EXCEPT ![p] = Blank(0)]
      /\ runs < MaxRuns /\ runs' = runs + 1
  BY OtherToolEffect
<1>2. Blank(0) \in Bytes(0) /\ 0 \in 0..(Word - 1)
  BY BlankType, NoIndexType
<1>3. ReadSizes(p)' /\ WriteSizes(p)'
  BY <1>1 DEF ReadSizes, WriteSizes
<1>4. index' \in Index /\ data' \in Bytes(index'.size)
  BY OtherToolEffect, OtherToolIndex
<1>5. runs' \in 0..MaxRuns
  BY <1>1, RunsAssumption DEF TypeInv, TypeOK
<1>. QED
  BY <1>1, <1>2, <1>3, <1>4, <1>5, LoadsType

LEMMA TypeNext == TypeInv /\ [Next]_vars => TypeInv'
<1>. SUFFICES ASSUME TypeInv, [Next]_vars PROVE TypeInv'
  OBVIOUS
<1>0. proc \in [Procs -> Process]
  BY DEF TypeInv, TypeOK
<1>1. ASSUME NEW p \in Procs, MaxBufferSize(p) PROVE TypeInv'
  <2>1. ReadSizes(p)' /\ WriteSizes(p)'
    BY <1>0, <1>1, MaxBufferSizeEffect
       DEF TypeInv, ReadSizes, WriteSizes, SameOptions, SamePosition
  <2>. QED
    BY <1>0, <1>1, <2>1, MaxBufferSizeEffect, QuietType
<1>2. ASSUME NEW p \in Procs, Finish(p) PROVE TypeInv'
  BY <1>2, ReturnType DEF Finish, nv
<1>3. ASSUME NEW p \in Procs, ReadAuth(p) PROVE TypeInv'
  BY <1>3, ReturnType, PhaseType
     DEF ReadAuth, Authorise, Running, TypeInv, ReadSizes, nv
<1>4. ASSUME NEW p \in Procs, ReadPublic(p) PROVE TypeInv'
  <2>1. CASE Return(p, "tpm_error") \/ Return(p, "general_error")
    BY <1>4, <2>1, ReadPublicEffect, ReturnType
  <2>2. CASE /\ proc' \in [Procs -> Process] /\ Others(p)
             /\ SameOptions(proc'[p], proc[p])
             /\ proc'[p].doneOffset = proc[p].doneOffset
    <3>1. /\ proc[p].tool = "nvread" /\ proc[p].doneOffset = 0
          /\ proc'[p].offset \in 0..(Word - 1)
      BY <1>4, <2>2, ReadPublicEffect DEF TypeInv, ReadSizes, Process
    <3>2. ReadSizes(p)' /\ WriteSizes(p)'
      BY <1>4, <2>2, <3>1, ReadPublicEffect
         DEF TypeInv, ReadSizes, WriteSizes, SameOptions
    <3>. QED
      BY <1>4, <2>2, <3>2, ReadPublicEffect, QuietType
  <2>. QED
    BY <1>4, <2>1, <2>2, ReadPublicEffect
<1>5. ASSUME NEW p \in Procs, WritePublic(p) PROVE TypeInv'
  BY <1>5, ReturnType, PhaseType DEF WritePublic, Running, nv
<1>6. ASSUME NEW p \in Procs, WriteAuth(p) PROVE TypeInv'
  BY <1>6, ReturnType, PhaseType
     DEF WriteAuth, Authorise, AfterPublic, Running, nv
<1>7. ASSUME NEW p \in Procs, Fail(p) PROVE TypeInv'
  <2>1. ReadSizes(p)' /\ WriteSizes(p)'
    BY <1>0, <1>7, FailEffect
       DEF TypeInv, ReadSizes, WriteSizes, SameOptions, SamePosition
  <2>. QED
    BY <1>0, <1>7, <2>1, FailEffect, QuietType
<1>8. CASE UNCHANGED vars
  BY <1>8 DEF vars, TypeInv, TypeOK, ReadSizes, WriteSizes
<1>. QED
  BY <1>1, <1>2, <1>3, <1>4, <1>5, <1>6, <1>7, <1>8, ReadChunkType, WriteChunkType,
     NvReadType, NvWriteType, OtherToolType DEF Next, Step, Finished

(***************************************************************************)
(* Every variable of the transfer keeps its type; the UINT16 offsets and   *)
(* sizes of both tools never wrap once they are computed.                  *)
(***************************************************************************)
THEOREM TransferTypes == Spec => []TypeOK
<1>1. TypeInv => TypeOK
  BY DEF TypeInv
<1>. QED
  BY TypeInit, TypeNext, <1>1, PTL DEF Spec

-----------------------------------------------------------------------------
(* An nvread that nobody disturbs.  While it is alone, what it has read is *)
(* what is in the index, from the offset it was asked for.                 *)

ReadSame(p) ==
    proc[p].tool = "nvread" =>
        /\ proc[p].pc \in {"max", "transfer"} =>
              proc[p].offset = Uint16(proc[p].askedOffset) + proc[p].doneOffset
        /\ proc[p].alone =>
              \A i \in 0..(proc[p].doneOffset - 1) :
                  buffer[p][i] = data[Uint16(proc[p].askedOffset) + i]

SameInv == TypeInv /\ \A p \in Procs : ReadSame(p)

\* A step that leaves the data and the buffers alone.
LEMMA QuietSame ==
    ASSUME SameInv, TypeInv', NEW p \in Procs, Others(p),
           UNCHANGED <<data, buffer>>, ReadSame(p)'
    PROVE  SameInv'
BY DEF SameInv, Others, ReadSame

\* A step that stays where it was, and is not a return from ReadPublic.
LEMMA StaysSame ==
    ASSUME SameInv, TypeInv', NEW p \in Procs, Others(p),
           UNCHANGED <<data, buffer>>,
           SameOptions(proc'[p], proc[p]), SamePosition(proc'[p], proc[p]),
           proc'[p].alone = proc[p].alone,
           proc'[p].pc \in {"max", "transfer"} /\ proc[p].tool = "nvread" =>
               proc[p].pc \in {"max", "transfer"}
    PROVE  SameInv'
<1>1. ReadSame(p)'
  BY DEF SameInv, ReadSame, SameOptions, SamePosition
<1>. QED
  BY <1>1, QuietSame

\* A step that may change the index, by a process that does not read.
LEMMA DisturbsSame ==
    ASSUME SameInv, TypeInv', NEW p \in Procs, Disturbs(p),
           proc'[p].tool # "nvread", \A q \in Procs \ {p} : buffer'[q] = buffer[q]
    PROVE  SameInv'
BY DEF SameInv, Disturbs, ReadSame, SameOptions, SamePosition

LEMMA ReadChunkSame ==
    ASSUME SameInv, TypeInv', NEW p \in Procs, ReadChunk(p)
    PROVE  SameInv'
<1>. DEFINE n == Least(proc[p].size, proc[p].maxData)
            done == proc[p].doneOffset
            asked == Uint16(proc[p].askedOffset)
<1>1. n \in Nat /\ n <= proc[p].size
  BY ChunkType DEF SameInv
<1>2. CASE Return(p, "tpm_error") /\ UNCHANGED buffer
  BY <1>2, ReturnEffect, StaysSame
     DEF ReadChunk, nv, SameInv, TypeInv, TypeOK, SameHistory
<1>3. CASE /\ CanRead(p, proc[p].offset, n) /\ ReadOn(p, n)
           /\ buffer' = [buffer EXCEPT ![p] = Received(p, n)]
  <2>. HIDE DEF n
  <2>1. /\ proc[p].tool = "nvread" /\ proc[p].pc = "transfer"
        /\ UNCHANGED <<index, data, runs>>
    BY DEF ReadChunk, Running, nv
  <2>2. /\ index.size \in 0..(Word - 1) /\ proc[p].offset + n <= index.size
        /\ proc[p].offset \in Nat /\ done \in Nat /\ asked \in Nat
        /\ proc[p].offset = asked + done
    BY <1>3, <2>1, IndexAssumption, Uint16Type
       DEF CanRead, SameInv, TypeInv, TypeOK, Index, Process, ReadSame
  <2>3. /\ Others(p)
        /\ SameOptions(proc'[p], proc[p]) /\ SameHistory(proc'[p], proc[p])
        /\ proc'[p].offset = proc[p].offset + n
        /\ proc'[p].doneOffset = done + n
    BY <1>1, <1>3, <2>1, <2>2, IndexAssumption, ReadOnEffect DEF SameInv
  <2>4. buffer'[p] = Received(p, n) /\ \A q \in Procs \ {p} : buffer'[q] = buffer[q]
    BY <1>3 DEF SameInv, TypeInv, TypeOK
  <2>5. /\ \A i \in 0..(done - 1) : Received(p, n)[i] = buffer[p][i]
        /\ \A i \in done..(done + n - 1) :
              Received(p, n)[i] = data[proc[p].offset + i - done]
    BY <1>1, <2>1, <2>2, ReceivedType DEF SameInv
  <2>6. ASSUME proc[p].alone, NEW i \in 0..(done + n - 1)
        PROVE  buffer'[p][i] = data[asked + i]
    <3>1. CASE i \in 0..(done - 1)
      BY <2>1, <2>4, <2>5, <2>6, <3>1 DEF SameInv, ReadSame
    <3>2. CASE i \in done..(done + n - 1)
      <4>1. proc[p].offset + i - done = asked + i
        BY <2>2, <3>2
      <4>. QED
        BY <2>4, <2>5, <3>2, <4>1
    <3>. QED
      BY <1>1, <2>2, <3>1, <3>2
  <2>7. proc'[p].offset = asked + proc'[p].doneOffset
    BY <1>1, <2>2, <2>3
  <2>8. Uint16(proc'[p].askedOffset) = asked
    BY <2>3 DEF SameOptions
  <2>. HIDE DEF done, asked
  <2>9. ReadSame(p)'
    <3>1. proc[p].alone => \A i \in 0..(proc'[p].doneOffset - 1) :
                               buffer'[p][i] = data'[asked + i]
      <4>. SUFFICES ASSUME proc[p].alone, NEW i \in 0..(proc'[p].doneOffset - 1)
                    PROVE  buffer'[p][i] = data'[asked + i]
        OBVIOUS
      <4>1. i \in 0..(done + n - 1)
        BY <1>1, <2>2, <2>3
      <4>2. buffer'[p][i] = data[asked + i]
        BY <2>6, <4>1
      <4>. QED
        BY <2>1, <4>2
    <3>. QED
      BY <2>3, <2>7, <2>8, <3>1 DEF ReadSame, SameHistory
  <2>. QED
    BY <2>1, <2>3, <2>4, <2>9 DEF SameInv, Others, ReadSame
<1>. QED
  BY <1>2, <1>3 DEF ReadChunk

LEMMA SameNext == SameInv /\ [Next]_vars => SameInv'
<1>. SUFFICES ASSUME SameInv, [Next]_vars PROVE SameInv'
  OBVIOUS
<1>0. proc \in [Procs -> Process] /\ TypeInv /\ TypeInv'
  BY TypeNext DEF SameInv, TypeInv, TypeOK
<1>1. ASSUME NEW p \in Procs, MaxBufferSize(p) PROVE SameInv'
  BY <1>0, <1>1, MaxBufferSizeEffect, StaysSame DEF SameHistory
<1>2. ASSUME NEW p \in Procs, Finish(p) PROVE SameInv'
  BY <1>0, <1>2, ReturnEffect, StaysSame DEF Finish, nv, SameHistory
<1>3. ASSUME NEW p \in Procs, ReadAuth(p) PROVE SameInv'
  BY <1>0, <1>3, ReturnEffect, PhaseEffect, StaysSame
     DEF ReadAuth, Authorise, nv, SameHistory
<1>4. ASSUME NEW p \in Procs, ReadPublic(p) PROVE SameInv'
  <2>1. CASE Return(p, "tpm_error") \/ Return(p, "general_error")
    BY <1>0, <1>4, <2>1, ReadPublicEffect, ReturnEffect, StaysSame DEF SameHistory
  <2>2. CASE /\ Others(p)
             /\ SameOptions(proc'[p], proc[p])
             /\ proc'[p].doneOffset = proc[p].doneOffset
             /\ proc'[p].offset = Uint16(proc[p].askedOffset)
    <3>1. /\ proc[p].tool = "nvread" /\ proc[p].doneOffset = 0
          /\ Uint16(proc[p].askedOffset) \in Nat
      BY <1>0, <1>4, ReadPublicEffect, Uint16Type, IndexAssumption
         DEF TypeInv, ReadSizes, Process
    <3>2. ReadSame(p)'
      BY <2>2, <3>1 DEF ReadSame, SameOptions
    <3>. QED
      BY <1>0, <1>4, <2>2, <3>2, ReadPublicEffect, QuietSame
  <2>. QED
    BY <1>0, <1>4, <2>1, <2>2, ReadPublicEffect
<1>5. ASSUME NEW p \in Procs, WritePublic(p) PROVE SameInv'
  BY <1>0, <1>5, ReturnEffect, PhaseEffect, StaysSame
     DEF WritePublic, Running, nv, SameHistory
<1>6. ASSUME NEW p \in Procs, WriteAuth(p) PROVE SameInv'
  BY <1>0, <1>6, ReturnEffect, PhaseEffect, StaysSame
     DEF WriteAuth, Authorise, AfterPublic, Running, nv, SameHistory
<1>7. ASSUME NEW p \in Procs, WriteChunk(p) PROVE SameInv'
  <2>1. CASE Return(p, "tpm_error") /\ UNCHANGED nv
    BY <1>0, <1>7, <2>1, ReturnEffect, StaysSame DEF WriteChunk, nv, SameHistory
  <2>2. CASE proc' = [Disturbed(p) EXCEPT
                ![p].size = @ - Least(proc[p].size, proc[p].maxData),
                ![p].doneOffset = @ + Least(proc[p].size, proc[p].maxData),
                ![p].spent = proc[p].policy, ![p].wrote = TRUE]
    <3>1. proc[p].tool = "nvwrite" /\ UNCHANGED buffer
      BY <1>7 DEF WriteChunk, Running
    <3>2. Disturbs(p) /\ SameOptions(proc'[p], proc[p])
      BY <1>0, <2>2, <3>1, ChunkType, WriteOnEffect, Zenon
    <3>. QED
      BY <1>0, <3>1, <3>2, DisturbsSame DEF SameOptions
  <2>. QED
    BY <1>7, <2>1, <2>2 DEF WriteChunk
<1>8. ASSUME NEW p \in Procs, NvRead(p) PROVE SameInv'
  <2>1. /\ Others(p) /\ proc'[p].pc = "auth" /\ proc'[p].doneOffset = 0
        /\ UNCHANGED data /\ \A q \in Procs \ {p} : buffer'[q] = buffer[q]
    BY <1>0, <1>8, NvReadEffect DEF Fresh, TypeInv, TypeOK
  <2>. QED
    BY <1>0, <2>1 DEF SameInv, Others, ReadSame
<1>9. ASSUME NEW p \in Procs, NvWrite(p) PROVE SameInv'
  <2>1. /\ Others(p) /\ proc'[p].tool = "nvwrite"
        /\ UNCHANGED data /\ \A q \in Procs \ {p} : buffer'[q] = buffer[q]
    BY <1>0, <1>9, NvWriteEffect DEF TypeInv, TypeOK
  <2>. QED
    BY <1>0, <2>1 DEF SameInv, Others, ReadSame
<1>10. ASSUME NEW p \in Procs, OtherTool(p) PROVE SameInv'
  <2>1. /\ Disturbs(p) /\ proc'[p].tool = "none"
        /\ \A q \in Procs \ {p} : buffer'[q] = buffer[q]
    BY <1>0, <1>10, OtherToolEffect DEF TypeInv, TypeOK
  <2>. QED
    BY <1>0, <2>1, DisturbsSame
<1>11. ASSUME NEW p \in Procs, Fail(p) PROVE SameInv'
  BY <1>0, <1>11, FailEffect, StaysSame
<1>12. CASE UNCHANGED vars
  BY <1>0, <1>12 DEF vars, SameInv, ReadSame
<1>. QED
  BY <1>1, <1>2, <1>3, <1>4, <1>5, <1>6, <1>7, <1>8, <1>9, <1>10, <1>11, <1>12,
     ReadChunkSame, <1>0 DEF Next, Step, Finished

(***************************************************************************)
(* An nvread that exits with 0 and met no change of the index returns what *)
(* is in it, however many chunks the loop of tpm2_util_nv_read took.       *)
(***************************************************************************)
THEOREM UndisturbedReads == Spec => []UndisturbedRead
<1>1. Init => SameInv
  BY TypeInit, IdleType DEF Init, SameInv, ReadSame, Idle
<1>2. SameInv => UndisturbedRead
  BY DEF SameInv, ReadSame, UndisturbedRead, Ended
<1>. QED
  BY <1>1, <1>2, SameNext, PTL DEF Spec

-----------------------------------------------------------------------------
(* Data that nvread and nvwrite move stays in its place, for options that  *)
(* fit the UINT16 of the parameters and input that fits the buffer.        *)

\* What the two tools assume of their options, and do not check.
OptionsFit ==
    /\ Sizes \subseteq 0..(Word - 1)
    /\ Offsets \subseteq 0..(Word - 1)
    /\ InputGiven = {TRUE}
    /\ Lengths \subseteq 0..MaxNvBuffer

-----------------------------------------------------------------------------
(* The inductive invariant.                                                *)

Looping(p) == proc[p].pc \in {"max", "transfer"}

Dispatched(p) ==
    proc[p].pc = "idle" /\ proc[p].rc = "success" /\ ~proc[p].cpHash

\* What nvread has got is in place, and the loop knows what is still missing.
ReadPlace(p) ==
    proc[p].tool = "nvread" =>
        /\ proc[p].askedSize \in Sizes /\ proc[p].askedOffset \in Offsets
        /\ \A i \in 0..(proc[p].doneOffset - 1) :
              buffer[p][i].at = proc[p].askedOffset + i
        /\ Looping(p) => proc[p].offset = proc[p].askedOffset + proc[p].doneOffset
        /\ (Looping(p) \/ Dispatched(p)) /\ proc[p].askedSize # 0 =>
              proc[p].doneOffset + proc[p].size = proc[p].askedSize
        /\ Dispatched(p) => proc[p].size = 0

\* The buffer of nvwrite holds its input, all of it.
WritePlace(p) ==
    proc[p].tool = "nvwrite" =>
        /\ proc[p].offset = proc[p].askedOffset
        /\ proc[p].doneOffset + proc[p].size = proc[p].askedSize
        /\ buffer[p] \in Bytes(proc[p].askedSize)
        /\ \A i \in 0..(proc[p].askedSize - 1) :
              /\ buffer[p][i].by = p
              /\ buffer[p][i].at = proc[p].askedOffset + i
        /\ Dispatched(p) => proc[p].size = 0

PlaceInv ==
    TypeInv /\ WriteInPlace /\ \A p \in Procs : ReadPlace(p) /\ WritePlace(p)

LEMMA PlaceInit == Init => PlaceInv
<1>. SUFFICES ASSUME Init PROVE PlaceInv
  OBVIOUS
<1>1. TypeInv
  BY TypeInit
<1>2. WriteInPlace
  <2>1. index.size \in Nat
    BY <1>1, IndexAssumption DEF TypeInv, TypeOK, Index
  <2>. QED
    BY <2>1, BlankType DEF Init, WriteInPlace
<1>3. \A p \in Procs : proc[p].tool = "none"
  BY DEF Init, Idle
<1>. QED
  BY <1>1, <1>2, <1>3 DEF PlaceInv, ReadPlace, WritePlace

-----------------------------------------------------------------------------
(* Steps that move no data.                                                *)

LEMMA QuietPlace ==
    ASSUME PlaceInv, TypeInv', NEW p \in Procs, Others(p),
           UNCHANGED <<index, data, buffer>>, ReadPlace(p)', WritePlace(p)'
    PROVE  PlaceInv'
BY DEF PlaceInv, WriteInPlace, Others, ReadPlace, WritePlace, Looping, Dispatched

\* The input of an nvwrite is in its buffer until the tool ends.
LEMMA WriteStays ==
    ASSUME PlaceInv, NEW p \in Procs, UNCHANGED buffer,
           SameOptions(proc'[p], proc[p]), SamePosition(proc'[p], proc[p]),
           Dispatched(p)' => proc[p].size = 0
    PROVE  WritePlace(p)'
<1>1. /\ proc'[p].doneOffset = proc[p].doneOffset /\ proc'[p].size = proc[p].size
      /\ proc'[p].tool = proc[p].tool /\ proc'[p].offset = proc[p].offset
      /\ proc'[p].askedSize = proc[p].askedSize
      /\ proc'[p].askedOffset = proc[p].askedOffset
      /\ buffer' = buffer
  BY DEF SameOptions, SamePosition
<1>. SUFFICES ASSUME proc[p].tool = "nvwrite" PROVE WritePlace(p)'
  BY <1>1 DEF WritePlace
<1>2. proc'[p].offset = proc'[p].askedOffset
  BY <1>1 DEF PlaceInv, WritePlace
<1>3. proc'[p].doneOffset + proc'[p].size = proc'[p].askedSize
  BY <1>1 DEF PlaceInv, WritePlace
<1>4. buffer'[p] \in Bytes(proc'[p].askedSize)
  BY <1>1 DEF PlaceInv, WritePlace
<1>5. \A i \in 0..(proc'[p].askedSize - 1) :
            /\ buffer'[p][i].by = p
            /\ buffer'[p][i].at = proc'[p].askedOffset + i
  BY <1>1 DEF PlaceInv, WritePlace
<1>. QED
  BY <1>1, <1>2, <1>3, <1>4, <1>5 DEF WritePlace

\* A step that stays where it was, and neither enters the loop nor succeeds.
LEMMA StaysPlace ==
    ASSUME PlaceInv, TypeInv', NEW p \in Procs, Others(p),
           UNCHANGED <<index, data, buffer>>,
           SameOptions(proc'[p], proc[p]), SamePosition(proc'[p], proc[p]),
           Looping(p)' /\ proc[p].tool = "nvread" => Looping(p),
           ~Dispatched(p)'
    PROVE  PlaceInv'
<1>1. ReadPlace(p)'
  BY DEF PlaceInv, ReadPlace, SameOptions, SamePosition
<1>2. WritePlace(p)'
  BY WriteStays
<1>. QED
  BY <1>1, <1>2, QuietPlace

LEMMA FailsPlace ==
    ASSUME PlaceInv, TypeInv', NEW p \in Procs, UNCHANGED <<index, data, buffer>>,
           NEW rc \in {"general_error", "option_error", "tpm_error"}, Return(p, rc)
    PROVE  PlaceInv'
<1>1. /\ Others(p) /\ proc'[p].pc = "idle" /\ proc'[p].rc = rc
      /\ SameOptions(proc'[p], proc[p]) /\ SamePosition(proc'[p], proc[p])
  BY ReturnEffect DEF PlaceInv, TypeInv, TypeOK
<1>2. ~Looping(p)' /\ ~Dispatched(p)'
  BY <1>1 DEF Looping, Dispatched
<1>. QED
  BY <1>1, <1>2, StaysPlace

LEMMA FinishPlace ==
    ASSUME PlaceInv, TypeInv', NEW p \in Procs, Finish(p)
    PROVE  PlaceInv'
<1>1. /\ Others(p) /\ proc'[p].pc = "idle"
      /\ SameOptions(proc'[p], proc[p]) /\ SamePosition(proc'[p], proc[p])
  BY ReturnEffect DEF Finish, PlaceInv, TypeInv, TypeOK
<1>2. Looping(p) /\ ~Looping(p)' /\ proc[p].size = 0
  BY <1>1 DEF Finish, Looping
<1>3. ReadPlace(p)'
  BY <1>1, <1>2 DEF Finish, nv, PlaceInv, ReadPlace, SameOptions, SamePosition
<1>4. WritePlace(p)'
  BY <1>1, <1>2, WriteStays DEF Finish, nv, SamePosition
<1>. QED
  BY <1>1, <1>3, <1>4, QuietPlace DEF Finish, nv

\* The read begins at --offset, and is as long as --size, if there is one.
LEMMA ReadPublicPlace ==
    ASSUME OptionsFit, PlaceInv, TypeInv', NEW p \in Procs, ReadPublic(p)
    PROVE  PlaceInv'
<1>1. CASE Return(p, "tpm_error") \/ Return(p, "general_error")
  BY <1>1, ReadPublicEffect, FailsPlace DEF PlaceInv
<1>2. CASE /\ Others(p)
           /\ proc'[p].pc = AfterPublic(p)
           /\ SameOptions(proc'[p], proc[p])
           /\ proc'[p].size = ReadSize(p)
           /\ proc'[p].offset = Uint16(proc[p].askedOffset)
           /\ proc'[p].doneOffset = proc[p].doneOffset
  <2>1. /\ proc[p].tool = "nvread" /\ proc[p].doneOffset = 0
        /\ UNCHANGED <<index, data, buffer>>
    BY ReadPublicEffect DEF PlaceInv, TypeInv, ReadSizes
  <2>2. /\ proc[p].askedOffset \in 0..(Word - 1) /\ proc[p].askedSize \in 0..(Word - 1)
        /\ proc[p].askedOffset \in Nat /\ proc[p].askedSize \in Nat
    BY <2>1 DEF PlaceInv, ReadPlace, OptionsFit, TypeInv, TypeOK, Process
  <2>3. /\ Uint16(proc[p].askedOffset) = proc[p].askedOffset
        /\ Uint16(proc[p].askedSize) = proc[p].askedSize
    BY <2>2, Uint16Type
  <2>4. /\ proc'[p].offset = proc[p].askedOffset + proc'[p].doneOffset
        /\ proc[p].askedSize # 0 =>
              proc'[p].doneOffset + proc'[p].size = proc[p].askedSize
    BY <1>2, <2>1, <2>2, <2>3 DEF ReadSize
  <2>5. ~Dispatched(p)'
    BY <1>2 DEF Dispatched, AfterPublic, SameOptions
  <2>6. ReadPlace(p)'
    BY <1>2, <2>1, <2>4, <2>5 DEF PlaceInv, ReadPlace, SameOptions
  <2>7. WritePlace(p)'
    BY <1>2, <2>1 DEF WritePlace, SameOptions
  <2>. QED
    BY <1>2, <2>1, <2>6, <2>7, QuietPlace
<1>. QED
  BY <1>1, <1>2, ReadPublicEffect DEF PlaceInv

-----------------------------------------------------------------------------
(* Steps that move data.                                                   *)

\* A chunk that is read comes to lie behind what has been read.
LEMMA ReadChunkPlace ==
    ASSUME PlaceInv, TypeInv', NEW p \in Procs, ReadChunk(p)
    PROVE  PlaceInv'
<1>. DEFINE n == Least(proc[p].size, proc[p].maxData)
            done == proc[p].doneOffset
            asked == proc[p].askedOffset
<1>1. n \in Nat /\ n <= proc[p].size
  BY ChunkType DEF PlaceInv
<1>2. CASE Return(p, "tpm_error") /\ UNCHANGED buffer
  BY <1>2, FailsPlace DEF ReadChunk, nv
<1>3. CASE /\ CanRead(p, proc[p].offset, n) /\ ReadOn(p, n)
           /\ buffer' = [buffer EXCEPT ![p] = Received(p, n)]
  <2>. HIDE DEF n
  <2>1. /\ proc[p].tool = "nvread" /\ proc[p].pc = "transfer"
        /\ UNCHANGED <<index, data, runs>>
    BY DEF ReadChunk, Running, nv
  <2>2. /\ index.size \in 0..(Word - 1) /\ proc[p].offset + n <= index.size
        /\ proc[p].offset \in Nat /\ done \in Nat /\ asked \in Nat
        /\ proc[p].size \in Nat /\ proc[p].askedSize \in Nat
    BY <1>3, IndexAssumption
       DEF CanRead, PlaceInv, TypeInv, TypeOK, Index, Process
  <2>3. /\ proc[p].offset = asked + done
        /\ proc[p].askedSize # 0 => done + proc[p].size = proc[p].askedSize
        /\ \A i \in 0..(done - 1) : buffer[p][i].at = asked + i
        /\ \A j \in 0..(index.size - 1) : data[j].at = j
        /\ proc[p].askedSize \in Sizes /\ asked \in Offsets
    BY <2>1 DEF PlaceInv, ReadPlace, Looping, WriteInPlace
  <2>4. /\ Others(p)
        /\ SameOptions(proc'[p], proc[p]) /\ proc'[p].pc = proc[p].pc
        /\ proc'[p].size = proc[p].size - n
        /\ proc'[p].offset = proc[p].offset + n
        /\ proc'[p].doneOffset = done + n
    BY <1>1, <1>3, <2>1, <2>2, IndexAssumption, ReadOnEffect DEF PlaceInv
  <2>5. buffer'[p] = Received(p, n) /\ \A q \in Procs \ {p} : buffer'[q] = buffer[q]
    BY <1>3 DEF PlaceInv, TypeInv, TypeOK
  <2>6. /\ \A i \in 0..(done - 1) : Received(p, n)[i] = buffer[p][i]
        /\ \A i \in done..(done + n - 1) :
              /\ proc[p].offset + i - done \in 0..(index.size - 1)
              /\ Received(p, n)[i] = data[proc[p].offset + i - done]
    BY <1>1, <2>1, <2>2, ReceivedType DEF PlaceInv
  <2>7. ASSUME NEW i \in 0..(proc'[p].doneOffset - 1)
        PROVE  buffer'[p][i].at = proc'[p].askedOffset + i
    <3>1. proc'[p].askedOffset = asked
      BY <2>4 DEF SameOptions
    <3>2. CASE i \in 0..(done - 1)
      BY <2>3, <2>5, <2>6, <3>1, <3>2
    <3>3. CASE i \in done..(done + n - 1)
      <4>1. proc[p].offset + i - done = asked + i
        BY <2>2, <2>3, <3>3
      <4>2. data[asked + i].at = asked + i
        BY <2>3, <2>6, <3>3, <4>1
      <4>. QED
        BY <2>5, <2>6, <3>1, <3>3, <4>1, <4>2
    <3>. QED
      BY <1>1, <2>2, <2>4, <3>2, <3>3
  <2>8. /\ proc'[p].offset = asked + proc'[p].doneOffset
        /\ proc[p].askedSize # 0 =>
              proc'[p].doneOffset + proc'[p].size = proc[p].askedSize
    BY <1>1, <2>2, <2>3, <2>4
  <2>9. ~Dispatched(p)' /\ proc'[p].tool = "nvread"
        /\ proc'[p].askedOffset = asked /\ proc'[p].askedSize = proc[p].askedSize
    BY <2>1, <2>4 DEF Dispatched, SameOptions
  <2>. HIDE DEF done, asked
  <2>10. ReadPlace(p)' /\ WritePlace(p)'
    BY <2>3, <2>7, <2>8, <2>9 DEF ReadPlace, WritePlace
  <2>. QED
    BY <2>1, <2>4, <2>5, <2>10
       DEF PlaceInv, WriteInPlace, Others, ReadPlace, WritePlace, Looping, Dispatched
<1>. QED
  BY <1>2, <1>3 DEF ReadChunk

\* A chunk that is written comes from the place in the buffer meant for it.
LEMMA WriteChunkPlace ==
    ASSUME PlaceInv, TypeInv', NEW p \in Procs, WriteChunk(p)
    PROVE  PlaceInv'
<1>. DEFINE n == Least(proc[p].size, proc[p].maxData)
            done == proc[p].doneOffset
            asked == proc[p].askedOffset
<1>1. n \in Nat /\ n <= proc[p].size
  BY ChunkType DEF PlaceInv
<1>2. CASE Return(p, "tpm_error") /\ UNCHANGED nv
  BY <1>2, FailsPlace DEF WriteChunk, nv
<1>3. CASE /\ index' = [index EXCEPT !.written = TRUE]
           /\ data' = Written(p, n)
           /\ proc' = [Disturbed(p) EXCEPT
                         ![p].size = @ - n, ![p].doneOffset = @ + n,
                         ![p].spent = proc[p].policy, ![p].wrote = TRUE]
  <2>. HIDE DEF n
  <2>1. /\ proc[p].tool = "nvwrite" /\ proc[p].pc = "transfer" /\ UNCHANGED buffer
        /\ index'.size = index.size
    BY <1>3 DEF WriteChunk, Running, PlaceInv, TypeInv, TypeOK, Index
  <2>2. /\ index.size \in Nat /\ done \in Nat /\ asked \in Nat
        /\ proc[p].size \in Nat /\ proc[p].askedSize \in Nat
    BY IndexAssumption DEF PlaceInv, TypeInv, TypeOK, Index, Process
  <2>3. /\ proc[p].offset = asked
        /\ done + proc[p].size = proc[p].askedSize
        /\ buffer[p] \in Bytes(proc[p].askedSize)
        /\ \A i \in 0..(proc[p].askedSize - 1) :
              buffer[p][i].by = p /\ buffer[p][i].at = asked + i
    BY <2>1 DEF PlaceInv, WritePlace
  <2>4. /\ Disturbs(p) /\ proc'[p].pc = proc[p].pc
        /\ SameOptions(proc'[p], proc[p])
        /\ proc'[p].offset = proc[p].offset
        /\ proc'[p].size = proc[p].size - n
        /\ proc'[p].doneOffset = proc[p].doneOffset + n
    BY <1>1, <1>3, <2>1, WriteOnEffect, Zenon DEF PlaceInv
  <2>5. \A j \in 0..(index.size - 1) :
           data'[j] = IF j \in (asked + done)..(asked + done + n - 1)
                      THEN Buffered(p, j - asked) ELSE data[j]
    BY <1>1, <1>3, <2>1, <2>3, WrittenType DEF PlaceInv
  <2>6. ASSUME NEW j \in 0..(index'.size - 1)
        PROVE  data'[j].at = j
    <3>1. CASE j \in (asked + done)..(asked + done + n - 1)
      <4>1. j - asked \in 0..(proc[p].askedSize - 1) /\ asked + (j - asked) = j
        BY <1>1, <2>2, <2>3, <3>1
      <4>2. Buffered(p, j - asked) = buffer[p][j - asked]
        BY <2>3, <4>1 DEF Buffered, Bytes
      <4>. QED
        BY <2>1, <2>3, <2>5, <3>1, <4>1, <4>2
    <3>2. CASE ~(j \in (asked + done)..(asked + done + n - 1))
      BY <2>1, <2>5, <3>2 DEF PlaceInv, WriteInPlace
    <3>. QED
      BY <3>1, <3>2
  <2>7. /\ proc'[p].doneOffset + proc'[p].size = proc[p].askedSize
        /\ ~Dispatched(p)' /\ proc'[p].tool = "nvwrite" /\ proc'[p].offset = asked
        /\ proc'[p].askedOffset = asked /\ proc'[p].askedSize = proc[p].askedSize
    BY <1>1, <2>1, <2>2, <2>3, <2>4 DEF Dispatched, SameOptions
  <2>. HIDE DEF done, asked
  <2>8. ReadPlace(p)' /\ WritePlace(p)'
    BY <2>1, <2>3, <2>7 DEF ReadPlace, WritePlace
  <2>9. \A q \in Procs \ {p} : ReadPlace(q)' /\ WritePlace(q)'
    BY <2>1, <2>4 DEF PlaceInv, Disturbs, ReadPlace, WritePlace, Looping, Dispatched,
                      SameOptions, SamePosition
  <2>. QED
    BY <2>6, <2>8, <2>9 DEF PlaceInv, WriteInPlace
<1>. QED
  BY <1>2, <1>3 DEF WriteChunk

-----------------------------------------------------------------------------
(* Tools that start.                                                       *)

LEMMA NvReadPlace ==
    ASSUME PlaceInv, TypeInv', NEW p \in Procs, NvRead(p)
    PROVE  PlaceInv'
<1>1. /\ Others(p) /\ proc'[p].tool = "nvread" /\ proc'[p].pc = "auth"
      /\ proc'[p].doneOffset = 0
      /\ proc'[p].askedSize \in Sizes /\ proc'[p].askedOffset \in Offsets
      /\ UNCHANGED <<index, data>>
      /\ \A q \in Procs \ {p} : buffer'[q] = buffer[q]
  BY NvReadEffect DEF PlaceInv, TypeInv, TypeOK, Fresh
<1>2. ~Looping(p)' /\ ~Dispatched(p)'
  BY <1>1 DEF Looping, Dispatched
<1>3. ReadPlace(p)' /\ WritePlace(p)'
  BY <1>1, <1>2 DEF ReadPlace, WritePlace
<1>. QED
  BY <1>1, <1>3
     DEF PlaceInv, WriteInPlace, Others, ReadPlace, WritePlace, Looping, Dispatched

LEMMA NvWritePlace ==
    ASSUME OptionsFit, PlaceInv, TypeInv', NEW p \in Procs, NvWrite(p)
    PROVE  PlaceInv'
<1>. DEFINE length == proc'[p].askedSize
            asked == proc'[p].askedOffset
<1>1. PICK given \in InputGiven :
        /\ Others(p) /\ proc'[p].tool = "nvwrite" /\ proc'[p].pc = "public"
        /\ proc'[p].doneOffset = 0
        /\ length \in Lengths /\ asked \in WriteOffsets
        /\ proc'[p].offset = asked
        /\ proc'[p].size = InputSize(given, length)
        /\ buffer' = [buffer EXCEPT ![p] = Input(p, given, length, proc'[p].offset)]
        /\ UNCHANGED <<index, data>>
  BY NvWriteEffect DEF PlaceInv, TypeInv, TypeOK, Fresh
<1>2. /\ length \in 0..MaxNvBuffer /\ length \in Nat /\ asked \in Nat
      /\ length \in 0..(Word - 1)
  <2>1. Lengths \subseteq 0..MaxNvBuffer /\ WriteOffsets \subseteq Nat
    BY InputAssumption, IndexAssumption DEF OptionsFit
  <2>. QED
    BY <1>1, <2>1, BufferAssumption, IndexAssumption
<1>3. /\ buffer'[p] = Loaded(p, length, asked)
      /\ \A q \in Procs \ {p} : buffer'[q] = buffer[q]
      /\ proc'[p].size = length
  BY <1>1, <1>2, Uint16Type
     DEF OptionsFit, Input, InputSize, PlaceInv, TypeInv, TypeOK
<1>4. /\ buffer'[p] \in Bytes(length)
      /\ \A i \in 0..(length - 1) :
            buffer'[p][i].by = p /\ buffer'[p][i].at = asked + i
  <2>. HIDE DEF length, asked
  <2>1. length <= MaxNvBuffer
    BY <1>2, BufferAssumption
  <2>2. /\ Least(length, MaxNvBuffer) = length
        /\ Loaded(p, length, asked) \in Bytes(length)
        /\ \A i \in 0..(length - 1) :
              /\ Loaded(p, length, asked)[i].by = p
              /\ Loaded(p, length, asked)[i].at = asked + i
    BY <1>2, <2>1, LoadedType
  <2>. QED
    BY <1>3, <2>2
<1>5. proc'[p].doneOffset + proc'[p].size = length /\ ~Dispatched(p)'
  BY <1>1, <1>2, <1>3 DEF Dispatched
<1>6. ReadPlace(p)' /\ WritePlace(p)'
  BY <1>1, <1>4, <1>5 DEF ReadPlace, WritePlace
<1>. QED
  BY <1>1, <1>3, <1>6
     DEF PlaceInv, WriteInPlace, Others, ReadPlace, WritePlace, Looping, Dispatched

LEMMA OtherToolPlace ==
    ASSUME PlaceInv, TypeInv', NEW p \in Procs, OtherTool(p)
    PROVE  PlaceInv'
<1>1. /\ Disturbs(p) /\ proc'[p].tool = "none"
      /\ NvDefine \/ NvUndefine \/ NvWriteLock
      /\ \A q \in Procs \ {p} : buffer'[q] = buffer[q]
  BY OtherToolEffect DEF PlaceInv, TypeInv, TypeOK
<1>2. WriteInPlace'
  <2>1. CASE NvDefine
    BY <2>1, NewIndexType, BlankType, IndexAssumption DEF NvDefine, WriteInPlace
  <2>2. CASE NvUndefine
    BY <2>2, NoIndexType DEF NvUndefine, WriteInPlace
  <2>3. CASE NvWriteLock
    BY <2>3 DEF NvWriteLock, PlaceInv, TypeInv, TypeOK, Index, WriteInPlace
  <2>. QED
    BY <1>1, <2>1, <2>2, <2>3
<1>3. ReadPlace(p)' /\ WritePlace(p)'
  BY <1>1 DEF ReadPlace, WritePlace
<1>4. \A q \in Procs \ {p} : ReadPlace(q)' /\ WritePlace(q)'
  BY <1>1 DEF PlaceInv, Disturbs, ReadPlace, WritePlace, Looping, Dispatched,
              SameOptions, SamePosition
<1>. QED
  BY <1>2, <1>3, <1>4 DEF PlaceInv

LEMMA PlaceNext ==
    ASSUME OptionsFit
    PROVE  PlaceInv /\ [Next]_vars => PlaceInv'
<1>. SUFFICES ASSUME PlaceInv, [Next]_vars PROVE PlaceInv'
  OBVIOUS
<1>0. proc \in [Procs -> Process] /\ TypeInv /\ TypeInv'
  BY TypeNext DEF PlaceInv, TypeInv, TypeOK
<1>1. ASSUME NEW p \in Procs, MaxBufferSize(p) PROVE PlaceInv'
  BY <1>0, <1>1, MaxBufferSizeEffect, StaysPlace DEF Looping, Dispatched
<1>2. ASSUME NEW p \in Procs, ReadAuth(p) PROVE PlaceInv'
  <2>1. CASE Return(p, "tpm_error")
    BY <1>0, <1>2, <2>1, FailsPlace DEF ReadAuth, Authorise, nv
  <2>2. CASE proc' = [proc EXCEPT ![p].pc = "public"]
    BY <1>0, <1>2, <2>2, PhaseEffect, StaysPlace
       DEF ReadAuth, Authorise, nv, Looping, Dispatched
  <2>. QED
    BY <1>2, <2>1, <2>2 DEF ReadAuth, Authorise
<1>3. ASSUME NEW p \in Procs, WritePublic(p) PROVE PlaceInv'
  <2>1. CASE Return(p, "option_error")
    BY <1>0, <1>3, <2>1, FailsPlace DEF WritePublic, nv
  <2>2. CASE proc' = [proc EXCEPT ![p].pc = "auth"]
    BY <1>0, <1>3, <2>2, PhaseEffect, StaysPlace
       DEF WritePublic, nv, Looping, Dispatched
  <2>. QED
    BY <1>3, <2>1, <2>2 DEF WritePublic
<1>4. ASSUME NEW p \in Procs, WriteAuth(p) PROVE PlaceInv'
  <2>1. CASE Return(p, "tpm_error")
    BY <1>0, <1>4, <2>1, FailsPlace DEF WriteAuth, Authorise, nv
  <2>2. CASE proc' = [proc EXCEPT ![p].pc = AfterPublic(p)]
    <3>1. AfterPublic(p) \in {"idle", "public", "auth", "max", "transfer"}
      BY DEF AfterPublic
    <3>2. /\ Others(p) /\ proc'[p].pc = AfterPublic(p)
          /\ SameOptions(proc'[p], proc[p]) /\ SamePosition(proc'[p], proc[p])
          /\ proc[p].tool = "nvwrite" /\ UNCHANGED <<index, data, buffer>>
      <4>. DEFINE pc == AfterPublic(p)
      <4>1. proc' = [proc EXCEPT ![p].pc = pc]
        BY <2>2
      <4>. HIDE DEF pc
      <4>2. /\ Others(p) /\ proc'[p].pc = pc
            /\ SameOptions(proc'[p], proc[p]) /\ SamePosition(proc'[p], proc[p])
        BY <1>0, <3>1, <4>1, PhaseEffect DEF pc
      <4>. QED
        BY <1>4, <4>2 DEF WriteAuth, Running, nv, pc, Authorise
    <3>3. ~Dispatched(p)'
      BY <3>2 DEF Dispatched, AfterPublic, SameOptions
    <3>. QED
      BY <1>0, <3>2, <3>3, StaysPlace
  <2>. QED
    BY <1>4, <2>1, <2>2 DEF WriteAuth, Authorise
<1>5. ASSUME NEW p \in Procs, Fail(p) PROVE PlaceInv'
  BY <1>0, <1>5, FailEffect, StaysPlace DEF Looping, Dispatched
<1>6. CASE UNCHANGED vars
  BY <1>0, <1>6 DEF vars, PlaceInv, WriteInPlace, ReadPlace, WritePlace,
                    Looping, Dispatched
<1>. QED
  BY <1>0, <1>1, <1>2, <1>3, <1>4, <1>5, <1>6, FinishPlace, ReadPublicPlace,
     ReadChunkPlace, WriteChunkPlace, NvReadPlace, NvWritePlace, OtherToolPlace
     DEF Next, Step, Finished

(***************************************************************************)
(* The chunk loop of tpm2_nvwrite.c puts every byte of the input at the    *)
(* place it is meant for, and nothing else is ever written, when the input *)
(* is given and fits the buffer.                                           *)
(***************************************************************************)
THEOREM WritesInPlace ==
    ASSUME OptionsFit
    PROVE  Spec => []WriteInPlace
<1>1. PlaceInv => WriteInPlace
  BY DEF PlaceInv
<1>. QED
  BY PlaceInit, PlaceNext, <1>1, PTL DEF Spec

(***************************************************************************)
(* Byte i of an nvread that exits with 0 was meant for the place           *)
(* --offset + i, and there are as many bytes as --size asks for, when both *)
(* fit a UINT16.                                                           *)
(***************************************************************************)
THEOREM ReadsInPlace ==
    ASSUME OptionsFit
    PROVE  Spec => []ReadInPlace
<1>1. PlaceInv => ReadInPlace
  <2>. SUFFICES ASSUME PlaceInv, NEW p \in Procs,
                       Ended(p, "nvread", "success"), ~proc[p].cpHash
                PROVE  /\ \A i \in 0..(proc[p].doneOffset - 1) :
                             buffer[p][i].at = proc[p].askedOffset + i
                       /\ proc[p].askedSize # 0 =>
                             proc[p].doneOffset = proc[p].askedSize
    BY DEF ReadInPlace
  <2>1. proc[p].tool = "nvread" /\ Dispatched(p)
    BY DEF Ended, Dispatched
  <2>2. proc[p].doneOffset \in Nat /\ proc[p].askedSize \in Nat
    BY IndexAssumption DEF PlaceInv, TypeInv, TypeOK, Process
  <2>3. /\ proc[p].size = 0
        /\ proc[p].askedSize # 0 =>
              proc[p].doneOffset + proc[p].size = proc[p].askedSize
        /\ \A i \in 0..(proc[p].doneOffset - 1) :
              buffer[p][i].at = proc[p].askedOffset + i
    BY <2>1 DEF PlaceInv, ReadPlace
  <2>. QED
    BY <2>2, <2>3
<1>. QED
  BY PlaceInit, PlaceNext, <1>1, PTL DEF Spec

-----------------------------------------------------------------------------
(* A write is whole or not at all.  The index that nvwrite has looked at   *)
(* has room for all of the input, and stays as it is while the tool is     *)
(* alone; what made the first chunk possible makes the others possible.    *)

WriteWhole(p) ==
    proc[p].tool = "nvwrite" =>
        /\ proc[p].pc \in {"public", "auth", "max"} =>
              ~proc[p].wrote /\ proc[p].doneOffset = 0
        /\ proc[p].cpHash => ~proc[p].wrote /\ ~Looping(p)
        /\ proc[p].alone /\ proc[p].pc \in {"auth", "max", "transfer"} =>
              proc[p].askedOffset + proc[p].askedSize <= index.size
        /\ proc[p].alone /\ proc[p].wrote /\ proc[p].pc = "transfer" =>
              index.defined /\ ~index.locked
        /\ proc[p].alone =>
              \A i \in 0..(proc[p].doneOffset - 1) :
                  data[proc[p].askedOffset + i].by = p
        /\ proc[p].wrote /\ proc[p].pc = "idle" /\ proc[p].rc # "success" =>
              ~proc[p].alone \/ proc[p].fault \/ proc[p].spent

WholeInv == PlaceInv /\ \A p \in Procs : WriteWhole(p)

LEMMA QuietWhole ==
    ASSUME WholeInv, PlaceInv', NEW p \in Procs, Others(p),
           UNCHANGED <<index, data>>, WriteWhole(p)'
    PROVE  WholeInv'
BY DEF WholeInv, Others, WriteWhole, Looping

LEMMA DisturbsWhole ==
    ASSUME WholeInv, PlaceInv', NEW p \in Procs, Disturbs(p), WriteWhole(p)'
    PROVE  WholeInv'
BY DEF WholeInv, Disturbs, WriteWhole, Looping, SameOptions, SamePosition

\* A step by a process that is not writing, or one that ends without having
\* written, or meets a fault.
LEMMA ReadsWhole ==
    ASSUME WholeInv, PlaceInv', NEW p \in Procs, Others(p),
           UNCHANGED <<index, data>>, proc'[p].tool # "nvwrite"
    PROVE  WholeInv'
<1>1. WriteWhole(p)'
  BY DEF WriteWhole
<1>. QED
  BY <1>1, QuietWhole

LEMMA EndsWhole ==
    ASSUME WholeInv, PlaceInv', NEW p \in Procs, Others(p),
           UNCHANGED <<index, data>>, proc'[p].pc = "idle",
           SameOptions(proc'[p], proc[p]), SamePosition(proc'[p], proc[p]),
           proc'[p].alone = proc[p].alone, proc'[p].wrote = proc[p].wrote,
           \/ proc'[p].rc = "success" \/ ~proc[p].wrote \/ ~proc[p].alone
           \/ proc'[p].fault \/ proc[p].spent
    PROVE  WholeInv'
<1>. SUFFICES ASSUME proc[p].tool = "nvwrite" PROVE WriteWhole(p)'
  BY QuietWhole, ReadsWhole DEF SameOptions
<1>1. /\ proc[p].cpHash => ~proc[p].wrote
      /\ proc[p].alone => \A i \in 0..(proc[p].doneOffset - 1) :
                              data[proc[p].askedOffset + i].by = p
  BY DEF WholeInv, WriteWhole
<1>. QED
  BY <1>1 DEF WriteWhole, Looping, SameOptions, SamePosition

\* A step that goes on before the first chunk.
LEMMA GoesWhole ==
    ASSUME WholeInv, PlaceInv', NEW p \in Procs, Others(p),
           UNCHANGED <<index, data>>, proc[p].pc \in {"public", "auth", "max"},
           proc'[p].pc \in {"auth", "max", "transfer"},
           SameOptions(proc'[p], proc[p]), SamePosition(proc'[p], proc[p]),
           SameHistory(proc'[p], proc[p]),
           proc[p].tool = "nvwrite" =>
               /\ proc[p].cpHash => proc'[p].pc = "auth"
               /\ proc[p].alone =>
                     proc[p].askedOffset + proc[p].askedSize <= index.size
    PROVE  WholeInv'
<1>. SUFFICES ASSUME proc[p].tool = "nvwrite" PROVE WriteWhole(p)'
  BY QuietWhole, ReadsWhole DEF SameOptions
<1>1. ~proc[p].wrote /\ proc[p].doneOffset = 0
  BY DEF WholeInv, WriteWhole
<1>. QED
  BY <1>1 DEF WriteWhole, Looping, SameOptions, SamePosition, SameHistory

LEMMA WriteChunkWhole ==
    ASSUME WholeInv, PlaceInv', NEW p \in Procs, WriteChunk(p)
    PROVE  WholeInv'
<1>. DEFINE n == Least(proc[p].size, proc[p].maxData)
            done == proc[p].doneOffset
            asked == proc[p].askedOffset
<1>1. n \in Nat /\ n <= proc[p].size
  BY ChunkType DEF WholeInv, PlaceInv
<1>2. /\ proc[p].tool = "nvwrite" /\ proc[p].pc = "transfer"
      /\ UNCHANGED buffer
  BY DEF WriteChunk, Running
<1>3. /\ index.size \in Nat /\ done \in Nat /\ asked \in Nat
      /\ proc[p].size \in Nat /\ proc[p].askedSize \in Nat
  BY IndexAssumption DEF WholeInv, PlaceInv, TypeInv, TypeOK, Index, Process
<1>4. /\ proc[p].offset = asked
      /\ done + proc[p].size = proc[p].askedSize
      /\ buffer[p] \in Bytes(proc[p].askedSize)
      /\ \A i \in 0..(proc[p].askedSize - 1) : buffer[p][i].by = p
  BY <1>2 DEF WholeInv, PlaceInv, WritePlace
<1>5. /\ ~proc[p].cpHash
      /\ proc[p].alone => asked + proc[p].askedSize <= index.size
      /\ proc[p].alone /\ proc[p].wrote => index.defined /\ ~index.locked
      /\ proc[p].alone => \A i \in 0..(done - 1) : data[asked + i].by = p
  BY <1>2 DEF WholeInv, WriteWhole, Looping
<1>6. CASE ~CanWrite(p, proc[p].offset + done, n) /\ Return(p, "tpm_error") /\ UNCHANGED nv
  <2>1. /\ Others(p) /\ proc'[p].pc = "idle"
        /\ SameOptions(proc'[p], proc[p]) /\ SamePosition(proc'[p], proc[p])
        /\ SameHistory(proc'[p], proc[p])
    BY <1>6, ReturnEffect DEF WholeInv, PlaceInv, TypeInv, TypeOK
  <2>2. proc[p].alone => proc[p].offset + done + n <= index.size
    BY <1>1, <1>3, <1>4, <1>5
  <2>3. ~proc[p].wrote \/ ~proc[p].alone \/ proc[p].spent
    BY <1>5, <1>6, <2>2 DEF CanWrite, Authorised
  <2>. QED
    BY <1>6, <2>1, <2>3, EndsWhole DEF SameHistory, nv
<1>7. CASE /\ CanWrite(p, proc[p].offset + done, n)
           /\ index' = [index EXCEPT !.written = TRUE]
           /\ data' = Written(p, n)
           /\ proc' = [Disturbed(p) EXCEPT
                         ![p].size = @ - n, ![p].doneOffset = @ + n,
                         ![p].spent = proc[p].policy, ![p].wrote = TRUE]
  <2>. HIDE DEF n
  <2>1. /\ index'.size = index.size /\ index'.defined = index.defined
        /\ index'.locked = index.locked
        /\ index.defined /\ ~index.locked /\ asked + done + n <= index.size
    BY <1>4, <1>7 DEF WholeInv, PlaceInv, TypeInv, TypeOK, Index, CanWrite
  <2>2. /\ Disturbs(p) /\ proc'[p].pc = proc[p].pc
        /\ SameOptions(proc'[p], proc[p])
        /\ proc'[p].alone = proc[p].alone
        /\ proc'[p].doneOffset = proc[p].doneOffset + n
    BY <1>1, <1>2, <1>7, WriteOnEffect, Zenon DEF WholeInv, PlaceInv
  <2>3. \A j \in 0..(index.size - 1) :
           data'[j] = IF j \in (asked + done)..(asked + done + n - 1)
                      THEN Buffered(p, j - asked) ELSE data[j]
    BY <1>1, <1>2, <1>4, <1>7, WrittenType DEF WholeInv, PlaceInv
  <2>4. ASSUME proc[p].alone, NEW i \in 0..(done + n - 1)
        PROVE  data'[asked + i].by = p
    <3>1. asked + i \in 0..(index.size - 1)
      BY <1>1, <1>3, <2>1
    <3>2. CASE i \in 0..(done - 1)
      <4>1. ~(asked + i \in (asked + done)..(asked + done + n - 1))
        BY <1>1, <1>3, <3>2
      <4>. QED
        BY <1>5, <2>3, <2>4, <3>1, <3>2, <4>1
    <3>3. CASE i \in done..(done + n - 1)
      <4>1. /\ asked + i \in (asked + done)..(asked + done + n - 1)
            /\ (asked + i) - asked = i
            /\ i \in 0..(proc[p].askedSize - 1)
        BY <1>1, <1>3, <1>4, <3>3
      <4>2. data'[asked + i] = Buffered(p, i)
        BY <2>3, <3>1, <4>1
      <4>3. Buffered(p, i) = buffer[p][i]
        BY <1>4, <4>1 DEF Buffered, Bytes
      <4>. QED
        BY <1>4, <4>1, <4>2, <4>3
    <3>. QED
      BY <1>1, <1>3, <3>2, <3>3
  <2>5. /\ proc'[p].askedOffset = asked /\ proc'[p].askedSize = proc[p].askedSize
        /\ proc'[p].cpHash = proc[p].cpHash /\ proc'[p].pc = "transfer"
        /\ proc'[p].doneOffset = done + n
    BY <1>2, <2>2 DEF SameOptions
  <2>6. proc[p].alone => \A i \in 0..(proc'[p].doneOffset - 1) :
                             data'[proc'[p].askedOffset + i].by = p
    <3>. SUFFICES ASSUME proc[p].alone, NEW i \in 0..(proc'[p].doneOffset - 1)
                  PROVE  data'[proc'[p].askedOffset + i].by = p
      OBVIOUS
    <3>1. i \in 0..(done + n - 1)
      BY <1>1, <1>3, <2>5
    <3>. QED
      BY <2>4, <2>5, <3>1
  <2>. HIDE DEF done, asked
  <2>7. WriteWhole(p)'
    BY <1>5, <2>1, <2>2, <2>5, <2>6 DEF WriteWhole
  <2>. QED
    BY <2>2, <2>7, DisturbsWhole
<1>. QED
  BY <1>6, <1>7 DEF WriteChunk

\* The check in front of the loop is for all of the input.
LEMMA WritePublicWhole ==
    ASSUME WholeInv, PlaceInv', NEW p \in Procs, WritePublic(p)
    PROVE  WholeInv'
<1>0. /\ proc \in [Procs -> Process]
      /\ proc[p].tool = "nvwrite" /\ proc[p].pc = "public"
      /\ UNCHANGED <<index, data>>
  BY DEF WritePublic, Running, nv, WholeInv, PlaceInv, TypeInv, TypeOK
<1>1. ~proc[p].wrote /\ proc[p].doneOffset = 0
  BY <1>0 DEF WholeInv, WriteWhole
<1>2. CASE Return(p, "option_error")
  BY <1>0, <1>1, <1>2, ReturnEffect, EndsWhole DEF SameHistory
<1>3. CASE WriteFits(p) /\ proc' = [proc EXCEPT ![p].pc = "auth"]
  <2>1. proc[p].askedOffset + proc[p].askedSize <= index.size
    <3>1. proc[p].size \in Nat
      BY <1>0, IndexAssumption DEF Process
    <3>2. /\ proc[p].offset = proc[p].askedOffset
          /\ proc[p].doneOffset + proc[p].size = proc[p].askedSize
      BY <1>0 DEF WholeInv, PlaceInv, WritePlace
    <3>. QED
      BY <1>1, <1>3, <3>1, <3>2 DEF WriteFits
  <2>. QED
    BY <1>0, <1>3, <2>1, PhaseEffect, GoesWhole
<1>. QED
  BY <1>2, <1>3 DEF WritePublic

LEMMA WriteAuthWhole ==
    ASSUME WholeInv, PlaceInv', NEW p \in Procs, WriteAuth(p)
    PROVE  WholeInv'
<1>0. /\ proc \in [Procs -> Process]
      /\ proc[p].tool = "nvwrite" /\ proc[p].pc = "auth"
      /\ UNCHANGED <<index, data>>
  BY DEF WriteAuth, Authorise, Running, nv, WholeInv, PlaceInv, TypeInv, TypeOK
<1>1. /\ ~proc[p].wrote
      /\ proc[p].alone => proc[p].askedOffset + proc[p].askedSize <= index.size
  BY <1>0 DEF WholeInv, WriteWhole
<1>2. CASE Return(p, "tpm_error")
  BY <1>0, <1>1, <1>2, ReturnEffect, EndsWhole DEF SameHistory
<1>3. CASE proc' = [proc EXCEPT ![p].pc = "idle"]
  <2>1. /\ Others(p) /\ proc'[p].pc = "idle"
        /\ SameOptions(proc'[p], proc[p]) /\ SamePosition(proc'[p], proc[p])
        /\ SameHistory(proc'[p], proc[p])
    BY <1>0, <1>3, PhaseEffect
  <2>. QED
    BY <1>0, <1>1, <2>1, EndsWhole DEF SameHistory
<1>4. CASE ~proc[p].cpHash /\ proc' = [proc EXCEPT ![p].pc = "max"]
  BY <1>0, <1>1, <1>4, PhaseEffect, GoesWhole
<1>. QED
  BY <1>2, <1>3, <1>4 DEF WriteAuth, Authorise, AfterPublic

LEMMA WholeNext ==
    ASSUME OptionsFit
    PROVE  WholeInv /\ [Next]_vars => WholeInv'
<1>. SUFFICES ASSUME WholeInv, [Next]_vars PROVE WholeInv'
  OBVIOUS
<1>0. proc \in [Procs -> Process] /\ TypeInv /\ PlaceInv'
  BY PlaceNext DEF WholeInv, PlaceInv, TypeInv, TypeOK
<1>1. ASSUME NEW p \in Procs, MaxBufferSize(p) PROVE WholeInv'
  <2>1. /\ Others(p) /\ proc[p].pc = "max" /\ proc'[p].pc = "transfer"
        /\ SameOptions(proc'[p], proc[p]) /\ SamePosition(proc'[p], proc[p])
        /\ SameHistory(proc'[p], proc[p]) /\ UNCHANGED <<index, data>>
    BY <1>0, <1>1, MaxBufferSizeEffect
  <2>2. proc[p].tool = "nvwrite" =>
           /\ ~proc[p].cpHash
           /\ proc[p].alone => proc[p].askedOffset + proc[p].askedSize <= index.size
    BY <2>1 DEF WholeInv, WriteWhole, Looping
  <2>. QED
    BY <1>0, <2>1, <2>2, GoesWhole
<1>2. ASSUME NEW p \in Procs, Finish(p) PROVE WholeInv'
  BY <1>0, <1>2, ReturnEffect, EndsWhole DEF Finish, nv, SameHistory
<1>3. ASSUME NEW p \in Procs, ReadAuth(p) PROVE WholeInv'
  BY <1>0, <1>3, ReturnEffect, PhaseEffect, ReadsWhole
     DEF ReadAuth, Authorise, Running, nv, SameOptions
<1>4. ASSUME NEW p \in Procs, ReadPublic(p) PROVE WholeInv'
  BY <1>0, <1>4, ReadPublicEffect, ReturnEffect, ReadsWhole DEF SameOptions
<1>5. ASSUME NEW p \in Procs, ReadChunk(p) PROVE WholeInv'
  <2>. DEFINE n == Least(proc[p].size, proc[p].maxData)
  <2>1. n \in Nat /\ n <= proc[p].size
    BY <1>0, ChunkType
  <2>2. proc[p].tool = "nvread" /\ UNCHANGED <<index, data>>
    BY <1>5 DEF ReadChunk, Running, nv
  <2>3. CASE Return(p, "tpm_error")
    BY <1>0, <2>2, <2>3, ReturnEffect, ReadsWhole DEF SameOptions
  <2>4. CASE CanRead(p, proc[p].offset, n) /\ ReadOn(p, n)
    <3>. HIDE DEF n
    <3>1. proc[p].offset + n <= Word - 1
      BY <1>0, <2>1, <2>4, IndexAssumption DEF CanRead, TypeInv, TypeOK, Index, Process
    <3>. QED
      BY <1>0, <2>1, <2>2, <2>4, <3>1, ReadOnEffect, ReadsWhole DEF SameOptions
  <2>. QED
    BY <1>5, <2>3, <2>4 DEF ReadChunk
<1>6. ASSUME NEW p \in Procs, NvRead(p) PROVE WholeInv'
  BY <1>0, <1>6, NvReadEffect, ReadsWhole
<1>7. ASSUME NEW p \in Procs, NvWrite(p) PROVE WholeInv'
  <2>1. /\ Others(p) /\ proc'[p].pc = "public" /\ Fresh(proc'[p])
        /\ UNCHANGED <<index, data>>
    BY <1>0, <1>7, NvWriteEffect
  <2>2. WriteWhole(p)'
    BY <2>1 DEF WriteWhole, Looping, Fresh
  <2>. QED
    BY <1>0, <2>1, <2>2, QuietWhole
<1>8. ASSUME NEW p \in Procs, OtherTool(p) PROVE WholeInv'
  <2>1. Disturbs(p) /\ proc'[p].tool = "none"
    BY <1>0, <1>8, OtherToolEffect
  <2>. QED
    BY <1>0, <2>1, DisturbsWhole DEF WriteWhole
<1>9. ASSUME NEW p \in Procs, Fail(p) PROVE WholeInv'
  BY <1>0, <1>9, FailEffect, EndsWhole
<1>10. CASE UNCHANGED vars
  BY <1>0, <1>10 DEF vars, WholeInv, WriteWhole, Looping
<1>. QED
  BY <1>0, <1>1, <1>2, <1>3, <1>4, <1>5, <1>6, <1>7, <1>8, <1>9, <1>10,
     WritePublicWhole, WriteAuthWhole, WriteChunkWhole DEF Next, Step, Finished

(***************************************************************************)
(* An nvwrite writes all of its input or nothing, unless another process   *)
(* changes the index or the TPM fails in between, or the session that      *)
(* authorises the write has a policy: the check in front of the loop of    *)
(* tpm2_nvwrite.c is enough for any number of chunks.                      *)
(***************************************************************************)
THEOREM WritesWhole ==
    ASSUME OptionsFit
    PROVE  Spec => []AllOrNothing
<1>1. Init => WholeInv
  BY PlaceInit DEF Init, Idle, WholeInv, WriteWhole
<1>2. WholeInv => AllOrNothing
  <2>. SUFFICES ASSUME WholeInv, NEW p \in Procs,
                       proc[p].tool = "nvwrite", proc[p].pc = "idle"
                PROVE  /\ proc[p].cpHash => ~proc[p].wrote
                       /\ proc[p].rc = "success" /\ proc[p].alone /\ ~proc[p].cpHash =>
                             \A i \in 0..(proc[p].askedSize - 1) :
                                 data[proc[p].askedOffset + i].by = p
                       /\ proc[p].rc # "success" /\ proc[p].wrote =>
                             ~proc[p].alone \/ proc[p].fault \/ proc[p].spent
    BY DEF AllOrNothing
  <2>1. /\ proc[p].doneOffset \in Nat /\ proc[p].askedSize \in Nat
        /\ proc[p].size \in Nat
    BY IndexAssumption DEF WholeInv, PlaceInv, TypeInv, TypeOK, Process
  <2>2. ASSUME Dispatched(p) PROVE proc[p].askedSize = proc[p].doneOffset
    BY <2>1, <2>2 DEF WholeInv, PlaceInv, WritePlace
  <2>. QED
    BY <2>2 DEF WholeInv, WriteWhole, Dispatched
<1>. QED
  BY WholeNext, <1>1, <1>2, PTL DEF Spec
=============================================================================
