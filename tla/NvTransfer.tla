----------------------------- MODULE NvTransfer -----------------------------
(***************************************************************************)
(* tpm2_nvread and tpm2_nvwrite moving data to and from one NV index, a    *)
(* buffer of the TPM at a time, while other processes read, write, lock,   *)
(* undefine and define the index.                                          *)
(*                                                                         *)
(* tpm2_util_nv_read (lib/tpm2_nv_util.h) and tpm2_nvwrite.c look at the   *)
(* size of the index first and trust it afterwards.  Every TPM command and *)
(* file access may fail.  A byte of this model stands for a block of them; *)
(* it is labelled with the place in the index it is meant for.             *)
(***************************************************************************)
EXTENDS Integers

CONSTANTS
    Procs,         \* processes: shells that run one tool after another
    Nobody,        \* the writer of a byte no tool has written
    IndexSizes,    \* the sizes an index is defined with
    Word,          \* 2^16: what a UINT16 wraps at
    MaxNvBuffer,   \* TPM2_MAX_NV_BUFFER_SIZE
    DefaultBuffer, \* NV_DEFAULT_BUFFER_SIZE
    BufferMax,     \* the values TPM2_PT_NV_BUFFER_MAX may have
    Sizes,         \* the --size of an nvread, 0 if there is none
    Offsets,       \* the --offset of an nvread
    WriteOffsets,  \* the --offset of an nvwrite
    Lengths,       \* lengths of the standard input of an nvwrite
    InputGiven,    \* whether the -i of an nvwrite is there
    MaxRuns        \* bound on the number of tool invocations

ASSUME IndexAssumption == Word \in Nat /\ IndexSizes \subseteq 0..(Word - 1)
ASSUME BufferAssumption ==
    /\ MaxNvBuffer \in Nat \ {0} /\ MaxNvBuffer < Word
    /\ DefaultBuffer \in 1..MaxNvBuffer
    /\ BufferMax \subseteq Nat
ASSUME InputAssumption ==
    /\ Sizes \subseteq Nat /\ Offsets \subseteq Nat /\ Lengths \subseteq Nat
    /\ WriteOffsets \subseteq 0..(Word - 1)
    /\ InputGiven \subseteq BOOLEAN
ASSUME RunsAssumption == MaxRuns \in Nat /\ Nobody \notin Procs

VARIABLES
    index,   \* the public area of the NV index
    data,    \* its data
    proc,    \* the processes
    buffer,  \* their data_buffer (nvread) or nv_buffer (nvwrite)
    runs     \* invocations so far

nv == <<index, data>>
vars == <<index, data, proc, buffer, runs>>

\* A byte that is not of the input is meant for no place.
Elsewhere == -1
Byte == [by: Procs \cup {Nobody}, at: Int]
Bytes(n) == [0..(n - 1) -> Byte]
Junk == [by |-> Nobody, at |-> Elsewhere]

(***************************************************************************)
(* size is the dataSize of the index, written and locked are attributes.   *)
(* A process has the options it was given (askedSize, askedOffset, cpHash, *)
(* policy: it authorises with a policy session); size and offset as the    *)
(* code has them; doneOffset, the data_offset of both tools; maxData, the  *)
(* max_data_size; spent: its policy session has authorised a command, and  *)
(* its policy is no longer satisfied.  History: it is alone while nobody   *)
(* else has changed the index, it met a fault, it wrote.                   *)
(***************************************************************************)
Index == [defined: BOOLEAN, written: BOOLEAN, locked: BOOLEAN, size: 0..(Word - 1)]

Process ==
    [tool: {"none", "nvread", "nvwrite"},
     pc: {"idle", "public", "auth", "max", "transfer"},
     rc: {"success", "general_error", "option_error", "tpm_error"},
     askedSize: Nat, askedOffset: Nat, cpHash: BOOLEAN, policy: BOOLEAN,
     size: 0..(Word - 1), offset: 0..(Word - 1), doneOffset: 0..(Word - 1),
     maxData: 0..MaxNvBuffer, spent: BOOLEAN,
     alone: BOOLEAN, fault: BOOLEAN, wrote: BOOLEAN]

TypeOK ==
    /\ index \in Index
    /\ data \in Bytes(index.size)
    /\ proc \in [Procs -> Process]
    /\ DOMAIN buffer = Procs
    /\ \A p \in Procs : \E n \in 0..(Word - 1) : buffer[p] \in Bytes(n)
    /\ runs \in 0..MaxRuns

Blank(n) == [i \in 0..(n - 1) |-> [by |-> Nobody, at |-> i]]

NoIndex == [defined |-> FALSE, written |-> FALSE, locked |-> FALSE, size |-> 0]
NewIndex(n) == [NoIndex EXCEPT !.defined = TRUE, !.size = n]

Idle == [tool |-> "none", pc |-> "idle", rc |-> "success",
         askedSize |-> 0, askedOffset |-> 0, cpHash |-> FALSE, policy |-> FALSE,
         size |-> 0, offset |-> 0, doneOffset |-> 0, maxData |-> 0,
         spent |-> FALSE, alone |-> TRUE, fault |-> FALSE, wrote |-> FALSE]

Init ==
    /\ \/ index = NoIndex
       \/ \E n \in IndexSizes, w \in BOOLEAN :
             index = [NewIndex(n) EXCEPT !.written = w]
    /\ data = Blank(index.size)
    /\ proc = [p \in Procs |-> Idle]
    /\ buffer = [p \in Procs |-> Blank(0)]
    /\ runs = 0

-----------------------------------------------------------------------------
(* External: the TPM's commands on the index.                              *)

\* The policy of a policy session holds for one command.
Authorised(p) == ~proc[p].spent

CanRead(p, offset, n) ==
    index.defined /\ index.written /\ offset + n <= index.size /\ Authorised(p)

CanWrite(p, offset, n) ==
    index.defined /\ ~index.locked /\ offset + n <= index.size /\ Authorised(p)

\* p changes the index: nobody else is alone with it any more.
Disturbed(p) ==
    [q \in Procs |-> IF q = p THEN proc[q] ELSE [proc[q] EXCEPT !.alone = FALSE]]

-----------------------------------------------------------------------------
(* Common to the two tools.                                                *)

Least(m, n) == IF m < n THEN m ELSE n

Running(p, tool, pc) == proc[p].tool = tool /\ proc[p].pc = pc

Return(p, rc) == proc' = [proc EXCEPT ![p].pc = "idle", ![p].rc = rc]

\* A tool starts, with any of the options that both tools have.
Invoke(p, image, loaded) ==
    /\ proc[p].pc = "idle"
    /\ runs < MaxRuns
    /\ runs' = runs + 1
    /\ \E cp, policy \in BOOLEAN :
          /\ ~(cp /\ policy)  \* no session is used up by --cphash
          /\ proc' = [proc EXCEPT ![p] = [image EXCEPT !.cpHash = cp, !.policy = policy]]
    /\ buffer' = [buffer EXCEPT ![p] = loaded]
    /\ UNCHANGED nv

\* A command, an authorisation, or a file access fails for its own reasons.
Fail(p) ==
    /\ proc[p].pc # "idle"
    /\ proc' = [proc EXCEPT ![p].pc = "idle", ![p].rc = "tpm_error",
                            ![p].fault = TRUE]
    /\ UNCHANGED <<nv, buffer, runs>>

\* Fault: a TPM that reports 0 is believed.
ClampedAbove(value) == IF value > MaxNvBuffer THEN MaxNvBuffer ELSE value

\* Fault: a TPM that reports more than the library's buffers hold is believed.
ClampedBelow(value) == IF value = 0 THEN DefaultBuffer ELSE value

\* The size of a transfer: at most what a TPM2B_MAX_NV_BUFFER holds, never 0.
Clamped(value) ==
    IF value > MaxNvBuffer THEN MaxNvBuffer
    ELSE IF value = 0 THEN DefaultBuffer
    ELSE value

MaxBufferSize(p) ==
    /\ proc[p].pc = "max"
    /\ \E value \in BufferMax \cup {DefaultBuffer} :
          proc' = [proc EXCEPT ![p].maxData = Clamped(value), ![p].pc = "transfer"]
    /\ UNCHANGED <<nv, buffer, runs>>

\* With --cphash the command is not dispatched; its hash is saved instead.
AfterPublic(p) == IF proc[p].cpHash THEN "idle" ELSE "max"

-----------------------------------------------------------------------------
(* tpm2_nvread.                                                            *)

NvRead(p) ==
    \E size \in Sizes, offset \in Offsets :
        Invoke(p, [Idle EXCEPT !.tool = "nvread", !.pc = "auth",
                               !.askedSize = size, !.askedOffset = offset],
               Blank(0))

\* The authorisation is that of the index, which must exist, or a hierarchy's.
Authorise(p, pc) ==
    /\ \/ proc' = [proc EXCEPT ![p].pc = pc]
       \/ ~index.defined /\ Return(p, "tpm_error")
    /\ UNCHANGED <<nv, buffer, runs>>

ReadAuth(p) == Running(p, "nvread", "auth") /\ Authorise(p, "public")

\* ctx.size_to_read and ctx.offset are UINT32, the parameters are UINT16.
Uint16(n) == n % Word

\* A size of 0 stands for the whole index.
ReadSize(p) ==
    IF Uint16(proc[p].askedSize) = 0 THEN index.size ELSE Uint16(proc[p].askedSize)

ReadFits(size, offset) == offset <= index.size /\ offset + size <= index.size

ReadPublic(p) ==
    /\ Running(p, "nvread", "public")
    /\ LET size == ReadSize(p)
           offset == Uint16(proc[p].askedOffset)
       IN  IF ~index.defined THEN Return(p, "tpm_error")
           ELSE IF ~ReadFits(size, offset) THEN Return(p, "general_error")
           ELSE proc' = [proc EXCEPT ![p].size = size, ![p].offset = offset,
                                     ![p].pc = AfterPublic(p)]
    /\ UNCHANGED <<nv, buffer, runs>>

\* The data read so far, followed by n bytes of the index.
Received(p, n) ==
    LET done == proc[p].doneOffset
    IN  [i \in 0..(done + n - 1) |->
            IF i < done THEN buffer[p][i] ELSE data[proc[p].offset + i - done]]

\* Fault: every chunk is read from the first offset.
ReadOnInBuffer(p, n) ==
    proc' = [proc EXCEPT ![p].size = @ - n,
                         ![p].doneOffset = @ + n, ![p].spent = proc[p].policy]

\* The offset, the place in the buffer and the remaining size move together.
ReadOn(p, n) ==
    proc' = [proc EXCEPT ![p].size = @ - n, ![p].offset = @ + n,
                         ![p].doneOffset = @ + n, ![p].spent = proc[p].policy]

ReadChunk(p) ==
    /\ Running(p, "nvread", "transfer")
    /\ proc[p].size > 0
    /\ LET n == Least(proc[p].size, proc[p].maxData)
       IN  IF CanRead(p, proc[p].offset, n)
           THEN ReadOn(p, n) /\ buffer' = [buffer EXCEPT ![p] = Received(p, n)]
           ELSE Return(p, "tpm_error") /\ UNCHANGED buffer
    /\ UNCHANGED <<nv, runs>>

-----------------------------------------------------------------------------
(* tpm2_nvwrite.                                                           *)

(***************************************************************************)
(* files_load_bytes_from_buffer_or_file_or_stdin: every fread of standard  *)
(* input fills the buffer from its start, until there is nothing left.     *)
(***************************************************************************)
Loaded(p, length, offset) ==
    [i \in 0..(Least(length, MaxNvBuffer) - 1) |->
        [by |-> p,
         at |-> offset + i + MaxNvBuffer * ((length - 1 - i) \div MaxNvBuffer)]]

\* Without -i the buffer stays as it is initialised, zero, and counts as full.
Input(p, given, length, offset) ==
    IF given THEN Loaded(p, length, offset) ELSE [i \in 0..(MaxNvBuffer - 1) |-> Junk]

InputSize(given, length) == IF given THEN Uint16(length) ELSE MaxNvBuffer

NvWrite(p) ==
    \E given \in InputGiven, length \in Lengths, offset \in WriteOffsets :
        Invoke(p, [Idle EXCEPT !.tool = "nvwrite", !.pc = "public",
                               !.askedSize = length, !.askedOffset = offset,
                               !.size = InputSize(given, length), !.offset = offset],
               Input(p, given, length, offset))

\* Fault: the data is checked as if it were written at the start.
WriteFitsUnshifted(p) == proc[p].size <= index.size

WriteFits(p) == proc[p].offset + proc[p].size <= index.size

(***************************************************************************)
(* is_input_options_args_valid: what is only hashed must fit one command,  *)
(* and the data must fit the index before any of it is written.            *)
(***************************************************************************)
WritePublic(p) ==
    /\ Running(p, "nvwrite", "public")
    /\ IF /\ proc[p].cpHash => proc[p].size <= MaxNvBuffer
          /\ index.defined /\ WriteFits(p)
       THEN proc' = [proc EXCEPT ![p].pc = "auth"]
       ELSE Return(p, "option_error")
    /\ UNCHANGED <<nv, buffer, runs>>

WriteAuth(p) == Running(p, "nvwrite", "auth") /\ Authorise(p, AfterPublic(p))

\* The byte at a place of nv_buffer, or whatever lies behind it.
Buffered(p, i) ==
    IF i \in DOMAIN buffer[p] THEN buffer[p][i] ELSE Junk

\* Fault: every chunk is written at the first offset.
WrittenAtOffset(p, n) ==
    LET first == proc[p].offset
    IN  [j \in DOMAIN data |->
            IF j \in first..(first + n - 1)
            THEN Buffered(p, j - first + proc[p].doneOffset) ELSE data[j]]

\* The data after a command writes the next n bytes, at their place.
Written(p, n) ==
    LET first == proc[p].offset + proc[p].doneOffset
    IN  [j \in DOMAIN data |->
            IF j \in first..(first + n - 1)
            THEN Buffered(p, j - proc[p].offset) ELSE data[j]]

WriteChunk(p) ==
    /\ Running(p, "nvwrite", "transfer")
    /\ proc[p].size > 0
    /\ LET n == Least(proc[p].size, proc[p].maxData)
       IN  IF CanWrite(p, proc[p].offset + proc[p].doneOffset, n)
           THEN /\ index' = [index EXCEPT !.written = TRUE]
                /\ data' = Written(p, n)
                /\ proc' = [Disturbed(p) EXCEPT
                              ![p].size = @ - n, ![p].doneOffset = @ + n,
                              ![p].spent = proc[p].policy, ![p].wrote = TRUE]
           ELSE Return(p, "tpm_error") /\ UNCHANGED nv
    /\ UNCHANGED <<buffer, runs>>

\* Nothing is left to transfer; nvread writes its output.
Finish(p) ==
    /\ proc[p].pc = "transfer"
    /\ proc[p].size = 0
    /\ Return(p, "success")
    /\ UNCHANGED <<nv, buffer, runs>>

-----------------------------------------------------------------------------
(* The other NV tools, by the one command each of them sends.              *)

NvDefine ==
    /\ ~index.defined
    /\ \E n \in IndexSizes : index' = NewIndex(n) /\ data' = Blank(n)

NvUndefine ==
    /\ index.defined
    /\ index' = NoIndex
    /\ data' = Blank(0)

NvWriteLock ==
    /\ index.defined
    /\ ~index.locked
    /\ index' = [index EXCEPT !.locked = TRUE]
    /\ UNCHANGED data

OtherTool(p) ==
    /\ proc[p].pc = "idle"
    /\ runs < MaxRuns
    /\ runs' = runs + 1
    /\ NvDefine \/ NvUndefine \/ NvWriteLock
    /\ proc' = [Disturbed(p) EXCEPT ![p] = Idle]
    /\ buffer' = [buffer EXCEPT ![p] = Blank(0)]

-----------------------------------------------------------------------------
Step(p) ==
    \/ MaxBufferSize(p) \/ Finish(p)
    \/ ReadAuth(p) \/ ReadPublic(p) \/ ReadChunk(p)
    \/ WritePublic(p) \/ WriteAuth(p) \/ WriteChunk(p)

\* The bound on the number of invocations is reached and every tool has ended.
Finished ==
    /\ runs = MaxRuns
    /\ \A p \in Procs : proc[p].pc = "idle"
    /\ UNCHANGED vars

Next ==
    \/ \E p \in Procs : Step(p) \/ Fail(p) \/ NvRead(p) \/ NvWrite(p) \/ OtherTool(p)
    \/ Finished

\* A tool that runs is scheduled until it ends; it need not fail.
Fairness == \A p \in Procs : WF_vars(Step(p))

Spec == Init /\ [][Next]_vars /\ Fairness

-----------------------------------------------------------------------------
Ended(p, tool, rc) ==
    proc[p].tool = tool /\ proc[p].pc = "idle" /\ proc[p].rc = rc

(***************************************************************************)
(* Data moves through the chunk loop of tpm2_util_nv_read without being    *)
(* shifted, repeated or lost: whoever interferes, byte i of an nvread that *)
(* exits with 0 was meant for the place --offset + i of the index, and     *)
(* there are as many bytes as --size has asked for.                        *)
(***************************************************************************)
ReadInPlace ==
    \A p \in Procs : Ended(p, "nvread", "success") /\ ~proc[p].cpHash =>
        /\ \A i \in 0..(proc[p].doneOffset - 1) :
              buffer[p][i].at = proc[p].askedOffset + i
        /\ proc[p].askedSize # 0 => proc[p].doneOffset = proc[p].askedSize

(***************************************************************************)
(* The chunk loop of tpm2_nvwrite.c puts every byte of the input at the    *)
(* place it is meant for, even when other tools write, undefine and define *)
(* the index between two chunks, and nothing else is ever written.         *)
(***************************************************************************)
WriteInPlace ==
    \A j \in 0..(index.size - 1) : data[j].at = j

(***************************************************************************)
(* What the manuals promise of both loops: nvread returns the bytes from   *)
(* --offset on, and nvwrite stores the bytes of its input, standard input  *)
(* included.                                                               *)
(***************************************************************************)
InPlace == ReadInPlace /\ WriteInPlace

(***************************************************************************)
(* An nvread that exits with 0 and met no change of the index returns what *)
(* is in it.  (Between two chunks there is no lock: one that met a change  *)
(* may return the old bytes of one chunk and the new ones of the next.)    *)
(***************************************************************************)
UndisturbedRead ==
    \A p \in Procs :
        Ended(p, "nvread", "success") /\ proc[p].alone /\ ~proc[p].cpHash =>
            \A i \in 0..(proc[p].doneOffset - 1) :
                buffer[p][i] = data[Uint16(proc[p].askedOffset) + i]

(***************************************************************************)
(* An nvwrite writes all of its input or nothing, as the check in front of *)
(* its loop is there to ensure, unless another process changes the index   *)
(* or the TPM fails in between, or the session that authorises the write   *)
(* has a policy, which holds for the first chunk only.  With --cphash it   *)
(* writes nothing.                                                         *)
(***************************************************************************)
AllOrNothing ==
    \A p \in Procs : proc[p].tool = "nvwrite" /\ proc[p].pc = "idle" =>
        /\ proc[p].cpHash => ~proc[p].wrote
        /\ proc[p].rc = "success" /\ proc[p].alone /\ ~proc[p].cpHash =>
              \A i \in 0..(proc[p].askedSize - 1) :
                  data[proc[p].askedOffset + i].by = p
        /\ proc[p].rc # "success" /\ proc[p].wrote =>
              ~proc[p].alone \/ proc[p].fault \/ proc[p].spent

(***************************************************************************)
(* The loops end: every chunk makes progress, whatever size the TPM        *)
(* reports for its NV buffer.                                              *)
(***************************************************************************)
EveryTransferEnds == \A p \in Procs : proc[p].pc # "idle" ~> proc[p].pc = "idle"
=============================================================================
