----------------------------- MODULE CallRuntime ----------------------------
(***************************************************************************)
(* Runs the scripts of EsysCalls and FapiTools, one per process, against a *)
(* TPM library that can fail at every call, files that other processes use *)
(* too, and a standard input that arrives in pieces.                       *)
(***************************************************************************)
EXTENDS CallScript, FiniteSets

CONSTANTS Procs,     \* processes
          Scripts,   \* the script of every name
          Menu,      \* the names that are run
          Beside,    \* bound: those that are run while another process runs
          Forgiving, \* names whose code lets a failed call pass
          Paths,     \* numbers of the output files: output i goes to path i
          Nobody,    \* no file
          User,      \* owner of a file no process has written
          Taken,     \* sets of paths that exist at first
          Block,     \* READ_SIZE of the loop that reads standard input
          Sizes      \* sizes of an input

ASSUME BlockAssumption == Block \in Nat \ {0}
ASSUME MenuAssumption == Menu \subseteq DOMAIN Scripts /\ Beside \subseteq Menu
ASSUME ScriptsAssumption == \A name \in Menu : WellFormed(Scripts[name])
ASSUME PathsAssumption ==
    /\ Paths \subseteq 1..4
    /\ \A name \in Menu : \A i \in 1..Len(Scripts[name].steps) :
          Scripts[name].steps[i].op = "write" =>
              \E n \in Paths : Scripts[name].steps[i].buf = Outputs[n]
ASSUME OwnersAssumption == Nobody \notin Procs \cup {User}
ASSUME SizesAssumption == Sizes \subseteq Nat /\ 0 \in Sizes

VARIABLES
    call,   \* per process: script, options, streams, next step and result
    mem,    \* per process: what each pointer of the script holds
    hash,   \* per process: the SAPI context and what was hashed and sent
    io,     \* per process: the file or stream it is at, and what it got of it
    file,   \* the output files
    size    \* the size of the input file

vars == <<call, mem, hash, io, file, size>>

NoFile == [by |-> Nobody, part |-> "none"]

Results == {"none", "running", "success", "failure", "killed"}
MemStates == {"wild", "null", "held", "freed", "broken"}

SysStates == {"none", "other", "prepared", "response"}
Phases == {"none", "open", "got"}

\* One type for the whole state.
TypeOK ==
    /\ call \in [Procs -> [name: Menu \cup {"none"}, asked: SUBSET Options,
                           std: SUBSET Buffers, pc: Nat, rc: Results]]
    /\ mem \in [Procs -> [Buffers -> MemStates]]
    /\ hash \in [Procs -> [sys: SysStates, cp: Seq(Handles), cpOf: SysStates,
                           rpOf: SysStates, sent: BOOLEAN, failed: BOOLEAN]]
    /\ io \in [Procs -> [phase: Phases, want: Nat, got: Nat, pipe: Nat,
                         cut: SUBSET Buffers, excused: SUBSET Buffers,
                         made: SUBSET Paths, robbed: SUBSET Paths,
                         wrote: SUBSET Paths]]
    /\ file \in [Paths -> [by: Procs \cup {User, Nobody},
                           part: {"none", "empty", "short", "whole"}]]
    /\ size \in Sizes
    /\ \A p \in Procs :
          /\ io[p].got <= io[p].want
          /\ call[p].rc \notin {"none", "killed"} =>
                /\ call[p].name \in Menu
                /\ call[p].asked \subseteq Scripts[call[p].name].opts
                /\ call[p].pc \in 1..(Len(Scripts[call[p].name].steps) + 1)

Idle == [name |-> "none", asked |-> {}, std |-> {}, pc |-> 0, rc |-> "none"]
NoHash == [sys |-> "none", cp |-> <<"none">>, cpOf |-> "none", rpOf |-> "none",
           sent |-> FALSE, failed |-> FALSE]
NoIo == [phase |-> "none", want |-> 0, got |-> 0, pipe |-> 0, cut |-> {},
         excused |-> {}, made |-> {}, robbed |-> {}, wrote |-> {}]

Init ==
    /\ call = [p \in Procs |-> Idle]
    /\ mem = [p \in Procs |-> [b \in Buffers |-> "null"]]
    /\ hash = [p \in Procs |-> NoHash]
    /\ io = [p \in Procs |-> NoIo]
    /\ \E taken \in Taken :
          file = [i \in Paths |->
                     IF i \in taken THEN [by |-> User, part |-> "whole"] ELSE NoFile]
    /\ size \in Sizes

-----------------------------------------------------------------------------
(* Where a process is.                                                     *)

Steps(p) == Scripts[call[p].name].steps
Current(p) == Steps(p)[call[p].pc]
Running(p) == call[p].rc = "running"
Given(p, s) == s.when = {} \/ s.when \cap call[p].asked # {}
At(p, ops) == Running(p) /\ Current(p).op \in ops /\ Given(p, Current(p))
PathOf(b) == CHOOSE i \in 1..4 : Outputs[i] = b

\* free(): a pointer that is freed twice, or was never set, breaks the heap.
Freed(m, bufs) ==
    [b \in Buffers |->
        IF b \notin bufs THEN m[b]
        ELSE CASE m[b] = "held" -> "freed"
               [] m[b] = "null" -> "null"
               [] OTHER -> "broken"]

\* The next step, or the end of the script.
Goto(p, n) ==
    [call EXCEPT ![p].pc = n,
                 ![p].rc = IF n > Len(Steps(p)) THEN "success" ELSE "running"]

\* A step passed, and m are the pointers after it.
PassWith(p, m) ==
    LET s == Current(p)
        last == s.stop /\ "rp" \notin call[p].asked
    IN  /\ mem' = [mem EXCEPT ![p] = Freed(m, s.done)]
        /\ call' = IF last THEN [call EXCEPT ![p].rc = "success"]
                   ELSE Goto(p, call[p].pc + 1)

\* A step failed: return, or go on for the sake of the rpHash.
FailWith(p, m) ==
    LET s == Current(p)
    IN  /\ mem' = [mem EXCEPT ![p] = Freed(m, s.lost)]
        /\ call' = IF s.resume # 0 /\ "rp" \in call[p].asked THEN Goto(p, s.resume)
                   ELSE [call EXCEPT ![p].rc = "failure"]

-----------------------------------------------------------------------------
(* Starting and ending.                                                    *)

\* At most one input and one output can be "-".
Streams(steps) ==
    {std \in SUBSET {steps[i].buf : i \in {i \in 1..Len(steps) :
                                             steps[i].op \in {"read", "write"}}} :
        /\ Cardinality(std \cap Upto(Inputs, 4)) <= 1
        /\ Cardinality(std \cap Upto(Outputs, 4)) <= 1}

\* Each process runs one script; the end of one leaves nothing for the next
\* but the files.
Start(p) ==
    /\ call[p].rc = "none"
    /\ \E name \in Menu :
          LET script == Scripts[name]
          IN  /\ \A q \in Procs \ {p} :
                    call[q].rc # "none" => {name, call[q].name} \subseteq Beside
              /\ \E asked \in SUBSET script.opts, std \in Streams(script.steps) :
                    /\ call' = [call EXCEPT ![p] =
                          [name |-> name, asked |-> asked, std |-> std, pc |-> 1,
                           rc |-> "running"]]
                    /\ \E n \in (IF std \cap Upto(Inputs, 4) = {} THEN {0} ELSE Sizes) :
                          io' = [io EXCEPT ![p].pipe = n]
              /\ mem' = [mem EXCEPT ![p] =
                    [b \in Buffers |-> IF b \in script.wild THEN "wild" ELSE "null"]]
    /\ UNCHANGED <<hash, file, size>>

\* A process can be killed at any time; its memory goes, its files stay.
Kill(p) ==
    /\ Running(p)
    /\ call' = [call EXCEPT ![p] = [Idle EXCEPT !.rc = "killed"]]
    /\ mem' = [mem EXCEPT ![p] = [b \in Buffers |-> "null"]]
    /\ hash' = [hash EXCEPT ![p] = NoHash]
    /\ io' = [io EXCEPT ![p] = NoIo]
    /\ UNCHANGED <<file, size>>

\* A step that was not asked for, or an output that was not returned; an
\* output is freed behind the "if" it is written under.
Skip(p) ==
    /\ Running(p)
    /\ \/ ~Given(p, Current(p))
       \/ Current(p).op = "write" /\ mem[p][Current(p).buf] = "null"
    /\ mem' = [mem EXCEPT ![p] =
                  Freed(@, IF Current(p).op = "write" THEN Current(p).done ELSE {})]
    /\ call' = Goto(p, call[p].pc + 1)
    /\ UNCHANGED <<hash, io, file, size>>

-----------------------------------------------------------------------------
(* Calls that read or write no file.                                       *)

\* The SAPI context is the one ESAPI uses: it holds the command that was
\* prepared or sent last.
HashAfter(p, s) ==
    CASE s.op = "public" -> [hash[p] EXCEPT !.sys = "other"]
      [] s.op = "prepare" -> [hash[p] EXCEPT !.sys = "prepared", !.cp = <<>>]
      [] s.op = "name" -> [hash[p] EXCEPT !.cp = @ \o s.of]
      [] s.op = "cphash" -> [hash[p] EXCEPT !.cpOf = hash[p].sys]
      [] s.op = "rphash" -> [hash[p] EXCEPT !.rpOf = hash[p].sys]
      [] OTHER -> hash[p]

\* Names, the PCR list and an asked password are allocated; getline() takes a
\* whole buffer from the standard input, its rest included.
Allocated(p, s) ==
    IF s.op \in {"name", "list", "ask"} THEN [mem[p] EXCEPT ![s.buf] = "held"] ELSE mem[p]
SwallowedByPrompt(p, s) ==
    IF s.op = "ask"
    THEN [io[p] EXCEPT !.pipe = 0, !.excused = @ \cup (call[p].std \cap Upto(Inputs, 4))]
    ELSE io[p]

Pass(p) ==
    /\ At(p, LocalOps \cup {"public"})
    /\ LET s == Current(p)
       IN  /\ PassWith(p, Allocated(p, s))
           /\ hash' = [hash EXCEPT ![p] = HashAfter(p, s)]
           /\ io' = [io EXCEPT ![p] = SwallowedByPrompt(p, s)]
    /\ UNCHANGED <<file, size>>

\* TPM2B_NAME *name = NULL comes before the call that may not set it.
Fail(p) ==
    /\ At(p, LocalOps \cup {"public"})
    /\ LET s == Current(p)
       IN  FailWith(p, IF s.op \in {"name", "ask"}
                       THEN [mem[p] EXCEPT ![s.buf] = "null"] ELSE mem[p])
    /\ hash' = [hash EXCEPT ![p].failed = TRUE]
    /\ UNCHANGED <<io, file, size>>

\* The Esys_ or Fapi_ call, and the results it allocates.
Dispatch(p) ==
    /\ At(p, {"dispatch"})
    /\ LET s == Current(p)
       IN  \E absent \in SUBSET s.may :
              PassWith(p, [b \in Buffers |->
                  IF b \in absent THEN "null"
                  ELSE IF b \in s.sets THEN "held" ELSE mem[p][b]])
    /\ hash' = [hash EXCEPT ![p].sent = TRUE, ![p].sys = "response"]
    /\ UNCHANGED <<io, file, size>>

DispatchFails(p) ==
    /\ At(p, {"dispatch"})
    /\ FailWith(p, mem[p])
    /\ hash' = [hash EXCEPT ![p].sys = "other", ![p].failed = TRUE]
    /\ UNCHANGED <<io, file, size>>

\* The TPM has not been started; three of the callers let that pass.
DispatchTooEarly(p) ==
    /\ At(p, {"dispatch"})
    /\ Current(p).lenient
    /\ PassWith(p, mem[p])
    /\ hash' = [hash EXCEPT ![p].sys = "other", ![p].failed = TRUE]
    /\ UNCHANGED <<io, file, size>>

-----------------------------------------------------------------------------
(* open_read_and_close.                                                    *)

OnStream(p) == Current(p).buf \in call[p].std
\* What the pointer has is the whole input and nothing else, or this is noted.
Took(p, b) ==
    [io[p] EXCEPT !.phase = "none", !.want = 0, !.got = 0,
                  !.cut = IF io[p].got = io[p].want /\ io[p].want = size THEN @
                          ELSE @ \cup {b}]

\* open and fstat: the size the file is said to have is the size of the buffer.  A
\* pipe is said to have none, and the files that a kernel makes up a page.
OpenInput(p) ==
    /\ At(p, {"read"}) /\ ~OnStream(p) /\ io[p].phase = "none"
    /\ \E n \in Sizes :
          io' = [io EXCEPT ![p].phase = "open", ![p].want = n,
                    ![p].excused = IF n # size THEN @ \cup {Current(p).buf} ELSE @]
    /\ mem' = [mem EXCEPT ![p][Current(p).buf] = "held"]
    /\ UNCHANGED <<call, hash, file, size>>

\* Fault: as many bytes as the file has now.
ReadCountNow(p) == size
\* As many bytes as the buffer has, or as there are.
ReadCount(p) == IF size < io[p].want THEN size ELSE io[p].want

\* One read, which may be short: only a result of -1 is looked at.
ReadInput(p) ==
    /\ At(p, {"read"}) /\ ~OnStream(p) /\ io[p].phase = "open"
    /\ \E n \in (IF ReadCount(p) = 0 THEN {0} ELSE 1..ReadCount(p)) :
          io' = [io EXCEPT ![p].phase = "got", ![p].got = n,
                    ![p].excused = IF n < ReadCount(p) THEN @ \cup {Current(p).buf} ELSE @]
    /\ UNCHANGED <<call, mem, hash, file, size>>

CloseInput(p) ==
    /\ At(p, {"read"}) /\ ~OnStream(p) /\ io[p].phase = "got"
    /\ io' = [io EXCEPT ![p] = Took(p, Current(p).buf)]
    /\ PassWith(p, mem[p])
    /\ UNCHANGED <<hash, file, size>>

\* The buffer is freed after a failed read or close, and the pointer kept.
InputFails(p) ==
    /\ At(p, {"read"}) /\ ~OnStream(p)
    /\ io' = [io EXCEPT ![p].phase = "none", ![p].want = 0, ![p].got = 0]
    /\ FailWith(p, IF io[p].phase = "none" THEN mem[p]
                   ELSE Freed(mem[p], {Current(p).buf}))
    /\ hash' = [hash EXCEPT ![p].failed = TRUE]
    /\ UNCHANGED <<file, size>>

\* Fault: one block of the standard input is all.
ReadOnAfterBlock(n) == FALSE
\* A read of less than a block, or of nothing, ends the loop.
ReadOn(n) == n = Block

(***************************************************************************)
(* read() on the standard input: as much as a block, or what the writer    *)
(* has written so far.  The loop takes a read of less than a block for the *)
(* end of the input.                                                       *)
(***************************************************************************)
ReadStream(p) ==
    /\ At(p, {"read"}) /\ OnStream(p)
    /\ LET b == Current(p).buf
           left == io[p].pipe
           most == IF left < Block THEN left ELSE Block
       IN  \E n \in (IF left = 0 THEN {0} ELSE 1..most) :
              LET now == [io[p] EXCEPT !.pipe = left - n, !.got = @ + n,
                                       !.want = io[p].got + left,
                                       !.excused = IF n < most THEN @ \cup {b} ELSE @]
              IN  IF ReadOn(n)
                  THEN /\ io' = [io EXCEPT ![p] = now]
                       /\ mem' = [mem EXCEPT ![p][b] = "held"]
                       /\ UNCHANGED call
                  ELSE /\ io' = [io EXCEPT ![p] =
                            [now EXCEPT !.phase = "none", !.want = 0, !.got = 0,
                                !.cut = IF now.got < now.want THEN @ \cup {b} ELSE @]]
                       /\ PassWith(p, [mem[p] EXCEPT ![b] = "held"])
    /\ UNCHANGED <<hash, file, size>>

\* Someone else changes the input file while it is being read.
ChangeInput ==
    /\ \E p \in Procs : At(p, {"read"}) /\ io[p].phase # "none"
    /\ size' \in Sizes \ {size}
    /\ io' = [p \in Procs |->
                 IF At(p, {"read"}) /\ io[p].phase # "none"
                 THEN [io[p] EXCEPT !.excused = @ \cup {Current(p).buf}]
                 ELSE io[p]]
    /\ UNCHANGED <<call, mem, hash, file>>

-----------------------------------------------------------------------------
(* open_write_and_close.                                                   *)

Wanted(p) == At(p, {"write"}) /\ mem[p][Current(p).buf] # "null"
Target(p) == PathOf(Current(p).buf)

\* With --force a process takes the path from those that opened it before.
Robbed(p, i) ==
    [q \in Procs |->
        IF q # p /\ "force" \in call[p].asked /\ i \in io[q].made
        THEN [io[q] EXCEPT !.robbed = @ \cup {i}] ELSE io[q]]

\* Fault: O_EXCL is forgotten.
OpensAnything(p, i) == TRUE
\* O_CREAT | O_TRUNC, with O_EXCL unless --force is given
Opens(p, i) == "force" \in call[p].asked \/ file[i] = NoFile

OpenOutput(p) ==
    /\ Wanted(p) /\ ~OnStream(p) /\ io[p].phase = "none"
    /\ LET i == Target(p)
       IN  /\ Opens(p, i)
           /\ file' = [file EXCEPT ![i] = [by |-> p, part |-> "empty"]]
           /\ io' = [Robbed(p, i) EXCEPT ![p].phase = "open", ![p].made = @ \cup {i},
                                         ![p].robbed = @ \ {i}]
    /\ UNCHANGED <<call, mem, hash, size>>

\* EEXIST
RefuseOutput(p) ==
    /\ Wanted(p) /\ ~OnStream(p) /\ io[p].phase = "none"
    /\ ~Opens(p, Target(p))
    /\ FailWith(p, mem[p])
    /\ hash' = [hash EXCEPT ![p].failed = TRUE]
    /\ UNCHANGED <<io, file, size>>

\* The bytes go to the file that was opened.  Where another has opened the
\* path since, that is the same file, or one that has no name any more.
WriteOutput(p) ==
    /\ Wanted(p) /\ ~OnStream(p) /\ io[p].phase = "open"
    /\ LET i == Target(p)
       IN  IF i \notin io[p].robbed
           THEN /\ file' = [file EXCEPT ![i] = [by |-> p, part |-> "whole"]]
                /\ io' = [io EXCEPT ![p].phase = "got"]
           ELSE \/ /\ UNCHANGED file
                   /\ io' = [io EXCEPT ![p].phase = "got"]
                \/ /\ file' = [file EXCEPT ![i] = [by |-> p, part |-> "short"]]
                   /\ io' = [q \in Procs |->
                                IF q = p THEN [io[p] EXCEPT !.phase = "got"]
                                ELSE [io[q] EXCEPT !.robbed = @ \cup (io[q].made \cap {i})]]
    /\ UNCHANGED <<call, mem, hash, size>>

\* Fault: only a result of -1 is taken for a failure.
WriteShortUnnoticed(p) ==
    /\ Wanted(p) /\ ~OnStream(p) /\ io[p].phase = "open"
    /\ file' = [file EXCEPT ![Target(p)] = [by |-> p, part |-> "short"]]
    /\ io' = [io EXCEPT ![p].phase = "got"]
    /\ UNCHANGED <<call, mem, hash, size>>

\* A file that could not be written whole is removed, by its path.
WriteShort(p) ==
    /\ Wanted(p) /\ ~OnStream(p) /\ io[p].phase = "open"
    /\ file' = [file EXCEPT ![Target(p)] = NoFile]
    /\ io' = [q \in Procs |->
                 IF q = p THEN [io[p] EXCEPT !.phase = "none"]
                 ELSE [io[q] EXCEPT !.robbed = @ \cup (io[q].made \cap {Target(p)})]]
    /\ FailWith(p, mem[p])
    /\ hash' = [hash EXCEPT ![p].failed = TRUE]
    /\ UNCHANGED <<size>>

CloseOutput(p) ==
    /\ Wanted(p) /\ ~OnStream(p) /\ io[p].phase = "got"
    /\ io' = [io EXCEPT ![p].phase = "none", ![p].wrote = @ \cup {Target(p)}]
    /\ PassWith(p, mem[p])
    /\ UNCHANGED <<hash, file, size>>

\* open, write or close fail; a file that was opened stays behind.
OutputFails(p) ==
    /\ Wanted(p)
    /\ io' = [io EXCEPT ![p].phase = "none"]
    /\ FailWith(p, mem[p])
    /\ hash' = [hash EXCEPT ![p].failed = TRUE]
    /\ UNCHANGED <<file, size>>

\* One write to the standard output; how much it took is not looked at.
WriteStream(p) ==
    /\ Wanted(p) /\ OnStream(p)
    /\ PassWith(p, mem[p])
    /\ UNCHANGED <<hash, io, file, size>>

-----------------------------------------------------------------------------
Next ==
    \/ \E p \in Procs :
          \/ Start(p) \/ Kill(p) \/ Skip(p) \/ Pass(p) \/ Fail(p)
          \/ Dispatch(p) \/ DispatchFails(p) \/ DispatchTooEarly(p)
          \/ OpenInput(p) \/ ReadInput(p) \/ CloseInput(p) \/ InputFails(p)
          \/ ReadStream(p)
          \/ OpenOutput(p) \/ RefuseOutput(p) \/ WriteOutput(p) \/ WriteShort(p)
          \/ CloseOutput(p) \/ OutputFails(p) \/ WriteStream(p)
    \/ ChangeInput

Spec == Init /\ [][Next]_vars

-----------------------------------------------------------------------------
(* Properties.                                                             *)

Ended(p) == call[p].rc \in {"success", "failure"}
Succeeded(p) == call[p].rc = "success"

(***************************************************************************)
(* No error path frees a pointer twice, or one that was never set: the     *)
(* goto ladders of lib/tpm2.c start at the label of the last name that was *)
(* declared, and open_read_and_close leaves a freed pointer behind that    *)
(* its callers must not free again.                                        *)
(***************************************************************************)
CleanFrees == \A p \in Procs, b \in Buffers : mem[p][b] # "broken"

(***************************************************************************)
(* The functions of lib/tpm2.c have freed every name they asked ESAPI for  *)
(* when they return, whichever call failed.                                *)
(***************************************************************************)
NothingLeft ==
    \A p \in Procs, b \in Upto(Names, 3) : Ended(p) => mem[p][b] # "held"

(***************************************************************************)
(* The hash of a call that succeeded is the hash of that command: of the   *)
(* parameters prepared for it with the names of its handles in their       *)
(* order, and of its own response.  It was sent exactly if not only the    *)
(* cpHash was asked for (tpm2_sapi_getcphash, tpm2_sapi_getrphash).        *)
(***************************************************************************)
HonestHash ==
    \A p \in Procs :
        Succeeded(p) /\ call[p].name \notin Forgiving =>
            LET asked == call[p].asked
                sends == {i \in 1..Len(Steps(p)) : Steps(p)[i].op = "dispatch"}
            IN  /\ "cp" \in asked =>
                      /\ hash[p].cpOf = "prepared"
                      /\ \A i \in sends : hash[p].cp = Steps(p)[i].of
                /\ "rp" \in asked => hash[p].rpOf = "response"
                /\ hash[p].sent <=> ("cp" \notin asked \/ "rp" \in asked)

(***************************************************************************)
(* A call or tool that reports success had no failure on its way: no rc    *)
(* of an earlier call is overwritten by a later one.                       *)
(***************************************************************************)
HonestResult ==
    \A p \in Procs :
        Succeeded(p) /\ call[p].name \notin Forgiving => ~hash[p].failed

(***************************************************************************)
(* When a tool of tools/fapi exits with 0, every result that was returned  *)
(* and has an output file is in that file, whole, unless another process   *)
(* has opened the path with --force since (open_write_and_close).          *)
(***************************************************************************)
Due(p) ==
    {i \in Paths :
        /\ \E k \in 1..Len(Steps(p)) :
              Steps(p)[k].op = "write" /\ Steps(p)[k].buf = Outputs[i]
                  /\ Given(p, Steps(p)[k])
        /\ Outputs[i] \notin call[p].std
        /\ mem[p][Outputs[i]] # "null"}
OutputsWhole ==
    \A p \in Procs :
        Succeeded(p) =>
            \A i \in Due(p) :
                /\ i \in io[p].wrote
                /\ i \in io[p].robbed \/ file[i] = [by |-> p, part |-> "whole"]

(***************************************************************************)
(* What reaches the FAPI call is the whole input, and nothing but it, as   *)
(* long as the size of a file is what can be read of it, it does not       *)
(* change meanwhile, every read gives all there is for it, and no prompt   *)
(* takes from the same stream: the loop over blocks and the one read of a  *)
(* file lose nothing by themselves (open_read_and_close).                  *)
(***************************************************************************)
FullReadsWhole == \A p \in Procs : hash[p].sent => io[p].cut \subseteq io[p].excused

(***************************************************************************)
(* The manual pages of the feature API tools say that an input FILENAME is *)
(* the data of the command, and a comment of open_read_and_close that a    *)
(* read of less than a block has reached the end of the standard input: a  *)
(* tool that does not ask for a password passes on its whole input.        *)
(***************************************************************************)
InputWhole ==
    \A p \in Procs : hash[p].sent =>
        \/ io[p].cut = {}
        \/ /\ \E i \in 1..Len(Steps(p)) : Steps(p)[i].op = "ask"
           /\ io[p].cut \subseteq call[p].std

(***************************************************************************)
(* Without --force a tool changes no file that it has not itself created,  *)
(* however the steps of two tools with the same output interleave.         *)
(***************************************************************************)
NoClobber ==
    [][\A p \in Procs, i \in Paths :
          /\ io'[p].phase # io[p].phase
          /\ "force" \notin call[p].asked
          /\ file'[i] # file[i]
          => file[i] = NoFile \/ i \in io[p].made]_vars
=============================================================================
