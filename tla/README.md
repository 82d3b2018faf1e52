# A specification of tpm2-tools

tpm2-tools is a set of about a hundred command line tools.  Each invocation is
one short process that talks to one TPM, directly or through a resource
manager.  What a tool leaves behind outlives it in three places only: the TPM,
files, and its exit code.  The project specifies what the tools do with the
first two, in any interleaving and with failures and kills at any point, and
whether the third tells the truth.

## The system

### Components, their state and their operations

| component | source | state | operations | what makes it correct |
|---|---|---|---|---|
| tool runtime | `tools/tpm2_tool.c`, `lib/tool_rc.h` | the tool, its `ctx`, the two results | `onstart`, `onrun`, `onstop`, `exit`, teardown | `onstop` runs whatever `onrun` returned; a failure of either reaches the exit code; every tool ends |
| sessions | `lib/tpm2_session.c` | `tpm2_session`: handle, path, `is_final`; session files; the TPM's sessions | open, restore, close | one holder per session; no session is left in the TPM that nobody can reach; a file with the only copy of a session is not overwritten |
| authorisations | `lib/tpm2_auth_util.c`, `lib/object.c` | the session pointer of an object | password, `file:`, `session:`, `pcr:` | what it opens is handed to the tool or closed |
| auxiliary sessions | `lib/tpm2_util.c:1078-1109` | `aux_session[]` | set up in order, closed in onstop | the ones before the one that fails are closed |
| the tools | `tools/*.c` | `ctx` | one `onrun`, one `onstop` each | as above, through every `goto`, `return` and skipped close |
| policies | `lib/tpm2_policy.c` | the policy digest of a session | PolicyPCR, PolicyOR, ... | a policy is built from one consistent set of values |
| PCR reading | `lib/pcr.c` | a selection, the values read so far | batches of PCR_Read | all selected PCRs are read, once, or the call fails |
| NV transfer | `lib/tpm2_nv_util.h`, `nvread`, `nvwrite` | offset, size left | chunked reads and writes | every byte once, in order, within the index |
| hash and HMAC sequences | `lib/tpm2_hash.c`, `tpm2_hmac.c`, `tpm2_pcrevent.c` | a sequence object in the TPM | start, update, complete | every byte hashed once; no sequence object is left |
| capabilities | `lib/tpm2_capability.c` | the property to ask for next | GetCapability until there is no more | no entry twice, none left out |
| event log | `lib/tpm2_eventlog*.c` | bytes left, PCR values replayed | one event at a time | nothing is read beyond the log |
| options and TCTI | `lib/tpm2_options.c` | flags, the TCTI string | getopt, environment, defaults | precedence |
| quotes | `tpm2_quote.c`, `tools/misc/tpm2_checkquote.c` | signature, message and PCR file | quote, write, check | the values written are those that were quoted; what one quote wrote is accepted |
| TPM commands with hashes | `lib/tpm2.c` | the SAPI context shared with ESAPI, the names of the handles | prepare, names, cpHash, send, rpHash | the hash is of the command that is sent; every name is freed once, on every path |
| handles and indices | `createek`, `evictcontrol`, `nvdefine`, `nvreadpublic`, `flushcontext -t` | the TPM's tables of handles | list, choose, take, give up | what is listed or chosen was so at some time of the query |
| feature API tools | `tools/fapi` | the input and output files | read inputs, one call of libtss2-fapi, write outputs | inputs and outputs are whole; no file is overwritten unasked; every buffer is freed once |
| EK certificates, `send` | `getekcertificate`, `send` | none that outlives a call | a download; a relay | the exit code |
| conversions, tables, cryptography | rest of `lib/` | none | parsing, formatting, OpenSSL | unit tests reach them |

### How they interact

The runtime calls the tool's `onrun` and then its `onstop`.  The tool obtains
its authorisations first (each may start a session, or load one from a file),
then auxiliary sessions, then does its TPM command, then writes its results.
It gives sessions back in `onstop`, where `tpm2_session_close` flushes a
session that has no path, and saves one that has a path and is not final back
to its file.  Processes meet at the TPM (few session slots) and at files, with
no lock on either.  The one mutual exclusion there is comes from the TPM: the
context of a saved session can be loaded once.

### What is hard

* *Ordering and interleaving.* A session file is read, then its context is
  loaded; it is emptied, then the session is saved, then written.  Another
  process can act between any two of these.
* *Partial failure.* Every call can fail, and what has been opened until then
  must be closed.  The tools do it with `onstop`, with `goto`, or not at all.
* *Crashes.* A kill between two steps leaves a session loaded, a file empty, or
  a context saved in the TPM that no file has.
* *Limits.* The TPM has few session slots.
* *Loops over data.* Batches, chunks and pages assume that the TPM does not
  change in between, and that 16-bit sizes do not wrap.

`PROJECT.json` lists the hazards at their lines, with the properties that
cover each, or the reason why none does yet.

## The modules

| module | models |
|---|---|
| `ToolScript` | the vocabulary: what a step of a tool is, and the shared calls (`Auth`, `Restore`, `Close`, `AuxSessionsSetup`, `CloseAux`) |
| `SessionTools`, `PolicyTools`, `NvTools`, `KeyTools`, `AttestTools`, `AdminTools` | every TPM tool: its `tpm2_tool_onrun` and `tpm2_tool_onstop` as scripts |
| `ToolRuntime` | `main`, `tpm2_session_open`, `_restore`, `_close`, the authorisations: processes that interpret the scripts against one TPM and one set of files |
| `SessionLedger` | the abstract specification: who answers for each session |
| `ToolLedger` | the runtime as an implementation of the ledger |
| `MCTools` | the instances of the tools for TLC |
| `NvTransfer` | `nvread` and `nvwrite` moving data to and from an NV index in chunks, against other tools that change it |
| `PcrValues` | `pcrread`, `quote`, `checkquote` and `policypcr` with the values of PCRs, against `pcrextend` and `pcrreset` |
| `MCPcr` | PCR lists and banks for TLC |
| `CallScript` | the vocabulary for functions that are one sequence of library calls with a ladder of error paths |
| `EsysCalls` | the 45 functions of `lib/tpm2.c` that can compute a cpHash or rpHash, as call scripts |
| `FapiTools` | the 36 tools of `tools/fapi`, as call scripts |
| `CallRuntime` | processes that run call scripts: memory, the SAPI context, `open_read_and_close`, `open_write_and_close` |
| `MCCalls` | both sets of scripts for TLC |
| `TpmObjects` | hash, HMAC and event sequences; listings of handles; lookups of free handles and indices and what follows |
| `MCObjects` | tables of handles for TLC |
| `ScriptFlow`, `CallFlow` | criteria that can be read off a script: what a proof needs to know of one |
| `MCFlows` | which of the real scripts meet each criterion, as assumptions that TLC evaluates |
| `Ordered` | sets of numbers in ascending order, as a bitmap of PCRs and a list of handles have them |
| `ToolRuntimeProofs`, `LedgerProofs`, `FlowProofs` | theorems about `ToolRuntime` and `ToolLedger` |
| `NvTransferProofs` | theorems about `NvTransfer` |
| `CallProofs` | theorems about `CallRuntime` |
| `OrderedProofs`, `ObjectProofs` | what `Ascending` returns; theorems about `TpmObjects` |
| `PcrProofs` | theorems about `PcrValues` |

### How the state corresponds to the code

* `sess`, `counter`: the TPM (external).  A session is free, loaded by a
  connection, or saved; saving gives it a fresh context number and only the
  current context can be loaded.  This is what the code relies on for the races
  at session files.
* `file`: session files, by the context number in them; 0 is a missing, empty
  or half written file.  `fopen(path, "w+b")` sets it to 0 (`OpenFile`), the
  stream reaches it at `fclose` (`WriteContext`).
* `proc[p]`: a process image.  `phase` and `pc` say which of the two functions
  runs and before which step; `micro` the progress inside the step (file read
  and context not loaded; session started and PolicyPCR outstanding; file
  opened; session saved and not written).  `hold`, `path`, `final` are the
  `tpm2_session` objects behind the tool's pointers.  `rc` is the result of
  `onrun`, `stopRc` the one of `onstop`.
* `failed`, `lost` are history variables, read by properties only.  `lost` holds
  the sessions that a kill, a failure inside `tpm2_session_close` or the
  replacement of their file took away, for which nobody can blame the tool.

### NV transfer

`NvTransfer` looks inside two of the tools.  `index` and `data` are the public
area and the contents of one NV index (external).  `proc[p]` has the `ctx` of
the tool and the local variables of its loop (`size`, `offset`, `doneOffset` for
`data_offset`, `maxData` for `max_data_size`), `buffer[p]` the `data_buffer` of
nvread or the `nv_buffer` of nvwrite.  There is one action per access to the
TPM: public area, authorisation, buffer size, each chunk.  The order is that of
the code, which differs: nvread authorises before it looks at the size, nvwrite
after.  A byte carries the place in the index that the user meant it for, so
that a byte at another place shows.  A byte of the model stands for a block;
`Word` is what a `UINT16` wraps at, and arithmetic on it is modulo `Word`
where the code assigns to a `UINT16`, and exact where it computes an `int`.  The
session of an authorisation is reduced to whether it is a policy session, whose
policy holds for one command.  The lifetime of sessions is the business of
`ToolRuntime`.

### PCR values

In `PcrValues`, `register` has the PCRs (external), each by the number of times it
was extended since its reset, and `file` the three files of a quote and the output of
`pcrread --output`.  `proc[p]` has the selection as it was given (`asked`), as
`pcr_check_pcr_selection` leaves it (`sel`) and what `pcr_read_pcr_values` has still to
read of it (`left`); `lists` is a `tpm2_pcrs`, a sequence of `TPML_DIGEST`.  One action is
one TPM command or one file: each turn of the reading loop is a step of its own, and so
is each file of `write_output_files`.  The four walks of the code over a selection
and its lists (printing, hashing, and both in little endian) are one operator
(`Labels`, `Values`, `Walked`).  A value carries the PCR it was read from, for
the properties only; what the code compares are digests, which `Digest` abstracts to
bank and content in order.  A message names the quote it is of, because two
quotes never are the same (clock and counters), and stands for its signature.
The keys, the qualifying data, the event log and a digest given on the command
line of `policypcr` are left out.

### Calls and their error paths

`CallRuntime` looks inside the functions that `ToolRuntime` takes as one step.  A call
script has one step per call whose failure the code looks at, in the order of the code,
with the pointers that are freed when it fails (`lost`) or has passed (`done`).  `mem[p]`
has the pointers of a process by their role: a local without initialiser starts *wild*,
and freeing anything but a held pointer or NULL makes it *broken*.  `hash[p]` is the SAPI
context, what was hashed and whether the command was sent.  The 45 functions of
`lib/tpm2.c` differ in the handles, in the place of the NV lookup and of the sessions, and
in whether they check the first of two hashes; `HashOnly`, `HashBoth` and
`HashBothUnchecked` are the three forms.  `io[p]` follows one input or output at a time:
its `open`, its `read` or `write` and its `close` are steps of their own.  `size` is the
size of the input file, which others may change; a process without standard input has no
`pipe`.  `fstat` may tell any size, the true one or not (a pipe given by its path is said to
have none), and a `read`, of a file or a pipe, may return less than there is: the code
looks at neither.  `cut` has the inputs that were not passed on as they are.  `excused` has those
of which `fstat` did not tell the size, a read was short, a prompt took the rest, or the file
changed: `FullReadsWhole` leaves them out, `InputWhole` does not, and fails.
`robbed` has the outputs whose path another tool opened with `--force`.

### Objects of the TPM

`TpmObjects` has one action per TPM command or file access of a tool.  `run[p].left` is the
`size_t` that counts down the size of the file and wraps at `Word`; `at` is the size that
the file was said to have, `size` what can be read of it now.  They differ when reading does
not start at the beginning of the file or the kernel makes the file up (`Reported`), and when
the file changes.  `createek` is told a handle, looks one up, or saves the context of its
key to a file and leaves the key loaded, which its manual page shows as intended.  `trans`, `handles` and `indices` are the TPM's tables
(external).  With a resource manager (`managed`) each connection has its transient objects
to itself and they go with it, and tools interleave.  Without one the device is open in one
tool at a time, and what a tool leaves loaded stays.  `seen` is a history variable: what
was in a table at some time, and at all times, of a listing.  `Response` and `MoreData` are
what the TPM answers; `OnePage` are the tools that do not look at `moreData`.

### How a tool becomes a script

A script is the sequence of the calls of the function that open, restore or
close a session or whose failure the function looks at.  Each step says which
slot it works on, whether an option decides if it happens (`optional`), what the
failure leaves in `rc` (`code`, `Unreported` when it leaves rc as it was),
where control goes on failure (`then`: return, next step, or a label), and
whether success overwrites `rc` (`resets`).  Consecutive calls without effect
on sessions are merged when a failure of any of them does the same.
Computations, file formats and the contents of commands are abstracted to
success or failure.

## What the runs check

All passing runs use the full fault model: every call may fail, every process
may be killed at any step.  Deadlock is checked in all of them (`Finished` is
the only state in which nothing happens) but `calls` and `objects`, where each
process runs one tool and then stops for good.

| run | expected | properties | shows |
|---|---|---|---|
| `catalogue` | pass | `TypeOK`, `NoForgottenSession`, `HonestExit` | Every tool that does not forget a session, one at a time, against a TPM with three sessions parked in files: what it opens or restores it gives back on every path, and but for the tools of MaskingTools it exits with 0 only if no call whose result is looked at failed. |
| `racing` | pass | `ExclusiveSessions`, `NoForeignOverwrite`, `KeepsLedger`, `EveryToolEnds`, `SessionsComeBack` | Two processes, one of them behind a resource manager, run three tools that race for the one session parked in the one session file, restoring, using and flushing it: only one has it at a time, the losers do not touch the file, the runtime implements the ledger of session owners, every tool ends, and every session comes back to a file or to the TPM or fell to a failure. |
| `flushing` | pass | `NoForgottenSession`, `HonestExit` | Flushes by handle and by property run beside tools that start sessions and park them in new files, restore, use and end them: no session is forgotten and every failure whose result is looked at is reported. |
| `unclean` | violation | `ToolsEndCleanly` | Tools that end by themselves forget a session in the TPM (unseal with --cphash, commit, createek and the other tools of LeakyTools), exit with 0 although a call has failed (createak, evictcontrol, encryptdecrypt and the other tools of MaskingTools), or lose the session they were to save (startauthsession, when fclose fails): each tool of UncleanTools breaks the property on its own, when Tools is narrowed to it (getsessionauditdigest with MaxSessions = 3). |
| `nvtransfer` | pass | `TypeOK`, `ReadInPlace`, `WriteInPlace`, `UndisturbedRead`, `AllOrNothing`, `EveryTransferEnds` | An NV index is read and written in chunks by two processes that also lock, undefine and define it: bytes end up where they belong, writes are whole or not at all, and the loops end. |
| `inplace` | violation | `InPlace` | An nvread whose --offset does not fit 16 bits reads another place of the index, and an nvwrite from a standard input longer than 16 bits can count, or without -i, writes bytes that are not those of its input; both exit with 0. |
| `pcr` | pass | `TypeOK`, `LinesInPlace`, `UndisturbedLines`, `QuotedLines`, `PolicyWhole`, `FailureHasCause`, `LoadedQuoteAccepted`, `PlainVerdict` | PCRs are read in batches for pcrread, quote and policypcr while another process extends and resets them or runs a second quote on the same files: values get the right labels, a quote is written with the values it is of, a checkquote that gets through the three files of one quote accepts them, and one that is given the plain output of pcrread, with fewer digests than fill a list, is right both ways. |
| `checkquote` | violation | `QuotesVerified` | checkquote does not verify what a quote or pcrread has written: it refuses the three files of one quote, by the bytes of the count that the file does not set (Sources = {"file"} alone), and the plain values of pcrread when they fill a list of digests (Sources = {"list"} and MaxLists = 3), or goes past the last list (PcrValues!ListsFit as the invariant, Sources = {"list"}). |
| `calls` | pass | `TypeOK`, `CleanFrees`, `NothingLeft`, `HonestHash`, `HonestResult`, `OutputsWhole`, `FullReadsWhole`, `NoClobber` | Every function of lib/tpm2.c that can hash its command or response, and every tss2 tool but one, from its options to its files, with every call of it failing or not, and two of them beside each other: nothing is freed that was not allocated, no name stays allocated, the hash is the one of the command that is sent, success means that every call succeeded but in the seven functions of ForgivingCalls, outputs are whole and clobber no file, and inputs are whole if every read gives all there is. |
| `unread` | violation | `InputWhole` | A tss2 tool passes on, and exits with 0, the first piece of its standard input for all of it, when the writer of the pipe has not written a whole block yet, or a buffer of the size that an input file is said to have, however little of it was read. |
| `objects` | pass | `TypeOK`, `DigestOfInput`, `ListFaithful`, `ChosenWasVacant`, `VacantFound`, `LeavesNothing`, `TrueSizeEnds` | Digests of files that other programs change or whose size is not what it is said to be, and listings of handles and lookups of free ones, with and without a resource manager: a digest is of as many bytes as the file was said to have and ends if the file has them, a tool that succeeds leaves no object of its own loaded but the key whose context it was asked to save, and what is listed or chosen was so during the query although other tools take and give up handles meanwhile. |
| `endless` | violation | `EveryDigestWhole` | The loop over the blocks of a file does not end when there is less to read than the file was said to have (standard input that is not at its beginning, or a file that shrinks), and the digest of a file that is said to have no size is that of no data. |


### Bounds

`MaxRuns` bounds the invocations, `MaxSessions` the sessions.  A session changes hands
only through a file or the TPM, and every conflict is between the holder of a
context and one competitor, so two processes show all races, and a third
invocation shows that a loser does not disturb the winner of a later round.  The
catalogue runs
one process at a time, since what a script forgets does not depend on others;
it gets as many parked sessions (three) as there are optional auxiliary
sessions beside an authorisation.  In `racing` and `flushing` two sessions
suffice for one to be parked and one to be started, and for a third to find
no room; `flushing` has a second file, for a session that is new.  In `racing` one of the
processes is behind a resource manager and the other is not, so what a tool leaves loaded
is flushed in one case and stays in the other (`RM`).  `flushing`, `pcr` and `calls` use the
symmetry of the processes; they check no liveness.

`nvtransfer`: a buffer of two bytes and indices of two and three make transfers
of one, two and three chunks, and a redefined index larger or smaller than the
one looked up; a TPM reports a buffer of 0, the default or more than the library
holds; three invocations let two transfers overlap with one other tool, or one
with two.  `Word` is 5, above every place of an index, as 65536 is.  `inplace`
widens the options: an offset of 5, an input of 7, no input at all.

`pcr`: lists of two values, and room for two lists, make reads of one and two
batches, one that crosses from a bank to the next within a batch, and one that finds
no room.  The PCR lists name a bank and a PCR that the TPM does not have and a
PCR twice.  Three invocations are two quotes and a check, or a read against an
extension and a reset.  As lists of the user they fill no list, which is where the
verdict on plain values is right, or go past the last list within a bank.  `checkquote`
has lists that fill none and all; nothing changes the PCRs.

`calls`: every script runs in each process, with every set of its options, every choice of
what goes to `-`, and a failure at every call.  `Beside` bounds the scripts that run while
another process runs to two: processes meet at output files only, through two operators
that are the same for all tools, so two tools with one and with two outputs, one of the
paths free and one taken, show every conflict.  An input is empty or a block and a half, so that
a read is cut before, at and after the end of a block; it is said to have its size, or the other.
`unread` runs the tools that read an input, one at a time.

`objects`: files are empty, one block or two and a half, so that they take no, one or
several updates; each is said to have its own size, none, or a larger one, and changes at most
once in a run, to a smaller or a larger size.  `endless` has the digests alone.
`Word` is far above any size.  Two handles fit a response and four a list, the TPM has five
persistent handles: a listing takes up to two more queries, and can come out full.  Two
transient objects are as few as make `flushcontext` work on more than one.  Two digests never
meet (each has its own sequence), so one of the two processes never is one.

### Fairness

`Spec` assumes weak fairness of `ToolStep(p)` for each process: a tool that runs
is scheduled until it exits and the TPM and the file system answer, if only
with an error.  Nothing obliges a user to invoke a tool, and a kill may or may
not come.  No fairness is assumed of any single branch: a call may fail every
time.  In `NvTransfer` the failure of a call is no part of the fair action: the
loops must end by their own progress.
`TpmObjects` is fair to the steps of a digest only, for the same reason; a listing is
bounded by the length of its list and needs no liveness property.  `CallRuntime` has no
fairness: its scripts have no loops but the one over a pipe.

## What is proved

The theorems hold for any number of processes, files, sessions, invocations, handles and
bytes.  What they assume of the constants are the named `ASSUME`s of the modules, which
TLC evaluates in the runs (`CountsAssumption`, `RangesAssumption`, `BlockAssumption`,
`MenuAssumption`, `ScriptsAssumption`, ...): types, sizes that are positive, a path that is
no file, at most one file per session initially, a `size_t` that holds any two files.
Where a theorem needs more, it is an `ASSUME` of that theorem, and listed here.

### The runtime and its sessions

These hold for *any* scripts, so they do not depend on the catalogue of tools.

* `TypeCorrect` (`[]TypeOK`).
* `SessionsExclusive` (`[]ExclusiveSessions`) for any tools that do not flush by handle or
  by property (`NoBulkFlush`).
  `ExclusiveSessions` is not inductive: when a context is loaded one must know
  that nobody holds that session, and when two files carry the same number that
  it was saved once.  The invariant `Inv` adds:
  progress inside a step occurs only with a session in hand (`Orderly`);
  context numbers never exceed the counter (`Bounded`) and differ for different
  sessions (`Distinct`); the context a process is about to write is in no other
  memory and no file (`Private`).  The argument
  is the one the code relies on without saying so: a session that someone holds
  is loaded, or saved under a number that is in that process's memory only, and
  a number is never given out twice, so no file read before can be current.
* `OnlyStaleFilesReplaced` (`[]NoForeignOverwrite`) where no tool makes a session file of
  its own (`NoNewFiles`: `startauthsession -S` may name any file, and the user asked for
  it).  A session file then works as a lock: as long as a tool has the session of a file
  in hand, the number in that file is stale, and nobody else can load it and come to hold
  the same path (`PathLock`, `PathStale`, `ReadCurrent`).
* `ToolsKeepLedger` (`KeepsLedger`) under `NoBulkFlush`: every step of the runtime is,
  under the mapping of `ToolLedger`, a step of `SessionLedger` or none.  There are ten
  ways in which a session moves between free, held, parked and lost; each action is shown to be one
  of them for the session it touches and none for the others (`Sound`).

Two properties do depend on what the tools do, and are proved from a criterion on scripts:

* `ExitCodesHonest` (`[]HonestExit`) under `HonestScripts`: on failure every step puts a
  code into `rc` or returns it, and nothing resets it afterwards.  The invariant
  (`Reported`) says that once a call failed, `rc` has a failure and will keep it on every
  way out.  A call is one whose result the code can look at: the `fclose` of a session file
  is not among them; that is `CloseSaves`, a part of what the run `unclean` shows to fail.
* `SessionsRemembered` (`[]NoForgottenSession`) under `NoBulkFlush` and `TidyScripts`: on
  every way from a step that opens or restores into a slot to the end of `onstop` there
  is a close of that slot.

`MCFlows` evaluates the criteria for the real scripts, so the theorems say what they say of this
program: `Tidy` refuses exactly the tools of `LeakyTools`,
`Honest` no tool that is honest but `policysecret`, whose second close runs after a failure
that is in `rc` already; of that one only TLC's runs speak.

### NV transfer

For any number of processes, sizes of indices, buffers and `Word`:

* `TransferTypes` (`[]TypeOK`), from `TypeInv`, which adds what ties the size left
  in a loop to the buffer it fills or empties.
* `UndisturbedReads` (`[]UndisturbedRead`), from `SameInv`: in the loop of
  `tpm2_util_nv_read`, `offset` is the offset it began with plus what has arrived,
  and what has arrived is what the index holds as long as nobody else has
  touched it.
* `WritesInPlace`, `ReadsInPlace` (`[]WriteInPlace`, `[]ReadInPlace`), from `PlaceInv`:
  what has arrived and what is still missing add up to what was asked for; the
  input of an nvwrite carries the places it is meant for; only such bytes get
  into an index.  These need `OptionsFit`: sizes and offsets that fit 16 bits, an
  input that was read and fits the buffer.  The code assumes that and does not
  check it, and the run `inplace` is what happens otherwise.
* `WritesWhole` (`[]AllOrNothing`), from `WholeInv`: the size check in front of the
  loop keeps its truth while the tool is alone, so that no later chunk can fail
  when the first did not, except by a fault or a spent policy.

### Calls and their error paths

* `CallTypes` (`[]TypeOK`) and `FullReadsAreWhole` (`[]FullReadsWhole`): the buffer of
  `open_read_and_close` has what was read so far, as a sum (`Whole`), and what a step needs
  was made before it (`Made`).
* `NothingClobbered` (`[]NoClobber`): a file that was there can only be opened with `--force`.
* `OutputsKept` (`[]OutputsWhole`) under `WriteScripts` (a script that
  writes files ends nowhere but at its end, and writes no output twice): a result that is written (`Filed`) stays in its file until somebody with `--force` comes
  (`Remembered`).
* `ResultsHonest` (`[]HonestResult`) under `FirmScripts` (a call's failure is looked at).
* `FreesAreClean` (`[]CleanFrees`) under `CleanScripts`: a criterion that follows each
  pointer through the script and its ladder of labels, as *wild*, null, held or freed.
  The invariant (`Sane`) is that the memory of a process is what the criterion says.
* `NoNameLeft` (`[]NothingLeft`) under `TidyNameScripts`, from `NamesKnown`.
* `HashesHonest` (`[]HonestHash`) under `FirmScripts` and `HashScripts` (prepare, names, hash
  and send in that order), from `Hashed`.

Of the real scripts (`MCFlows`) `CleanScripts` refuses only `getplatformcertificates`, which is no
part of the run either, and `FirmScripts` exactly those of `ForgivingCalls`, whose
failures the code lets pass on purpose or by mistake; the other three hold for all.

### Objects of the TPM

All from one invariant `IInv`: what a run has by the place it is at (`Kind`), of its file
(`Digesting`), of its list (`Listing`); and that a device without resource manager is open in one
tool at a time (`OneAtATime`).  A step of another tool reaches a run only through the table
that it lists, which is one lemma (`OthersSane`).

* `ObjectTypes` (`[]TypeOK`): a list is strictly ascending (`Sorted`), so it has nothing
  twice.
* `DigestsAreWhole` (`[]DigestOfInput`): what is left, what was fed and the size at the
  first look add up.  If the file grew, the count wraps once, and is from then on larger than any
  block for as long as there is something to read (`Counted`, `CountGoesOn`): the tool
  cannot take the wrapped count for the end.
* `ListsAreFaithful` (`[]ListFaithful`): everything that was in the table all the while and is
  below the next handle to ask for is in the list (`Asking`, `ListGrows`).  It rests on what a
  response is, that is on `Ascending` having every element of a set, once and in order
  (`AscendingSorts`), for which `OrderedProofs` has an induction over the naturals by least
  elements (`LeastNat`).
* `ChosenWereVacant`, `VacantAreFound` (`[]ChosenWasVacant`, `[]VacantFound`).
* `NothingIsLeft` (`LeavesNothing`, an action property) under `FewSlots`: the TPM has no more
  slots for transient objects than a list has places (254; a TPM has a handful).
  Otherwise `flushcontext -t` would stop at a full list.

### PCR values and quotes

For any PCRs, banks and selections, and any size of a batch and number of lists.

* `LinesAreInPlace`, `LinesAreUndisturbed`, `LinesAreQuoted`, `PolicyIsWhole`,
  `FailureIsCaused` (`[]LinesInPlace`, `[]UndisturbedLines`, `[]QuotedLines`, `[]PolicyWhole`,
  `[]FailureHasCause`) from one invariant `Ready`, about one process at a time.  Its heart is a
  count (`Walking`): what was read and what is left are together never more than the labels;
  as long as they are as many, they are the labels in their order, and only a PCR that is named
  twice can make them fewer.  So a walk that does not run out of values puts each in its
  place, and a failure has a cause.  While all batches but the last are full (`Batches`),
  `TPM2_MAX_PCRS` lists hold as many values as `FailureHasCause` says.
* `PcrTypes` (`[]TypeOK`), which includes that no tool that reads PCRs from the TPM makes more
  lists than a `tpm2_pcrs` holds.  Of the lists that `checkquote` makes of a user's list it says
  nothing: they can be more (`ListsFit`, in the run `checkquote`).
* `LoadedIsAccepted` (`[]LoadedQuoteAccepted`), from `IInv`, which adds that invocations and
  quotes are told apart by their numbers (`Distinct`), that a PCR file fits the message of the
  same quote, wherever that message is now (`Matching`), and where a `checkquote` has its
  files from (`Traced`).  A step enters into `Distinct` and `Matching` only by what it does to
  messages, files and numbers (`Tracked`).

What these rest on is how a selection is walked and flattened: `Places` joins one sorted row per
bank, a batch taken off with `Without` leaves the rest of the walk (`Taken`), and flattened lists
are longer by the list that is appended (`FlattenAppend`).  The prover has no induction over
lists, so these lemmas are proved by the least counterexample, with `LeastNat`.

### What is checked by TLC only

* The liveness properties `EveryToolEnds`, `SessionsComeBack`, `EveryTransferEnds` and
  `TrueSizeEnds`: they need ENABLED and fairness, which the prover cannot handle.
* `NoForgottenSession` and `ExclusiveSessions` beside tools that flush by handle
  (run `flushing`), and `HonestExit` of `policysecret`.

## Where the code disagrees with its documentation

TLC ends each of these runs with a counterexample; `PROJECT.json` quotes the lines.  A run checks
one property, which joins what is claimed of a component, and finds the shortest
counterexample; its description says how it is narrowed to each of the others.

In the run `unclean` (`ToolsEndCleanly`, for each tool on its own when `Tools` is narrowed to it):

* Sessions left behind (the library says that HMAC sessions live the life of the
  tool): tools that skip the close with `--cphash` although the session was
  opened (`unseal`, `nvincrement`, `nvreadlock`, `nvwritelock`, `nvsetbits`,
  `nvundefine`, `nvcertify`, `policyauthorizenv`, `policynv`); tools with no
  `onstop` (`commit`, `ecdhzgen`, `zgen2phase`, `createpolicy`); `createek` and
  `import`, which return past their close.
* Failures reported as success (the manual says that 0 is success):
  `flushcontext`, `getsessionauditdigest`, `getcommandauditdigest`, `createak`,
  `evictcontrol`, `encryptdecrypt`, `duplicate`, `import`, `getekcertificate`; with both
  hashes `activatecredential`, `nvdefine`, `nvextend`, `unseal`; with a TPM that was not
  started `clear`, `clearcontrol`, `hierarchycontrol`.
* A session that did not reach its file is lost with exit code 0: `startauthsession`, when
  `fclose` fails.

In the others:

* `nvread` drops the upper half of `--size` and `--offset`; `nvwrite` does not read
  standard input unless told to with `-i -`, and then mangles an input longer than its
  buffer (run `inplace`).

* `checkquote --pcr-list` fails with eight PCRs or more, and with a list that is
  long enough writes past the last of its lists; `checkquote` may refuse the files that
  `quote` has just written, by bytes that nobody has set (run `checkquote`).
* A tss2 tool passes on the first piece of a slow standard input, and a buffer of
  the size that a file is said to have, whatever was read of it (run `unread`).
* `hash`, `hmac` and `pcrevent` never end when there is less to read than the file was said to
  have, and digest nothing of a file that is said to be empty (run `endless`).

`LeakyTools` and `MaskingTools` in `MCTools` name them all; the runs that pass
without them (`NoForgottenSession`) or with them excused (`HonestExit`, through the
constant `Masking`) show that there are no others.

## What is not modelled, and why

* Out of memory, everywhere.
* `quote --cphash` in `PcrValues` (it is a step of the script in `AttestTools`).
* `continueSession` and the other session attributes; a failure to set them
  (the session is flushed in the same function, so it is part of `AcquireFails`).
* Transient objects other than sequences and the key of `createek`.
* File formats, `SESSION_VERSION`, hashes and symmetric algorithms in them.
* The listing of tools by name, the option tables, the choice of a TCTI, logging.
* In `tools/fapi`: `sign_callback` and `branch_callback`, which FAPI calls in the middle of
  its work (the first writes files without asking whether they are there); a failing `read` of standard input
  (its -1 becomes a large `size_t`, and the loop goes on); the password prompt beyond what it takes
  from the input.  `getplatformcertificates` frees a pointer that a failed FAPI call may
  not have set; what that does depends on the library, so it is translated but is not on
  the menu of `calls`.
* In `TpmObjects`: what stdio has in its buffer when a file changes (a change is seen by the
  next block), and the capabilities that are not handles.
* The event log: a walk over the bytes of one file, with no TPM and no state that outlives
  it.  `send`: a relay between two streams.
* `tpm2_print`, `rc_decode`, `certifyX509certutil`: pure functions of a file.

## Plan

Every component with state of its own is modelled, and the safety properties that the passing
runs check are proved, each under the assumptions named above.  What is left:

1. The attributes of sessions (`continueSession`) and the formats of session files
   (`SESSION_VERSION`): two hazards that no property covers yet.

