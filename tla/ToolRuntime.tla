---------------------------- MODULE ToolRuntime -----------------------------
(***************************************************************************)
(* Processes running tools against one TPM and one set of session files.   *)
(*                                                                         *)
(* tools/tpm2_tool.c (main), lib/tpm2_session.c (open, restore, close) and *)
(* lib/tpm2_auth_util.c (where the sessions of an authorisation come from) *)
(* run the scripts of the tools.  A process is one invocation of a tool;   *)
(* processes interleave between any two accesses to the TPM or to a file,  *)
(* may fail at every such access and may be killed at any time.            *)
(*                                                                         *)
(* The TPM (with or without a resource manager in front of it) and the     *)
(* file system are external: they are modelled by what the code relies on. *)
(***************************************************************************)
EXTENDS ToolScript, FiniteSets

CONSTANTS
    Procs,       \* processes: shells that run one tool after another
    Files,       \* session file names
    NoFile,      \* the NULL path
    MaxSessions, \* active sessions the TPM has room for
    Tools,       \* the tools that may be invoked
    Masking,     \* the tools whose exit code is known to hide failures
    Onrun,       \* the tools' tpm2_tool_onrun scripts
    Onstop,      \* the tools' tpm2_tool_onstop scripts
    Parked,      \* the session each file holds at the start, 0 for none
    RM,          \* processes whose resource manager flushes what they leave loaded
    MaxRuns      \* bound on the number of tool invocations

Sids == 1..MaxSessions

ASSUME ProcsAssumption == NoFile \notin Files /\ Tools # {}
ASSUME SessionsAssumption == MaxSessions \in Nat /\ MaxRuns \in Nat
ASSUME RMAssumption == RM \subseteq Procs
ASSUME ScriptAssumption ==
    Onrun \in [Tools -> Seq(Step)] /\ Onstop \in [Tools -> Seq(Step)]
ASSUME ParkedAssumption ==
    /\ Parked \in [Files -> 0..MaxSessions]
    /\ \A f, g \in Files : Parked[f] = Parked[g] /\ Parked[f] # 0 => f = g

VARIABLES
    sess,     \* the TPM's sessions
    counter,  \* the TPM's context counter
    file,     \* context number in each session file, 0 if it holds none
    proc,     \* the processes
    runs,     \* invocations so far
    lost      \* history: sessions given up after a failure, kill or overwrite

vars == <<sess, counter, file, proc, runs, lost>>

(***************************************************************************)
(* A session of the TPM is free, loaded by the connection in conn, or      *)
(* saved.  Saving gives it a fresh context number; only the context with   *)
(* the session's current number can be loaded, once.  Of the three types   *)
(* the code tells only trial sessions apart.                               *)
(***************************************************************************)
Session == [st: {"free", "loaded", "saved"}, cid: Nat,
            conn: SUBSET Procs, trial: BOOLEAN]

(***************************************************************************)
(* A process: pc is the next step of the script of its phase; micro is the *)
(* progress inside that step; hold and path are the tpm2_session objects   *)
(* of its slots (0: NULL pointer), final the is_final ones; buf is the     *)
(* context in memory, from the file or for the file "opening"; listed the  *)
(* handles of a capability query.  status and failed are what an observer  *)
(* sees: the last exit code, and whether a step of that run failed.        *)
(***************************************************************************)
Process == [phase: {"idle", "onrun", "onstop"}, tool: Tools, cpHash: BOOLEAN,
            pc: Nat, micro: {"ready", "read", "pcr", "close", "open", "saved"},
            rc: ToolRc, stopRc: ToolRc,
            hold: [Slots -> 0..MaxSessions], path: [Slots -> Files \cup {NoFile}],
            final: SUBSET Slots, buf: Nat, opening: Files \cup {NoFile},
            listed: SUBSET Sids, status: ToolRc \cup {"killed"}, failed: BOOLEAN]

TypeOK ==
    /\ sess \in [Sids -> Session]
    /\ counter \in Nat
    /\ file \in [Files -> Nat]
    /\ proc \in [Procs -> Process]
    /\ runs \in Nat
    /\ lost \in SUBSET Sids

\* A freshly started process image: ctx structures are zeroed.
Fresh(t, c) ==
    [phase |-> "onrun", tool |-> t, cpHash |-> c, pc |-> 1, micro |-> "ready",
     rc |-> "success", stopRc |-> "success",
     hold |-> [x \in Slots |-> 0], path |-> [x \in Slots |-> NoFile],
     final |-> {}, buf |-> 0, opening |-> NoFile, listed |-> {},
     status |-> "success", failed |-> FALSE]

\* The process image is gone; its exit status and history remain.
Gone(status, failed) ==
    [Fresh(CHOOSE t \in Tools : TRUE, FALSE) EXCEPT
        !.phase = "idle", !.status = status, !.failed = failed]

FreeSession == [st |-> "free", cid |-> 0, conn |-> {}, trial |-> FALSE]

\* Some sessions may already be saved in files by an earlier startauthsession.
Init ==
    /\ \E trial \in [Sids -> BOOLEAN] :
          sess = [s \in Sids |->
                    IF \E f \in Files : Parked[f] = s
                    THEN [st |-> "saved", cid |-> s, conn |-> {}, trial |-> trial[s]]
                    ELSE FreeSession]
    /\ counter = MaxSessions
    /\ file = Parked
    /\ proc = [p \in Procs |-> Gone("success", FALSE)]
    /\ runs = 0
    /\ lost = {}

-----------------------------------------------------------------------------
(* External: the TPM commands on sessions, as functions of its state.      *)

StartAuthSession(s, p, trial) ==
    sess' = [sess EXCEPT ![s] = [st |-> "loaded", cid |-> 0,
                                 conn |-> {p}, trial |-> trial]]

ContextLoad(s, p) ==
    sess' = [sess EXCEPT ![s].st = "loaded", ![s].conn = {p}]

ContextSave(s) ==
    /\ sess' = [sess EXCEPT ![s].st = "saved", ![s].cid = counter + 1,
                            ![s].conn = {}]
    /\ counter' = counter + 1

FlushContext(s) == sess' = [sess EXCEPT ![s] = FreeSession]

\* A resource manager flushes the sessions a vanished client left loaded.
Disconnect(p) ==
    sess' = [s \in Sids |->
                IF p \in RM /\ sess[s].st = "loaded" /\ sess[s].conn = {p}
                THEN FreeSession ELSE sess[s]]

\* TPM2_ContextLoad accepts exactly the current context of a saved session.
Current(s, c) == sess[s].st = "saved" /\ sess[s].cid = c

-----------------------------------------------------------------------------
(* The interpreter of a script.                                            *)

Running(p) == proc[p].phase # "idle"

Script(r) == IF r.phase = "onrun" THEN Onrun[r.tool] ELSE Onstop[r.tool]

AtStep(p) == Running(p) /\ proc[p].pc \in 1..Len(Script(proc[p]))

Cur(p) == Script(proc[p])[proc[p].pc]

\* The slot the current step works on, and the session in it.
Slot(p) == Cur(p).slot
Held(p) == proc[p].hold[Slot(p)]
Path(p) == proc[p].path[Slot(p)]

\* The process is about to begin a step with one of these operations.
Ready(p, ops) == AtStep(p) /\ proc[p].micro = "ready" /\ Cur(p).op \in ops

Become(p, r) == proc' = [proc EXCEPT ![p] = r]

\* Fault: rc is assigned even where the code keeps it.
SetRcAlways(r, code) ==
    IF r.phase = "onrun" THEN [r EXCEPT !.rc = code] ELSE [r EXCEPT !.stopRc = code]

\* rc of onrun, or the tmp_rc that onstop builds up.
SetRc(r, code) ==
    IF code = "keep" THEN r
    ELSE IF r.phase = "onrun" THEN [r EXCEPT !.rc = code]
    ELSE [r EXCEPT !.stopRc = code]

\* Control is before step n; nothing is in memory of the step before.
Goes(r, n) ==
    [r EXCEPT !.pc = n, !.micro = "ready", !.buf = 0, !.opening = NoFile]

NextStep(r) == Goes(r, r.pc + 1)

Advance(r, step) ==
    NextStep(SetRc(r, IF step.resets THEN "success" ELSE "keep"))

\* Fault: a failing call is repeated until it succeeds.
FailStepRetries(r, step) == [Goes(SetRc(r, step.code), r.pc) EXCEPT !.failed = TRUE]

FailStep(r, step) ==
    [Goes(SetRc(r, step.code), CASE step.then = 0 -> Len(Script(r)) + 1
                                 [] step.then = 1 -> r.pc + 1
                                 [] OTHER -> step.then)
        EXCEPT !.failed = TRUE]

Succeed(p) == Become(p, Advance(proc[p], Cur(p)))
Fail(p) == Become(p, FailStep(proc[p], Cur(p)))

-----------------------------------------------------------------------------
(* main() of tools/tpm2_tool.c                                             *)

\* The tool has a --cphash option that decides what it closes.
UsesCpHash(t) ==
    \E script \in {Onrun[t], Onstop[t]} : \E i \in 1..Len(script) :
        script[i].op = "closeUnlessCpHash"

Invoke(p) ==
    /\ ~Running(p) /\ runs < MaxRuns
    /\ runs' = runs + 1
    /\ \E t \in Tools, c \in BOOLEAN :
          /\ c => UsesCpHash(t)
          /\ Become(p, Fresh(t, c))
    /\ UNCHANGED <<sess, counter, file, lost>>

\* onstart, tpm2_handle_options or ctx_init fails: onrun and onstop never run.
InvokeFails(p) ==
    /\ ~Running(p) /\ runs < MaxRuns
    /\ runs' = runs + 1
    /\ \E code \in {"general_error", "tcti_error"} : Become(p, Gone(code, TRUE))
    /\ UNCHANGED <<sess, counter, file, lost>>

\* Fault: onstop is called only if onrun passed.
CallOnstopIfPassed(p) ==
    /\ proc[p].phase = "onrun" /\ ~AtStep(p)
    /\ Become(p, [proc[p] EXCEPT
            !.phase = "onstop",
            !.pc = IF proc[p].rc = "success" THEN 1 ELSE Len(Onstop[proc[p].tool]) + 1])
    /\ UNCHANGED <<sess, counter, file, runs, lost>>

\* onrun has returned; onstop is called whatever its result.
CallOnstop(p) ==
    /\ proc[p].phase = "onrun" /\ ~AtStep(p)
    /\ Become(p, [proc[p] EXCEPT !.phase = "onstop", !.pc = 1])
    /\ UNCHANGED <<sess, counter, file, runs, lost>>

\* Fault: the error code always comes from onstop().
ExitCodeOfOnstop(r) == r.stopRc

\* if onrun() passed, the error code comes from onstop()
ExitCode(r) == IF r.rc = "success" THEN r.stopRc ELSE r.rc

\* exit(): teardown_full closes the TCTI.
Exit(p) ==
    /\ proc[p].phase = "onstop" /\ ~AtStep(p)
    /\ Become(p, Gone(ExitCode(proc[p]), proc[p].failed))
    /\ Disconnect(p)
    /\ lost' = lost \ {s \in Sids : sess'[s].st = "free"}
    /\ UNCHANGED <<counter, file, runs>>

\* The process is killed: nothing of onrun, onstop or exit is executed.
Kill(p) ==
    /\ Running(p)
    /\ Become(p, Gone("killed", proc[p].failed))
    /\ Disconnect(p)
    /\ lost' = {s \in lost \cup {proc[p].hold[x] : x \in Slots} :
                    s \in Sids /\ sess'[s].st # "free"}
    /\ UNCHANGED <<counter, file, runs>>

-----------------------------------------------------------------------------
(* Steps that touch no session.                                            *)

Work(p) ==
    /\ Ready(p, WorkOps)
    /\ Succeed(p) \/ Fail(p)
    /\ UNCHANGED <<sess, counter, file, runs, lost>>

\* The option that asks for the step was not given.
SkipOptional(p) ==
    /\ Ready(p, Ops) /\ Cur(p).optional
    /\ Become(p, NextStep(proc[p]))
    /\ UNCHANGED <<sess, counter, file, runs, lost>>

-----------------------------------------------------------------------------
(* tpm2_auth_util_from_optarg and tpm2_session_open: a session is started. *)

\* A session object for s, to be written to f when closed, enters the slot.
Holding(r, x, s, f, isFinal) ==
    [r EXCEPT !.hold[x] = s, !.path[x] = f,
              !.final = IF isFinal THEN @ \cup {x} ELSE @ \ {x}]

Started(p, s, trial) ==
    /\ sess[s].st = "free"
    /\ StartAuthSession(s, p, trial)
    /\ lost' = lost \ {s}

\* A password, from the command line or a file: an HMAC session with no path.
AuthPassword(p) ==
    /\ Ready(p, {"auth", "authRestricted"})
    /\ \E s \in Sids :
          /\ Started(p, s, FALSE)
          /\ Become(p, Advance(Holding(proc[p], Slot(p), s, NoFile, FALSE), Cur(p)))
    /\ UNCHANGED <<counter, file, runs>>

\* pcr:<selection>: a policy session with no path, then PolicyPCR on it.
AuthPcr(p) ==
    /\ Ready(p, {"auth", "authRestricted"})
    /\ \E s \in Sids :
          /\ Started(p, s, FALSE)
          /\ Become(p, [Holding(proc[p], Slot(p), s, NoFile, FALSE) EXCEPT
                            !.micro = "pcr"])
    /\ UNCHANGED <<counter, file, runs>>

\* tpm2_policy_build_pcr: on failure the session is closed and the step fails.
PolicyBuildPcr(p) ==
    /\ AtStep(p) /\ proc[p].micro = "pcr"
    /\ \/ Succeed(p)
       \/ Become(p, [proc[p] EXCEPT !.micro = "close"])
    /\ UNCHANGED <<sess, counter, file, runs, lost>>

\* tpm2_session_open: a session file is only written by the close that follows.
OpenSession(p) ==
    /\ Ready(p, {"open", "start"})
    /\ \E s \in Sids, trial \in BOOLEAN,
          f \in (IF Cur(p).op = "open" THEN Files ELSE {NoFile}) :
          /\ Started(p, s, trial)
          /\ Become(p, Advance(Holding(proc[p], Slot(p), s, f, FALSE), Cur(p)))
    /\ UNCHANGED <<counter, file, runs>>

\* A bad password, an unreadable file, no free session, a TPM error.
AcquireFails(p) ==
    /\ Ready(p, AcquireOps)
    /\ Fail(p)
    /\ UNCHANGED <<sess, counter, file, runs, lost>>

-----------------------------------------------------------------------------
(* tpm2_session_restore: the file is read, then its context is loaded.     *)

\* Fault: the file is opened for reading and writing, which empties it.
ReadContextTruncating(p) ==
    /\ Ready(p, {"auth", "restore", "restoreFinal"})
    /\ \E f \in Files :
          /\ file[f] # 0
          /\ Become(p, [proc[p] EXCEPT !.micro = "read", !.buf = file[f],
                                       !.opening = f])
          /\ file' = [file EXCEPT ![f] = 0]
    /\ UNCHANGED <<sess, counter, runs, lost>>

ReadContext(p) ==
    /\ Ready(p, {"auth", "restore", "restoreFinal"})
    /\ \E f \in Files :
          /\ file[f] # 0
          /\ Become(p, [proc[p] EXCEPT !.micro = "read", !.buf = file[f],
                                       !.opening = f])
    /\ UNCHANGED <<sess, counter, file, runs, lost>>

(***************************************************************************)
(* The restored session is closed again when a trial session was given to  *)
(* authenticate with (handle_session): the step then fails.                *)
(***************************************************************************)
LoadContext(p) ==
    LET isFinal == Cur(p).op = "restoreFinal"
    IN  /\ AtStep(p) /\ proc[p].micro = "read"
        /\ \E s \in Sids :
              /\ Current(s, proc[p].buf)
              /\ ContextLoad(s, p)
              /\ lost' = lost \ {s}
              /\ LET r == Holding(proc[p], Slot(p), s, proc[p].opening, isFinal)
                 IN  Become(p, IF Cur(p).op = "auth" /\ sess[s].trial
                               THEN [r EXCEPT !.micro = "close", !.buf = 0,
                                              !.opening = NoFile]
                               ELSE Advance(r, Cur(p)))
        /\ UNCHANGED <<counter, file, runs>>

\* The context is no longer the current one, or the TPM has no room.
LoadContextFails(p) ==
    /\ AtStep(p) /\ proc[p].micro = "read"
    /\ Fail(p)
    /\ UNCHANGED <<sess, counter, file, runs, lost>>

-----------------------------------------------------------------------------
(* tpm2_session_close                                                      *)

\* Nothing to close, or the tool's "if (!ctx.cp_hash_path)" skips the call.
CloseNothing(p) ==
    /\ Ready(p, CloseOps)
    /\ Held(p) = 0 \/ (Cur(p).op = "closeUnlessCpHash" /\ proc[p].cpHash)
    /\ Succeed(p)
    /\ UNCHANGED <<sess, counter, file, runs, lost>>

Closing(p) ==
    /\ AtStep(p) /\ Held(p) # 0
    /\ \/ proc[p].micro = "close"
       \/ /\ proc[p].micro = "ready"
          /\ \/ Cur(p).op = "close"
             \/ Cur(p).op = "closeUnlessCpHash" /\ ~proc[p].cpHash

\* Fault: the object is freed, but the tool's pointer is not set to NULL.
ReleasedNotNulled(p) == [proc[p] EXCEPT !.final = @ \ {Slot(p)}]

(***************************************************************************)
(* tpm2_session_close returns: the session object is freed whatever the    *)
(* result.  When an authorisation called it, to give up a session it has   *)
(* just opened, that authorisation fails.                                  *)
(***************************************************************************)
Released(p) == Holding(proc[p], Slot(p), 0, NoFile, FALSE)

CloseReturns(p, ok) ==
    Become(p, IF ok /\ Cur(p).op \in CloseOps
              THEN Advance(Released(p), Cur(p))
              ELSE FailStep(Released(p), Cur(p)))

\* The close gives up: the session stays where it is in the TPM.
Stranded(p) == {s \in Sids : s = Held(p) /\ sess[s].st # "free"}

CloseGivesUp(p) ==
    /\ CloseReturns(p, FALSE)
    /\ lost' = lost \cup Stranded(p)
    /\ UNCHANGED <<sess, counter, runs>>

\* fopen(path, "w+b") empties the file before anything else is done.
OpenFile(p) ==
    /\ Closing(p) /\ Path(p) # NoFile
    /\ file' = [file EXCEPT ![Path(p)] = 0]
    /\ Become(p, [proc[p] EXCEPT !.micro = "open"])
    /\ lost' = lost \cup {s \in Sids : Current(s, file[Path(p)])}
    /\ UNCHANGED <<sess, counter, runs>>

OpenFileFails(p) ==
    /\ Closing(p) /\ Path(p) # NoFile
    /\ CloseGivesUp(p)
    /\ UNCHANGED file

\* flush = path ? is_final : true
Flushing(p) ==
    \/ Closing(p) /\ Path(p) = NoFile
    \/ AtStep(p) /\ proc[p].micro = "open" /\ Slot(p) \in proc[p].final

Flush(p) ==
    /\ Flushing(p)
    /\ sess[Held(p)].st # "free"
    /\ FlushContext(Held(p))
    /\ CloseReturns(p, TRUE)
    /\ lost' = lost \ {Held(p)}
    /\ UNCHANGED <<counter, file, runs>>

FlushFails(p) ==
    /\ Flushing(p)
    /\ CloseGivesUp(p)
    /\ UNCHANGED file

Saving(p) == AtStep(p) /\ proc[p].micro = "open" /\ Slot(p) \notin proc[p].final

\* Header, type and hash are written; the TPM saves the session.
SaveContext(p) ==
    /\ Saving(p)
    /\ sess[Held(p)].st = "loaded"
    /\ ContextSave(Held(p))
    /\ Become(p, [proc[p] EXCEPT !.micro = "saved", !.buf = counter + 1])
    /\ UNCHANGED <<file, runs, lost>>

SaveContextFails(p) ==
    /\ Saving(p)
    /\ CloseGivesUp(p)
    /\ UNCHANGED file

\* Fault: the stream is never closed, and its buffer never written.
WriteContextUnflushed(p) ==
    /\ AtStep(p) /\ proc[p].micro = "saved"
    /\ CloseReturns(p, TRUE)
    /\ UNCHANGED <<sess, counter, file, runs, lost>>

\* The context reaches the file with fclose.
WriteContext(p) ==
    /\ AtStep(p) /\ proc[p].micro = "saved"
    /\ file' = [file EXCEPT ![Path(p)] = proc[p].buf]
    /\ CloseReturns(p, TRUE)
    /\ lost' = lost \cup {s \in Sids : Current(s, file[Path(p)])}
    /\ UNCHANGED <<sess, counter, runs>>

\* A write fails, or fclose does, whose result nobody looks at.
WriteContextFails(p) ==
    /\ AtStep(p) /\ proc[p].micro = "saved"
    /\ \E noticed \in BOOLEAN : CloseReturns(p, ~noticed)
    /\ lost' = lost \cup Stranded(p)
    /\ UNCHANGED <<sess, counter, file, runs>>

-----------------------------------------------------------------------------
(* flushcontext by handle or by property (get_cap_handles, then a loop).   *)

\* External: the handles a capability query returns.
Listing(op) ==
    CASE op = "listLoaded" -> {{s \in Sids : sess[s].st = "loaded"}}
      [] op = "listSaved"  -> {{s \in Sids : sess[s].st = "saved"}}
      [] op = "listOne"    -> {{s} : s \in Sids}

ListHandles(p) ==
    /\ Ready(p, {"listLoaded", "listSaved", "listOne"})
    /\ \E L \in Listing(Cur(p).op) :
          Become(p, [Advance(proc[p], Cur(p)) EXCEPT !.listed = L])
    /\ UNCHANGED <<sess, counter, file, runs, lost>>

ListHandlesFails(p) ==
    /\ Ready(p, {"listLoaded", "listSaved"})
    /\ Fail(p)
    /\ UNCHANGED <<sess, counter, file, runs, lost>>

FlushListed(p) ==
    /\ Ready(p, {"flushListed"})
    /\ \E s \in proc[p].listed :
          /\ sess[s].st # "free"
          /\ FlushContext(s)
          /\ lost' = lost \ {s}
          /\ Become(p, [proc[p] EXCEPT !.listed = @ \ {s}])
    /\ UNCHANGED <<counter, file, runs>>

FlushListedFails(p) ==
    /\ Ready(p, {"flushListed"}) /\ proc[p].listed # {}
    /\ Fail(p)
    /\ UNCHANGED <<sess, counter, file, runs, lost>>

FlushListedDone(p) ==
    /\ Ready(p, {"flushListed"}) /\ proc[p].listed = {}
    /\ Succeed(p)
    /\ UNCHANGED <<sess, counter, file, runs, lost>>

-----------------------------------------------------------------------------

Acquire(p) ==
    \/ AuthPassword(p) \/ AuthPcr(p) \/ PolicyBuildPcr(p) \/ OpenSession(p)
    \/ AcquireFails(p)
    \/ ReadContext(p) \/ LoadContext(p) \/ LoadContextFails(p)

Release(p) ==
    \/ CloseNothing(p) \/ OpenFile(p) \/ OpenFileFails(p)
    \/ Flush(p) \/ FlushFails(p)
    \/ SaveContext(p) \/ SaveContextFails(p)
    \/ WriteContext(p) \/ WriteContextFails(p)

BulkFlush(p) ==
    \/ ListHandles(p) \/ ListHandlesFails(p)
    \/ FlushListed(p) \/ FlushListedFails(p) \/ FlushListedDone(p)

\* A running tool is one sequential program.
ToolStep(p) ==
    \/ CallOnstop(p) \/ Exit(p) \/ Work(p) \/ SkipOptional(p)
    \/ Acquire(p) \/ Release(p) \/ BulkFlush(p)

\* All invocations allowed by the bound have been made and have ended.
Finished ==
    /\ runs = MaxRuns /\ \A p \in Procs : ~Running(p)
    /\ UNCHANGED vars

Next ==
    \/ \E p \in Procs : Invoke(p) \/ InvokeFails(p) \/ Kill(p) \/ ToolStep(p)
    \/ Finished

(***************************************************************************)
(* A tool that runs is scheduled by the operating system until it exits;   *)
(* nobody is obliged to start one, and the TPM and files answer every      *)
(* request, if only with an error.                                         *)
(***************************************************************************)
Spec == Init /\ [][Next]_vars /\ \A p \in Procs : WF_vars(ToolStep(p))

-----------------------------------------------------------------------------
(* Properties.                                                             *)

\* Every session pointer of every running tool.
Pointers == {a \in Procs \X Slots : proc[a[1]].hold[a[2]] # 0}

\* p has saved the session and is about to write its context to the file.
InFlight(p) == proc[p].micro = "saved"

(***************************************************************************)
(* However tools interleave, a session is held through one pointer only,   *)
(* and the holder's view is right: the session is loaded on its own        *)
(* connection, or it is the one it is saving and its context is in memory. *)
(* (tpm2_session_restore and tpm2_session_close, without flushcontext by   *)
(* handle or property.)                                                    *)
(***************************************************************************)
ExclusiveSessions ==
    /\ \A a, b \in Pointers :
          proc[a[1]].hold[a[2]] = proc[b[1]].hold[b[2]] => a = b
    /\ \A a \in Pointers :
          LET p == a[1]
              s == proc[p].hold[a[2]]
          IN  IF InFlight(p) /\ a[2] = Slot(p)
              THEN Current(s, proc[p].buf)
              ELSE sess[s].st = "loaded" /\ sess[s].conn = {p}

(***************************************************************************)
(* A session the TPM keeps a slot for can still be reached: some tool      *)
(* holds it, or a file holds its current context; unless a kill, an I/O or *)
(* TPM failure inside tpm2_session_close, or the replacement of its file   *)
(* took it away.  Tools that just forget to close a session break it.      *)
(***************************************************************************)
Reachable(s) ==
    \/ \E a \in Pointers : proc[a[1]].hold[a[2]] = s
    \/ \E f \in Files : Current(s, file[f])

NoForgottenSession ==
    \A s \in Sids : sess[s].st # "free" => Reachable(s) \/ s \in lost

(***************************************************************************)
(* man/common/returns.md: 0 is success.  A tool exits with 0 only when no  *)
(* call whose result the code can look at reported a failure (main, the    *)
(* tools' onrun and onstop).  A close of a session file that nobody looks  *)
(* at (tpm2_session_close) does not count here, but in CloseSaves.         *)
(***************************************************************************)
HonestExit ==
    \A p \in Procs :
        /\ proc[p].phase = "onstop" /\ ~AtStep(p)
        /\ ExitCode(proc[p]) = "success" /\ proc[p].failed
        => proc[p].tool \in Masking

(***************************************************************************)
(* A tool that restores sessions never empties or overwrites a file that   *)
(* holds the only copy of a session somebody can still load: tools that    *)
(* race for one file lose the race in ContextLoad, before they touch it.   *)
(***************************************************************************)
NoForeignOverwrite ==
    [][\A f \in Files : file'[f] # file[f] =>
            \A s \in Sids : ~Current(s, file[f])]_vars

(***************************************************************************)
(* tpm2_session_close: "Save session context at end of tpm2_session."  A   *)
(* tool that goes on without a failure has the session in its file.        *)
(***************************************************************************)
CloseSaves ==
    \A p \in Procs :
        /\ AtStep(p) /\ proc[p].micro = "saved" /\ proc'[p].micro # "saved"
        /\ Running(p)' /\ ~proc'[p].failed
        => file'[Path(p)] = proc[p].buf

(***************************************************************************)
(* What the library's comments and the manual say of every tool that ends  *)
(* by itself: "hmac sessions live the life of the tool", exit code 0 is    *)
(* success, and the session context is saved at the end.                   *)
(***************************************************************************)
ToolsEndCleanly == [][NoForgottenSession' /\ HonestExit' /\ CloseSaves]_vars

(***************************************************************************)
(* Every invoked tool ends, whatever fails on its way: no script loops,    *)
(* and no failure leaves the interpreter without a next step.              *)
(***************************************************************************)
EveryToolEnds == \A p \in Procs : Running(p) ~> ~Running(p)

(***************************************************************************)
(* A session taken from a file or started comes back: the tool that holds  *)
(* it flushes it, or parks it in a file, or has had a failure doing so.    *)
(***************************************************************************)
SessionsComeBack ==
    \A s \in Sids :
        (\E a \in Pointers : proc[a[1]].hold[a[2]] = s)
            ~> (\/ sess[s].st = "free" \/ s \in lost
                \/ \E f \in Files : Current(s, file[f]))

=============================================================================
