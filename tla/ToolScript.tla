----------------------------- MODULE ToolScript -----------------------------
(***************************************************************************)
(* The vocabulary in which the tools of tools/ are described.              *)
(*                                                                         *)
(* Every tool is two C functions, tpm2_tool_onrun and tpm2_tool_onstop,    *)
(* that tools/tpm2_tool.c calls one after the other.  What the tools have  *)
(* in common, and what the properties of this project are about, is the    *)
(* order in which they open, restore and close sessions and can fail.  A   *)
(* tool is therefore a pair of scripts: sequences of steps, each one call  *)
(* of the C function whose failure the code looks at.                      *)
(*                                                                         *)
(*   op       what the step does (below)                                   *)
(*   slot     the tpm2_session pointer of the tool it works on             *)
(*   optional the step is under an "if" on a command line option           *)
(*   code     the tool_rc the C code leaves in rc when the step fails,     *)
(*            "keep" when it leaves rc as it was                           *)
(*   then     where control goes on failure: 0 returns from the function,  *)
(*            1 goes on with the next step, n > 1 jumps to step n          *)
(*   resets   the step's own result is assigned to rc even on success      *)
(***************************************************************************)
EXTENDS Naturals, Sequences

(***************************************************************************)
(* enum tool_rc.  general_error stands for general_error, auth_error and   *)
(* unsupported alike: no control flow of the tools tells them apart.       *)
(***************************************************************************)
ToolRc == {"success", "general_error", "option_error", "tcti_error"}

\* The slots tools keep their session pointers in: the first and the second
\* authorisation, a session named by -S, and the auxiliary sessions.
Slots == {"auth", "auth2", "session", "aux1", "aux2", "aux3"}

\* Steps that read or write no session: option checks, files, TPM commands.
WorkOps == {"options", "input", "command", "output"}

\* Steps that can put a session into a slot.
AcquireOps == {"auth", "authRestricted", "open", "start", "restore", "restoreFinal"}

\* tpm2_session_close, plain or guarded by "if (!ctx.cp_hash_path)".
CloseOps == {"close", "closeUnlessCpHash"}

\* Session handles listed with a capability query, and flushed one by one.
BulkOps == {"listLoaded", "listSaved", "listOne", "flushListed"}

Ops == WorkOps \cup AcquireOps \cup CloseOps \cup BulkOps

Step == [op: Ops, slot: Slots, optional: BOOLEAN,
         code: ToolRc \cup {"keep"}, then: Nat, resets: BOOLEAN]

\* A tool: the scripts of its tpm2_tool_onrun and tpm2_tool_onstop.
Tool(onrun, onstop) == [onrun |-> onrun, onstop |-> onstop]

-----------------------------------------------------------------------------
(* Constructors.                                                           *)

Plain(op, slot, code, then) ==
    [op |-> op, slot |-> slot, optional |-> FALSE, code |-> code,
     then |-> then, resets |-> FALSE]

\* Option and argument checks: failure is option_error.
Options == Plain("options", "auth", "option_error", 0)
\* Reading files, parsing arguments, loading objects without a session.
Input == Plain("input", "auth", "general_error", 0)
\* One or more TPM commands that move no session between TPM and tool.
Command == Plain("command", "auth", "general_error", 0)
\* Results printed or saved to files.
Output == Plain("output", "auth", "general_error", 0)

\* tpm2_auth_util_from_optarg(ectx, ..., &x, false)
Auth(x) == Plain("auth", x, "general_error", 0)
\* The same with is_restricted set: a session: argument is refused.
AuthRestricted(x) == Plain("authRestricted", x, "general_error", 0)
\* tpm2_util_object_load_auth: the authorisation first, then the object.
ObjectAuth(x) == <<Auth(x), Input>>
\* tpm2_session_restore(ectx, path, is_final, &x)
Restore(x) == Plain("restore", x, "general_error", 0)
RestoreFinal(x) == Plain("restoreFinal", x, "general_error", 0)
\* tpm2_session_open, with the path of a session file and without one
Open(x) == Plain("open", x, "general_error", 0)
Start(x) == Plain("start", x, "general_error", 0)
\* tpm2_session_close(&x) whose failure is noted and the next step taken
Close(x) == Plain("close", x, "general_error", 1)
CloseUnlessCpHash(x) == Plain("closeUnlessCpHash", x, "general_error", 1)

\* tpm2_capability_get for handles, tpm2_flush_context on a handle
Bulk(op) == Plain(op, "auth", "general_error", 0)

Optional(s) == [s EXCEPT !.optional = TRUE]
\* The failure leaves rc as it is.
Unreported(s) == [s EXCEPT !.code = "keep"]
\* On failure control goes on with the next step, or jumps to step n.
Ignored(s) == [s EXCEPT !.code = "keep", !.then = 1]
Goto(s, n) == [s EXCEPT !.then = n]
Returning(s) == [s EXCEPT !.then = 0]
Resetting(s) == [s EXCEPT !.resets = TRUE]

\* Asked for both hashes, some functions of lib/tpm2.c drop a failure to
\* compute the cpHash and go on to the command.
HashedCommand == <<Optional(Ignored(Command)), Command>>
\* TPM2_RC_INITIALIZE counts as success: the second failure is that one.
LenientCommand == <<Command, Ignored(Command)>>

(***************************************************************************)
(* tpm2_util_aux_sessions_setup restores the session files given with -S,  *)
(* in order, and returns at the first failure.  n is the tool's            *)
(* MAX_AUX_SESSIONS; fewer, or none, may be given.                         *)
(***************************************************************************)
AuxSlot == <<"aux1", "aux2", "aux3">>
AuxSessionsSetup(n) == [i \in 1..n |-> Optional(Restore(AuxSlot[i]))]

\* Fault: the loop stops one session short.
CloseAuxShort(n) == [i \in 1..(n - 1) |-> Close(AuxSlot[i])]

\* The loop over aux_session[] in the tools' onstop.
CloseAux(n) == [i \in 1..n |-> Close(AuxSlot[i])]

=============================================================================
