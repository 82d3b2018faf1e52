----------------------------- MODULE CallScript -----------------------------
(***************************************************************************)
(* The vocabulary for code that is one sequence of library calls with a    *)
(* ladder of error paths: the functions of lib/tpm2.c that compute a       *)
(* cpHash or rpHash around one ESAPI command, and the tools of tools/fapi  *)
(* around one FAPI call.  Such a function is a script of steps, each one   *)
(* call whose failure the code looks at.                                   *)
(*                                                                         *)
(*   op     what is called (below)                                         *)
(*   buf    the pointer it sets, or whose buffer it writes out             *)
(*   of     the TPM handles it is about, in order                          *)
(*   when   the options it is under: {} always, else one of them is given  *)
(*   lost   the pointers the code frees when the step fails                *)
(*   done   those it frees when the step has passed                        *)
(*   stop   after the step the function returns, unless the rpHash is      *)
(*          asked for too                                                  *)
(*   resume 0: a failure returns.  n: it returns unless the rpHash is      *)
(*          asked for too, then step n follows and sets rc anew            *)
(*   lenient TPM2_RC_INITIALIZE counts as success                          *)
(*   sets   the pointers a dispatch sets, may the ones it can set to NULL  *)
(***************************************************************************)
EXTENDS Naturals, Sequences

Names == <<"name1", "name2", "name3">>
Inputs == <<"in1", "in2", "in3", "in4">>
Outputs == <<"out1", "out2", "out3", "out4">>

\* All pointers, by their role; "pw" is an asked password, "list" a PCR list.
Buffers == {Names[i] : i \in 1..3} \cup {Inputs[i] : i \in 1..4}
               \cup {Outputs[i] : i \in 1..4} \cup {"pw", "list"}

\* Calls that touch nothing outside the process but may fail.
LocalOps == {"sapi", "prepare", "name", "session", "cphash", "rphash",
             "main", "options", "list", "ask"}
Ops == LocalOps \cup {"public", "dispatch", "read", "write"}

\* Command line options of the tools, and hashes a caller can ask for.
Options == {"cp", "rp", "force"} \cup Buffers

\* The roles of TPM handles; "none" stands before any name.
Handles == {"none", "auth", "nv", "platform", "policy", "key", "object", "parent",
            "privacy"}

Step == [op: Ops, buf: Buffers \cup {"none"}, of: Seq(Handles),
         when: SUBSET Options, lost: SUBSET Buffers, done: SUBSET Buffers,
         stop: BOOLEAN, resume: Nat, lenient: BOOLEAN,
         sets: SUBSET Buffers, may: SUBSET Buffers]

\* Every pointer a step sets has a role, a failure is resumed further on, and a
\* call whose failure may count as success returns nothing.
WellFormed(script) ==
    /\ script.steps \in Seq(Step) /\ script.steps # <<>>
    /\ script.opts \subseteq Options /\ script.wild \subseteq Buffers
    /\ \A i \in 1..Len(script.steps) :
          LET s == script.steps[i]
          IN  /\ s.resume = 0 \/ s.resume \in (i + 1)..Len(script.steps)
              /\ s.op \in {"name", "list", "ask", "read"} => s.buf \in Buffers
              /\ s.may \subseteq s.sets /\ (s.lenient => s.sets = {})
              /\ s.op = "write" => s.buf \in {Outputs[n] : n \in 1..4}

\* A script with the options it knows; wild pointers start uninitialised.
Script(steps, opts, wild) == [steps |-> steps, opts |-> opts, wild |-> wild]

Call(op, buf) ==
    [op |-> op, buf |-> buf, of |-> <<>>, when |-> {}, lost |-> {},
     done |-> {}, stop |-> FALSE, resume |-> 0, lenient |-> FALSE,
     sets |-> {}, may |-> {}]

When(opts, s) == [s EXCEPT !.when = opts]
\* The pointer in the step is asked for by an option of the same role.
IfGiven(s) == [s EXCEPT !.when = {s.buf}]
Losing(bufs, s) == [s EXCEPT !.lost = bufs]
Freeing(bufs, s) == [s EXCEPT !.done = bufs]
\* The same pointers are freed on either path.
Either(bufs, s) == [s EXCEPT !.lost = bufs, !.done = bufs]

\* The first n pointers of a role.
Upto(role, n) == {role[i] : i \in 1..n}
=============================================================================
