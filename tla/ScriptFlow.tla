----------------------------- MODULE ScriptFlow -----------------------------
(***************************************************************************)
(* What can be read off the scripts of a tool: which session pointers may  *)
(* be set at each of its steps, whether every one of them is closed before *)
(* the tool ends, and whether a failure can be forgotten on the way.       *)
(*                                                                         *)
(* The criteria look at one tool at a time.  FlowProofs shows that they    *)
(* suffice for any number of processes that run such tools; MCFlows        *)
(* evaluates them for the tools of tools/.                                 *)
(***************************************************************************)
EXTENDS ToolScript

\* Where control goes when step i fails.
Target(script, i) ==
    CASE script[i].then = 0 -> Len(script) + 1
      [] script[i].then = 1 -> i + 1
      [] OTHER -> script[i].then

\* Every jump is forward, and inside the function.
Forward(script) ==
    \A i \in 1..Len(script) : Target(script, i) \in (i + 1)..(Len(script) + 1)

\* The step leaves the pointer NULL, whatever the options and the result.
Closes(step, x) == step.op = "close" /\ ~step.optional /\ step.slot = x

\* A pointer set by step j (0: by the caller) may still be set before step i:
\* a failure can jump over every close in between.
Survives(script, x, j, i) ==
    \A k \in (j + 1)..(i - 1) :
        Closes(script[k], x) =>
            \E m \in (j + 1)..(k - 1) : Target(script, m) \in (k + 1)..i

\* The pointers that may be set before step i, given those set on entry.
MayHold(script, entry, i) ==
    {x \in Slots :
        \/ x \in entry /\ Survives(script, x, 0, i)
        \/ \E j \in 1..(i - 1) :
              /\ script[j].op \in AcquireOps /\ script[j].slot = x
              /\ Survives(script, x, j, i)}

\* No pointer is overwritten while it may be set.
NoOverwrite(script, entry) ==
    \A i \in 1..Len(script) :
        script[i].op \in AcquireOps => script[i].slot \notin MayHold(script, entry, i)

AtEnd(script, entry) == MayHold(script, entry, Len(script) + 1)

(***************************************************************************)
(* Every session the tool opens or restores is closed on every path        *)
(* through tpm2_tool_onrun and tpm2_tool_onstop, failures included.        *)
(***************************************************************************)
Tidy(onrun, onstop) ==
    /\ Forward(onrun) /\ Forward(onstop)
    /\ NoOverwrite(onrun, {}) /\ NoOverwrite(onstop, AtEnd(onrun, {}))
    /\ AtEnd(onstop, AtEnd(onrun, {})) = {}

(***************************************************************************)
(* Every failure is put into rc, and nothing that can run after it assigns *)
(* a result to rc that may be a success.                                   *)
(***************************************************************************)
Honest(script) ==
    \A i \in 1..Len(script) :
        /\ script[i].code \notin {"keep", "success"}
        /\ \A k \in Target(script, i)..Len(script) : ~script[k].resets
=============================================================================
