------------------------------ MODULE CallFlow ------------------------------
(***************************************************************************)
(* What can be read off the script of one function or tool: whether every  *)
(* free() on its error paths meets a pointer that is set, whether its      *)
(* names are freed on every exit, whether a failure can be forgotten,      *)
(* which command its hashes are of, and whether it skips an output.        *)
(*                                                                         *)
(* The criteria look at one script and at one set of options at a time.    *)
(* CallProofs shows that they suffice for any number of processes, files   *)
(* and input sizes; MCFlows evaluates them for the code of lib/tpm2.c and  *)
(* tools/fapi.                                                             *)
(***************************************************************************)
EXTENDS CallScript

Applies(s, asked) == s.when = {} \/ s.when \cap asked # {}
Stops(s, asked) == s.stop /\ "rp" \notin asked
Resumes(s, asked) == s.resume # 0 /\ "rp" \in asked

\* The pointers that are set, or NULL, once the step has passed, or has failed.
Sets(s) ==
    CASE s.op \in {"name", "list", "ask", "read"} -> {s.buf}
      [] s.op = "dispatch" -> s.sets
      [] OTHER -> {}
Clears(s) == IF s.op \in {"name", "ask"} THEN {s.buf} ELSE {}

\* The pointers the step frees on some way to step k.
Drops(s, asked, k) ==
    IF Applies(s, asked)
    THEN s.done \cup (IF Resumes(s, asked) /\ s.resume <= k THEN s.lost ELSE {})
    ELSE IF s.op = "write" THEN s.done ELSE {}

\* The pointer was set by step j, which no failure skips, and not freed since.
SetBy(steps, asked, b, j, k) ==
    /\ Applies(steps[j], asked)
    /\ b \in Sets(steps[j]) \ steps[j].done
    /\ \A m \in 1..j : Resumes(steps[m], asked) => steps[m].resume \notin (j + 1)..k
    /\ \A i \in (j + 1)..(k - 1) : b \notin Drops(steps[i], asked, k)

\* The pointer is set or NULL at step k, and may be freed.
Valid(script, asked, b, k) ==
    \/ /\ b \notin script.wild
       /\ \A i \in 1..(k - 1) : b \notin Drops(script.steps[i], asked, k)
    \/ \E j \in 1..(k - 1) : SetBy(script.steps, asked, b, j, k)

(***************************************************************************)
(* Whatever a step frees was set before it, or is NULL.                    *)
(***************************************************************************)
FreesClean(script, asked, k) ==
    LET s == script.steps[k]
        v == {b \in Buffers : Valid(script, asked, b, k)}
    IN  /\ Applies(s, asked) =>
              /\ s.done \subseteq v \cup Sets(s)
              /\ s.lost \subseteq v \cup Clears(s)
              /\ s.op = "read" => s.buf \notin s.lost /\ ~Resumes(s, asked)
        /\ s.op = "write" => s.done \subseteq v

Clean(script) ==
    \A asked \in SUBSET script.opts : \A k \in 1..Len(script.steps) :
        FreesClean(script, asked, k)

-----------------------------------------------------------------------------
\* The names that may be held at step k.
HeldNames(script, asked, k) ==
    {b \in Upto(Names, 3) :
        \E j \in 1..(k - 1) :
            /\ Applies(script.steps[j], asked)
            /\ script.steps[j].op = "name" /\ script.steps[j].buf = b
            /\ \A i \in j..(k - 1) :
                  Applies(script.steps[i], asked) => b \notin script.steps[i].done}

(***************************************************************************)
(* Every exit, and every jump, frees the names that may be held there.     *)
(***************************************************************************)
ExitsTidy(script, asked, k) ==
    LET s == script.steps[k]
        held == HeldNames(script, asked, k)
    IN  /\ Applies(s, asked) =>
              /\ held \subseteq s.lost \cup Clears(s)
              /\ Stops(s, asked) => s.op # "name" /\ held \subseteq s.done
        /\ s.op # "name" => Sets(s) \cap Upto(Names, 3) = {}

TidyNames(script) ==
    \A asked \in SUBSET script.opts :
        /\ HeldNames(script, asked, Len(script.steps) + 1) = {}
        /\ \A k \in 1..Len(script.steps) : ExitsTidy(script, asked, k)

-----------------------------------------------------------------------------
(***************************************************************************)
(* Every failure is returned.                                              *)
(***************************************************************************)
Firm(script) ==
    \A i \in 1..Len(script.steps) :
        ~script.steps[i].lenient /\ (script.steps[i].resume = 0 \/ "rp" \notin script.opts)

(***************************************************************************)
(* A script that writes files ends at its last step only, and no output is *)
(* written twice or set after it was written.                              *)
(***************************************************************************)
WritesAll(script) ==
    \A k \in 1..Len(script.steps) :
        script.steps[k].op = "write" =>
            /\ \A i \in 1..Len(script.steps) :
                  ~script.steps[i].stop /\ script.steps[i].resume = 0
            /\ \A i \in (k + 1)..Len(script.steps) :
                  /\ script.steps[k].buf \notin Sets(script.steps[i])
                  /\ script.steps[i].op = "write" => script.steps[i].buf # script.steps[k].buf

-----------------------------------------------------------------------------
\* Step i calls op, under the options given.
Calls(script, asked, i, op) == script.steps[i].op = op /\ Applies(script.steps[i], asked)

\* The parameters are prepared at j, then the names of the handles of every
\* command of the script are added in their order, then the hash is taken at c.
HashesCommand(script, asked, j, c) ==
    LET steps == script.steps
    IN  /\ j < c
        /\ Calls(script, asked, j, "prepare") /\ Calls(script, asked, c, "cphash")
        /\ \A i \in 1..Len(steps) :
              /\ Calls(script, asked, i, "prepare") => i = j
              /\ Calls(script, asked, i, "cphash") => i = c
              /\ Calls(script, asked, i, "name") <=> i \in (j + 1)..(c - 1)
              /\ i \in (j + 1)..(c - 1) => Len(steps[i].of) = 1
              /\ steps[i].op = "dispatch" =>
                    /\ Len(steps[i].of) = c - j - 1
                    /\ \A n \in 1..(c - j - 1) : steps[i].of[n] = steps[j + n].of[1]
              /\ i < c /\ Applies(steps[i], asked) => ~Stops(steps[i], asked)

\* The hash at r is of the response to the command sent at d.
HashesResponse(script, asked, d, r) ==
    /\ d < r
    /\ Calls(script, asked, d, "dispatch") /\ Calls(script, asked, r, "rphash")
    /\ \A i \in 1..Len(script.steps) :
          /\ Calls(script, asked, i, "rphash") => i > d
          /\ i > d => script.steps[i].op \notin {"public", "prepare", "dispatch"}

\* The command is sent before the end, or held back.
SendsRightly(script, asked) ==
    LET steps == script.steps
        sends == {i \in 1..Len(steps) : Calls(script, asked, i, "dispatch")}
        ends == {i \in 1..Len(steps) : Applies(steps[i], asked) /\ Stops(steps[i], asked)}
    IN  IF "cp" \notin asked \/ "rp" \in asked
        THEN sends # {} /\ ends = {}
        ELSE \A d \in sends : \E i \in ends : i < d

(***************************************************************************)
(* The hashes that are asked for are those of the command and its response;*)
(* a script ends early at no file it may have nothing to write to.         *)
(***************************************************************************)
Hashes(script) ==
    LET places == 1..Len(script.steps)
    IN  /\ \A i \in places : script.steps[i].op = "write" => ~script.steps[i].stop
        /\ \A asked \in SUBSET script.opts :
              /\ "cp" \in asked => \E j, c \in places : HashesCommand(script, asked, j, c)
              /\ "rp" \in asked => \E d, r \in places : HashesResponse(script, asked, d, r)
              /\ SendsRightly(script, asked)
=============================================================================
