---------------------------- MODULE ObjectProofs ----------------------------
(***************************************************************************)
(* Proofs about sequences, listings and lookups in the TPM, for any number *)
(* of tools, any files, tables and sizes of a response.                    *)
(*                                                                         *)
(* A tool is followed through its own steps with what it has of its file   *)
(* or of its list; the steps of the others reach it only through the table *)
(* that it lists, and seen keeps what they do there.                       *)
(***************************************************************************)
EXTENDS TpmObjects, OrderedProofs, SequenceTheorems

\* The handles of a list come in ascending order.
Sorted(list) ==
    list \in Seq(Nat) /\ \A i, j \in 1..Len(list) : i < j => list[i] < list[j]

\* Which tool can be at which place, and what it has by then.
Kind(r) ==
    /\ r.pc \in {"idle", "failed"} => r = [Idle EXCEPT !.pc = r.pc]
    /\ r.pc \in {"stat", "oneshot", "start", "loop", "last"} => r.call \in DigestTools
    /\ r.pc \in {"query", "pick", "create", "save", "take", "flush", "drop", "each"} =>
          r.call \in Tools \ DigestTools
    /\ r.pc \in {"query", "pick", "each"} => Lists(r.call)
    /\ r.pc = "drop" => First(r.call) = "drop"
    /\ r.pc = "done" => r.call \in Tools
    /\ r.pc = "each" => r.call.tool \in {"flushcontext", "nvreadpublic"} /\ r.worked < Len(r.list)
    /\ r.pc \in {"pick", "take"} => r.call.tool \in {"createek", "evictcontrol", "nvdefine"}
    /\ r.pc \in {"create", "flush"} => r.call.tool = "createek"
    /\ r.pc = "save" => KeepsKey(r.call)
    /\ r.pc \in {"pick", "take"} => ~KeepsKey(r.call)
    /\ r.pc = "take" /\ r.call.tool # "createek" => r.object = None
    /\ r.pc \notin {"loop", "last", "save", "take", "flush", "done"} => r.object = None
    /\ r.pc = "query" => r.worked = 0

(***************************************************************************)
(* The count of what is left of a file, and what the TPM was fed.  When    *)
(* the file grew beyond the size that was asked for, the count has wrapped *)
(* and is far above a block for good.                                      *)
(***************************************************************************)
Counted(r) ==
    \/ r.left = r.at - r.pos
    \/ r.pos > r.at /\ r.left = (Word + r.at) - r.pos

Digesting(r) ==
    r.call \in DigestTools =>
        /\ r.size \in Sizes
        /\ r.pc \in {"stat", "oneshot", "start"} => r.pos = 0 /\ r.fed = 0 /\ ~r.eof
        /\ r.pc = "oneshot" => ~r.fifo
        /\ r.pc \in {"oneshot", "start"} => r.left = r.at /\ r.at \in Sizes
        /\ r.pc \in {"loop", "last"} =>
              /\ r.fed = r.pos
              /\ r.at \in Sizes /\ \E n \in Sizes : r.pos <= n
              /\ r.fifo => r.pos <= r.size /\ (r.eof => r.pos = r.size)
              /\ ~r.fifo => Counted(r)
        /\ r.pc = "last" => IF r.fifo THEN r.eof ELSE r.left <= Block
        /\ r.pc = "done" /\ ~r.call.cphash =>
              r.fed = IF r.fifo THEN r.size ELSE r.at

(***************************************************************************)
(* A listing under way: the list has what was in the table all the while,  *)
(* below the handle that is asked for next.  w is what was seen of the     *)
(* table, t the table.                                                     *)
(***************************************************************************)
Asking(r, w, t) ==
    /\ Len(r.list) < CapMax
    /\ \A i \in 1..Len(r.list) : r.list[i] < r.from /\ r.list[i] \in w.ever
    /\ r.list = <<>> => r.from = 0
    /\ t \subseteq w.ever /\ w.always \subseteq t
    /\ \A h \in w.always : h < r.from => h \in ToSet(r.list)
    /\ r.call.tool = "flushcontext" => w.ever = t /\ w.always = t

\* A listing that has ended.
Answered(r, w) ==
    /\ \A i \in 1..Len(r.list) : r.list[i] \in w.ever
    /\ \/ w.always \subseteq ToSet(r.list)
       \/ r.more /\ (Len(r.list) = CapMax \/ r.call.tool \in OnePage)

Chosen(r, w) ==
    /\ r.chosen \in Candidates(r.call)
    /\ Lists(r.call) => (r.call.tool \in OnePage /\ r.more) \/ r.chosen \notin w.always

Listing(r, w, t) ==
    /\ r.pc = "query" => Asking(r, w, t)
    /\ /\ r.pc \in {"each", "pick", "create", "save", "take", "flush", "done"}
       /\ Lists(r.call)
       => Answered(r, w)
    /\ r.pc \in {"create", "take"} /\ ~KeepsKey(r.call) => Chosen(r, w)

\* Only one tool has the device open at a time.
OneAtATime ==
    ~managed => \A p, q \in Procs : Running(p) /\ Running(q) => p = q

Typed ==
    /\ managed \in BOOLEAN
    /\ run \in [Procs -> Runs]
    /\ seen \in [Procs -> [ever: SUBSET Nat, always: SUBSET Nat]]
    /\ trans \in [Procs \cup {Device} -> SUBSET Slots]
    /\ handles \subseteq Persistent /\ indices \subseteq Indices

Sane(p) ==
    /\ Sorted(run[p].list) /\ run[p].worked <= Len(run[p].list)
    /\ Kind(run[p]) /\ Digesting(run[p]) /\ Listing(run[p], seen[p], Table(p))

IInv == Typed /\ OneAtATime /\ \A p \in Procs : Sane(p)

\* What flushcontext has still to flush is on the rest of its list.
Flushing(p) ==
    At(p, "each") /\ run[p].call.tool = "flushcontext" =>
        trans[Space(p)] \subseteq
            {run[p].list[i] : i \in (run[p].worked + 1)..Len(run[p].list)}

-----------------------------------------------------------------------------
(* Numbers, minima and tools.                                              *)

LEMMA Remainders ==
    ASSUME NEW x \in Int, NEW w \in Nat \ {0}
    PROVE  /\ 0 <= x /\ x < w => x % w = x
           /\ -w <= x /\ x < 0 => x % w = x + w
           /\ x % w \in 0..(w - 1)
  OBVIOUS

LEMMA LeastOf ==
    ASSUME NEW S, S \subseteq Nat, S # {}
    PROVE  Min(S) \in S /\ \A n \in S : Min(S) <= n
  <1>1. \E m \in S : \A n \in S : m <= n
    BY LeastNat
  <1> QED
    BY <1>1 DEF Min

LEMMA LeastOfThree ==
    ASSUME NEW a \in Nat, NEW b \in Nat, NEW c \in Nat
    PROVE  /\ Min({a, b, c}) \in Nat
           /\ Min({a, b, c}) <= a /\ Min({a, b, c}) <= b /\ Min({a, b, c}) <= c
           /\ Min({a, b, c}) \in {a, b, c}
  <1>1. {a, b, c} \subseteq Nat /\ {a, b, c} # {}
    OBVIOUS
  <1>2. Min({a, b, c}) \in {a, b, c} /\ \A n \in {a, b, c} : Min({a, b, c}) <= n
    BY <1>1, LeastOf
  <1> QED
    BY <1>2

LEMMA LeastOfTwo ==
    ASSUME NEW a \in Nat, NEW b \in Nat
    PROVE  /\ Min({a, b}) \in Nat /\ Min({a, b}) <= a /\ Min({a, b}) <= b
           /\ Min({a, b}) \in {a, b}
  <1>1. {a, b} \subseteq Nat /\ {a, b} # {}
    OBVIOUS
  <1>2. Min({a, b}) \in {a, b} /\ \A n \in {a, b} : Min({a, b}) <= n
    BY <1>1, LeastOf
  <1> QED
    BY <1>2

\* What a tool works on, and which of them are given a handle.
LEMMA ToolFacts ==
    ASSUME NEW c \in Tools
    PROVE  /\ c.tool \in {"hash", "pcrevent", "hmac"} <=> c \in DigestTools
           /\ c.tool \in {"hash", "pcrevent", "hmac", "getcap", "flushcontext", "createek",
                          "evictcontrol", "evict", "nvdefine", "nvundefine", "nvreadpublic"}
           /\ c.table \in {"transient", "persistent", "nv"}
           /\ c.tool \in {"hash", "pcrevent", "hmac", "flushcontext"} => c.table = "transient"
           /\ c.tool \in {"evictcontrol", "evict"} => c.table = "persistent"
           /\ c.tool = "createek" => c.table \in {"persistent", "transient"} /\ ~c.platform
           /\ c.tool \in {"nvdefine", "nvundefine", "nvreadpublic"} => c.table = "nv"
           /\ c.tool = "createek" /\ c.given # None =>
                 /\ c.given \in Persistent /\ c.given < Platform
                 /\ c.table = "persistent"
           /\ c.ticket \in BOOLEAN /\ c.cphash \in BOOLEAN /\ c.platform \in BOOLEAN
           /\ c.platform => c.table = "persistent"
           /\ c.given \in Persistent \cup Indices \cup {None}
  <1> DEFINE of(S, names, table) ==
          \A d \in S : /\ d.tool \in names /\ d.table = table
                        /\ d.ticket \in BOOLEAN /\ d.cphash \in BOOLEAN /\ d.platform \in BOOLEAN
                        /\ (d.platform => d.table = "persistent")
             free(S) == \A d \in S : d.given = None
  <1>1. of(hash, {"hash"}, "transient") /\ free(hash)
    BY DEF hash, Tool
  <1>2. of(pcrevent, {"pcrevent"}, "transient") /\ free(pcrevent)
    BY DEF pcrevent, Tool
  <1>3. of(hmac, {"hmac"}, "transient") /\ free(hmac)
    <2>1. ASSUME NEW d \in hmac
          PROVE  /\ d.tool = "hmac" /\ d.table = "transient" /\ d.given = None /\ ~d.platform
                 /\ d.ticket \in BOOLEAN /\ d.cphash \in BOOLEAN /\ d.platform \in BOOLEAN
      <3>1. PICK options \in SUBSET {"ticket", "cphash"} :
                d = [Tool("hmac", "transient") EXCEPT !.ticket = "ticket" \in options,
                                                      !.cphash = "cphash" \in options]
        BY <2>1, Zenon DEF hmac
      <3> QED
        BY <3>1 DEF Tool
    <2> QED
      BY <2>1
  <1>4. /\ \A d \in getcap : /\ d.tool = "getcap" /\ d.table \in {"transient", "persistent", "nv"}
                             /\ d.ticket \in BOOLEAN /\ d.cphash \in BOOLEAN /\ d.platform \in BOOLEAN
                             /\ (d.platform => d.table = "persistent")
        /\ free(getcap)
    <2>1. ASSUME NEW d \in getcap
          PROVE  /\ d.tool = "getcap" /\ d.table \in {"transient", "persistent", "nv"}
                 /\ d.ticket \in BOOLEAN /\ d.cphash \in BOOLEAN /\ d.platform \in BOOLEAN
                 /\ d.given = None /\ ~d.platform
      <3>1. PICK t \in {"transient", "persistent", "nv"} : d = Tool("getcap", t)
        BY <2>1, Zenon DEF getcap
      <3> QED
        BY <3>1 DEF Tool
    <2> QED
      BY <2>1
  <1>5. of(flushcontext, {"flushcontext"}, "transient") /\ free(flushcontext)
    BY DEF flushcontext, Tool
  <1>6. \A d \in createek :
           /\ d.tool = "createek" /\ d.table \in {"persistent", "transient"}
           /\ d.ticket \in BOOLEAN /\ d.cphash \in BOOLEAN /\ d.platform = FALSE
           /\ \/ d.given = None
              \/ d.given \in Persistent /\ d.given < Platform /\ d.table = "persistent"
    <2> DEFINE own == {k \in Persistent : k < Platform}
               T(t) == Tool("createek", t)
    <2> SUFFICES ASSUME NEW d \in createek
                 PROVE  /\ d.tool = "createek" /\ d.table \in {"persistent", "transient"}
                        /\ d.ticket \in BOOLEAN /\ d.cphash \in BOOLEAN
                        /\ d.platform = FALSE
                        /\ \/ d.given = None
                           \/ d.given \in Persistent /\ d.given < Platform
                                 /\ d.table = "persistent"
      OBVIOUS
    <2>1. \/ d = T("persistent") \/ d = T("transient")
          \/ \E h \in own : d = [T("persistent") EXCEPT !.given = h]
      BY Zenon DEF createek
    <2>2. CASE d = T("persistent") \/ d = T("transient")
      <3>1. PICK t \in {"persistent", "transient"} : d = T(t)
        BY <2>2
      <3>2. /\ d.tool = "createek" /\ d.table = t /\ d.ticket = FALSE /\ d.cphash = FALSE
            /\ d.platform = FALSE /\ d.given = None
        BY <3>1 DEF Tool
      <3> QED
        BY <3>2
    <2>3. CASE \E h \in own : d = [T("persistent") EXCEPT !.given = h]
      <3>1. PICK h \in own : d = [T("persistent") EXCEPT !.given = h]
        BY <2>3
      <3> QED
        BY <3>1 DEF Tool
    <2> QED
      BY <2>1, <2>2, <2>3
  <1>7. of(evictcontrol, {"evictcontrol"}, "persistent") /\ free(evictcontrol)
    BY DEF evictcontrol, Tool
  <1>8. /\ of(evictcontrol_evicting, {"evict"}, "persistent")
        /\ \A d \in evictcontrol_evicting : d.given \in Persistent
    BY DEF evictcontrol_evicting, Tool
  <1>9. of(nvdefine, {"nvdefine"}, "nv") /\ free(nvdefine)
    BY DEF nvdefine, Tool
  <1>10. /\ of(nvundefine, {"nvundefine"}, "nv")
         /\ \A d \in nvundefine : d.given \in Indices
    BY DEF nvundefine, Tool
  <1>11. of(nvreadpublic, {"nvreadpublic"}, "nv") /\ free(nvreadpublic)
    BY DEF nvreadpublic, Tool
  <1>12. None \notin Persistent \cup Indices
    BY RangesAssumption DEF None
  <1>13. c \in hash \cup pcrevent \cup hmac <=> c \in DigestTools
    BY DEF DigestTools
  <1>14. \/ c \in hash \cup pcrevent \cup hmac \/ c \in getcap \/ c \in flushcontext
         \/ c \in createek \/ c \in evictcontrol \/ c \in evictcontrol_evicting
         \/ c \in nvdefine \/ c \in nvundefine \/ c \in nvreadpublic
    BY DEF Tools, DigestTools
  <1>15. CASE c \in createek
    BY <1>6, <1>13, <1>15, <1>1, <1>2, <1>3
  <1>16. CASE c \notin createek
    BY <1>1, <1>2, <1>3, <1>4, <1>5, <1>7, <1>8, <1>9, <1>10, <1>11, <1>12, <1>13, <1>14,
       <1>16
  <1> QED
    BY <1>15, <1>16

LEMMA NoTool ==
    /\ Tool("none", "none") \in Calls /\ Tool("none", "none") \notin Tools
    /\ DigestTools \subseteq Tools /\ Tools \subseteq Calls
    /\ Tool("none", "none").tool = "none" /\ Tool("none", "none").given = None
  <1>1. Tool("none", "none").tool = "none" /\ Tool("none", "none").given = None
    BY DEF Tool
  <1>2. Tool("none", "none") \notin Tools
    BY <1>1, ToolFacts
  <1> QED
    BY <1>1, <1>2 DEF Calls, Tools

-----------------------------------------------------------------------------
(* Responses and lists.                                                    *)

FiniteTable(t) == t \subseteq Nat /\ IsFiniteSet(t)

LEMMA FirstPart ==
    ASSUME NEW s \in Seq(Nat), NEW m \in 0..Len(s)
    PROVE  /\ SubSeq(s, 1, m) \in Seq(Nat) /\ Len(SubSeq(s, 1, m)) = m
           /\ \A i \in 1..m : SubSeq(s, 1, m)[i] = s[i]
           /\ m = Len(s) => SubSeq(s, 1, m) = s
  <1>1. Len(s) \in Nat /\ m \in Nat
    OBVIOUS
  <1>2. /\ SubSeq(s, 1, m) \in Seq(Nat)
        /\ Len(SubSeq(s, 1, m)) = IF m < 1 THEN 0 ELSE m - 1 + 1
    BY <1>1, SubSeqProperties
  <1>3. Len(SubSeq(s, 1, m)) = m
    BY <1>1, <1>2
  <1>4. \A i \in 1..m : SubSeq(s, 1, m)[i] = s[i]
    BY <1>1, SubSeqProperties
  <1>5. m = Len(s) => SubSeq(s, 1, m) = s
    BY <1>1, <1>2, <1>3, <1>4, SeqEqual
  <1> QED
    BY <1>2, <1>3, <1>4, <1>5

(***************************************************************************)
(* A response has the first handles of the table from h on, and the TPM    *)
(* says that there are no more only if it has them all.                    *)
(***************************************************************************)
LEMMA Responses ==
    ASSUME NEW t, FiniteTable(t), NEW h \in Nat, NEW n \in Nat \ {0}
    PROVE  LET f == Response(t, h, n)
           IN  /\ Sorted(f) /\ Len(f) <= n
               /\ \A i \in 1..Len(f) : f[i] \in t /\ h <= f[i]
               /\ \A x \in t : h <= x =>
                     /\ f # <<>>
                     /\ ~MoreData(t, h, n) \/ x <= f[Len(f)] => x \in ToSet(f)
  <1> DEFINE F == Following(t, h)
             a == Ascending(F)
             N == Cardinality(F)
             m == Min({n, Page, Len(a)})
             f == Response(t, h, n)
  <1>1. F \subseteq t /\ F \subseteq Nat /\ IsFiniteSet(F)
    <2>1. F \subseteq t
      BY DEF Following
    <2> QED
      BY <2>1, FS_Subset DEF FiniteTable
  <1>2. /\ N \in Nat /\ a \in [1..N -> F]
        /\ \A i, j \in 1..N : i < j => a[i] < a[j]
        /\ \A x \in F : \E i \in 1..N : a[i] = x
    <2>1. F \subseteq Int
      BY <1>1
    <2> QED
      BY <1>1, <2>1, AscendingSorts
  <1> HIDE DEF F, a, N
  <1>3. a \in Seq(Nat) /\ Len(a) = N
    <2>1. a \in [1..N -> Nat]
      BY <1>1, <1>2
    <2> QED
      BY <1>2, <2>1
  <1>4. m \in 0..N /\ m <= n /\ m \in {n, Page, N}
    <2>1. Page \in Nat /\ n \in Nat /\ Len(a) \in Nat
      BY <1>2, <1>3, CountsAssumption
    <2> QED
      BY <1>2, <1>3, <2>1, LeastOfThree
  <1>5. f = SubSeq(a, 1, m)
    BY DEF Response, F, a
  <1> HIDE DEF m, f
  <1>6. /\ f \in Seq(Nat) /\ Len(f) = m
        /\ \A i \in 1..m : f[i] = a[i]
    BY <1>3, <1>4, <1>5, FirstPart
  <1>7. Sorted(f)
    <2>1. ASSUME NEW i \in 1..m, NEW j \in 1..m, i < j PROVE f[i] < f[j]
      <3>1. i \in 1..N /\ j \in 1..N
        BY <1>2, <1>4
      <3> QED
        BY <1>2, <1>6, <2>1, <3>1
    <2> QED
      BY <1>6, <2>1 DEF Sorted
  <1>8. ASSUME NEW i \in 1..m PROVE f[i] \in t /\ h <= f[i]
    <2>1. i \in 1..N
      BY <1>2, <1>4
    <2>2. f[i] \in F
      BY <1>2, <1>6, <2>1
    <2> QED
      BY <2>2 DEF F, Following
  <1>9. ASSUME NEW x \in t, h <= x
        PROVE  /\ f # <<>>
               /\ ~MoreData(t, h, n) \/ x <= f[Len(f)] => x \in ToSet(f)
    <2>1. x \in F
      BY <1>9 DEF F, Following
    <2>2. PICK i \in 1..N : a[i] = x
      BY <1>2, <2>1
    <2>3. m >= 1
      BY <1>2, <1>4, <2>2, CountsAssumption
    <2>4. f # <<>>
      BY <1>6, <2>3
    <2>5. ASSUME i <= m PROVE x \in ToSet(f)
      <3>1. i \in 1..m /\ i \in DOMAIN f
        BY <1>4, <1>6, <2>5
      <3> QED
        BY <1>6, <2>2, <3>1 DEF ToSet
    <2>6. ASSUME ~MoreData(t, h, n) PROVE i <= m
      <3>1. ~(N > m)
        BY <1>6, <2>6 DEF MoreData, F, N, f
      <3> QED
        BY <1>2, <1>4, <3>1
    <2>7. ASSUME x <= f[m] PROVE i <= m
      <3>1. m \in 1..m /\ m \in 1..N
        BY <1>2, <1>4, <2>3
      <3>2. f[m] = a[m] /\ a[m] \in Nat /\ a[i] \in Nat
        BY <1>1, <1>2, <1>6, <3>1
      <3>3. m < i => a[m] < a[i]
        BY <1>2, <3>1
      <3> QED
        BY <2>2, <2>7, <3>1, <3>2, <3>3
    <2> QED
      BY <1>6, <2>4, <2>5, <2>6, <2>7
  <1> QED
    BY <1>4, <1>6, <1>7, <1>8, <1>9 DEF f

\* A list of handles never has one twice.

LEMMA SortedCounts ==
    ASSUME NEW list, Sorted(list)
    PROVE  Cardinality(ToSet(list)) = Len(list)
  <1> DEFINE S == 1..Len(list)
             T == ToSet(list)
  <1>1. Len(list) \in Nat /\ list \in Seq(Nat) /\ DOMAIN list = S
    BY DEF Sorted
  <1>2. list \in [S -> T]
    BY <1>1 DEF ToSet
  <1>3. \A x \in T : \E i \in S : list[i] = x
    BY <1>1 DEF ToSet
  <1>4. ASSUME NEW i \in S, NEW j \in S, list[i] = list[j] PROVE i = j
    <2>1. i \in Int /\ j \in Int /\ list[i] \in Nat /\ list[j] \in Nat
      BY <1>1
    <2> QED
      BY <1>4, <2>1 DEF Sorted
  <1>5. IsFiniteSet(S) /\ Cardinality(S) = Len(list)
    <2>1. 1 \in Int /\ Len(list) \in Int
      BY <1>1
    <2>2. IsFiniteSet(1..Len(list))
          /\ Cardinality(1..Len(list)) = IF 1 > Len(list) THEN 0 ELSE Len(list) - 1 + 1
      BY <2>1, FS_Interval
    <2> QED
      BY <1>1, <2>2
  <1> HIDE DEF S, T
  <1>6. list \in Surjection(S, T) /\ list \in Injection(S, T)
    BY <1>2, <1>3, <1>4 DEF Surjection, Injection, IsInjective
  <1> QED
    BY <1>5, <1>6, FS_Surjection DEF T

\* list has become g, of what was fetched from the table t from handle h on.
Grown(list, t, h, n, f, g) ==
    /\ Sorted(f) /\ Sorted(g) /\ Len(g) <= CapMax /\ Len(g) = Len(list) + Len(f)
    /\ \A i \in 1..Len(g) : g[i] \in ToSet(list) \cup t
    /\ \A x \in ToSet(list) : x \in ToSet(g)
    /\ \A x \in t : h <= x => f # <<>> /\ (~MoreData(t, h, n) => x \in ToSet(g))
    /\ f # <<>> =>
          /\ NextProperty(g) \in Nat
          /\ \A i \in 1..Len(g) : g[i] < NextProperty(g)
          /\ \A x \in t : h <= x /\ x < NextProperty(g) => x \in ToSet(g)

(***************************************************************************)
(* What a turn of the loop of tpm2_capability_get does to the list: it     *)
(* has, from then on, everything in the table below the next handle to ask *)
(* for, or everything, when the TPM has no more.                           *)
(***************************************************************************)
LEMMA ListGrows ==
    ASSUME NEW t, FiniteTable(t), NEW list, Sorted(list), NEW h \in Nat,
           \A i \in 1..Len(list) : list[i] < h, Len(list) < CapMax,
           NEW n, n = CapMax - Len(list),
           NEW f, f = Response(t, h, n),
           NEW g, g = APPEND_CAPABILITY_INFORMATION(list, f)
    PROVE  Grown(list, t, h, n, f, g)
  <1>1. /\ n \in Nat \ {0} /\ Len(list) \in Nat /\ list \in Seq(Nat) /\ CapMax \in Nat
        /\ \A i, j \in 1..Len(list) : i < j => list[i] < list[j]
    <2>1. Len(list) \in Nat /\ list \in Seq(Nat)
      BY DEF Sorted
    <2> QED
      BY <2>1, CountsAssumption DEF Sorted
  <1>2. /\ Sorted(f) /\ Len(f) <= n
        /\ \A i \in 1..Len(f) : f[i] \in t /\ h <= f[i]
        /\ \A x \in t : h <= x =>
              /\ f # <<>>
              /\ ~MoreData(t, h, n) \/ x <= f[Len(f)] => x \in ToSet(f)
    BY <1>1, Responses
  <1>3. /\ f \in Seq(Nat) /\ Len(f) \in Nat
        /\ \A i, j \in 1..Len(f) : i < j => f[i] < f[j]
    BY <1>2 DEF Sorted
  <1>4. Min({Len(f), CapMax - Len(list)}) = Len(f)
    <2>1. CapMax - Len(list) \in Nat /\ Len(f) <= CapMax - Len(list)
      BY <1>1, <1>2
    <2> QED
      BY <1>3, <2>1, LeastOfTwo
  <1>5. g = list \o f
    <2>1. Len(f) \in 0..Len(f)
      BY <1>3
    <2>2. SubSeq(f, 1, Len(f)) = f
      BY <1>3, <2>1, FirstPart
    <2> QED
      BY <1>4, <2>2 DEF APPEND_CAPABILITY_INFORMATION
  <1>6. /\ g \in Seq(Nat) /\ Len(g) = Len(list) + Len(f)
        /\ \A i \in 1..(Len(list) + Len(f)) :
              g[i] = IF i <= Len(list) THEN list[i] ELSE f[i - Len(list)]
    <2>1. list \in Seq(Nat) /\ f \in Seq(Nat)
      BY <1>1, <1>3
    <2>2. /\ (list \o f) \in Seq(Nat) /\ Len(list \o f) = Len(list) + Len(f)
          /\ \A i \in 1..(Len(list) + Len(f)) :
                (list \o f)[i] = IF i <= Len(list) THEN list[i] ELSE f[i - Len(list)]
      BY <2>1, ConcatProperties
    <2> QED
      BY <1>5, <2>2, Zenon
  <1>7. \A i \in 1..Len(list) : g[i] = list[i] /\ i \in 1..Len(g)
    <2> TAKE i \in 1..Len(list)
    <2>1. i \in 1..(Len(list) + Len(f)) /\ i <= Len(list)
      BY <1>1, <1>3
    <2> QED
      BY <1>6, <2>1
  <1>8. \A i \in (Len(list) + 1)..Len(g) :
            g[i] = f[i - Len(list)] /\ i - Len(list) \in 1..Len(f) /\ i \in 1..Len(g)
    <2> TAKE i \in (Len(list) + 1)..Len(g)
    <2>1. i \in 1..(Len(list) + Len(f)) /\ ~(i <= Len(list)) /\ i - Len(list) \in 1..Len(f)
      BY <1>1, <1>3, <1>6
    <2> QED
      BY <1>6, <2>1
  <1>9. \A j \in 1..Len(f) :
            /\ j + Len(list) \in (Len(list) + 1)..Len(g)
            /\ g[j + Len(list)] = f[j]
    <2> TAKE j \in 1..Len(f)
    <2>1. j + Len(list) \in (Len(list) + 1)..Len(g) /\ (j + Len(list)) - Len(list) = j
      BY <1>1, <1>3, <1>6
    <2> QED
      BY <1>8, <2>1
  <1>10. \A i \in 1..Len(g) : i \in 1..Len(list) \/ i \in (Len(list) + 1)..Len(g)
    BY <1>1, <1>3, <1>6
  <1>11. Sorted(g)
    <2>1. ASSUME NEW i \in 1..Len(g), NEW j \in 1..Len(g), i < j
          PROVE  g[i] < g[j]
      <3>1. CASE j \in 1..Len(list)
        <4>1. i \in 1..Len(list)
          BY <1>1, <2>1, <3>1
        <4> QED
          BY <1>1, <1>7, <2>1, <3>1, <4>1
      <3>2. CASE i \in 1..Len(list) /\ j \in (Len(list) + 1)..Len(g)
        <4>1. g[i] = list[i] /\ list[i] < h /\ list[i] \in Nat
          BY <1>1, <1>7, <3>2
        <4>2. g[j] = f[j - Len(list)] /\ j - Len(list) \in 1..Len(f)
          BY <1>8, <3>2
        <4>3. h <= g[j] /\ g[j] \in Nat
          BY <1>2, <1>3, <4>2
        <4> QED
          BY <4>1, <4>3
      <3>3. CASE i \in (Len(list) + 1)..Len(g) /\ j \in (Len(list) + 1)..Len(g)
        <4>1. i - Len(list) < j - Len(list)
          BY <1>1, <2>1, <3>3
        <4> QED
          BY <1>3, <1>8, <3>3, <4>1
      <3> QED
        BY <1>10, <2>1, <3>1, <3>2, <3>3
    <2> QED
      BY <1>6, <2>1 DEF Sorted
  <1>12. DOMAIN list = 1..Len(list) /\ DOMAIN f = 1..Len(f) /\ DOMAIN g = 1..Len(g)
    BY <1>1, <1>3, <1>6
  <1>13. ASSUME NEW i \in 1..Len(g) PROVE g[i] \in ToSet(list) \cup t
    BY <1>2, <1>7, <1>8, <1>10, <1>12 DEF ToSet
  <1>14. \A x \in ToSet(list) : x \in ToSet(g)
    BY <1>7, <1>12 DEF ToSet
  <1>15. ASSUME NEW x \in ToSet(f) PROVE x \in ToSet(g)
    <2>1. PICK j \in 1..Len(f) : f[j] = x
      BY <1>12 DEF ToSet
    <2>2. j + Len(list) \in 1..Len(g) /\ g[j + Len(list)] = x
      BY <1>8, <1>9, <2>1
    <2> QED
      BY <1>12, <2>2 DEF ToSet
  <1>16. \A x \in t : h <= x => f # <<>> /\ (~MoreData(t, h, n) => x \in ToSet(g))
    BY <1>2, <1>15
  <1>17. ASSUME f # <<>>
         PROVE  /\ NextProperty(g) \in Nat
                /\ \A i \in 1..Len(g) : g[i] < NextProperty(g)
                /\ \A x \in t : h <= x /\ x < NextProperty(g) => x \in ToSet(g)
    <2>1. Len(f) \in 1..Len(f) /\ Len(g) \in 1..Len(g)
      BY <1>1, <1>3, <1>6, <1>17
    <2>2. g[Len(g)] = f[Len(f)]
      <3>1. Len(f) + Len(list) = Len(g)
        BY <1>1, <1>3, <1>6
      <3> QED
        BY <1>9, <2>1, <3>1
    <2>3. g[Len(g)] \in Nat /\ NextProperty(g) = g[Len(g)] + 1 /\ NextProperty(g) \in Nat
      <3>1. NextProperty(g) = g[Len(g)] + 1
        BY DEF NextProperty, Last
      <3>2. g[Len(g)] \in Nat
        BY <1>6, <2>1
      <3> QED
        BY <3>1, <3>2
    <2>4. ASSUME NEW i \in 1..Len(g) PROVE g[i] < NextProperty(g)
      <3>1. g[i] \in Nat
        BY <1>6
      <3>2. CASE i = Len(g)
        BY <2>3, <3>1, <3>2
      <3>3. CASE i < Len(g)
        <4>1. g[i] < g[Len(g)]
          BY <1>11, <2>1, <3>3 DEF Sorted
        <4> QED
          BY <2>3, <3>1, <4>1
      <3> QED
        BY <1>1, <1>3, <1>6, <3>2, <3>3
    <2>5. ASSUME NEW x \in t, h <= x, x < NextProperty(g) PROVE x \in ToSet(g)
      <3>1. x \in Nat
        BY DEF FiniteTable
      <3>2. x <= f[Len(f)]
        BY <2>2, <2>3, <2>5, <3>1
      <3> QED
        BY <1>2, <1>15, <2>5, <3>2
    <2> QED
      BY <2>3, <2>4, <2>5
  <1> QED
    BY <1>1, <1>2, <1>3, <1>6, <1>11, <1>13, <1>14, <1>16, <1>17 DEF Grown

-----------------------------------------------------------------------------
(* The steps of a tool, and what they leave alone.                         *)

\* Tool p goes on as r, and touches nobody's objects but those of its own
\* connection; every change of a table shows in seen.
Moves(p, r) ==
    /\ r \in Runs /\ run' = [run EXCEPT ![p] = r] /\ managed' = managed
    /\ trans' \in [Procs \cup {Device} -> SUBSET Slots]
    /\ handles' \subseteq Persistent /\ indices' \subseteq Indices
    /\ \A c \in Procs \cup {Device} : c # Space(p) => trans'[c] = trans[c]
    /\ \/ Witness /\ Running(p)
       \/ /\ UNCHANGED <<trans, handles, indices>>
          /\ seen' \in [Procs -> [ever: SUBSET Nat, always: SUBSET Nat]]
          /\ \A q \in Procs \ {p} : seen'[q] = seen[q]
          /\ Running(p) \/ managed \/ \A q \in Procs : ~Running(q)

\* What holds of a tool by itself.
Good(r) == Sorted(r.list) /\ r.worked <= Len(r.list) /\ Kind(r) /\ Digesting(r)

LEMMA Tables ==
    ASSUME Typed, NEW p \in Procs, NEW c \in Tools
    PROVE  TableOf(c, p) \subseteq Nat /\ FiniteTable(TableOf(c, p))
  <1>1. Space(p) \in Procs \cup {Device}
    BY DEF Space
  <1>2. /\ FiniteTable(Slots) /\ FiniteTable(Persistent) /\ FiniteTable(Indices)
    BY RangesAssumption DEF FiniteTable
  <1>3. trans[Space(p)] \subseteq Slots /\ handles \subseteq Persistent /\ indices \subseteq Indices
    BY <1>1 DEF Typed
  <1>4. FiniteTable(trans[Space(p)]) /\ FiniteTable(handles) /\ FiniteTable(indices)
    BY <1>2, <1>3, FS_Subset DEF FiniteTable
  <1>5. TableOf(c, p) \in {trans[Space(p)], handles, indices}
    BY ToolFacts DEF TableOf
  <1> QED
    BY <1>4, <1>5 DEF FiniteTable

LEMMA TablesNext ==
    ASSUME Typed, NEW p \in Procs, NEW r, Moves(p, r), NEW q \in Procs, NEW c \in Tools
    PROVE  /\ TableOf(c, q)' \subseteq Nat
           /\ (q # p /\ Space(q) # Space(p)) \/ c.table # "transient" =>
                 TableOf(c, q)' = IF c.table = "transient" THEN TableOf(c, q)
                                  ELSE IF c.table = "nv" THEN indices' ELSE handles'
           /\ c.table = "transient" => TableOf(c, q)' = trans'[Space(q)]
  <1>1. Space(q) \in Procs \cup {Device} /\ Space(q)' = Space(q)
    BY DEF Space, Moves
  <1>2. trans'[Space(q)] \subseteq Nat /\ handles' \subseteq Nat /\ indices' \subseteq Nat
    <2>1. trans'[Space(q)] \subseteq Slots
      BY <1>1 DEF Moves
    <2> QED
      BY <2>1, RangesAssumption DEF Moves
  <1>3. TableOf(c, q)' = CASE c.table = "transient" -> trans'[Space(q)]
                           [] c.table = "persistent" -> handles'
                           [] c.table = "nv" -> indices'
    BY <1>1 DEF TableOf
  <1>4. c.table \in {"transient", "persistent", "nv"}
    BY ToolFacts
  <1>5. Space(q) # Space(p) => trans'[Space(q)] = trans[Space(q)]
    BY <1>1 DEF Moves
  <1>6. c.table = "transient" => TableOf(c, q) = trans[Space(q)]
    BY DEF TableOf
  <1> QED
    BY <1>2, <1>3, <1>4, <1>5, <1>6

\* The types hold after a step; at a query the tool has one of Tools.
LEMMA SeenNext ==
    ASSUME Typed, NEW p \in Procs, NEW r, Moves(p, r), Witness, NEW q \in Procs
    PROVE  /\ At(q, "query") /\ At(q, "query")' =>
                 seen'[q] = [ever |-> seen[q].ever \cup Table(q)',
                             always |-> seen[q].always \cap Table(q)']
           /\ At(q, "failed")' => seen'[q] = NothingSeen
           /\ ~(At(q, "query") /\ At(q, "query")') /\ ~At(q, "failed")' =>
                 seen'[q] = seen[q]
  BY DEF Witness, At

LEMMA TypedNext ==
    ASSUME Typed, NEW p \in Procs, NEW r, Moves(p, r),
           \A q \in Procs : At(q, "query")' => run'[q].call \in Tools
    PROVE  Typed'
  <1>1. run' \in [Procs -> Runs] /\ managed' \in BOOLEAN
    BY DEF Moves, Typed
  <1>2. seen' \in [Procs -> [ever: SUBSET Nat, always: SUBSET Nat]]
    <2>1. CASE Witness
      <3>1. seen' = [q \in Procs |-> seen'[q]]
        BY <2>1 DEF Witness
      <3>2. ASSUME NEW q \in Procs PROVE seen'[q] \in [ever: SUBSET Nat, always: SUBSET Nat]
        <4>1. seen[q] \in [ever: SUBSET Nat, always: SUBSET Nat]
          BY DEF Typed
        <4>2. CASE At(q, "query") /\ At(q, "query")'
          <5>1. Table(q)' \subseteq Nat
            BY <4>2, TablesNext DEF Table
          <5>2. seen'[q] = [ever |-> seen[q].ever \cup Table(q)',
                            always |-> seen[q].always \cap Table(q)']
            BY <2>1, <4>2, SeenNext
          <5>3. /\ seen[q].ever \cup Table(q)' \in SUBSET Nat
                /\ seen[q].always \cap Table(q)' \in SUBSET Nat
            BY <4>1, <5>1
          <5> QED
            BY <5>2, <5>3
        <4>3. CASE At(q, "failed")'
          <5>1. NothingSeen \in [ever: SUBSET Nat, always: SUBSET Nat]
            <6>1. {} \in SUBSET Nat
              OBVIOUS
            <6> QED
              BY <6>1 DEF NothingSeen
          <5>2. seen'[q] = NothingSeen
            BY <2>1, <4>3, SeenNext
          <5> QED
            BY <5>1, <5>2
        <4>4. CASE ~(At(q, "query") /\ At(q, "query")') /\ ~At(q, "failed")'
          BY <2>1, <4>1, <4>4, SeenNext
        <4> QED
          BY <4>2, <4>3, <4>4
      <3> QED
        BY <3>1, <3>2
    <2> QED
      BY <2>1 DEF Moves
  <1> QED
    BY <1>1, <1>2 DEF Typed, Moves

\* Where the device is open in one tool at a time, it stays so.
LEMMA OneAtATimeNext ==
    ASSUME Typed, OneAtATime, NEW p \in Procs, NEW r, Moves(p, r)
    PROVE  OneAtATime'
  <1> SUFFICES ASSUME ~managed, NEW q \in Procs, NEW s \in Procs, q # s,
                      Running(q)', Running(s)'
               PROVE  FALSE
    BY DEF OneAtATime, Moves
  <1>1. \A u \in Procs \ {p} : Running(u)' => Running(u)
    BY DEF Moves, Running, Typed
  <1>2. Running(p) \/ \A u \in Procs : ~Running(u)
    BY DEF Moves
  <1>3. PICK u \in {q, s} : u # p
    OBVIOUS
  <1> QED
    BY <1>1, <1>2, <1>3 DEF OneAtATime

(***************************************************************************)
(* The step of one tool leaves the others as sane as they were: what it    *)
(* does to a table that another one lists is in what that one has seen.    *)
(***************************************************************************)
LEMMA OthersSane ==
    ASSUME IInv, NEW p \in Procs, NEW r, Moves(p, r), NEW q \in Procs, q # p
    PROVE  Sane(q)'
  <1> DEFINE u == run[q]
  <1>1. Typed /\ OneAtATime /\ Sane(q) /\ run'[q] = u /\ u \in Runs
    BY DEF IInv, Typed, Moves
  <1>2. Listing(u, seen'[q], Table(q)')
    <2>1. CASE u.pc = "query"
      <3>1. u.call \in Tools /\ Asking(u, seen[q], Table(q))
        BY <1>1, <2>1, NoTool DEF Sane, Kind, Listing
      <3>2. Table(q)' = TableOf(u.call, q)' /\ Table(q) = TableOf(u.call, q)
        BY <1>1 DEF Table, TableOf, Space
      <3>3. Running(q)
        BY <2>1 DEF Running
      <3>4. CASE Witness
        <4>1. seen'[q] = [ever |-> seen[q].ever \cup Table(q)',
                          always |-> seen[q].always \cap Table(q)']
          BY <1>1, <2>1, <3>4, SeenNext DEF At
        <4>2. u.call.tool = "flushcontext" => Table(q)' = Table(q)
          <5> SUFFICES ASSUME u.call.tool = "flushcontext" PROVE Table(q)' = Table(q)
            OBVIOUS
          <5>1. u.call.table = "transient"
            BY <3>1, ToolFacts
          <5>2. CASE Space(q) = Space(p)
            <6>1. ~managed
              BY <5>2, CountsAssumption DEF Space
            <6>2. Running(p) \/ UNCHANGED <<trans, handles, indices>>
              BY DEF Moves
            <6>3. ~Running(p)
              BY <1>1, <3>3, <6>1 DEF OneAtATime
            <6> QED
              BY <3>2, <5>1, <6>2, <6>3 DEF TableOf, Space, Moves
          <5>3. CASE Space(q) # Space(p)
            BY <1>1, <3>1, <3>2, <5>1, <5>3, TablesNext
          <5> QED
            BY <5>2, <5>3
        <4> HIDE DEF u
        <4>3. Asking(u, seen'[q], Table(q)')
          BY <3>1, <4>1, <4>2 DEF Asking
        <4> QED
          BY <2>1, <4>3 DEF Listing
      <3>5. CASE ~Witness
        <4>1. /\ UNCHANGED <<trans, handles, indices>> /\ managed' = managed
              /\ \A s \in Procs \ {p} : seen'[s] = seen[s]
          BY <3>5 DEF Moves
        <4>2. seen'[q] = seen[q] /\ Space(q)' = Space(q)
          BY <4>1 DEF Space
        <4>3. Table(q)' = Table(q)
          BY <1>1, <4>1, <4>2 DEF Table, TableOf
        <4>4. Listing(u, seen[q], Table(q))
          BY <1>1 DEF Sane
        <4> HIDE DEF u
        <4> QED
          BY <3>2, <4>2, <4>3, <4>4
      <3> QED
        BY <3>4, <3>5
    <2>2. CASE u.pc = "failed"
      BY <2>2 DEF Listing
    <2>3. CASE u.pc \notin {"query", "failed"}
      <3>1. seen'[q] = seen[q]
        <4>1. CASE Witness
          BY <1>1, <2>3, <4>1, SeenNext DEF At
        <4> QED
          BY <4>1 DEF Moves
      <3> QED
        BY <1>1, <2>3, <3>1 DEF Sane, Listing
    <2> QED
      BY <2>1, <2>2, <2>3
  <1> QED
    BY <1>1, <1>2 DEF Sane

\* What each action of tool p is shown to do.
Kept(p) == IInv' /\ \E r : Moves(p, r)

\* It suffices to look at the tool that takes the step.
LEMMA SaneAgain ==
    ASSUME IInv, NEW p \in Procs, NEW r, Moves(p, r), Good(r),
           Listing(r, seen'[p], TableOf(r.call, p)')
    PROVE  Kept(p)
  <1>1. Typed /\ OneAtATime
    BY DEF IInv
  <1>2. run'[p] = r /\ run' \in [Procs -> Runs]
    BY <1>1 DEF Moves, Typed
  <1>3. Sane(p)'
    BY <1>2 DEF Sane, Good, Table, TableOf, Space
  <1>4. \A q \in Procs : Sane(q)'
    BY <1>3, OthersSane
  <1>5. \A q \in Procs : At(q, "query")' => run'[q].call \in Tools
    BY <1>4, NoTool DEF Sane, Kind, At
  <1> QED
    BY <1>1, <1>4, <1>5, TypedNext, OneAtATimeNext DEF IInv, Kept

-----------------------------------------------------------------------------
(* One lemma per action.                                                   *)

LEMMA Step ==
    ASSUME Typed, NEW p \in Procs, NEW r \in Runs, Running(p), Becomes(p, r), Witness,
           managed' = managed, handles' \subseteq Persistent, indices' \subseteq Indices,
           NEW X, X \subseteq Slots,
           trans' = trans \/ trans' = [trans EXCEPT ![Space(p)] = X]
    PROVE  Moves(p, r)
  <1>1. Space(p) \in Procs \cup {Device}
    BY DEF Space
  <1>2. trans \in [Procs \cup {Device} -> SUBSET Slots]
    BY DEF Typed
  <1>3. /\ trans' \in [Procs \cup {Device} -> SUBSET Slots]
        /\ \A c \in Procs \cup {Device} : c # Space(p) => trans'[c] = trans[c]
    BY <1>1, <1>2
  <1> QED
    BY <1>3 DEF Moves, Becomes

\* At its end the resource manager flushes a connection.
LEMMA Disconnects ==
    ASSUME NEW p \in Procs, Disconnect(p)
    PROVE  trans' = trans \/ trans' = [trans EXCEPT ![Space(p)] = {}]
  BY DEF Disconnect, Space

LEMMA IdleFits ==
    /\ Idle \in Runs /\ Good(Idle)
    /\ [Idle EXCEPT !.pc = "failed"] \in Runs /\ Good([Idle EXCEPT !.pc = "failed"])
  <1>1. Idle.call = Tool("none", "none") /\ Idle.pc = "idle"
    BY DEF Idle
  <1>2. Idle \in Runs /\ [Idle EXCEPT !.pc = "failed"] \in Runs
    <2> DEFINE counts == 0..(Word - 1)
               lists == Seq(Nat)
               none == Tool("none", "none")
    <2>1. none \in Calls /\ 0 \in counts /\ <<>> \in lists
      BY NoTool, RangesAssumption
    <2> HIDE DEF counts, lists, none
    <2>2. Idle =
              [call |-> none, pc |-> "idle",
               size |-> 0, fifo |-> FALSE, at |-> 0, changed |-> 0,
               left |-> 0, pos |-> 0, fed |-> 0, eof |-> FALSE, object |-> None,
               list |-> <<>>, more |-> FALSE, from |-> 0, worked |-> 0, chosen |-> None]
      BY DEF Idle, none
    <2>3. Runs =
              [call: Calls,
               pc: {"idle", "stat", "oneshot", "start", "loop", "last", "query", "pick",
                    "create", "save", "take", "flush", "drop", "each", "done", "failed"},
               size: {0} \cup Sizes, fifo: BOOLEAN, at: {0} \cup Sizes, changed: Int,
               left: counts, pos: Nat, fed: Nat, eof: BOOLEAN, object: Slots \cup {None},
               list: lists, more: BOOLEAN, from: Nat, worked: Nat,
               chosen: Persistent \cup Indices \cup {None}]
      BY DEF Runs, counts, lists
    <2>4. /\ 0 \in {0} \cup Sizes /\ None \in Slots \cup {None}
          /\ None \in Persistent \cup Indices \cup {None}
      OBVIOUS
    <2>5. Idle \in Runs
      BY <2>1, <2>2, <2>3, <2>4
    <2> QED
      BY <2>3, <2>5
  <1>3. Sorted(Idle.list) /\ Len(Idle.list) = 0 /\ Idle.worked = 0
    BY DEF Idle, Sorted
  <1>4. Idle.call \notin DigestTools
    BY <1>1, NoTool
  <1>5. Digesting(Idle) /\ Digesting([Idle EXCEPT !.pc = "failed"])
    BY <1>4 DEF Digesting, Idle
  <1>6. Kind(Idle) /\ Kind([Idle EXCEPT !.pc = "failed"])
    BY DEF Kind, Idle
  <1> QED
    BY <1>2, <1>3, <1>5, <1>6 DEF Good, Idle

\* A run that fails leaves nothing to keep sane.
LEMMA Failing ==
    ASSUME IInv, NEW p \in Procs, Running(p), Fails(p), Witness, managed' = managed,
           handles' \subseteq Persistent, indices' \subseteq Indices
    PROVE  Kept(p)
  <1> DEFINE r == [Idle EXCEPT !.pc = "failed"]
  <1>1. r \in Runs /\ Good(r) /\ r.pc = "failed"
    BY IdleFits DEF Idle
  <1>2. Typed
    BY DEF IInv
  <1>3. Moves(p, r)
    BY <1>1, <1>2, Step, Disconnects DEF Fails
  <1> HIDE DEF r
  <1>4. Listing(r, seen'[p], TableOf(r.call, p)')
    BY <1>1 DEF Listing
  <1> QED
    BY <1>1, <1>3, <1>4, SaneAgain

\* A digest that goes on, or ends well.
LEMMA DigestGoesOn ==
    ASSUME IInv, NEW p \in Procs, NEW r, Moves(p, r), Good(r), r.call \in DigestTools,
           r.pc \notin {"query", "create", "take"}
    PROVE  Kept(p)
  <1>1. Listing(r, seen'[p], TableOf(r.call, p)')
    BY DEF Listing, Lists
  <1> QED
    BY <1>1, SaneAgain

(***************************************************************************)
(* The digest of a file.                                                   *)
(***************************************************************************)

\* What holds of a run before its step.
LEMMA Before ==
    ASSUME IInv, NEW p \in Procs
    PROVE  /\ Typed /\ run[p] \in Runs /\ Good(run[p]) /\ Sane(p)
           /\ Listing(run[p], seen[p], Table(p))
  BY DEF IInv, Typed, Sane, Good

LEMMA SizeFacts ==
    /\ Block \in Nat \ {0} /\ Word \in Nat \ {0}
    /\ \A n \in Sizes : n \in Nat /\ n < Word
    /\ \A m, n \in Sizes : m + n + Block < Word
  <1>1. /\ Block \in Nat \ {0} /\ Word \in Nat \ {0} /\ Sizes \subseteq Nat
        /\ \A m, n \in Sizes : m + n + Block < Word
    BY CountsAssumption, RangesAssumption
  <1> QED
    BY <1>1

LEMMA AvailableFacts ==
    ASSUME NEW r \in Runs, NEW n \in Nat, r.size \in Nat
    PROVE  LET k == Available(r, n)
           IN  /\ k \in Nat /\ k <= n
               /\ k = 0 \/ (~r.eof /\ r.pos + k <= r.size)
               /\ ~r.eof /\ r.pos < r.size /\ k < n => r.pos + k = r.size
               /\ r.eof \/ r.pos >= r.size => k = 0
  <1>1. r.pos \in Nat /\ r.eof \in BOOLEAN
    BY DEF Runs
  <1>2. CASE r.eof \/ r.pos >= r.size
    BY <1>1, <1>2 DEF Available
  <1>3. CASE ~r.eof /\ ~(r.pos >= r.size)
    <2> DEFINE k == Min({n, r.size - r.pos})
    <2>1. r.size - r.pos \in Nat
      BY <1>1, <1>3
    <2>2. k \in Nat /\ k <= n /\ k <= r.size - r.pos /\ k \in {n, r.size - r.pos}
      BY <2>1, LeastOfTwo
    <2>3. Available(r, n) = k
      BY <1>3 DEF Available
    <2> HIDE DEF k
    <2> QED
      BY <1>1, <1>3, <2>2, <2>3
  <1> QED
    BY <1>2, <1>3

LEMMA StartDigestSane ==
    ASSUME IInv, NEW p \in Procs, StartDigest(p)
    PROVE  Kept(p)
  <1>1. PICK c \in DigestTools, n \in Sizes, fifo \in BOOLEAN :
            /\ MayStart(p, c)
            /\ Becomes(p, [Idle EXCEPT !.call = c, !.pc = "stat",
                                       !.size = n, !.fifo = fifo])
            /\ UNCHANGED <<managed, seen, trans, handles, indices>>
    BY DEF StartDigest
  <1> DEFINE r == [Idle EXCEPT !.call = c, !.pc = "stat", !.size = n, !.fifo = fifo]
  <1>2. r \in Runs
    <2>1. c \in Calls /\ n \in {0} \cup Sizes /\ fifo \in BOOLEAN
      BY NoTool
    <2> QED
      BY <2>1, IdleFits DEF Runs
  <1>3. /\ r.call = c /\ r.pc = "stat" /\ r.size = n /\ r.pos = 0 /\ r.fed = 0 /\ ~r.eof
        /\ r.list = <<>> /\ r.worked = 0 /\ r.object = None
    BY DEF Idle
  <1>4. Typed
    BY DEF IInv
  <1>5. Moves(p, r)
    <2>1. managed \/ \A q \in Procs : ~Running(q)
      BY <1>1 DEF MayStart
    <2> HIDE DEF r
    <2> QED
      BY <1>1, <1>2, <1>4, <2>1 DEF Moves, Becomes, Typed, r
  <1> HIDE DEF r
  <1>6. Good(r)
    BY <1>3 DEF Good, Kind, Digesting, Sorted
  <1> QED
    BY <1>3, <1>5, <1>6, DigestGoesOn

LEMMA ChangeFileSane ==
    ASSUME IInv, NEW p \in Procs, ChangeFile(p)
    PROVE  Kept(p)
  <1>1. PICK n \in Sizes :
            /\ Running(p) /\ run[p].call \in DigestTools /\ ~run[p].fifo
            /\ Becomes(p, [run[p] EXCEPT !.size = n, !.changed = n - run[p].size])
            /\ UNCHANGED <<managed, seen, trans, handles, indices>>
    BY DEF ChangeFile
  <1> DEFINE r == [run[p] EXCEPT !.size = n, !.changed = n - run[p].size]
  <1>2. Typed /\ run[p] \in Runs /\ Good(run[p])
    BY Before
  <1>3. r \in Runs
    <2>1. run[p].size \in Nat /\ n \in Nat
      BY <1>2, SizeFacts DEF Runs
    <2>2. n \in {0} \cup Sizes /\ n - run[p].size \in Int
      BY <2>1
    <2> QED
      BY <1>2, <2>2 DEF Runs
  <1>4. Moves(p, r)
    BY <1>1, <1>2, <1>3 DEF Moves, Becomes, Typed
  <1>5. /\ r.call = run[p].call /\ r.pc = run[p].pc /\ r.fifo = run[p].fifo /\ r.at = run[p].at
        /\ r.left = run[p].left /\ r.pos = run[p].pos /\ r.fed = run[p].fed
        /\ r.eof = run[p].eof /\ r.object = run[p].object /\ r.list = run[p].list
        /\ r.worked = run[p].worked /\ r.size = n
    BY <1>2 DEF Runs
  <1>6. r.pc \notin {"idle", "failed", "done"}
    BY <1>1, <1>5 DEF Running
  <1> HIDE DEF r
  <1>7. Kind(r)
    BY <1>2, <1>5, <1>6 DEF Kind, Good
  <1>8. Digesting(r)
    BY <1>1, <1>2, <1>5, <1>6 DEF Digesting, Counted, Good
  <1>9. Good(r)
    BY <1>2, <1>5, <1>7, <1>8 DEF Good
  <1>10. r.pc \notin {"query", "create", "take"}
    BY <1>1, <1>5, <1>7 DEF Kind
  <1> QED
    BY <1>1, <1>4, <1>5, <1>9, <1>10, DigestGoesOn

LEMMA SizeAskedSane ==
    ASSUME IInv, NEW p \in Procs, files_get_file_size(p)
    PROVE  Kept(p)
  <1>n. PICK n \in Reported(run[p]) :
            LET r == [run[p] EXCEPT !.at = n, !.left = n]
            IN  /\ At(p, "stat")
                /\ \/ FitsOneCommand(r) /\ GoesOn(p, [r EXCEPT !.pc = "oneshot"])
                   \/ ~FitsOneCommand(r) /\ r.call.cphash /\ Fails(p)
                   \/ /\ ~FitsOneCommand(r) /\ ~r.call.cphash
                      /\ GoesOn(p, [r EXCEPT !.pc = "start"])
                /\ UNCHANGED <<managed, handles, indices>>
                /\ Witness
    BY DEF files_get_file_size
  <1> DEFINE r(place) == [run[p] EXCEPT !.at = n, !.left = n, !.pc = place]
  <1>1. Typed /\ run[p] \in Runs /\ Good(run[p]) /\ At(p, "stat") /\ Running(p)
    BY Before DEF files_get_file_size, At, Running
  <1>2. run[p].call \in DigestTools /\ run[p].size \in Sizes /\ run[p].object = None
    BY <1>1 DEF Good, Kind, Digesting, At
  <1>s. n \in Sizes
    BY <1>2 DEF Reported
  <1>3. /\ Witness /\ managed' = managed /\ handles' = handles /\ indices' = indices
        /\ \/ Fails(p)
           \/ /\ FitsOneCommand([run[p] EXCEPT !.at = n, !.left = n])
              /\ GoesOn(p, r("oneshot"))
           \/ GoesOn(p, r("start"))
    BY <1>1, <1>n DEF Runs
  <1>4. handles' \subseteq Persistent /\ indices' \subseteq Indices
    BY <1>1, <1>3 DEF Typed
  <1>5. ASSUME NEW place \in {"oneshot", "start"}, GoesOn(p, r(place)),
               place = "oneshot" => ~run[p].fifo
        PROVE  Kept(p)
    <2> DEFINE s == r(place)
    <2>1. s \in Runs
      <3>1. n \in {0} \cup Sizes /\ n \in 0..(Word - 1)
        BY <1>s, SizeFacts
      <3> QED
        BY <1>1, <3>1 DEF Runs
    <2>2. /\ s.call = run[p].call /\ s.pc = place /\ s.fifo = run[p].fifo /\ s.at = n
          /\ s.left = n /\ s.pos = run[p].pos /\ s.fed = run[p].fed
          /\ s.eof = run[p].eof /\ s.object = None /\ s.list = run[p].list
          /\ s.worked = run[p].worked /\ s.size = run[p].size
      BY <1>1, <1>2 DEF Runs
    <2>3. Becomes(p, s) /\ trans' = trans
      BY <1>5 DEF GoesOn
    <2> HIDE DEF s
    <2>4. Moves(p, s)
      <3>1. {} \subseteq Slots
        OBVIOUS
      <3> QED
        BY <1>1, <1>3, <1>4, <2>1, <2>3, <3>1, Step
    <2>5. Kind(s) /\ Digesting(s) /\ Good(s)
      <3>1. Kind(s)
        BY <1>2, <2>2 DEF Kind
      <3>2. Digesting(s)
        BY <1>1, <1>2, <1>s, <1>5, <2>2 DEF Digesting, Good, At
      <3> QED
        BY <1>1, <2>2, <3>1, <3>2 DEF Good
    <2> QED
      BY <1>2, <2>2, <2>4, <2>5, DigestGoesOn
  <1>6. CASE Fails(p)
    BY <1>1, <1>3, <1>4, <1>6, Failing
  <1>7. CASE /\ FitsOneCommand([run[p] EXCEPT !.at = n, !.left = n])
             /\ GoesOn(p, r("oneshot"))
    <2>1. ~run[p].fifo
      BY <1>1, <1>7 DEF FitsOneCommand, Runs
    <2> HIDE DEF r
    <2> QED
      BY <1>5, <1>7, <2>1
  <1>8. CASE GoesOn(p, r("start"))
    <2> HIDE DEF r
    <2> QED
      BY <1>5, <1>8
  <1> QED
    BY <1>3, <1>6, <1>7, <1>8

LEMMA OneShotSane ==
    ASSUME IInv, NEW p \in Procs, OneShot(p)
    PROVE  Kept(p)
  <1> DEFINE n == Available(run[p], run[p].left)
             s == [run[p] EXCEPT !.pos = n, !.fed = IF run[p].call.cphash THEN 0 ELSE n,
                                 !.pc = "done"]
  <1>1. Typed /\ run[p] \in Runs /\ Good(run[p]) /\ At(p, "oneshot") /\ Running(p)
    BY Before DEF OneShot, At, Running
  <1>2. /\ run[p].call \in DigestTools /\ run[p].size \in Sizes /\ run[p].left = run[p].at
        /\ run[p].at \in Sizes /\ ~run[p].fifo
    BY <1>1 DEF Good, Kind, Digesting, At
  <1>3. n \in Nat
    <2>1. run[p].size \in Nat /\ run[p].left \in Nat
      BY <1>2, SizeFacts
    <2> QED
      BY <1>1, <2>1, AvailableFacts
  <1>4. /\ Witness /\ managed' = managed /\ handles' = handles /\ indices' = indices
        /\ Fails(p) \/ (n = run[p].left /\ Becomes(p, s) /\ Disconnect(p))
    BY <1>1 DEF OneShot, Succeeds, Runs
  <1>5. handles' \subseteq Persistent /\ indices' \subseteq Indices
    BY <1>1, <1>4 DEF Typed
  <1>6. CASE Fails(p)
    BY <1>1, <1>4, <1>5, <1>6, Failing
  <1>7. CASE n = run[p].left /\ Becomes(p, s) /\ Disconnect(p)
    <2> HIDE DEF n
    <2>1. s \in Runs
      <3>1. (IF run[p].call.cphash THEN 0 ELSE n) \in Nat
        BY <1>3
      <3> QED
        BY <1>1, <1>3, <3>1 DEF Runs
    <2>2. /\ s.call = run[p].call /\ s.pc = "done" /\ s.fifo = run[p].fifo /\ s.at = run[p].at
          /\ s.fed = IF run[p].call.cphash THEN 0 ELSE n
          /\ s.list = run[p].list /\ s.worked = run[p].worked /\ s.size = run[p].size
      BY <1>1 DEF Runs
    <2> HIDE DEF s
    <2>3. Moves(p, s)
      BY <1>1, <1>4, <1>5, <1>7, <2>1, Step, Disconnects
    <2>4. Good(s)
      <3>1. Kind(s)
        BY <1>2, <2>2, NoTool DEF Kind
      <3>2. Digesting(s)
        BY <1>2, <1>7, <2>2 DEF Digesting
      <3> QED
        BY <1>1, <2>2, <3>1, <3>2 DEF Good
    <2> QED
      BY <1>2, <2>2, <2>3, <2>4, DigestGoesOn
  <1> QED
    BY <1>4, <1>6, <1>7

\* A command that loads an object fails, or takes a slot.
LEMMA Loading ==
    ASSUME IInv, NEW p \in Procs, NEW next, Loads(p, next), Running(p), Witness,
           UNCHANGED <<managed, handles, indices>>,
           \A r : \A s \in Slots :
               r = [run[p] EXCEPT !.object = s, !.pc = next] =>
                   /\ r \in Runs /\ Good(r)
                   /\ Moves(p, r) => Listing(r, seen'[p], TableOf(r.call, p)')
    PROVE  Kept(p)
  <1>1. Typed /\ handles' \subseteq Persistent /\ indices' \subseteq Indices
    BY DEF IInv, Typed
  <1>2. CASE Fails(p)
    BY <1>1, <1>2, Failing
  <1>3. CASE \E s \in Slots \ trans[Space(p)] :
                 /\ trans' = [trans EXCEPT ![Space(p)] = @ \cup {s}]
                 /\ Becomes(p, [run[p] EXCEPT !.object = s, !.pc = next])
    <2>1. PICK s \in Slots \ trans[Space(p)] :
                 /\ trans' = [trans EXCEPT ![Space(p)] = @ \cup {s}]
                 /\ Becomes(p, [run[p] EXCEPT !.object = s, !.pc = next])
      BY <1>3
    <2> DEFINE X == trans[Space(p)] \cup {s}
    <2>r. PICK r : r = [run[p] EXCEPT !.object = s, !.pc = next]
      OBVIOUS
    <2>2. X \subseteq Slots /\ trans' = [trans EXCEPT ![Space(p)] = X]
      <3>1. trans[Space(p)] \subseteq Slots
        BY <1>1 DEF Typed, Space
      <3> QED
        BY <2>1, <3>1
    <2>3. r \in Runs /\ Good(r) /\ (Moves(p, r) => Listing(r, seen'[p], TableOf(r.call, p)'))
      BY <2>r
    <2>4. Becomes(p, r)
      BY <2>1, <2>r
    <2> HIDE DEF X
    <2>5. Moves(p, r)
      BY <1>1, <2>2, <2>3, <2>4, Step
    <2> QED
      BY <2>3, <2>5, SaneAgain
  <1> QED
    BY <1>2, <1>3, Zenon DEF Loads

LEMMA StartSequenceSane ==
    ASSUME IInv, NEW p \in Procs, StartSequence(p)
    PROVE  Kept(p)
  <1>1. /\ Typed /\ run[p] \in Runs /\ Good(run[p]) /\ At(p, "start") /\ Running(p)
        /\ Witness /\ UNCHANGED <<managed, handles, indices>> /\ Loads(p, "loop")
    BY Before DEF StartSequence, At, Running
  <1>2. /\ run[p].call \in DigestTools /\ run[p].size \in Sizes /\ run[p].left = run[p].at
        /\ run[p].at \in Sizes /\ run[p].pos = 0 /\ run[p].fed = 0 /\ run[p].eof = FALSE
    BY <1>1 DEF Good, Kind, Digesting, At
  <1>3. ASSUME NEW r, NEW s \in Slots, r = [run[p] EXCEPT !.object = s, !.pc = "loop"]
        PROVE  r \in Runs /\ Good(r) /\ Listing(r, seen'[p], TableOf(r.call, p)')
    <2>1. r \in Runs
      BY <1>1, <1>3 DEF Runs
    <2>2. /\ r.call = run[p].call /\ r.pc = "loop" /\ r.fifo = run[p].fifo /\ r.at = run[p].at
          /\ r.left = run[p].left /\ r.pos = 0 /\ r.fed = 0 /\ r.eof = FALSE
          /\ r.list = run[p].list /\ r.worked = run[p].worked /\ r.size = run[p].size
      BY <1>1, <1>2, <1>3 DEF Runs
    <2>3. Kind(r)
      BY <1>2, <2>2 DEF Kind
    <2>4. Digesting(r)
      <3>1. r.size \in Nat /\ r.at \in Nat
        BY <1>2, <2>2, SizeFacts
      <3> QED
        BY <1>2, <2>2, <3>1 DEF Digesting, Counted
    <2>5. Listing(r, seen'[p], TableOf(r.call, p)')
      BY <1>2, <2>2 DEF Listing
    <2> QED
      BY <1>1, <2>1, <2>2, <2>3, <2>4, <2>5 DEF Good
  <1> QED
    BY <1>1, <1>3, Loading

(***************************************************************************)
(* The count after n bytes more: it wraps once, when the file grew.        *)
(***************************************************************************)
LEMMA CountGoesOn ==
    ASSUME NEW r \in Runs, Counted(r), r.at \in Sizes, NEW m \in Sizes,
           NEW n \in Nat, r.pos + n <= m
    PROVE  /\ LeftAfter(r, n) \in 0..(Word - 1)
           /\ \/ LeftAfter(r, n) = r.at - (r.pos + n)
              \/ r.pos + n > r.at /\ LeftAfter(r, n) = (Word + r.at) - (r.pos + n)
  <1>1. /\ r.pos \in Nat /\ r.at \in Nat /\ r.left \in Int /\ Word \in Nat \ {0}
        /\ m \in Nat /\ m < Word /\ r.at < Word
    BY SizeFacts DEF Runs
  <1> DEFINE x == r.left - n
  <1>2. x \in Int /\ LeftAfter(r, n) = x % Word
    BY <1>1 DEF LeftAfter
  <1>3. /\ 0 <= x /\ x < Word => x % Word = x
        /\ -Word <= x /\ x < 0 => x % Word = x + Word
        /\ x % Word \in 0..(Word - 1)
    BY <1>1, <1>2, Remainders
  <1>4. CASE r.left = r.at - r.pos
    <2>1. x = r.at - (r.pos + n) /\ -Word <= x /\ x < Word
      BY <1>1, <1>4
    <2> QED
      BY <1>1, <1>2, <1>3, <2>1
  <1>5. CASE r.pos > r.at /\ r.left = (Word + r.at) - r.pos
    <2>1. x = (Word + r.at) - (r.pos + n) /\ 0 <= x /\ x < Word /\ r.pos + n > r.at
      BY <1>1, <1>5
    <2> QED
      BY <1>1, <1>2, <1>3, <2>1
  <1> QED
    BY <1>4, <1>5 DEF Counted

LEMMA UpdateSequenceSane ==
    ASSUME IInv, NEW p \in Procs, UpdateSequence(p)
    PROVE  Kept(p)
  <1> DEFINE u == run[p]
             n == Available(u, Block)
             left == IF u.fifo THEN u.left ELSE LeftAfter(u, n)
             t == [u EXCEPT !.pos = @ + n, !.fed = @ + n, !.eof = n < Block, !.left = left]
             next == IF LoopEnds(t) THEN "last" ELSE "loop"
             s == [t EXCEPT !.pc = next]
  <1>1. Typed /\ u \in Runs /\ Good(u) /\ u.pc = "loop" /\ Running(p)
    BY Before DEF UpdateSequence, At, Running
  <1>2. /\ u.call \in DigestTools /\ u.size \in Sizes /\ u.at \in Sizes /\ u.fed = u.pos
        /\ \E m \in Sizes : u.pos <= m
        /\ u.fifo => u.pos <= u.size /\ (u.eof => u.pos = u.size)
        /\ ~u.fifo => Counted(u)
    BY <1>1 DEF Good, Kind, Digesting
  <1>3. Becomes(p, s) /\ trans' = trans /\ UNCHANGED <<managed, handles, indices>> /\ Witness
    BY DEF UpdateSequence, GoesOn
  <1> HIDE DEF u
  <1>4. /\ u.size \in Nat /\ u.pos \in Nat /\ Block \in Nat \ {0} /\ u.fifo \in BOOLEAN
        /\ u.left \in 0..(Word - 1) /\ u.eof \in BOOLEAN
    BY <1>1, <1>2, SizeFacts DEF Runs
  <1>5. /\ n \in Nat /\ n <= Block
        /\ n = 0 \/ (~u.eof /\ u.pos + n <= u.size)
        /\ ~u.eof /\ u.pos < u.size /\ n < Block => u.pos + n = u.size
        /\ u.eof \/ u.pos >= u.size => n = 0
    BY <1>1, <1>4, AvailableFacts
  <1> HIDE DEF n
  <1>6. PICK m \in Sizes : u.pos + n <= m
    BY <1>2, <1>4, <1>5, SizeFacts
  <1>7. /\ left \in 0..(Word - 1)
        /\ ~u.fifo => \/ left = u.at - (u.pos + n)
                      \/ u.pos + n > u.at /\ left = (Word + u.at) - (u.pos + n)
    <2>1. CASE u.fifo
      BY <1>4, <2>1
    <2>2. CASE ~u.fifo
      BY <1>1, <1>2, <1>5, <1>6, <2>2, CountGoesOn
    <2> QED
      BY <2>1, <2>2
  <1> HIDE DEF left
  <1>8. t \in Runs
    <2> DEFINE counts == 0..(Word - 1)
    <2>1. u.pos + n \in Nat /\ u.fed + n \in Nat /\ (n < Block) \in BOOLEAN /\ left \in counts
      BY <1>2, <1>4, <1>5, <1>7
    <2> HIDE DEF counts
    <2> QED
      BY <1>1, <2>1 DEF Runs, counts
  <1>9. /\ t.call = u.call /\ t.pc = u.pc /\ t.fifo = u.fifo /\ t.at = u.at
        /\ t.left = left /\ t.pos = u.pos + n /\ t.fed = u.fed + n /\ t.eof = (n < Block)
        /\ t.object = u.object /\ t.list = u.list /\ t.worked = u.worked /\ t.size = u.size
    BY <1>1 DEF Runs
  <1>10. next \in {"last", "loop"} /\ (next = "last" => LoopEnds(t))
    OBVIOUS
  <1> HIDE DEF t, next
  <1>11. s \in Runs
    BY <1>8, <1>10 DEF Runs
  <1>12. /\ s.call = u.call /\ s.pc = next /\ s.fifo = u.fifo /\ s.at = u.at
         /\ s.left = left /\ s.pos = u.pos + n /\ s.fed = u.fed + n /\ s.eof = (n < Block)
         /\ s.list = u.list /\ s.worked = u.worked /\ s.size = u.size
    BY <1>8, <1>9 DEF Runs
  <1> HIDE DEF s
  <1>13. Kind(s)
    BY <1>2, <1>10, <1>12 DEF Kind
  <1>14. Digesting(s)
    <2>1. s.fed = s.pos /\ s.pos <= m
      BY <1>2, <1>6, <1>12
    <2>2. s.fifo => s.pos <= s.size /\ (s.eof => s.pos = s.size)
      BY <1>2, <1>4, <1>5, <1>12
    <2>3. ~s.fifo => Counted(s)
      BY <1>7, <1>12 DEF Counted
    <2>4. s.pc = "last" => IF s.fifo THEN s.eof ELSE s.left <= Block
      BY <1>9, <1>10, <1>12 DEF LoopEnds
    <2> QED
      BY <1>2, <1>10, <1>12, <2>1, <2>2, <2>3, <2>4 DEF Digesting
  <1>15. Good(s)
    BY <1>1, <1>12, <1>13, <1>14 DEF Good
  <1>16. Moves(p, s)
    <2>1. {} \subseteq Slots /\ handles' \subseteq Persistent /\ indices' \subseteq Indices
      BY <1>1, <1>3 DEF Typed
    <2> QED
      BY <1>1, <1>3, <1>11, <2>1, Step
  <1> QED
    BY <1>2, <1>10, <1>12, <1>15, <1>16, DigestGoesOn

\* A tool that is done with an object frees the slot it took.
LEMMA Unloading ==
    ASSUME Typed, NEW p \in Procs, NEW r \in Runs, Running(p), Becomes(p, r), Witness,
           UNCHANGED <<managed, handles, indices>>, NEW h, Unloads(p, h)
    PROVE  Moves(p, r)
  <1>1. trans[Space(p)] \ {h} \subseteq Slots
    BY DEF Typed, Space
  <1>2. trans' = [trans EXCEPT ![Space(p)] = trans[Space(p)] \ {h}]
    BY DEF Unloads
  <1>3. handles' \subseteq Persistent /\ indices' \subseteq Indices
    BY DEF Typed
  <1> DEFINE X == trans[Space(p)] \ {h}
  <1>4. X \subseteq Slots /\ trans' = [trans EXCEPT ![Space(p)] = X]
    BY <1>1, <1>2
  <1> HIDE DEF X
  <1> QED
    BY <1>3, <1>4, Step

LEMMA CompleteSequenceSane ==
    ASSUME IInv, NEW p \in Procs, CompleteSequence(p)
    PROVE  Kept(p)
  <1> DEFINE u == run[p]
             want == IF u.fifo THEN 0 ELSE u.left
             n == Available(u, want)
             s == [u EXCEPT !.pos = @ + n, !.fed = @ + n, !.pc = "done"]
  <1>1. Typed /\ u \in Runs /\ Good(u) /\ u.pc = "last" /\ Running(p)
    BY Before DEF CompleteSequence, At, Running
  <1>2. /\ u.call \in DigestTools /\ u.size \in Sizes /\ u.at \in Sizes /\ u.fed = u.pos
        /\ \E m \in Sizes : u.pos <= m
        /\ u.fifo => u.pos <= u.size /\ (u.eof => u.pos = u.size)
        /\ ~u.fifo => Counted(u)
        /\ IF u.fifo THEN u.eof ELSE u.left <= Block
    BY <1>1 DEF Good, Kind, Digesting
  <1>3. /\ Witness /\ UNCHANGED <<managed, handles, indices>>
        /\ \/ Fails(p)
           \/ n = want /\ Becomes(p, s) /\ Unloads(p, u.object)
    BY DEF CompleteSequence
  <1>4. CASE Fails(p)
    <2>1. handles' \subseteq Persistent /\ indices' \subseteq Indices
      BY <1>1, <1>3 DEF Typed
    <2> QED
      BY <1>1, <1>3, <1>4, <2>1, Failing
  <1>5. CASE n = want /\ Becomes(p, s) /\ Unloads(p, u.object)
    <2> HIDE DEF u
    <2>1. /\ u.size \in Nat /\ u.pos \in Nat /\ Block \in Nat \ {0} /\ u.fifo \in BOOLEAN
          /\ u.left \in Nat /\ u.at \in Nat /\ Word \in Nat
      BY <1>1, <1>2, SizeFacts DEF Runs
    <2>2. n = want /\ want \in Nat
      BY <1>5, <2>1
    <2>3. u.pos + want = IF u.fifo THEN u.size ELSE u.at
      <3>1. CASE u.fifo
        BY <1>2, <2>1, <3>1
      <3>2. CASE ~u.fifo
        <4>1. PICK m \in Sizes : u.pos <= m
          BY <1>2
        <4>2. m \in Nat /\ m + u.at + Block < Word /\ u.left <= Block /\ Counted(u)
          BY <1>2, <3>2, SizeFacts
        <4>3. u.left = u.at - u.pos
          BY <2>1, <4>1, <4>2, SizeFacts DEF Counted
        <4> QED
          BY <2>1, <3>2, <4>3
      <3> QED
        BY <3>1, <3>2
    <2> HIDE DEF n, want
    <2>4. s \in Runs
      <3>1. u.pos + n \in Nat /\ u.fed + n \in Nat
        BY <1>2, <2>1, <2>2
      <3> QED
        BY <1>1, <3>1 DEF Runs
    <2>5. /\ s.call = u.call /\ s.pc = "done" /\ s.fifo = u.fifo /\ s.at = u.at
          /\ s.fed = u.fed + n /\ s.list = u.list /\ s.worked = u.worked /\ s.size = u.size
      BY <1>1 DEF Runs
    <2> HIDE DEF s
    <2>6. Good(s)
      <3>1. Kind(s)
        BY <1>2, <2>5, NoTool DEF Kind
      <3>2. Digesting(s)
        BY <1>2, <2>2, <2>3, <2>5 DEF Digesting
      <3> QED
        BY <1>1, <2>5, <3>1, <3>2 DEF Good
    <2>7. Moves(p, s)
      BY <1>1, <1>3, <1>5, <2>4, Unloading
    <2> QED
      BY <1>2, <2>5, <2>6, <2>7, DigestGoesOn
  <1> QED
    BY <1>3, <1>4, <1>5

(***************************************************************************)
(* The tools that list a table.                                            *)
(***************************************************************************)
LEMMA StartOnTableSane ==
    ASSUME IInv, NEW p \in Procs, StartOnTable(p)
    PROVE  Kept(p)
  <1>1. PICK c \in Tools \ DigestTools :
            /\ MayStart(p, c)
            /\ Becomes(p, [Idle EXCEPT !.call = c, !.pc = First(c), !.chosen = c.given])
            /\ seen' = [seen EXCEPT ![p] =
                   [ever |-> TableOf(c, p), always |-> TableOf(c, p)]]
            /\ UNCHANGED <<managed, trans, handles, indices>>
    BY DEF StartOnTable
  <1>r. PICK r : r = [Idle EXCEPT !.call = c, !.pc = First(c), !.chosen = c.given]
    OBVIOUS
  <1>f. /\ First(c) \in {"create", "drop", "query"}
        /\ First(c) = "query" => Lists(c)
        /\ First(c) = "create" => c.tool = "createek"
        /\ First(c) = "create" /\ ~KeepsKey(c) => c.given \in Candidates(c) /\ ~Lists(c)
    <2>1. /\ First(c) \in {"create", "drop", "query"}
          /\ First(c) = "create" =>
                c.tool = "createek" /\ (c.given # None \/ KeepsKey(c))
      BY DEF First
    <2>2. c.tool = "createek" /\ c.given # None => c.given \in Candidates(c)
      BY ToolFacts DEF Candidates
    <2> QED
      BY <2>1, <2>2 DEF Lists
  <1>2. r \in Runs
    <2>1. c \in Calls /\ c.given \in Persistent \cup Indices \cup {None}
      BY NoTool, ToolFacts
    <2> QED
      BY <1>r, <1>f, <2>1, IdleFits DEF Runs
  <1>3. /\ r.call = c /\ r.pc = First(c) /\ r.chosen = c.given
        /\ r.list = <<>> /\ r.worked = 0 /\ r.object = None /\ r.from = 0
    BY <1>r DEF Idle
  <1>4. Typed
    BY DEF IInv
  <1> DEFINE t == TableOf(c, p)
             w == [ever |-> t, always |-> t]
  <1>5. t \subseteq Nat
    BY <1>4, Tables
  <1>6. t' = t
    BY <1>1 DEF TableOf, Space
  <1> HIDE DEF t
  <1>7. /\ seen' \in [Procs -> [ever: SUBSET Nat, always: SUBSET Nat]]
        /\ seen'[p] = w /\ \A q \in Procs \ {p} : seen'[q] = seen[q]
    <2>1. w \in [ever: SUBSET Nat, always: SUBSET Nat]
      BY <1>5
    <2>2. seen' = [seen EXCEPT ![p] = w]
      BY <1>1 DEF t
    <2> HIDE DEF w
    <2> QED
      BY <1>4, <2>1, <2>2 DEF Typed
  <1>8. Moves(p, r)
    <2>1. managed \/ \A q \in Procs : ~Running(q)
      BY <1>1 DEF MayStart
    <2> QED
      BY <1>1, <1>r, <1>2, <1>4, <1>7, <2>1 DEF Moves, Becomes, Typed
  <1>9. Good(r)
    <2>1. Sorted(r.list) /\ r.worked <= Len(r.list)
      BY <1>3 DEF Sorted
    <2>2. Kind(r)
      BY <1>3, <1>f DEF Kind
    <2> QED
      BY <1>3, <2>1, <2>2 DEF Good, Digesting
  <1>10. Listing(r, seen'[p], TableOf(r.call, p)')
    <2>1. TableOf(r.call, p)' = t
      BY <1>1, <1>3 DEF TableOf, Space, t
    <2>2. Asking(r, w, t)
      <3>1. w.ever = t /\ w.always = t
        OBVIOUS
      <3>2. 0 < CapMax /\ Len(r.list) = 0
        BY <1>3, CountsAssumption
      <3>3. \A h \in t : ~(h < 0)
        BY <1>5
      <3> HIDE DEF w
      <3> QED
        BY <1>3, <3>1, <3>2, <3>3 DEF Asking
    <2> HIDE DEF w
    <2>3. r.pc = "create" => ~Lists(r.call)
      BY <1>3 DEF Lists
    <2>4. r.pc = "create" /\ ~KeepsKey(r.call) => Chosen(r, w)
      BY <1>3, <1>f, <2>3 DEF Chosen
    <2> QED
      BY <1>3, <1>f, <1>7, <2>1, <2>2, <2>3, <2>4 DEF Listing
  <1> QED
    BY <1>8, <1>9, <1>10, SaneAgain

(***************************************************************************)
(* One turn of the loop of tpm2_capability_get.                            *)
(***************************************************************************)
LEMMA ListGoesOn ==
    ASSUME IInv, NEW p \in Procs, tpm2_capability_get(p)
    PROVE  Kept(p)
  <1> DEFINE u == run[p]
             t == Table(p)
             w == seen[p]
             n == CapMax - Len(u.list)
             f == Response(t, u.from, n)
             more == MoreData(t, u.from, n)
             g == APPEND_CAPABILITY_INFORMATION(u.list, f)
             next == IF u.call.tool \notin OnePage /\ AskAgain(g, f, more)
                     THEN "query" ELSE ThenOf(u.call, g)
             from == IF f = <<>> THEN u.from ELSE NextProperty(g)
             s == [u EXCEPT !.list = g, !.more = more, !.pc = next, !.from = from]
  <1>1. Typed /\ u \in Runs /\ Good(u) /\ u.pc = "query" /\ Running(p) /\ Asking(u, w, t)
    BY Before DEF tpm2_capability_get, At, Running, Listing
  <1>2. /\ u.call \in Tools \ DigestTools /\ Lists(u.call) /\ u.object = None
        /\ u.worked = 0 /\ Sorted(u.list) /\ u.from \in Nat
    BY <1>1 DEF Good, Kind, Runs
  <1>3. /\ Witness /\ UNCHANGED <<managed, handles, indices>> /\ Becomes(p, s)
        /\ IF next = "done" THEN Disconnect(p) ELSE trans' = trans
    <2> HIDE DEF f, more, g
    <2>1. u.call \in Calls
      BY <1>1 DEF Runs
    <2>2. /\ Witness /\ UNCHANGED <<managed, handles, indices>>
          /\ IF next = "done" THEN Succeeds(p, s) ELSE GoesOn(p, s)
      BY DEF tpm2_capability_get, f, more, g
    <2>3. next = "done" => [s EXCEPT !.pc = "done"] = s
      BY <1>1 DEF Runs
    <2> HIDE DEF s, next
    <2> QED
      BY <2>2, <2>3 DEF Succeeds, GoesOn
  <1>4. FiniteTable(t) /\ t \subseteq Nat
    BY <1>1, <1>2, Tables DEF Table
  <1>5. /\ Len(u.list) < CapMax /\ Len(u.list) \in Nat /\ CapMax \in Nat \ {0}
        /\ \A i \in 1..Len(u.list) : u.list[i] < u.from /\ u.list[i] \in w.ever
        /\ u.list = <<>> => u.from = 0
        /\ t \subseteq w.ever /\ w.always \subseteq t
        /\ \A h \in w.always : h < u.from => h \in ToSet(u.list)
        /\ u.call.tool = "flushcontext" => w.ever = t /\ w.always = t
    BY <1>1, <1>2, CountsAssumption DEF Asking, Sorted
  <1> HIDE DEF u, t, w
  <1>6. /\ Sorted(f) /\ Sorted(g) /\ Len(g) <= CapMax /\ Len(g) = Len(u.list) + Len(f)
        /\ \A i \in 1..Len(g) : g[i] \in ToSet(u.list) \cup t
        /\ \A x \in ToSet(u.list) : x \in ToSet(g)
        /\ \A x \in t : u.from <= x => f # <<>> /\ (~more => x \in ToSet(g))
        /\ f # <<>> =>
              /\ NextProperty(g) \in Nat
              /\ \A i \in 1..Len(g) : g[i] < NextProperty(g)
              /\ \A x \in t : u.from <= x /\ x < NextProperty(g) => x \in ToSet(g)
    <2>1. /\ FiniteTable(t) /\ Sorted(u.list) /\ u.from \in Nat
          /\ \A i \in 1..Len(u.list) : u.list[i] < u.from
          /\ Len(u.list) < CapMax
      BY <1>2, <1>4, <1>5
    <2>2. /\ n = CapMax - Len(u.list) /\ f = Response(t, u.from, n)
          /\ g = APPEND_CAPABILITY_INFORMATION(u.list, f)
      OBVIOUS
    <2> HIDE DEF n, f, g, next, from, s, more
    <2>3. Grown(u.list, t, u.from, n, f, g)
      BY <2>1, <2>2, ListGrows, Zenon
    <2> QED
      BY <2>3 DEF more, Grown
  <1>7. more \in BOOLEAN
    BY DEF MoreData
  <1> HIDE DEF f, more, g, n
  <1>8. f \in Seq(Nat) /\ g \in Seq(Nat)
    BY <1>6 DEF Sorted
  <1>9. next \in {"query", "done", "each", "pick"} /\ from \in Nat
    <2>1. from \in Nat
      BY <1>2, <1>6
    <2>2. ThenOf(u.call, g) \in {"done", "each", "pick"}
      BY DEF ThenOf
    <2> QED
      BY <2>1, <2>2
  <1>10. /\ next = "each" => u.call.tool \in {"flushcontext", "nvreadpublic"} /\ g # <<>>
         /\ next = "pick" => u.call.tool \notin {"getcap", "flushcontext", "nvreadpublic"}
         /\ next = "query" <=> u.call.tool \notin OnePage /\ more /\ Len(g) < CapMax /\ f # <<>>
         /\ f # <<>> => from = NextProperty(g)
    BY <1>7 DEF ThenOf, AskAgain
  <1> HIDE DEF next, from
  <1>11. s \in Runs
    <2> DEFINE lists == Seq(Nat)
    <2>1. g \in lists
      BY <1>8
    <2> HIDE DEF lists
    <2> QED
      BY <1>1, <1>7, <1>9, <2>1 DEF Runs, lists
  <1>12. /\ s.call = u.call /\ s.pc = next /\ s.list = g /\ s.more = more /\ s.from = from
         /\ s.worked = u.worked /\ s.object = u.object
    BY <1>1 DEF Runs
  <1>s. PICK r : r = s
    OBVIOUS
  <1> HIDE DEF s
  <1>13. Moves(p, r)
    <2>1. {} \subseteq Slots /\ handles' \subseteq Persistent /\ indices' \subseteq Indices
      BY <1>1, <1>3 DEF Typed
    <2>2. Becomes(p, r) /\ r \in Runs
      BY <1>3, <1>11, <1>s
    <2>3. trans' = trans \/ trans' = [trans EXCEPT ![Space(p)] = {}]
      BY <1>3, Disconnects
    <2> QED
      BY <1>1, <1>3, <2>1, <2>2, <2>3, Step
  <1>14. Good(r)
    <2>1. Kind(r)
      <3>1. u.call.tool \in {"getcap", "flushcontext", "createek", "evictcontrol",
                             "nvdefine", "nvreadpublic"}
            /\ ~KeepsKey(u.call)
        BY <1>2, ToolFacts DEF Lists, First, KeepsKey
      <3>2. g # <<>> => Len(g) > 0
        BY <1>8
      <3> QED
        BY <1>2, <1>9, <1>10, <1>12, <1>s, <3>1, <3>2, NoTool DEF Kind
    <2>2. Digesting(r)
      BY <1>2, <1>12, <1>s DEF Digesting
    <2>3. r.worked <= Len(r.list) /\ Sorted(r.list)
      BY <1>2, <1>6, <1>8, <1>12, <1>s
    <2> QED
      BY <2>1, <2>2, <2>3 DEF Good
  <1>15. \A i \in 1..Len(g) : g[i] \in w.ever
    <2>1. \A x \in ToSet(u.list) : x \in w.ever
      <3>1. DOMAIN u.list = 1..Len(u.list)
        BY <1>2 DEF Sorted
      <3> QED
        BY <1>5, <3>1 DEF ToSet
    <2>2. \A i \in 1..Len(g) : g[i] \in ToSet(u.list) \cup t
      BY <1>6
    <2>3. t \subseteq w.ever
      BY <1>5
    <2> QED
      BY <2>1, <2>2, <2>3
  <1>16. \A h \in w.always : h \in Nat /\ (h < u.from \/ u.from <= h)
    <2>1. w.always \subseteq Nat
      BY <1>4, <1>5
    <2> QED
      BY <1>2, <2>1
  <1>17. CASE next = "query"
    <2>1. seen'[p] = [ever |-> w.ever \cup Table(p)', always |-> w.always \cap Table(p)']
      <3>1. At(p, "query") /\ At(p, "query")'
        <4>1. run'[p] = r
          BY <1>1, <1>13 DEF Moves, Typed
        <4> QED
          BY <1>1, <1>12, <1>s, <1>17, <4>1 DEF At, u
      <3> QED
        BY <1>1, <1>3, <1>13, <3>1, SeenNext DEF w
    <2>2. Table(p)' = t
      <3>1. run'[p].call = run[p].call
        <4>1. run'[p] = r
          BY <1>1, <1>13 DEF Moves, Typed
        <4> QED
          BY <1>12, <1>s, <4>1 DEF u
      <3>2. trans' = trans /\ Space(p)' = Space(p)
        BY <1>3, <1>17 DEF Space
      <3> QED
        BY <1>3, <3>1, <3>2 DEF Table, TableOf, t
    <2>3. seen'[p].ever = w.ever /\ seen'[p].always = w.always
      BY <1>5, <2>1, <2>2
    <2>4. Asking(r, seen'[p], t)
      <3>1. /\ more /\ Len(g) < CapMax /\ f # <<>> /\ from = NextProperty(g)
        BY <1>10, <1>17
      <3>2. \A h \in w.always : h < from => h \in ToSet(g)
        BY <1>5, <1>6, <1>16, <3>1
      <3>3. g # <<>>
        BY <1>5, <1>6, <1>8, <3>1
      <3> QED
        BY <1>5, <1>6, <1>12, <1>s, <1>15, <2>3, <3>1, <3>2, <3>3 DEF Asking
    <2>5. TableOf(r.call, p)' = t
      <3>1. run'[p] = r
        BY <1>1, <1>13 DEF Moves, Typed
      <3> QED
        BY <2>2, <3>1 DEF Table
    <2> QED
      BY <1>12, <1>13, <1>14, <1>17, <1>s, <2>4, <2>5, SaneAgain DEF Listing
  <1>18. CASE next # "query"
    <2>1. seen'[p] = w
      <3>1. run'[p] = r
        BY <1>1, <1>13 DEF Moves, Typed
      <3>2. ~At(p, "query")' /\ ~At(p, "failed")'
        BY <1>9, <1>12, <1>s, <1>18, <3>1 DEF At
      <3> QED
        BY <1>1, <1>3, <1>13, <3>2, SeenNext DEF w
    <2>2. Answered(r, w)
      <3>1. \/ w.always \subseteq ToSet(g)
            \/ more /\ (Len(g) = CapMax \/ u.call.tool \in OnePage)
        <4>0. /\ \A h \in w.always : h < u.from => h \in ToSet(u.list)
              /\ \A x \in ToSet(u.list) : x \in ToSet(g)
              /\ \A x \in w.always : u.from <= x => f # <<>> /\ (~more => x \in ToSet(g))
          <5>1. w.always \subseteq t
            BY <1>5
          <5>2. \A x \in t : u.from <= x => f # <<>> /\ (~more => x \in ToSet(g))
            BY <1>6
          <5> QED
            BY <1>5, <1>6, <5>1, <5>2
        <4>1. CASE ~more
          BY <1>16, <4>0, <4>1
        <4>2. CASE f = <<>>
          BY <1>16, <4>0, <4>2
        <4>3. CASE more /\ f # <<>>
          <5>1. u.call.tool \in OnePage \/ ~(Len(g) < CapMax)
            BY <1>10, <1>18, <4>3
          <5>2. Len(g) \in Nat /\ Len(g) <= CapMax /\ CapMax \in Nat
            BY <1>5, <1>6, <1>8
          <5> QED
            BY <4>3, <5>1, <5>2
        <4> QED
          BY <1>7, <4>1, <4>2, <4>3
      <3> QED
        BY <1>12, <1>s, <1>15, <3>1 DEF Answered
    <2>3. Listing(r, seen'[p], TableOf(r.call, p)')
      BY <1>9, <1>12, <1>s, <1>18, <2>1, <2>2 DEF Listing
    <2> QED
      BY <1>13, <1>14, <2>3, SaneAgain
  <1> QED
    BY <1>17, <1>18

(***************************************************************************)
(* What is done with a list.                                               *)
(***************************************************************************)

\* A tool beyond its query sees no more of the table.
LEMMA SeenStays ==
    ASSUME Typed, NEW p \in Procs, NEW r, Moves(p, r), Witness,
           r.pc \notin {"query", "failed"}
    PROVE  seen'[p] = seen[p]
  <1>1. run'[p] = r
    BY DEF Moves, Typed
  <1> QED
    BY <1>1, SeenNext DEF At

LEMMA CandidatesFit ==
    ASSUME NEW c \in Tools
    PROVE  /\ Candidates(c) \subseteq Persistent \cup Indices
           /\ Candidates(c) \subseteq Nat
           /\ c.table = "nv" => Candidates(c) \subseteq Indices
           /\ c.table # "nv" => Candidates(c) \subseteq Persistent
  <1>1. Persistent \subseteq Nat /\ Indices \subseteq Nat
    BY RangesAssumption
  <1>2. /\ c.table = "nv" => Candidates(c) \subseteq Indices
        /\ c.table # "nv" => Candidates(c) \subseteq Persistent
    <2>0. c.platform \in BOOLEAN /\ (c.platform => c.table # "nv")
      BY ToolFacts
    <2>1. CASE c.table = "nv"
      BY <2>0, <2>1 DEF Candidates
    <2>2. CASE c.table # "nv" /\ c.platform = TRUE
      BY <2>2 DEF Candidates
    <2>3. CASE c.table # "nv" /\ c.platform = FALSE
      BY <2>3 DEF Candidates
    <2> QED
      BY <2>0, <2>1, <2>2, <2>3
  <1> QED
    BY <1>1, <1>2

\* A handle that is vacant in the list was so at some moment, if the list
\* has all that was in the table all the while.
LEMMA VacantMissing ==
    ASSUME NEW r \in Runs, NEW w, Answered(r, w),
           r.call \in Tools, r.call.tool \in {"createek", "evictcontrol", "nvdefine"},
           ~KeepsKey(r.call), NEW h \in Vacant(r)
    PROVE  /\ h \in Candidates(r.call)
           /\ (r.call.tool \in OnePage /\ r.more) \/ h \notin w.always
  <1>1. h \in Candidates(r.call) /\ h \notin ToSet(r.list)
    BY DEF Vacant
  <1>2. ~(r.call.table = "persistent" /\ Len(r.list) = CapMax)
    BY DEF Vacant
  <1>3. r.call.tool \in {"createek", "evictcontrol"} => r.call.table = "persistent"
    BY ToolFacts DEF KeepsKey
  <1>4. "nvdefine" \in OnePage
    BY DEF OnePage
  <1> QED
    BY <1>1, <1>2, <1>3, <1>4 DEF Answered

LEMMA FindVacantSane ==
    ASSUME IInv, NEW p \in Procs, find_vacant(p)
    PROVE  Kept(p)
  <1> DEFINE u == run[p]
             next == IF u.call.tool = "createek" THEN "create" ELSE "take"
             s == [u EXCEPT !.chosen = Min(Vacant(u)), !.pc = next]
  <1>1. /\ Typed /\ u \in Runs /\ Good(u) /\ u.pc = "pick" /\ Running(p)
        /\ Listing(u, seen[p], Table(p))
    BY Before DEF find_vacant, At, Running
  <1>2. /\ u.call \in Tools \ DigestTools /\ Lists(u.call) /\ u.object = None
        /\ ~KeepsKey(u.call) /\ u.call.tool \in {"createek", "evictcontrol", "nvdefine"}
        /\ Answered(u, seen[p])
    BY <1>1 DEF Good, Kind, Listing
  <1>3. /\ Witness /\ UNCHANGED <<managed, handles, indices>>
        /\ \/ Fails(p)
           \/ Vacant(u) # {} /\ GoesOn(p, s)
    BY DEF find_vacant
  <1>4. handles' \subseteq Persistent /\ indices' \subseteq Indices /\ {} \subseteq Slots
    BY <1>1, <1>3 DEF Typed
  <1>5. CASE Fails(p)
    BY <1>1, <1>3, <1>4, <1>5, Failing
  <1>6. CASE Vacant(u) # {} /\ GoesOn(p, s)
    <2> HIDE DEF u
    <2> DEFINE h == Min(Vacant(u))
    <2>1. h \in Vacant(u)
      <3>1. Vacant(u) \subseteq Candidates(u.call)
        BY DEF Vacant
      <3>2. Vacant(u) \subseteq Nat
        BY <1>2, <3>1, CandidatesFit
      <3> QED
        BY <1>6, <3>2, LeastOf
    <2>2. h \in Candidates(u.call) /\ ((u.call.tool \in OnePage /\ u.more) \/ h \notin seen[p].always)
      BY <1>1, <1>2, <2>1, VacantMissing
    <2>3. h \in Persistent \cup Indices
      BY <1>2, <2>2, CandidatesFit
    <2> HIDE DEF h
    <2>r. PICK r : r = [u EXCEPT !.chosen = h, !.pc = next]
      OBVIOUS
    <2>4. r \in Runs
      BY <1>1, <2>r, <2>3 DEF Runs
    <2>5. /\ r.call = u.call /\ r.pc = next /\ r.list = u.list /\ r.more = u.more
          /\ r.worked = u.worked /\ r.object = u.object /\ r.chosen = h
      BY <1>1, <2>r DEF Runs
    <2>6. Moves(p, r)
      <3>1. Becomes(p, r) /\ trans' = trans
        BY <1>6, <2>r DEF GoesOn, h
      <3> QED
        BY <1>1, <1>3, <1>4, <2>4, <3>1, Step
    <2>7. Good(r)
      <3>1. Kind(r)
        BY <1>2, <2>5 DEF Kind
      <3>2. Digesting(r)
        BY <1>2, <2>5 DEF Digesting
      <3> QED
        BY <1>1, <2>5, <3>1, <3>2 DEF Good
    <2>8. Listing(r, seen'[p], TableOf(r.call, p)')
      <3>1. seen'[p] = seen[p]
        BY <1>1, <1>3, <2>5, <2>6, SeenStays
      <3>2. Answered(r, seen[p])
        BY <1>2, <2>5 DEF Answered
      <3>3. Chosen(r, seen[p])
        BY <2>2, <2>5 DEF Chosen
      <3> QED
        BY <2>5, <3>1, <3>2, <3>3 DEF Listing
    <2> QED
      BY <2>6, <2>7, <2>8, SaneAgain
  <1> QED
    BY <1>3, <1>5, <1>6

LEMMA CreatePrimarySane ==
    ASSUME IInv, NEW p \in Procs, CreatePrimary(p)
    PROVE  Kept(p)
  <1> DEFINE next == IF KeepsKey(run[p].call) THEN "save" ELSE "take"
  <1>1. /\ Typed /\ run[p] \in Runs /\ Good(run[p]) /\ run[p].pc = "create" /\ Running(p)
        /\ Listing(run[p], seen[p], Table(p))
        /\ Witness /\ UNCHANGED <<managed, handles, indices>> /\ Loads(p, next)
    BY Before DEF CreatePrimary, At, Running
  <1>2. /\ run[p].call \in Tools \ DigestTools /\ run[p].call.tool = "createek"
        /\ Lists(run[p].call) => Answered(run[p], seen[p])
        /\ ~KeepsKey(run[p].call) => Chosen(run[p], seen[p])
    BY <1>1 DEF Good, Kind, Listing
  <1>n. /\ next \in {"save", "take"}
        /\ next = "save" => KeepsKey(run[p].call)
        /\ next = "take" => ~KeepsKey(run[p].call)
    OBVIOUS
  <1> HIDE DEF next
  <1>3. ASSUME NEW r, NEW s \in Slots, r = [run[p] EXCEPT !.object = s, !.pc = next]
        PROVE  /\ r \in Runs /\ Good(r)
               /\ Moves(p, r) => Listing(r, seen'[p], TableOf(r.call, p)')
    <2>1. r \in Runs
      BY <1>1, <1>3, <1>n DEF Runs
    <2>2. /\ r.call = run[p].call /\ r.pc = next /\ r.list = run[p].list
          /\ r.worked = run[p].worked /\ r.more = run[p].more /\ r.chosen = run[p].chosen
      BY <1>1, <1>3 DEF Runs
    <2>3. Good(r)
      <3>1. Kind(r)
        BY <1>2, <1>n, <2>2 DEF Kind
      <3>2. Digesting(r)
        BY <1>2, <2>2 DEF Digesting
      <3> QED
        BY <1>1, <2>2, <3>1, <3>2 DEF Good
    <2>4. ASSUME Moves(p, r) PROVE Listing(r, seen'[p], TableOf(r.call, p)')
      <3>1. seen'[p] = seen[p]
        BY <1>1, <1>n, <2>2, <2>4, SeenStays
      <3>2. /\ Lists(r.call) => Answered(r, seen[p])
            /\ ~KeepsKey(r.call) => Chosen(r, seen[p])
        BY <1>2, <2>2 DEF Answered, Chosen
      <3> QED
        BY <1>n, <2>2, <3>1, <3>2 DEF Listing
    <2> QED
      BY <2>1, <2>3, <2>4
  <1> QED
    BY <1>1, <1>3, Loading

\* A tool that goes on with its list as it is.
LEMMA ListStays ==
    ASSUME IInv, NEW p \in Procs, NEW r, Moves(p, r), Witness,
           run[p].pc \in {"save", "take", "flush", "each", "drop"},
           r = [run[p] EXCEPT !.pc = r.pc, !.worked = r.worked],
           r.pc \in {"flush", "each", "done"},
           r.worked \in Nat, r.worked <= Len(run[p].list),
           r.pc = "flush" => run[p].call.tool = "createek" /\ run[p].pc = "take",
           r.pc = "each" => run[p].pc = "each" /\ r.worked < Len(run[p].list)
    PROVE  Kept(p)
  <1>1. /\ Typed /\ run[p] \in Runs /\ Good(run[p]) /\ Listing(run[p], seen[p], Table(p))
    BY Before
  <1>2. run[p].call \in Tools \ DigestTools
    BY <1>1 DEF Good, Kind
  <1>3. Lists(run[p].call) => Answered(run[p], seen[p])
    <2> SUFFICES ASSUME Lists(run[p].call) PROVE Answered(run[p], seen[p])
      OBVIOUS
    <2>1. run[p].pc # "drop"
      BY <1>1 DEF Good, Kind, Lists
    <2> QED
      BY <1>1, <2>1 DEF Listing
  <1>4. /\ r.call = run[p].call /\ r.list = run[p].list /\ r.more = run[p].more
        /\ r.object = run[p].object
    BY <1>1 DEF Runs
  <1>5. Good(r)
    <2>1. Kind(r)
      <3>1. run[p].pc = "each" => run[p].call.tool \in {"flushcontext", "nvreadpublic"} /\ run[p].object = None
        BY <1>1 DEF Good, Kind
      <3>2. r.pc = "each" => Lists(run[p].call)
        BY <1>1 DEF Good, Kind
      <3> QED
        BY <1>2, <1>4, <3>1, <3>2 DEF Kind
    <2>2. Digesting(r)
      BY <1>2, <1>4 DEF Digesting
    <2> QED
      BY <1>1, <1>4, <2>1, <2>2 DEF Good
  <1>6. seen'[p] = seen[p]
    BY <1>1, SeenStays
  <1>7. Lists(r.call) => Answered(r, seen[p])
    BY <1>3, <1>4 DEF Answered
  <1>8. Listing(r, seen'[p], TableOf(r.call, p)')
    BY <1>6, <1>7 DEF Listing
  <1> QED
    BY <1>5, <1>8, SaneAgain

LEMMA TakeSane ==
    ASSUME IInv, NEW p \in Procs, Take(p)
    PROVE  Kept(p)
  <1> DEFINE u == run[p]
  <1>1. /\ Typed /\ u \in Runs /\ Good(u) /\ u.pc = "take" /\ Running(p)
        /\ Listing(u, seen[p], Table(p)) /\ Witness /\ managed' = managed
    BY Before DEF Take, At, Running
  <1>2. u.call \in Tools /\ u.chosen \in Candidates(u.call)
    BY <1>1 DEF Good, Kind, Listing, Chosen
  <1>3. handles' \subseteq Persistent /\ indices' \subseteq Indices
    <2>1. handles \subseteq Persistent /\ indices \subseteq Indices
      BY <1>1 DEF Typed
    <2>2. \/ UNCHANGED <<handles, indices>>
          \/ /\ handles' = IF u.call.table = "nv" THEN handles ELSE handles \cup {u.chosen}
             /\ indices' = IF u.call.table = "nv" THEN indices \cup {u.chosen} ELSE indices
      BY DEF Take
    <2> QED
      BY <1>2, <2>1, <2>2, CandidatesFit
  <1>4. CASE Fails(p)
    BY <1>1, <1>3, <1>4, Failing
  <1>5. CASE ~Fails(p)
    <2>1. IF u.call.tool = "createek"
              THEN GoesOn(p, [u EXCEPT !.pc = "flush"]) ELSE Succeeds(p, u)
      BY <1>5 DEF Take
    <2>r. PICK r : r = [u EXCEPT !.pc = IF u.call.tool = "createek" THEN "flush" ELSE "done"]
      OBVIOUS
    <2>2. Becomes(p, r) /\ (trans' = trans \/ trans' = [trans EXCEPT ![Space(p)] = {}])
      BY <2>1, <2>r, Disconnects DEF GoesOn, Succeeds
    <2> HIDE DEF u
    <2>3. r \in Runs
      BY <1>1, <2>r DEF Runs
    <2>4. r.pc = (IF u.call.tool = "createek" THEN "flush" ELSE "done") /\ r.worked = u.worked
      BY <1>1, <2>r DEF Runs
    <2>5. r = [u EXCEPT !.pc = r.pc, !.worked = r.worked]
      BY <1>1, <2>r, <2>4 DEF Runs
    <2>6. u.worked \in Nat /\ u.worked <= Len(u.list)
      BY <1>1 DEF Good, Runs
    <2>7. Moves(p, r)
      <3>1. {} \subseteq Slots
        OBVIOUS
      <3> QED
        BY <1>1, <1>3, <2>2, <2>3, <3>1, Step
    <2> QED
      BY <1>1, <2>4, <2>5, <2>6, <2>7, ListStays DEF u
  <1> QED
    BY <1>4, <1>5

LEMMA FlushCreatedSane ==
    ASSUME IInv, NEW p \in Procs, FlushCreated(p)
    PROVE  Kept(p)
  <1> DEFINE u == run[p]
  <1>1. /\ Typed /\ u \in Runs /\ Good(u) /\ u.pc = "flush" /\ Running(p)
        /\ Witness /\ UNCHANGED <<managed, handles, indices>> /\ Unloads(p, u.object)
        /\ Becomes(p, [u EXCEPT !.pc = "done"])
    BY Before DEF FlushCreated, At, Running
  <1>r. PICK r : r = [u EXCEPT !.pc = "done"]
    OBVIOUS
  <1>2. Becomes(p, r)
    BY <1>1, <1>r
  <1> HIDE DEF u
  <1>3. r \in Runs /\ r.pc = "done" /\ r.worked = u.worked
    BY <1>1, <1>r DEF Runs
  <1>4. r = [u EXCEPT !.pc = r.pc, !.worked = r.worked]
    BY <1>1, <1>r, <1>3 DEF Runs
  <1>5. u.worked \in Nat /\ u.worked <= Len(u.list)
    BY <1>1 DEF Good, Runs
  <1>6. Moves(p, r)
    BY <1>1, <1>2, <1>3, Unloading
  <1> QED
    BY <1>1, <1>3, <1>4, <1>5, <1>6, ListStays DEF u

LEMMA SaveCreatedSane ==
    ASSUME IInv, NEW p \in Procs, SaveCreated(p)
    PROVE  Kept(p)
  <1> DEFINE u == run[p]
  <1>1. /\ Typed /\ u \in Runs /\ Good(u) /\ u.pc = "save" /\ Running(p)
        /\ Witness /\ UNCHANGED <<managed, handles, indices>> /\ Succeeds(p, u)
    BY Before DEF SaveCreated, At, Running
  <1>2. handles' \subseteq Persistent /\ indices' \subseteq Indices
    BY <1>1 DEF Typed
  <1>r. PICK r : r = [u EXCEPT !.pc = "done"]
    OBVIOUS
  <1>3. Becomes(p, r) /\ (trans' = trans \/ trans' = [trans EXCEPT ![Space(p)] = {}])
    BY <1>1, <1>r, Disconnects DEF Succeeds
  <1> HIDE DEF u
  <1>4. r \in Runs /\ r.pc = "done" /\ r.worked = u.worked
    BY <1>1, <1>r DEF Runs
  <1>5. r = [u EXCEPT !.pc = r.pc, !.worked = r.worked]
    BY <1>1, <1>r, <1>4 DEF Runs
  <1>6. u.worked \in Nat /\ u.worked <= Len(u.list)
    BY <1>1 DEF Good, Runs
  <1>7. Moves(p, r)
    <2>1. {} \subseteq Slots
      OBVIOUS
    <2> QED
      BY <1>1, <1>2, <1>3, <1>4, <2>1, Step
  <1> QED
    BY <1>1, <1>4, <1>5, <1>6, <1>7, ListStays DEF u

LEMMA DropSane ==
    ASSUME IInv, NEW p \in Procs, Drop(p)
    PROVE  Kept(p)
  <1> DEFINE u == run[p]
  <1>1. /\ Typed /\ u \in Runs /\ Good(u) /\ u.pc = "drop" /\ Running(p)
        /\ Witness /\ managed' = managed
    BY Before DEF Drop, At, Running
  <1>2. handles' \subseteq Persistent /\ indices' \subseteq Indices
    BY <1>1 DEF Drop, Typed
  <1>3. CASE Fails(p)
    BY <1>1, <1>2, <1>3, Failing
  <1>4. CASE Succeeds(p, u)
    <2>r. PICK r : r = [u EXCEPT !.pc = "done"]
      OBVIOUS
    <2>1. Becomes(p, r) /\ (trans' = trans \/ trans' = [trans EXCEPT ![Space(p)] = {}])
      BY <1>4, <2>r, Disconnects DEF Succeeds
    <2> HIDE DEF u
    <2>2. r \in Runs /\ r.pc = "done" /\ r.worked = u.worked
      BY <1>1, <2>r DEF Runs
    <2>3. r = [u EXCEPT !.pc = r.pc, !.worked = r.worked]
      BY <1>1, <2>r, <2>2 DEF Runs
    <2>4. u.worked \in Nat /\ u.worked <= Len(u.list)
      BY <1>1 DEF Good, Runs
    <2>5. Moves(p, r)
      <3>1. {} \subseteq Slots
        OBVIOUS
      <3> QED
        BY <1>1, <1>2, <2>1, <2>2, <3>1, Step
    <2> QED
      BY <1>1, <2>2, <2>3, <2>4, <2>5, ListStays DEF u
  <1> QED
    BY <1>3, <1>4 DEF Drop

LEMMA EachSane ==
    ASSUME IInv, NEW p \in Procs, Each(p)
    PROVE  Kept(p)
  <1> DEFINE u == run[p]
             i == u.worked + 1
             next == IF i = Len(u.list) THEN "done" ELSE "each"
  <1>1. /\ Typed /\ u \in Runs /\ Good(u) /\ u.pc = "each" /\ Running(p)
        /\ Witness /\ UNCHANGED <<managed, handles, indices>>
    BY Before DEF Each, At, Running
  <1>2. handles' \subseteq Persistent /\ indices' \subseteq Indices
    BY <1>1 DEF Typed
  <1>3. u.worked \in Nat /\ u.worked < Len(u.list) /\ Len(u.list) \in Nat
    BY <1>1 DEF Good, Kind, Runs
  <1>4. CASE Fails(p)
    BY <1>1, <1>2, <1>4, Failing
  <1>5. CASE ~Fails(p)
    <2>r. PICK r : r = [u EXCEPT !.worked = i, !.pc = next]
      OBVIOUS
    <2>1. /\ Becomes(p, r)
          /\ trans' = IF u.call.tool = "flushcontext"
                      THEN [trans EXCEPT ![Space(p)] = trans[Space(p)] \ {u.list[i]}] ELSE trans
      BY <1>5, <2>r DEF Each
    <2> DEFINE X == trans[Space(p)] \ {u.list[i]}
    <2>2. X \subseteq Slots /\ (trans' = trans \/ trans' = [trans EXCEPT ![Space(p)] = X])
      <3>1. trans[Space(p)] \subseteq Slots
        BY <1>1 DEF Typed, Space
      <3> QED
        BY <2>1, <3>1
    <2> HIDE DEF u, X
    <2>3. r \in Runs /\ r.pc = next /\ r.worked = i
      <3>1. i \in Nat /\ next \in {"each", "done"}
        BY <1>3
      <3> HIDE DEF i, next
      <3> QED
        BY <1>1, <2>r, <3>1 DEF Runs
    <2>4. r = [u EXCEPT !.pc = r.pc, !.worked = r.worked]
      BY <1>1, <2>r, <2>3 DEF Runs
    <2>5. /\ i \in Nat /\ i <= Len(u.list) /\ (next = "each" => i < Len(u.list))
          /\ next \in {"each", "done"}
      BY <1>3
    <2>6. Moves(p, r)
      BY <1>1, <1>2, <2>1, <2>2, <2>3, Step
    <2> HIDE DEF i, next
    <2> QED
      BY <1>1, <2>3, <2>4, <2>5, <2>6, ListStays DEF u
  <1> QED
    BY <1>4, <1>5

-----------------------------------------------------------------------------
(* The invariant.                                                          *)

LEMMA StopSane ==
    ASSUME IInv, NEW p \in Procs, Stop(p)
    PROVE  Kept(p)
  <1>1. Typed
    BY DEF IInv
  <1>2. handles' \subseteq Persistent /\ indices' \subseteq Indices /\ managed' = managed
    BY <1>1 DEF Stop, Typed
  <1> QED
    BY <1>2, Failing DEF Stop

LEMMA InitSane == Init => IInv
  <1> SUFFICES ASSUME Init PROVE IInv
    OBVIOUS
  <1>1. Typed
    <2>1. managed \in BOOLEAN /\ run \in [Procs -> Runs]
      BY IdleFits DEF Init
    <2>2. seen \in [Procs -> [ever: SUBSET Nat, always: SUBSET Nat]]
      <3>1. {} \in SUBSET Nat
        OBVIOUS
      <3>2. NothingSeen \in [ever: SUBSET Nat, always: SUBSET Nat]
        BY <3>1 DEF NothingSeen
      <3> QED
        BY <3>2 DEF Init
    <2>3. trans \in [Procs \cup {Device} -> SUBSET Slots]
      BY DEF Init
    <2>4. handles \subseteq Persistent /\ indices \subseteq Indices
      BY DEF Init
    <2> QED
      BY <2>1, <2>2, <2>3, <2>4 DEF Typed
  <1>2. \A p \in Procs : run[p] = Idle
    BY DEF Init
  <1>3. Idle.pc = "idle"
    BY DEF Idle
  <1>4. OneAtATime
    BY <1>2, <1>3 DEF OneAtATime, Running
  <1>5. ASSUME NEW p \in Procs PROVE Sane(p)
    BY <1>2, <1>3, IdleFits DEF Sane, Good, Listing
  <1> QED
    BY <1>1, <1>4, <1>5 DEF IInv

LEMMA NextKeeps ==
    ASSUME IInv, NEW p \in Procs,
           \/ StartDigest(p) \/ StartOnTable(p) \/ Digest(p)
           \/ WorkOnTable(p) \/ Stop(p) \/ ChangeFile(p)
    PROVE  Kept(p)
  <1>1. CASE Digest(p)
    BY <1>1, SizeAskedSane, OneShotSane, StartSequenceSane, UpdateSequenceSane,
       CompleteSequenceSane DEF Digest
  <1>2. CASE WorkOnTable(p)
    BY <1>2, ListGoesOn, FindVacantSane, CreatePrimarySane, SaveCreatedSane, TakeSane,
       FlushCreatedSane, DropSane, EachSane DEF WorkOnTable
  <1> QED
    BY <1>1, <1>2, StartDigestSane, StartOnTableSane, StopSane, ChangeFileSane

LEMMA Unchanged == IInv /\ UNCHANGED vars => IInv'
  <1> SUFFICES ASSUME IInv, UNCHANGED vars PROVE IInv'
    OBVIOUS
  <1>1. UNCHANGED <<managed, run, seen, trans, handles, indices>>
    BY DEF vars
  <1>2. Typed' /\ OneAtATime'
    BY <1>1 DEF IInv, Typed, OneAtATime, Running
  <1>3. ASSUME NEW p \in Procs PROVE Sane(p)'
    <2>1. Sane(p)
      BY DEF IInv
    <2>2. run'[p] = run[p] /\ seen'[p] = seen[p] /\ Table(p)' = Table(p)
      BY <1>1 DEF Table, TableOf, Space
    <2> QED
      BY <2>1, <2>2 DEF Sane
  <1> QED
    BY <1>2, <1>3 DEF IInv

LEMMA Invariant == Spec => []IInv
  <1>1. IInv /\ [Next]_vars => IInv'
    BY NextKeeps, Unchanged DEF Next, Kept
  <1> QED
    BY InitSane, <1>1, PTL DEF Spec

(***************************************************************************)
(* Every variable has its type, what is left of a file is a size_t, and no *)
(* listing of tpm2_capability_get has a handle twice.                      *)
(***************************************************************************)
THEOREM ObjectTypes == Spec => []TypeOK
  <1>1. IInv => TypeOK
    <2> SUFFICES ASSUME IInv PROVE TypeOK
      OBVIOUS
    <2>1. Typed
      BY DEF IInv
    <2>2. ASSUME NEW p \in Procs
          PROVE  /\ Cardinality(ToSet(run[p].list)) = Len(run[p].list)
                 /\ run[p].worked <= Len(run[p].list)
      BY SortedCounts DEF IInv, Sane
    <2> QED
      BY <2>1, <2>2 DEF Typed, TypeOK
  <1> QED
    BY Invariant, <1>1, PTL

(***************************************************************************)
(* What tpm2_hash, tpm2_hmac and tpm2_pcrevent feed the TPM before they    *)
(* end well is as much as the file was said to have, and the whole of a    *)
(* pipe, for any file, any block and any change of the file meanwhile.     *)
(***************************************************************************)
THEOREM DigestsAreWhole == Spec => []DigestOfInput
  <1>1. IInv => DigestOfInput
    BY DEF IInv, Sane, Digesting, DigestOfInput, At
  <1> QED
    BY Invariant, <1>1, PTL

(***************************************************************************)
(* A listing of tpm2_capability_get is faithful whatever other tools do to *)
(* the table between two responses.                                        *)
(***************************************************************************)
THEOREM ListsAreFaithful == Spec => []ListFaithful
  <1>1. IInv => ListFaithful
    <2> SUFFICES ASSUME IInv, NEW p \in Procs,
                        Lists(run[p].call),
                        run[p].pc \in {"each", "pick", "create", "take", "done"}
                 PROVE  /\ ToSet(run[p].list) \subseteq seen[p].ever
                        /\ \/ seen[p].always \subseteq ToSet(run[p].list)
                           \/ /\ run[p].more
                              /\ Len(run[p].list) = CapMax \/ run[p].call.tool \in OnePage
      BY DEF ListFaithful
    <2>1. Good(run[p]) /\ Listing(run[p], seen[p], Table(p))
      BY Before
    <2>3. Answered(run[p], seen[p])
      BY <2>1 DEF Listing
    <2>4. DOMAIN run[p].list = 1..Len(run[p].list)
      BY <2>1 DEF Good, Sorted
    <2> QED
      BY <2>3, <2>4 DEF Answered, ToSet
  <1> QED
    BY Invariant, <1>1, PTL

(***************************************************************************)
(* The handle that a lookup of a free persistent handle or NV index        *)
(* chooses is in its range and was free at some moment of the lookup.      *)
(***************************************************************************)
THEOREM ChosenWereVacant == Spec => []ChosenWasVacant
  <1>1. IInv => ChosenWasVacant
    <2> SUFFICES ASSUME IInv, NEW p \in Procs, Lists(run[p].call),
                        run[p].pc \in {"create", "take"}
                 PROVE  /\ run[p].chosen \in Candidates(run[p].call)
                        /\ \/ run[p].call.tool \in OnePage /\ run[p].more
                           \/ run[p].chosen \notin seen[p].always
      BY DEF ChosenWasVacant
    <2>1. ~KeepsKey(run[p].call)
      BY DEF Lists, First, KeepsKey
    <2> QED
      BY <2>1 DEF IInv, Sane, Listing, Chosen
  <1> QED
    BY Invariant, <1>1, PTL

(***************************************************************************)
(* A lookup that finds nothing had nothing free all the while, or a full   *)
(* list.                                                                   *)
(***************************************************************************)
THEOREM VacantAreFound == Spec => []VacantFound
  <1>1. IInv => VacantFound
    <2> SUFFICES ASSUME IInv, NEW p \in Procs, At(p, "pick"), Vacant(run[p]) = {},
                        Len(run[p].list) # CapMax
                 PROVE  Candidates(run[p].call) \subseteq seen[p].ever
      BY DEF VacantFound
    <2>1. Good(run[p]) /\ Listing(run[p], seen[p], Table(p))
      BY Before
    <2>2. Lists(run[p].call)
      BY <2>1 DEF Good, Kind, At
    <2>3. Answered(run[p], seen[p])
      BY <2>1, <2>2 DEF Listing, At
    <2>4. DOMAIN run[p].list = 1..Len(run[p].list)
      BY <2>1 DEF Good, Sorted
    <2>5. Candidates(run[p].call) \subseteq ToSet(run[p].list)
      BY DEF Vacant
    <2> QED
      BY <2>3, <2>4, <2>5 DEF Answered, ToSet
  <1> QED
    BY Invariant, <1>1, PTL

(***************************************************************************)
(* What a tool leaves loaded.  A list of transient handles that was cut    *)
(* off would leave objects behind, so the argument needs that the TPM has  *)
(* no more slots than a list has room for: TPM2_MAX_CAP_HANDLES is 254,    *)
(* and a TPM has room for a handful.                                       *)
(***************************************************************************)
FewSlots == Cardinality(Slots) <= CapMax

Ending(p) == ~At(p, "done") /\ At(p, "done")'

LEMMA CallStays ==
    ASSUME IInv, NEW p \in Procs, tpm2_capability_get(p)
    PROVE  run'[p].call = run[p].call
  <1> DEFINE u == run[p]
             n == CapMax - Len(u.list)
             f == Response(Table(p), u.from, n)
             m == MoreData(Table(p), u.from, n)
             g == APPEND_CAPABILITY_INFORMATION(u.list, f)
             x == IF u.call.tool \notin OnePage /\ AskAgain(g, f, m)
                  THEN "query" ELSE ThenOf(u.call, g)
             from == IF f = <<>> THEN u.from ELSE NextProperty(g)
             s == [u EXCEPT !.list = g, !.more = m, !.pc = x, !.from = from]
  <1>1. IF x = "done" THEN Succeeds(p, s) ELSE GoesOn(p, s)
    BY DEF tpm2_capability_get
  <1>2. Typed /\ u \in Runs
    BY Before
  <1> HIDE DEF f, m, g, n, from, x
  <1>3. s.call = u.call /\ [s EXCEPT !.pc = "done"].call = u.call
    BY <1>2 DEF Runs
  <1> HIDE DEF s
  <1>4. run'[p] \in {s, [s EXCEPT !.pc = "done"]}
    BY <1>1, <1>2 DEF Succeeds, GoesOn, Becomes, Typed
  <1> HIDE DEF u
  <1>5. run'[p].call = u.call
    BY <1>3, <1>4
  <1> QED
    BY <1>5 DEF u

\* flushcontext sees nobody else's steps: its list has every object.
LEMMA WholeList ==
    ASSUME IInv, FewSlots, NEW p \in Procs, tpm2_capability_get(p), Kept(p),
           run[p].call.tool = "flushcontext", run'[p].pc \in {"done", "each"}
    PROVE  /\ trans[Space(p)] \subseteq ToSet(run'[p].list)
           /\ run'[p].worked = 0 /\ run'[p].call = run[p].call
           /\ run'[p].pc = "done" => run'[p].list = <<>> /\ Disconnect(p)
           /\ run'[p].pc = "each" => trans' = trans
           /\ run'[p].list \in Seq(Nat)
  <1> DEFINE u == run[p]
             v == run'[p]
             t == trans[Space(p)]
  <1>1. /\ Typed /\ u \in Runs /\ Good(u) /\ u.pc = "query"
        /\ Asking(u, seen[p], Table(p)) /\ Witness
    BY Before DEF tpm2_capability_get, At, Listing
  <1>2. u.call \in Tools \ DigestTools /\ Lists(u.call) /\ u.worked = 0
    BY <1>1 DEF Good, Kind
  <1>3. Table(p) = t
    <2>1. u.call.table = "transient"
      BY <1>2, ToolFacts
    <2> QED
      BY <2>1 DEF Table, TableOf
  <1>4. seen[p].always = t /\ seen[p].ever = t
    BY <1>1, <1>3 DEF Asking
  <1>5. PICK r : Moves(p, r)
    BY DEF Kept
  <1>6. v = r /\ seen'[p] = seen[p]
    <2>1. v = r
      BY <1>1, <1>5 DEF Moves, Typed
    <2> QED
      BY <1>1, <1>5, <2>1, SeenStays
  <1>7. /\ v.call = u.call /\ v.worked = 0
        /\ v.pc = "done" => v.list = <<>> /\ Disconnect(p)
        /\ v.pc = "each" => trans' = trans
    <2>1. PICK list, more, next, from :
              /\ IF next = "done" THEN Succeeds(p, [u EXCEPT !.list = list, !.more = more,
                                                       !.pc = next, !.from = from])
                 ELSE GoesOn(p, [u EXCEPT !.list = list, !.more = more,
                                          !.pc = next, !.from = from])
              /\ next = "done" => list = <<>>
      <3> DEFINE n == CapMax - Len(u.list)
                 f == Response(Table(p), u.from, n)
                 m == MoreData(Table(p), u.from, n)
                 g == APPEND_CAPABILITY_INFORMATION(u.list, f)
                 x == IF u.call.tool \notin OnePage /\ AskAgain(g, f, m)
                      THEN "query" ELSE ThenOf(u.call, g)
                 from == IF f = <<>> THEN u.from ELSE NextProperty(g)
                 s == [u EXCEPT !.list = g, !.more = m, !.pc = x, !.from = from]
      <3>1. IF x = "done" THEN Succeeds(p, s) ELSE GoesOn(p, s)
        BY DEF tpm2_capability_get
      <3> HIDE DEF f, m, g, n, from
      <3>2. x = "done" => g = <<>>
        BY DEF ThenOf
      <3> HIDE DEF x
      <3> QED
        BY <3>1, <3>2
    <2> DEFINE s == [u EXCEPT !.list = list, !.more = more, !.pc = next, !.from = from]
    <2>2. /\ s.call = u.call /\ s.worked = 0 /\ s.pc = next /\ s.list = list
          /\ [s EXCEPT !.pc = "done"].call = u.call
          /\ [s EXCEPT !.pc = "done"].worked = 0
          /\ [s EXCEPT !.pc = "done"].list = list
          /\ [s EXCEPT !.pc = "done"].pc = "done"
      BY <1>1, <1>2 DEF Runs
    <2> HIDE DEF s, u
    <2>3. CASE next = "done"
      <3>1. Succeeds(p, s) /\ list = <<>>
        BY <2>1, <2>3 DEF s
      <3>2. v = [s EXCEPT !.pc = "done"]
        BY <1>1, <3>1 DEF Succeeds, Becomes, Typed
      <3> QED
        BY <2>2, <3>1, <3>2 DEF Succeeds
    <2>4. CASE next # "done"
      <3>1. GoesOn(p, s)
        BY <2>1, <2>4 DEF s
      <3>2. v = s
        BY <1>1, <3>1 DEF GoesOn, Becomes, Typed
      <3> QED
        BY <2>2, <2>4, <3>1, <3>2 DEF GoesOn
    <2> QED
      BY <2>3, <2>4
  <1>8. IInv'
    BY DEF Kept
  <1>9. Sorted(v.list) /\ Answered(v, seen'[p])
    <2>1. Sane(p)'
      BY <1>8 DEF IInv
    <2>2. Listing(v, seen'[p], Table(p)') /\ Sorted(v.list)
      BY <2>1 DEF Sane
    <2> HIDE DEF v
    <2> QED
      BY <1>2, <1>7, <2>2 DEF Listing, v
  <1> HIDE DEF u, v
  <1>10. /\ v.list \in Seq(Nat) /\ Len(v.list) \in Nat
         /\ ToSet(v.list) \subseteq t
    <2>1. v.list \in Seq(Nat) /\ Len(v.list) \in Nat /\ DOMAIN v.list = 1..Len(v.list)
      BY <1>9 DEF Sorted
    <2> QED
      BY <1>4, <1>6, <1>9, <2>1 DEF Answered, ToSet
  <1>11. t \subseteq Slots /\ IsFiniteSet(Slots)
    <2>1. IsFiniteSet(Slots)
      BY RangesAssumption
    <2> QED
      BY <1>1, <2>1 DEF Typed, Space
  <1>12. CASE Len(v.list) = CapMax
    <2>1. ToSet(v.list) \subseteq Slots
      BY <1>10, <1>11
    <2>2. /\ Cardinality(ToSet(v.list)) <= Cardinality(Slots)
          /\ Cardinality(ToSet(v.list)) = Cardinality(Slots) => ToSet(v.list) = Slots
          /\ Cardinality(ToSet(v.list)) \in Nat /\ Cardinality(Slots) \in Nat
      BY <1>11, <2>1, FS_Subset, FS_CardinalityType
    <2>3. Cardinality(ToSet(v.list)) = CapMax
      BY <1>9, <1>12, SortedCounts
    <2>4. ToSet(v.list) = Slots
      BY <2>2, <2>3, CountsAssumption DEF FewSlots
    <2> QED
      BY <1>7, <1>10, <1>11, <2>4 DEF v, u
  <1>13. CASE Len(v.list) # CapMax
    <2>1. v.call.tool \notin OnePage
      BY <1>7 DEF OnePage, u
    <2>2. seen'[p].always \subseteq ToSet(v.list)
      BY <1>9, <1>13, <2>1 DEF Answered
    <2> QED
      BY <1>4, <1>6, <1>7, <1>10, <2>2 DEF v, u
  <1> QED
    BY <1>12, <1>13

\* Objects that a tool does not load it need not flush.
LEMMA NotLoaded ==
    ASSUME Typed', NEW p \in Procs, run[p].object = None
    PROVE  run[p].object \notin trans'[Space(p)]
  <1>1. Space(p) \in Procs \cup {Device}
    BY DEF Space
  <1>2. trans'[Space(p)] \subseteq Slots
    BY <1>1 DEF Typed
  <1>3. None \notin Slots
    BY RangesAssumption DEF None
  <1> QED
    BY <1>2, <1>3

Act(p) ==
    \/ StartDigest(p) \/ StartOnTable(p) \/ Digest(p)
    \/ WorkOnTable(p) \/ Stop(p) \/ ChangeFile(p)

\* Which actions end a run, and which leave it with a list to work off.
LEMMA Onward ==
    ASSUME IInv, NEW p \in Procs, Act(p)
    PROVE  /\ At(p, "each")' => tpm2_capability_get(p) \/ Each(p)
           /\ Ending(p) => \/ OneShot(p) \/ CompleteSequence(p) \/ tpm2_capability_get(p)
                           \/ SaveCreated(p) \/ Take(p) \/ FlushCreated(p) \/ Drop(p) \/ Each(p)
  <1>1. Typed /\ run[p] \in Runs /\ Good(run[p])
    BY Before
  <1>2. \A r : Becomes(p, r) => run'[p] = r
    BY <1>1 DEF Becomes, Typed
  <1>3. Fails(p) => ~At(p, "each")' /\ ~Ending(p)
    <2>1. [Idle EXCEPT !.pc = "failed"].pc = "failed"
      BY DEF Idle
    <2> QED
      BY <1>2, <2>1 DEF Fails, At, Ending
  <1>4. ASSUME NEW r \in Runs, NEW place, Becomes(p, [r EXCEPT !.pc = place])
        PROVE  run'[p].pc = place
    <2>1. [r EXCEPT !.pc = place].pc = place
      BY DEF Runs
    <2> QED
      BY <1>2, <1>4, <2>1
  <1>5. CASE StartDigest(p)
    <2>1. PICK c, n, fifo :
              Becomes(p, [Idle EXCEPT !.call = c, !.pc = "stat", !.size = n, !.fifo = fifo])
      BY <1>5 DEF StartDigest
    <2>2. run'[p].pc = "stat"
      BY <1>2, <2>1 DEF Idle
    <2> QED
      BY <2>2 DEF At, Ending
  <1>6. CASE StartOnTable(p)
    <2>1. PICK c \in Tools \ DigestTools :
              Becomes(p, [Idle EXCEPT !.call = c, !.pc = First(c), !.chosen = c.given])
      BY <1>6 DEF StartOnTable
    <2>2. run'[p].pc = First(c)
      BY <1>2, <2>1 DEF Idle
    <2>3. First(c) \in {"create", "query", "drop"}
      BY DEF First
    <2> QED
      BY <2>2, <2>3 DEF At, Ending
  <1>7. CASE Stop(p)
    BY <1>3, <1>7 DEF Stop
  <1>8. CASE ChangeFile(p)
    <2>1. PICK n, m : Becomes(p, [run[p] EXCEPT !.size = n, !.changed = m])
      BY <1>8 DEF ChangeFile
    <2>2. run'[p].pc = run[p].pc
      BY <1>1, <1>2, <2>1 DEF Runs
    <2>3. run[p].pc # "each"
      BY <1>1, <1>8 DEF ChangeFile, Good, Kind
    <2> QED
      BY <2>2, <2>3 DEF At, Ending
  <1>9. CASE files_get_file_size(p)
    <2>1. CASE Fails(p)
      BY <1>3, <2>1
    <2>2. CASE ~Fails(p)
      <3>1. PICK place \in {"oneshot", "start"} : \E n :
                Becomes(p, [[run[p] EXCEPT !.at = n, !.left = n] EXCEPT !.pc = place])
        BY <1>9, <2>2 DEF files_get_file_size, GoesOn
      <3>2. run'[p].pc = place
        BY <1>1, <1>2, <3>1 DEF Runs
      <3> QED
        BY <3>2 DEF At, Ending
    <2> QED
      BY <2>1, <2>2
  <1>10. ASSUME NEW next \in {"loop", "save", "take"}, Loads(p, next)
         PROVE  ~At(p, "each")' /\ ~Ending(p)
    <2>1. CASE Fails(p)
      BY <1>3, <2>1
    <2>2. CASE ~Fails(p)
      <3>1. PICK s : Becomes(p, [run[p] EXCEPT !.object = s, !.pc = next])
        BY <1>10, <2>2 DEF Loads
      <3>2. run'[p].pc = next
        BY <1>1, <1>2, <3>1 DEF Runs
      <3> QED
        BY <3>2 DEF At, Ending
    <2> QED
      BY <2>1, <2>2
  <1>11. CASE UpdateSequence(p)
    <2> DEFINE k == Available(run[p], Block)
               left == IF run[p].fifo THEN run[p].left ELSE LeftAfter(run[p], k)
               r == [run[p] EXCEPT !.pos = @ + k, !.fed = @ + k, !.eof = k < Block, !.left = left]
               place == IF LoopEnds(r) THEN "last" ELSE "loop"
    <2>1. Becomes(p, [r EXCEPT !.pc = place])
      BY <1>11 DEF UpdateSequence, GoesOn
    <2>2. place \in {"last", "loop"}
      OBVIOUS
    <2> HIDE DEF k, left, place
    <2>3. run'[p].pc = place
      BY <1>1, <1>2, <2>1 DEF Runs
    <2> QED
      BY <2>2, <2>3 DEF At, Ending
  <1>12. CASE find_vacant(p)
    <2>1. CASE Fails(p)
      BY <1>3, <2>1
    <2>2. CASE ~Fails(p)
      <3> DEFINE h == Min(Vacant(run[p]))
                 place == IF run[p].call.tool = "createek" THEN "create" ELSE "take"
      <3>1. Becomes(p, [run[p] EXCEPT !.chosen = h, !.pc = place])
        BY <1>12, <2>2 DEF find_vacant, GoesOn
      <3> HIDE DEF h
      <3>2. run'[p].pc = place
        BY <1>1, <1>2, <3>1 DEF Runs
      <3> QED
        BY <3>2 DEF At, Ending
    <2> QED
      BY <2>1, <2>2
  <1>13. CASE OneShot(p)
    <2>1. CASE Fails(p)
      BY <1>3, <2>1
    <2>2. CASE ~Fails(p)
      <3> DEFINE n == Available(run[p], run[p].left)
                 m == IF run[p].call.cphash THEN 0 ELSE n
      <3>1. Becomes(p, [[run[p] EXCEPT !.pos = n, !.fed = m] EXCEPT !.pc = "done"])
        BY <1>13, <2>2 DEF OneShot, Succeeds
      <3> HIDE DEF n, m
      <3>2. run'[p].pc = "done"
        BY <1>1, <1>2, <3>1 DEF Runs
      <3> QED
        BY <1>13, <3>2 DEF At
    <2> QED
      BY <2>1, <2>2
  <1>14. CASE CompleteSequence(p)
    <2>1. CASE Fails(p)
      BY <1>3, <2>1
    <2>2. CASE ~Fails(p)
      <3> DEFINE want == IF run[p].fifo THEN 0 ELSE run[p].left
                 n == Available(run[p], want)
      <3>1. Becomes(p, [run[p] EXCEPT !.pos = @ + n, !.fed = @ + n, !.pc = "done"])
        BY <1>14, <2>2 DEF CompleteSequence
      <3> HIDE DEF n
      <3>2. run'[p].pc = "done"
        BY <1>1, <1>2, <3>1 DEF Runs
      <3> QED
        BY <1>14, <3>2 DEF At
    <2> QED
      BY <2>1, <2>2
  <1>15. CASE FlushCreated(p)
    <2>1. run'[p].pc = "done"
      BY <1>1, <1>4, <1>15 DEF FlushCreated
    <2> QED
      BY <1>15, <2>1 DEF At
  <1>18. CASE SaveCreated(p)
    <2>1. Becomes(p, [run[p] EXCEPT !.pc = "done"])
      BY <1>18 DEF SaveCreated, Succeeds
    <2>2. run'[p].pc = "done"
      BY <1>1, <1>2, <2>1 DEF Runs
    <2> QED
      BY <1>18, <2>2 DEF At
  <1>19. CASE CreatePrimary(p)
    BY <1>10, <1>19 DEF CreatePrimary
  <1>16. CASE Take(p)
    <2>1. CASE Fails(p)
      BY <1>3, <2>1
    <2>2. CASE ~Fails(p)
      <3>1. PICK place \in {"flush", "done"} : Becomes(p, [run[p] EXCEPT !.pc = place])
        BY <1>16, <2>2 DEF Take, GoesOn, Succeeds
      <3>2. run'[p].pc = place
        BY <1>1, <1>2, <3>1 DEF Runs
      <3> QED
        BY <1>16, <3>2 DEF At
    <2> QED
      BY <2>1, <2>2
  <1>17. CASE Drop(p)
    <2>1. CASE Fails(p)
      BY <1>3, <2>1
    <2>2. CASE ~Fails(p)
      <3>1. Becomes(p, [run[p] EXCEPT !.pc = "done"])
        BY <1>17, <2>2 DEF Drop, Succeeds
      <3>2. run'[p].pc = "done"
        BY <1>1, <1>2, <3>1 DEF Runs
      <3> QED
        BY <1>17, <3>2 DEF At
    <2> QED
      BY <2>1, <2>2
  <1> QED
    BY <1>5, <1>6, <1>7, <1>8, <1>9, <1>10, <1>11, <1>12, <1>13, <1>14, <1>15, <1>16, <1>17,
       <1>18, <1>19
       DEF Act, Digest, WorkOnTable, StartSequence

(***************************************************************************)
(* The rest of the list of flushcontext has every object that is left.     *)
(***************************************************************************)
LEMMA FlushingKept ==
    ASSUME IInv, FewSlots, NEW p \in Procs, Act(p), Kept(p), NEW q \in Procs, Flushing(q)
    PROVE  Flushing(q)'
  <1> SUFFICES ASSUME At(q, "each")', run'[q].call.tool = "flushcontext"
               PROVE  trans'[Space(q)] \subseteq
                          {run'[q].list[i] : i \in (run'[q].worked + 1)..Len(run'[q].list)}
    <2>1. Space(q)' = Space(q)
      BY DEF Kept, Moves, Space
    <2> QED
      BY <2>1 DEF Flushing
  <1>1. PICK r : Moves(p, r)
    BY DEF Kept
  <1>2. Typed /\ OneAtATime /\ run[q] \in Runs /\ Good(run[q])
    BY Before DEF IInv
  <1>3. CASE q # p
    <2>1. run'[q] = run[q]
      BY <1>1, <1>2, <1>3 DEF Moves, Typed
    <2>2. Running(q)
      BY <2>1 DEF At, Running
    <2>3. trans'[Space(q)] = trans[Space(q)]
      <3>1. Space(q) \in Procs \cup {Device} /\ p # Device /\ q # Device
        BY CountsAssumption DEF Space
      <3>2. CASE Space(q) # Space(p)
        BY <1>1, <3>1, <3>2 DEF Moves
      <3>3. CASE Space(q) = Space(p)
        <4>1. ~managed
          BY <1>3, <3>3 DEF Space
        <4>2. ~Running(p)
          BY <1>2, <1>3, <2>2, <4>1 DEF OneAtATime
        <4> QED
          BY <1>1, <2>2, <4>1, <4>2 DEF Moves
      <3> QED
        BY <3>2, <3>3
    <2> QED
      BY <2>1, <2>3 DEF Flushing, At
  <1>4. CASE q = p /\ tpm2_capability_get(p)
    <2>1. /\ trans[Space(p)] \subseteq ToSet(run'[p].list) /\ run'[p].worked = 0
          /\ trans' = trans /\ run'[p].list \in Seq(Nat)
      <3>1. run[p].call.tool = "flushcontext" /\ run'[p].pc = "each"
        <4>1. run'[p].call = run[p].call
          BY <1>4, CallStays
        <4> QED
          BY <1>4, <4>1 DEF At
      <3> QED
        BY <1>4, <3>1, WholeList
    <2>2. DOMAIN run'[p].list = 1..Len(run'[p].list)
      BY <2>1
    <2> QED
      BY <1>4, <2>1, <2>2 DEF ToSet
  <1>5. CASE q = p /\ Each(p)
    <2> DEFINE i == run[p].worked + 1
    <2>1. ~Fails(p)
      <3>1. [Idle EXCEPT !.pc = "failed"].pc = "failed"
        BY DEF Idle
      <3> QED
        BY <1>2, <1>5, <3>1 DEF Fails, Becomes, At, Typed
    <2>2. PICK place : Becomes(p, [run[p] EXCEPT !.worked = i, !.pc = place])
      BY <1>5, <2>1 DEF Each
    <2>3. /\ run'[p].list = run[p].list /\ run'[p].worked = i /\ run'[p].call = run[p].call
      BY <1>2, <1>5, <2>2 DEF Becomes, Typed, Runs
    <2>4. trans' = [trans EXCEPT ![Space(p)] = trans[Space(p)] \ {run[p].list[i]}]
      BY <1>5, <2>1, <2>3 DEF Each
    <2>5. trans'[Space(p)] = trans[Space(p)] \ {run[p].list[i]}
      BY <1>2, <2>4 DEF Typed, Space
    <2>6. trans[Space(p)] \subseteq {run[p].list[j] : j \in i..Len(run[p].list)}
      BY <1>5, <2>3 DEF Flushing, At, Each
    <2>7. run[p].worked \in Nat /\ Len(run[p].list) \in Nat
      BY <1>2, <1>5 DEF Runs
    <2>8. \A j \in i..Len(run[p].list) : j = i \/ j \in (i + 1)..Len(run[p].list)
      BY <2>7
    <2> HIDE DEF i
    <2>9. ASSUME NEW x \in trans'[Space(p)]
          PROVE  x \in {run[p].list[j] : j \in (i + 1)..Len(run[p].list)}
      <3>1. PICK j \in i..Len(run[p].list) : x = run[p].list[j]
        BY <2>5, <2>6
      <3>2. j # i
        BY <2>5, <3>1
      <3> QED
        BY <2>8, <3>1, <3>2
    <2> QED
      BY <1>5, <2>3, <2>9
  <1> QED
    BY <1>3, <1>4, <1>5, Onward

\* A run that is ended by its tool leaves loaded of its own only the key whose
\* context it saved.
LEMMA EndsClean ==
    ASSUME IInv, FewSlots, NEW p \in Procs, Act(p), Kept(p), Flushing(p), Ending(p)
    PROVE  /\ run[p].object \notin trans'[Space(p)] \/ KeepsKey(run[p].call)
           /\ run[p].call.tool = "flushcontext" => trans'[Space(p)] = {}
  <1> DEFINE u == run[p]
  <1>1. Typed /\ u \in Runs /\ Good(u) /\ Typed'
    BY Before DEF Kept, IInv
  <1>2. ~Fails(p)
    <2>1. [Idle EXCEPT !.pc = "failed"].pc = "failed"
      BY DEF Idle
    <2> QED
      BY <1>1, <2>1 DEF Fails, Becomes, Ending, At, Typed
  <1>3. Space(p) \in Procs \cup {Device} /\ trans \in [Procs \cup {Device} -> SUBSET Slots]
    BY <1>1 DEF Space, Typed
  <1>4. u.pc \notin {"loop", "last", "save", "take", "flush", "done"} => u.object \notin trans'[Space(p)]
    BY <1>1, NotLoaded DEF Good, Kind
  <1>5. CASE OneShot(p)
    <2>1. u.pc = "oneshot" /\ u.call.tool \in {"hash", "pcrevent", "hmac"}
      BY <1>1, <1>5, ToolFacts, NoTool DEF OneShot, At, Good, Kind
    <2> QED
      BY <1>4, <2>1
  <1>6. CASE CompleteSequence(p)
    <2>1. u.pc = "last" /\ u.call.tool \in {"hash", "pcrevent", "hmac"}
      BY <1>1, <1>6, ToolFacts, NoTool DEF CompleteSequence, At, Good, Kind
    <2>2. Unloads(p, u.object)
      BY <1>2, <1>6 DEF CompleteSequence
    <2> HIDE DEF u
    <2>3. trans'[Space(p)] = trans[Space(p)] \ {u.object}
      BY <1>3, <2>2 DEF Unloads
    <2> QED
      BY <2>1, <2>3 DEF u
  <1>7. CASE FlushCreated(p)
    <2>1. u.call.tool = "createek" /\ Unloads(p, u.object)
      BY <1>1, <1>7 DEF FlushCreated, At, Good, Kind
    <2> HIDE DEF u
    <2>2. trans'[Space(p)] = trans[Space(p)] \ {u.object}
      BY <1>3, <2>1 DEF Unloads
    <2> QED
      BY <2>1, <2>2 DEF u
  <1>8. CASE Take(p)
    <2>1. u.pc = "take" /\ u.call.tool \in {"createek", "evictcontrol", "nvdefine"}
      BY <1>1, <1>8 DEF Take, At, Good, Kind
    <2>2. u.call.tool # "createek"
      <3> SUFFICES ASSUME u.call.tool = "createek" PROVE FALSE
        OBVIOUS
      <3>1. Becomes(p, [u EXCEPT !.pc = "flush"])
        BY <1>2, <1>8 DEF Take, GoesOn
      <3>2. run'[p].pc = "flush"
        BY <1>1, <3>1 DEF Becomes, Typed, Runs
      <3> QED
        BY <3>2 DEF Ending, At
    <2>3. u.object = None
      BY <1>1, <2>1, <2>2 DEF Good, Kind
    <2> QED
      BY <1>1, <2>1, <2>3, NotLoaded
  <1>9. CASE Drop(p)
    <2>1. u.pc = "drop" /\ First(u.call) = "drop"
      BY <1>1, <1>9 DEF Drop, At, Good, Kind
    <2>2. u.call.tool # "flushcontext"
      BY <2>1 DEF First
    <2> QED
      BY <1>4, <2>1, <2>2
  <1>10. CASE tpm2_capability_get(p)
    <2>1. u.pc = "query" /\ run'[p].pc = "done"
      BY <1>10 DEF tpm2_capability_get, At, Ending
    <2>2. u.call.tool = "flushcontext" => trans'[Space(p)] = {}
      <3> SUFFICES ASSUME u.call.tool = "flushcontext" PROVE trans'[Space(p)] = {}
        OBVIOUS
      <3>1. /\ trans[Space(p)] \subseteq ToSet(run'[p].list)
            /\ run'[p].list = <<>> /\ Disconnect(p)
        BY <1>10, <2>1, WholeList
      <3>2. trans[Space(p)] = {}
        <4>1. ToSet(<<>>) = {}
          BY DEF ToSet
        <4> QED
          BY <3>1, <4>1
      <3>3. trans' = trans \/ trans' = [trans EXCEPT ![Space(p)] = {}]
        BY <3>1, Disconnects
      <3> QED
        BY <1>3, <3>2, <3>3
    <2> QED
      BY <1>4, <2>1, <2>2
  <1>11. CASE Each(p)
    <2>1. u.pc = "each"
      BY <1>11 DEF Each, At
    <2>2. u.call.tool = "flushcontext" => trans'[Space(p)] = {}
      <3> SUFFICES ASSUME u.call.tool = "flushcontext" PROVE trans'[Space(p)] = {}
        OBVIOUS
      <3> DEFINE i == u.worked + 1
                 next == IF i = Len(u.list) THEN "done" ELSE "each"
      <3>1. /\ Becomes(p, [u EXCEPT !.worked = i, !.pc = next])
            /\ trans' = [trans EXCEPT ![Space(p)] = trans[Space(p)] \ {u.list[i]}]
        BY <1>2, <1>11 DEF Each
      <3>2. run'[p].pc = next
        <4> HIDE DEF i, next
        <4> QED
          BY <1>1, <3>1 DEF Becomes, Typed, Runs
      <3>3. i = Len(u.list)
        BY <3>2 DEF Ending, At
      <3>4. trans[Space(p)] \subseteq {u.list[j] : j \in i..Len(u.list)}
        BY <2>1 DEF Flushing, At
      <3>5. trans[Space(p)] \subseteq {u.list[i]}
        <4>1. i \in Nat
          BY <1>1 DEF Runs
        <4>2. \A j \in i..Len(u.list) : j = i
          BY <3>3, <4>1
        <4> HIDE DEF i
        <4> QED
          BY <3>4, <4>2
      <3> HIDE DEF i, u
      <3>6. trans'[Space(p)] = trans[Space(p)] \ {u.list[i]}
        BY <1>3, <3>1
      <3> QED
        BY <3>5, <3>6
    <2> QED
      BY <1>4, <2>1, <2>2
  <1>12. CASE SaveCreated(p)
    <2>1. KeepsKey(u.call)
      BY <1>1, <1>12 DEF SaveCreated, At, Good, Kind
    <2>2. u.call.tool # "flushcontext"
      BY <2>1 DEF KeepsKey
    <2> QED
      BY <2>1, <2>2
  <1> QED
    BY <1>5, <1>6, <1>7, <1>8, <1>9, <1>10, <1>11, <1>12, Onward

LEMMA FlushingStarts == Init => \A p \in Procs : Flushing(p)
  <1>1. Idle.pc = "idle"
    BY DEF Idle
  <1> QED
    BY <1>1 DEF Init, Flushing, At

LEMMA FlushingStays ==
    ASSUME FewSlots, IInv, \A p \in Procs : Flushing(p), [Next]_vars
    PROVE  /\ (\A p \in Procs : Flushing(p))'
           /\ \A p \in Procs : Ending(p) =>
                  /\ run[p].object \notin trans'[Space(p)] \/ KeepsKey(run[p].call)
                  /\ run[p].call.tool = "flushcontext" => trans'[Space(p)] = {}
  <1>1. CASE UNCHANGED vars
    <2>1. UNCHANGED <<managed, run, seen, trans, handles, indices>>
      BY <1>1 DEF vars
    <2> QED
      BY <2>1 DEF Flushing, Ending, At, Space
  <1>2. CASE Next
    <2>1. PICK q \in Procs : Act(q)
      BY <1>2 DEF Next, Act
    <2>2. Kept(q)
      BY <2>1, NextKeeps DEF Act
    <2>3. \A p \in Procs : Flushing(p)'
      BY <2>1, <2>2, FlushingKept
    <2>4. ASSUME NEW p \in Procs, Ending(p)
          PROVE  /\ run[p].object \notin trans'[Space(p)] \/ KeepsKey(run[p].call)
                 /\ run[p].call.tool = "flushcontext" => trans'[Space(p)] = {}
      <3>1. CASE p = q
        BY <2>1, <2>2, <2>4, <3>1, EndsClean
      <3>2. CASE p # q
        <4>1. run'[p] = run[p]
          BY <2>2, <3>2, Before DEF Kept, Moves, Typed
        <4> QED
          BY <2>4, <4>1 DEF Ending, At
      <3> QED
        BY <3>1, <3>2
    <2> QED
      BY <2>3, <2>4
  <1> QED
    BY <1>1, <1>2

(***************************************************************************)
(* tpm2_hash, tpm2_createek and the others that load an object for their   *)
(* own use have flushed it when they end well, but for the key whose       *)
(* context tpm2_createek saves to a file, and tpm2_flushcontext has        *)
(* flushed every object of its connection.                                 *)
(***************************************************************************)
THEOREM NothingIsLeft ==
    ASSUME FewSlots
    PROVE  Spec => LeavesNothing
  <1> DEFINE F == \A p \in Procs : Flushing(p)
             A == \A p \in Procs :
                      ~At(p, "done") /\ At(p, "done")' =>
                          /\ \/ run[p].object \notin trans'[Space(p)]
                             \/ KeepsKey(run[p].call)
                          /\ run[p].call.tool = "flushcontext" => trans'[Space(p)] = {}
  <1>1. Init => F
    BY FlushingStarts
  <1>2. IInv /\ F /\ [Next]_vars => F' /\ A
    BY FlushingStays DEF Ending
  <1>3. LeavesNothing <=> [][A]_vars
    BY DEF LeavesNothing
  <1> HIDE DEF F, A
  <1> QED
    BY <1>1, <1>2, <1>3, Invariant, PTL DEF Spec
=============================================================================
