------------------------------ MODULE TpmObjects ------------------------------
(***************************************************************************)
(* What the tools do to the objects that live in the TPM between two       *)
(* commands: the sequence objects that tpm2_hash, tpm2_hmac and            *)
(* tpm2_pcrevent feed with a file too long for one command, and the tables *)
(* of persistent handles, NV indices and transient handles, which other    *)
(* tools page through to list them, to flush them or to find a free one.   *)
(*                                                                         *)
(* A process is one run of a tool.  With a resource manager every          *)
(* connection has its transient objects to itself and loses them when it   *)
(* ends, and tools interleave.  Without one the device is opened by one    *)
(* tool at a time, and what a tool leaves loaded stays.                    *)
(***************************************************************************)
EXTENDS Integers, Sequences, SequencesExt, FiniteSetsExt, Ordered

CONSTANTS
    Procs,       \* runs of tools
    Menu,        \* the tools that a run may be of
    Device,      \* the transient objects of a TPM without a resource manager
    Block,       \* TPM2_MAX_DIGEST_BUFFER
    Sizes,       \* lengths of the input files
    Word,        \* 2^64: the size_t that counts what is left wraps here
    Slots,       \* transient handles: the objects the TPM has room for
    Persistent,  \* persistent handles, in order
    Platform,    \* the first of them that belongs to the platform
    Indices,     \* NV indices, in order
    IndexMax,    \* the first index the lookup of tpm2_nvdefine no longer tries
    InUse,       \* the handles that may be in use at the start
    Page,        \* handles in one response of the TPM
    CapMax       \* TPM2_MAX_CAP_HANDLES

(* The counts of the code are positive, and a response holds no more than *)
(* the list that the tools build of responses.                            *)
ASSUME CountsAssumption ==
    /\ Block \in Nat \ {0} /\ Page \in Nat \ {0} /\ CapMax \in Nat
    /\ Page <= CapMax
    /\ Device \notin Procs
    /\ Menu \in [Procs -> SUBSET STRING]

(* Handles are numbers, of which there are finitely many.  A size_t holds  *)
(* any two files and a block: an off_t ends at 2^63, and no file system    *)
(* has files that long.                                                    *)
ASSUME RangesAssumption ==
    /\ \A table \in {Slots, Persistent, Indices} :
           table \subseteq Nat /\ IsFiniteSet(table)
    /\ Platform \in Nat /\ IndexMax \in Nat
    /\ Sizes \subseteq Nat /\ Word \in Nat \ {0}
    /\ \A m, n \in Sizes : m + n + Block < Word

VARIABLES
    managed,  \* TRUE: a resource manager serves the connections
    run,      \* a run's tool and options, place, reading and listing
    seen,     \* what was in the table while it was listed (history)
    trans,    \* transient objects of each connection, or of the device
    handles,  \* persistent handles in use
    indices   \* NV indices in use

vars == <<managed, run, seen, trans, handles, indices>>

None == -1

(***************************************************************************)
(* The tools.  "given" is a handle of the command line, and "table" where  *)
(* the tool lists handles or leaves what it makes.                         *)
(***************************************************************************)
Tool(name, table) ==
    [tool |-> name, table |-> table, ticket |-> FALSE, cphash |-> FALSE,
     platform |-> FALSE, given |-> None]

hash == {Tool("hash", "transient")}

pcrevent == {Tool("pcrevent", "transient")}

hmac ==
    {[Tool("hmac", "transient") EXCEPT !.ticket = "ticket" \in options,
                                       !.cphash = "cphash" \in options] :
        options \in SUBSET {"ticket", "cphash"}}

getcap == {Tool("getcap", t) : t \in {"transient", "persistent", "nv"}}

flushcontext == {Tool("flushcontext", "transient")}

(* The key is made persistent at a handle that is looked up or given, one of *)
(* the owner's for the TPM to accept it, or stays loaded with its context in  *)
(* a file.                                                                    *)
createek ==
    {Tool("createek", "persistent"), Tool("createek", "transient")} \cup
        {[Tool("createek", "persistent") EXCEPT !.given = h] :
            h \in {k \in Persistent : k < Platform}}

evictcontrol ==
    {[Tool("evictcontrol", "persistent") EXCEPT !.platform = b] : b \in BOOLEAN}

evictcontrol_evicting ==
    {[Tool("evict", "persistent") EXCEPT !.given = h] : h \in Persistent}

nvdefine == {Tool("nvdefine", "nv")}

nvundefine == {[Tool("nvundefine", "nv") EXCEPT !.given = h] : h \in Indices}

nvreadpublic == {Tool("nvreadpublic", "nv")}

DigestTools == hash \cup pcrevent \cup hmac

Tools ==
    DigestTools \cup getcap \cup flushcontext \cup createek \cup evictcontrol
        \cup evictcontrol_evicting \cup nvdefine \cup nvundefine \cup nvreadpublic

(* The key is to stay loaded, with its context in a file.                    *)
KeepsKey(c) == c.tool = "createek" /\ c.table = "transient"

(* Where a tool that works on a table begins: with a listing of the table,   *)
(* unless it is told the handle or needs none.                               *)
First(c) ==
    CASE c.tool = "createek" /\ (c.given # None \/ KeepsKey(c)) -> "create"
      [] c.tool \in {"evict", "nvundefine"} -> "drop"
      [] OTHER -> "query"

Lists(c) == c \in Tools \ DigestTools /\ First(c) = "query"

(* The listings that stop at the first response, whatever its moreData says. *)
OnePage == {"nvdefine", "nvreadpublic"}

(* A run that has not begun: its tool, where it is, its input (how much can    *)
(* be read, whether it is a pipe, and the size the tool was told), how far it *)
(* read and fed the TPM, the object it loaded, and the handles it listed,     *)
(* worked off and chose.                                                      *)
Idle ==
    [call |-> Tool("none", "none"), pc |-> "idle",
     size |-> 0, fifo |-> FALSE, at |-> 0, changed |-> 0,
     left |-> 0, pos |-> 0, fed |-> 0, eof |-> FALSE, object |-> None,
     list |-> <<>>, more |-> FALSE, from |-> 0, worked |-> 0, chosen |-> None]

Calls == Tools \cup {Tool("none", "none")}

Runs ==
    [call: Calls,
     pc: {"idle", "stat", "oneshot", "start", "loop", "last", "query", "pick",
          "create", "save", "take", "flush", "drop", "each", "done", "failed"},
     size: {0} \cup Sizes, fifo: BOOLEAN, at: {0} \cup Sizes, changed: Int,
     left: 0..(Word - 1), pos: Nat, fed: Nat, eof: BOOLEAN, object: Slots \cup {None},
     list: Seq(Nat), more: BOOLEAN, from: Nat, worked: Nat,
     chosen: Persistent \cup Indices \cup {None}]

NothingSeen == [ever |-> {}, always |-> {}]

Running(p) == run[p].pc \notin {"idle", "done", "failed"}

At(p, place) == run[p].pc = place

Space(p) == IF managed THEN p ELSE Device

(* The table that tool c works on, as its connection sees it. *)
TableOf(c, p) ==
    CASE c.table = "transient" -> trans[Space(p)]
      [] c.table = "persistent" -> handles
      [] c.table = "nv" -> indices

Table(p) == TableOf(run[p].call, p)

(***************************************************************************)
(* A run goes on as r, ends well, or ends badly, which leaves nothing but  *)
(* what it did to the TPM.  At its end the resource manager flushes what   *)
(* the connection had loaded.                                              *)
(***************************************************************************)
Becomes(p, r) == run' = [run EXCEPT ![p] = r]

GoesOn(p, r) == Becomes(p, r) /\ trans' = trans

Disconnect(p) ==
    trans' = IF managed THEN [trans EXCEPT ![p] = {}] ELSE trans

Succeeds(p, r) == Becomes(p, [r EXCEPT !.pc = "done"]) /\ Disconnect(p)

Fails(p) == Becomes(p, [Idle EXCEPT !.pc = "failed"]) /\ Disconnect(p)

(* Every change of a table shows in what a listing run may have seen. *)
Witness ==
    seen' = [p \in Procs |->
        CASE At(p, "query") /\ At(p, "query")' ->
                 [ever |-> seen[p].ever \cup Table(p)',
                  always |-> seen[p].always \cap Table(p)']
          [] At(p, "failed")' -> NothingSeen
          [] OTHER -> seen[p]]

(* Without a resource manager the device is open in one tool at a time. *)
MayStart(p, c) ==
    /\ At(p, "idle")
    /\ c.tool \in Menu[p]
    /\ managed \/ \A q \in Procs : ~Running(q)

StartDigest(p) ==
    \E c \in DigestTools, n \in Sizes, fifo \in BOOLEAN :
        /\ MayStart(p, c)
        /\ Becomes(p, [Idle EXCEPT !.call = c, !.pc = "stat",
                                   !.size = n, !.fifo = fifo])
        /\ UNCHANGED <<managed, seen, trans, handles, indices>>

StartOnTable(p) ==
    \E c \in Tools \ DigestTools :
        /\ MayStart(p, c)
        /\ Becomes(p, [Idle EXCEPT !.call = c, !.pc = First(c), !.chosen = c.given])
        /\ seen' = [seen EXCEPT ![p] =
               [ever |-> TableOf(c, p), always |-> TableOf(c, p)]]
        /\ UNCHANGED <<managed, trans, handles, indices>>

(* A command or a read fails, for a reason this model does not look into, or *)
(* the tool is killed.                                                       *)
Stop(p) ==
    /\ Running(p)
    /\ Fails(p)
    /\ UNCHANGED <<managed, handles, indices>>
    /\ Witness

(***************************************************************************)
(* The digest of a file.                                                   *)
(***************************************************************************)

(* Another program writes the file that p reads, or truncates it. *)
ChangeFile(p) ==
    \E n \in Sizes :
        /\ Running(p) /\ run[p].call \in DigestTools /\ ~run[p].fifo
        /\ n # run[p].size /\ run[p].changed = 0
        /\ Becomes(p, [run[p] EXCEPT !.size = n, !.changed = n - run[p].size])
        /\ UNCHANGED <<managed, seen, trans, handles, indices>>

(* What an fread of n bytes gets: the end of the file is sticky. *)
Available(r, n) ==
    IF r.eof \/ r.pos >= r.size THEN 0 ELSE Min({n, r.size - r.pos})

(* One command does for what fits in its buffer, unless a ticket is asked. *)
FitsOneCommand(r) == ~r.fifo /\ r.at <= Block /\ ~r.call.ticket

(* The size a file is said to have counts from its start, and is that of what *)
(* can still be read only if nothing was read of it before.  The files that   *)
(* a kernel makes up are said to have no size or a page.  A pipe has none,    *)
(* and the tool uses none.                                                    *)
Reported(r) ==
    IF r.fifo THEN {r.size}
    ELSE {n \in Sizes : n = r.size \/ n = 0 \/ n > r.size}

files_get_file_size(p) ==
    \E n \in Reported(run[p]) :
        LET r == [run[p] EXCEPT !.at = n, !.left = n]
        IN  /\ At(p, "stat")
            /\ \/ FitsOneCommand(r) /\ GoesOn(p, [r EXCEPT !.pc = "oneshot"])
               \/ ~FitsOneCommand(r) /\ r.call.cphash /\ Fails(p)
               \/ /\ ~FitsOneCommand(r) /\ ~r.call.cphash
                  /\ GoesOn(p, [r EXCEPT !.pc = "start"])
            /\ UNCHANGED <<managed, handles, indices>>
            /\ Witness

OneShot(p) ==
    LET n == Available(run[p], run[p].left)
    IN  /\ At(p, "oneshot")
        /\ \/ n < run[p].left /\ Fails(p)
           \/ /\ n = run[p].left
              /\ Succeeds(p, [run[p] EXCEPT !.pos = n,
                     !.fed = IF run[p].call.cphash THEN 0 ELSE n])
        /\ UNCHANGED <<managed, handles, indices>>
        /\ Witness

(* A command that loads an object takes a free slot, or fails. *)
Loads(p, next) ==
    \/ trans[Space(p)] = Slots /\ Fails(p)
    \/ \E s \in Slots \ trans[Space(p)] :
           /\ trans' = [trans EXCEPT ![Space(p)] = @ \cup {s}]
           /\ Becomes(p, [run[p] EXCEPT !.object = s, !.pc = next])

Unloads(p, s) == trans' = [trans EXCEPT ![Space(p)] = @ \ {s}]

StartSequence(p) ==
    /\ At(p, "start")
    /\ Loads(p, "loop")
    /\ UNCHANGED <<managed, handles, indices>>
    /\ Witness

(* Mutants: the count goes below zero, or is not kept up. *)
LeftAfterSigned(r, n) == r.left - n

LeftAfterForgotten(r, n) == r.left

(* What is left of the file when n bytes more were read, as a size_t. *)
LeftAfter(r, n) == (r.left - n) % Word

(* Mutant: a pipe is taken for done after one block. *)
LoopEndsOnPipe(r) == r.fifo \/ r.left <= Block

(* The loop ends when one block is left or, where the size is not known, *)
(* at the end of the file.                                               *)
LoopEnds(r) == IF r.fifo THEN r.eof ELSE r.left <= Block

UpdateSequence(p) ==
    LET n == Available(run[p], Block)
        r == [run[p] EXCEPT !.pos = @ + n, !.fed = @ + n, !.eof = n < Block,
                  !.left = IF run[p].fifo THEN @ ELSE LeftAfter(run[p], n)]
    IN  /\ At(p, "loop")
        /\ GoesOn(p, [r EXCEPT !.pc = IF LoopEnds(r) THEN "last" ELSE "loop"])
        /\ UNCHANGED <<managed, handles, indices>>
        /\ Witness

(* The last block goes with the command that completes the sequence, which *)
(* frees its object.                                                       *)
CompleteSequence(p) ==
    LET want == IF run[p].fifo THEN 0 ELSE run[p].left
        n    == Available(run[p], want)
    IN  /\ At(p, "last")
        /\ \/ n < want /\ Fails(p)
           \/ /\ n = want
              /\ Becomes(p, [run[p] EXCEPT !.pos = @ + n, !.fed = @ + n,
                                           !.pc = "done"])
              /\ Unloads(p, run[p].object)
        /\ UNCHANGED <<managed, handles, indices>>
        /\ Witness

(***************************************************************************)
(* Listing a table.  The TPM answers with the first handles from a given   *)
(* one on, as many as asked for and as fit in a response, and says whether *)
(* there are more.                                                         *)
(***************************************************************************)
Following(table, h) == {x \in table : x >= h}

Response(table, h, n) ==
    LET answer == Ascending(Following(table, h))
    IN  SubSeq(answer, 1, Min({n, Page, Len(answer)}))

MoreData(table, h, n) ==
    Cardinality(Following(table, h)) > Len(Response(table, h, n))

(* A response is appended as far as there is room. *)
APPEND_CAPABILITY_INFORMATION(list, fetched) ==
    list \o SubSeq(fetched, 1, Min({Len(fetched), CapMax - Len(list)}))

(* The TPM is asked again, from the last handle plus one, while it has more, *)
(* the list has room and something came.                                     *)
AskAgain(list, fetched, more) ==
    more /\ Len(list) < CapMax /\ fetched # <<>>

(* Mutant: the listing goes on one handle too far. *)
NextPropertySkipping(list) == Last(list) + 2

NextProperty(list) == Last(list) + 1

(* What a tool does with its list. *)
ThenOf(c, list) ==
    CASE c.tool = "getcap" -> "done"
      [] c.tool \in {"flushcontext", "nvreadpublic"} ->
             IF list = <<>> THEN "done" ELSE "each"
      [] OTHER -> "pick"

tpm2_capability_get(p) ==
    LET r       == run[p]
        asked   == CapMax - Len(r.list)
        fetched == Response(Table(p), r.from, asked)
        more    == MoreData(Table(p), r.from, asked)
        list    == APPEND_CAPABILITY_INFORMATION(r.list, fetched)
        next    == IF r.call.tool \notin OnePage /\ AskAgain(list, fetched, more)
                       THEN "query" ELSE ThenOf(r.call, list)
        s       == [r EXCEPT !.list = list, !.more = more, !.pc = next,
                        !.from = IF fetched = <<>> THEN @ ELSE NextProperty(list)]
    IN  /\ At(p, "query")
        /\ IF next = "done" THEN Succeeds(p, s) ELSE GoesOn(p, s)
        /\ UNCHANGED <<managed, handles, indices>>
        /\ Witness

(* The handles a tool may choose from. *)
Candidates(c) ==
    CASE c.table = "nv" -> {h \in Indices : h < IndexMax}
      [] c.platform -> {h \in Persistent : h >= Platform}
      [] OTHER -> {h \in Persistent : h < Platform}

(* Mutants: the last handle of the list is not looked at; a list as long as *)
(* one response counts as full.                                             *)
VacantButLast(r) ==
    IF r.call.table = "persistent" /\ Len(r.list) = CapMax THEN {}
    ELSE Candidates(r.call) \ ToSet(SubSeq(r.list, 1, Len(r.list) - 1))

VacantInPage(r) ==
    IF r.call.table = "persistent" /\ Len(r.list) = Page THEN {}
    ELSE Candidates(r.call) \ ToSet(r.list)

(* A full list of persistent handles counts as a table without room. *)
Vacant(r) ==
    IF r.call.table = "persistent" /\ Len(r.list) = CapMax THEN {}
    ELSE Candidates(r.call) \ ToSet(r.list)

find_vacant(p) ==
    LET r == run[p]
    IN  /\ At(p, "pick")
        /\ \/ Vacant(r) = {} /\ Fails(p)
           \/ /\ Vacant(r) # {}
              /\ GoesOn(p, [r EXCEPT !.chosen = Min(Vacant(r)),
                     !.pc = IF r.call.tool = "createek" THEN "create" ELSE "take"])
        /\ UNCHANGED <<managed, handles, indices>>
        /\ Witness

(* tpm2_createek creates the key that it then makes persistent and flushes,  *)
(* or whose context it saves to a file.                                      *)
CreatePrimary(p) ==
    /\ At(p, "create")
    /\ Loads(p, IF KeepsKey(run[p].call) THEN "save" ELSE "take")
    /\ UNCHANGED <<managed, handles, indices>>
    /\ Witness

SaveCreated(p) ==
    /\ At(p, "save")
    /\ Succeeds(p, run[p])
    /\ UNCHANGED <<managed, handles, indices>>
    /\ Witness

(* The TPM refuses a handle that is in use by now. *)
Take(p) ==
    LET r == run[p]
        h == r.chosen
    IN  /\ At(p, "take")
        /\ \/ /\ h \in Table(p)
              /\ Fails(p)
              /\ UNCHANGED <<handles, indices>>
           \/ /\ h \notin Table(p)
              /\ IF r.call.tool = "createek"
                     THEN GoesOn(p, [r EXCEPT !.pc = "flush"])
                     ELSE Succeeds(p, r)
              /\ handles' = IF r.call.table = "nv" THEN handles
                            ELSE handles \cup {h}
              /\ indices' = IF r.call.table = "nv" THEN indices \cup {h}
                            ELSE indices
        /\ UNCHANGED managed
        /\ Witness

(* Mutant: the key stays loaded. *)
FlushCreatedNot(p) ==
    /\ At(p, "flush")
    /\ GoesOn(p, [run[p] EXCEPT !.pc = "done"])
    /\ UNCHANGED <<managed, handles, indices>>
    /\ Witness

FlushCreated(p) ==
    /\ At(p, "flush")
    /\ Unloads(p, run[p].object)
    /\ Becomes(p, [run[p] EXCEPT !.pc = "done"])
    /\ UNCHANGED <<managed, handles, indices>>
    /\ Witness

(* A persistent object is evicted, an NV index undefined. *)
Drop(p) ==
    LET c == run[p].call
    IN  /\ At(p, "drop")
        /\ IF c.given \in Table(p) THEN Succeeds(p, run[p]) ELSE Fails(p)
        /\ handles' = IF c.table = "nv" THEN handles ELSE handles \ {c.given}
        /\ indices' = IF c.table = "nv" THEN indices \ {c.given} ELSE indices
        /\ UNCHANGED managed
        /\ Witness

(* The listed handles are worked off one by one; one that is gone ends it. *)
Each(p) ==
    LET i == run[p].worked + 1
        h == run[p].list[i]
        r == [run[p] EXCEPT !.worked = i,
                  !.pc = IF i = Len(run[p].list) THEN "done" ELSE "each"]
    IN  /\ At(p, "each")
        /\ \/ h \notin Table(p) /\ Fails(p)
           \/ h \in Table(p) /\ Becomes(p, r) /\ trans' =
                  IF run[p].call.tool = "flushcontext"
                      THEN [trans EXCEPT ![Space(p)] = @ \ {h}] ELSE trans
        /\ UNCHANGED <<managed, handles, indices>>
        /\ Witness

(***************************************************************************)
(* The specification.  The TPM answers every command, so a tool goes on;   *)
(* nothing makes a command fail, a file change or a tool start.            *)
(***************************************************************************)
Init ==
    /\ managed \in BOOLEAN
    /\ run = [p \in Procs |-> Idle]
    /\ seen = [p \in Procs |-> NothingSeen]
    /\ \E used \in InUse :
           /\ trans = [c \in Procs \cup {Device} |->
                  IF c = Device /\ ~managed THEN used \cap Slots ELSE {}]
           /\ handles = used \cap Persistent
           /\ indices = used \cap Indices

Digest(p) ==
    \/ files_get_file_size(p)
    \/ OneShot(p)
    \/ StartSequence(p)
    \/ UpdateSequence(p)
    \/ CompleteSequence(p)

WorkOnTable(p) ==
    \/ tpm2_capability_get(p)
    \/ find_vacant(p)
    \/ CreatePrimary(p)
    \/ SaveCreated(p)
    \/ Take(p)
    \/ FlushCreated(p)
    \/ Drop(p)
    \/ Each(p)

Next ==
    \E p \in Procs :
        \/ StartDigest(p)
        \/ StartOnTable(p)
        \/ Digest(p)
        \/ WorkOnTable(p)
        \/ Stop(p)
        \/ ChangeFile(p)

Spec == Init /\ [][Next]_vars /\ \A p \in Procs : WF_vars(Digest(p))

(***************************************************************************)
(* Properties.                                                             *)
(***************************************************************************)

(* Every variable has its type: what is left of a file is a size_t, and no *)
(* handle is listed twice.                                                 *)
TypeOK ==
    /\ managed \in BOOLEAN
    /\ run \in [Procs -> Runs]
    /\ seen \in [Procs -> [ever: SUBSET Nat, always: SUBSET Nat]]
    /\ \A p \in Procs :
           /\ Cardinality(ToSet(run[p].list)) = Len(run[p].list)
           /\ run[p].worked <= Len(run[p].list)
    /\ trans \in [Procs \cup {Device} -> SUBSET Slots]
    /\ handles \subseteq Persistent /\ indices \subseteq Indices

(* A digest is of as many bytes as the file was said to have when its size    *)
(* was asked for, however it changed since, and of all of a pipe.             *)
DigestOfInput ==
    \A p \in Procs :
        At(p, "done") /\ run[p].call \in DigestTools /\ ~run[p].call.cphash =>
            run[p].fed = IF run[p].fifo THEN run[p].size ELSE run[p].at

(* A run that ends well leaves of its own objects only the key loaded whose  *)
(* context it was asked to save, and flushcontext leaves none at all, whoever *)
(* loaded it.                                                                 *)
LeavesNothing ==
    [][\A p \in Procs :
           ~At(p, "done") /\ At(p, "done")' =>
               /\ \/ run[p].object \notin trans'[Space(p)]
                  \/ KeepsKey(run[p].call)
               /\ run[p].call.tool = "flushcontext" => trans'[Space(p)] = {}]_vars

(* A listing has no handle that was never in use meanwhile, and every one     *)
(* that was in use all the while, unless the list is full or the tool ignores *)
(* that the TPM has more.                                                     *)
ListFaithful ==
    \A p \in Procs :
        /\ Lists(run[p].call)
        /\ run[p].pc \in {"each", "pick", "create", "take", "done"}
        =>
        /\ ToSet(run[p].list) \subseteq seen[p].ever
        /\ \/ seen[p].always \subseteq ToSet(run[p].list)
           \/ /\ run[p].more
              /\ Len(run[p].list) = CapMax \/ run[p].call.tool \in OnePage

(* The handle a lookup chooses is in the range of its hierarchy and was free *)
(* at some moment of the lookup, if that saw the whole table.                *)
ChosenWasVacant ==
    \A p \in Procs :
        Lists(run[p].call) /\ run[p].pc \in {"create", "take"} =>
            /\ run[p].chosen \in Candidates(run[p].call)
            /\ \/ run[p].call.tool \in OnePage /\ run[p].more
               \/ run[p].chosen \notin seen[p].always

(* A lookup that comes back empty had no handle free all the while, or a full *)
(* list.                                                                      *)
VacantFound ==
    \A p \in Procs :
        At(p, "pick") /\ Vacant(run[p]) = {} =>
            \/ Candidates(run[p].call) \subseteq seen[p].ever
            \/ Len(run[p].list) = CapMax

(* The loop over the blocks of the input comes to an end, if there is no less *)
(* to read than the file was said to have, and the tool does not read more:   *)
(* it does when a short file that is asked a ticket for grew, or was said to  *)
(* have no size.                                                              *)
TrueSizeEnds ==
    \A p \in Procs :
        At(p, "stat") ~>
            \/ ~Running(p)
            \/ /\ ~run[p].fifo
               /\ run[p].at > run[p].size \/ run[p].pos > run[p].at

(* "If we know the file size, we decrement the amount read and terminate the *)
(* loop when 1 block is left, else we go till feof": every digest ends.      *)
EveryDigestEnds ==
    \A p \in Procs : At(p, "stat") ~> ~Running(p)

(* tpm2_hash, tpm2_hmac and tpm2_pcrevent digest the data of the FILE: of one *)
(* that nobody changes meanwhile, all that can be read.                       *)
DigestOfAll(p) ==
    /\ At(p, "done") /\ run[p].call \in DigestTools /\ ~run[p].call.cphash
    /\ run[p].changed = 0
    => run[p].fed = run[p].size

\* Every digest ends, and is of all of its FILE.
EveryDigestWhole ==
    \A p \in Procs : At(p, "stat") ~> ~Running(p) /\ DigestOfAll(p)

=============================================================================
