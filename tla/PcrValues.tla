------------------------------ MODULE PcrValues ------------------------------
(***************************************************************************)
(* The tools that read PCRs: pcrread, quote (with the PCR file of --pcr),  *)
(* checkquote and policypcr, while pcrextend and pcrreset change them.     *)
(*                                                                         *)
(* A TPM returns a few values per command, so pcr_read_pcr_values          *)
(* (lib/pcr.c) reads a selection in batches and keeps each in a list; the  *)
(* tools put labels to the values afterwards, by walking the selection and *)
(* the lists side by side.  Every TPM command and file access may fail.    *)
(***************************************************************************)
EXTENDS Integers, Sequences, SequencesExt, Ordered

CONSTANTS
    Procs,       \* processes: shells that run one tool after another
    Banks, Pcrs, \* hash algorithms, PCR indices
    AnyBank,     \* pcrread without an argument
    Assigned,    \* assignedPCR, TPM2_CAP_PCRS: the banks and their PCRs
    Selections,  \* the PCR lists users give
    Extensions,  \* the arguments of pcrextend
    Resets,      \* the arguments of pcrreset: sets of PCRs
    Batch,       \* digests in a TPML_DIGEST, 8
    MaxLists,    \* lists in a tpm2_pcrs, TPM2_MAX_PCRS
    Sources,     \* where a checkquote takes PCR values from
    MaxRuns      \* bound on the number of tool invocations

Selection == [bank: Banks, pcrs: SUBSET Pcrs]
Extension == [pcr: Pcrs, banks: SUBSET Banks]

ASSUME PcrAssumption ==
    /\ Pcrs \subseteq Nat /\ IsFiniteSet(Pcrs) /\ AnyBank \notin Banks
    /\ Assigned \in Seq(Selection)
    /\ Batch \in Nat \ {0} /\ MaxLists \in Nat \ {0}
ASSUME OptionAssumption ==
    /\ Selections \subseteq Seq(Selection) \ {<<>>}
    /\ Extensions \subseteq Seq(Extension)
    /\ Resets \subseteq SUBSET Pcrs
    /\ Sources \subseteq {"none", "file", "list"}
ASSUME RunsAssumption == MaxRuns \in Nat

VARIABLES
    register,  \* the PCRs: how often each was extended since its reset
    proc,      \* the processes
    file,      \* the files of a quote, and the one of pcrread --output
    runs       \* invocations so far

vars == <<register, proc, file, runs>>

-----------------------------------------------------------------------------
(* Selections.                                                             *)

\* The PCRs of a selection in the order in which everybody walks it.
Places(sel) ==
    FlattenSeq([i \in DOMAIN sel |->
        LET pcrs == Ascending(sel[i].pcrs)
        IN  [j \in DOMAIN pcrs |-> [bank |-> sel[i].bank, pcr |-> pcrs[j]]]])

AssignedBanks == {Assigned[i].bank : i \in DOMAIN Assigned}
AssignedPcrs(bank) ==
    UNION {Assigned[i].pcrs : i \in {j \in DOMAIN Assigned : Assigned[j].bank = bank}}

Known(sel) == \A i \in DOMAIN sel : sel[i].bank \in AssignedBanks

\* External: a TPM leaves out the PCRs that a bank does not have.
Implemented(sel) ==
    [i \in DOMAIN sel |-> [sel[i] EXCEPT !.pcrs = @ \cap AssignedPcrs(sel[i].bank)]]

\* The part of a selection that is of some banks.
OfBanks(sel, banks) ==
    LET kept == Ascending({i \in DOMAIN sel : sel[i].bank \in banks})
    IN  [k \in DOMAIN kept |-> sel[kept[k]]]

\* pcr_check_pcr_selection: what the TPM does not have is dropped.
Checked(sel) == OfBanks(Implemented(sel), AssignedBanks)

\* pcr_init_pcr_selection: one bank, or all of them.
OfBank(bank) == OfBanks(Assigned, IF bank = AnyBank THEN AssignedBanks ELSE {bank})

\* Fault: the loop over the banks returns in its first turn.
UnsetFirst(sel) == sel[1].pcrs = {}

\* pcr_unset_pcr_sections
Unset(sel) == \A i \in DOMAIN sel : sel[i].pcrs = {}

\* pcr_update_pcr_selections: what has been read is taken off, bank by bank.
Without(sel, places) ==
    LET read == ToSet(places)
    IN  [i \in DOMAIN sel |-> [sel[i] EXCEPT
            !.pcrs = {n \in @ : [bank |-> sel[i].bank, pcr |-> n] \notin read}]]

FirstOf(m, s) == SubSeq(s, 1, IF m < Len(s) THEN m ELSE Len(s))

-----------------------------------------------------------------------------
(* Values.  A value remembers the PCR it was read from, which no tool can  *)
(* see: digests are compared by Digest.                                    *)

Place == [bank: Banks, pcr: Pcrs]
Value == [bank: Banks, pcr: Pcrs, n: Nat]

PlaceOf(value) == [bank |-> value.bank, pcr |-> value.pcr]

ValuesOf(places) ==
    [i \in DOMAIN places |->
        [bank |-> places[i].bank, pcr |-> places[i].pcr,
         n |-> register[places[i].bank][places[i].pcr]]]

\* The hash of a sequence of values: of as many, as long and as often extended.
Digest(values) ==
    [i \in DOMAIN values |-> [bank |-> values[i].bank, n |-> values[i].n]]

\* A message names the quote it is of; so does the signature of it.
Nothing == [by |-> 0, digest |-> <<>>]
Message == [by: Nat, digest: Seq([bank: Banks, n: Nat])]

NoPcrFile == [by |-> 0, sel |-> <<>>, lists |-> <<>>]
PcrFile == [by: Nat, sel: Seq(Selection), lists: Seq(Seq(Value))]

(***************************************************************************)
(* A process has the PCR list it was given (asked), its pcr_selections     *)
(* (sel) and the part that is left to read, the values read (lists), the   *)
(* message and the signature it made or loaded, the PCRs that it is still  *)
(* to extend or reset (todo).  History: which invocation it is (run), the  *)
(* values that were in the TPM when it quoted or read for a policy, or in  *)
(* the file it loaded (held), whether nobody has changed a PCR since it    *)
(* began (alone), whether it met a fault, and the invocations whose files  *)
(* it loaded (origins).                                                    *)
(***************************************************************************)
Process ==
    [tool: {"none", "pcrread", "quote", "checkquote", "policypcr",
            "pcrextend", "pcrreset"},
     pc: {"idle", "open", "banks", "quote", "read", "label", "sig", "msg",
          "pcrs", "verify", "values", "policy", "change"},
     rc: {"success", "general_error", "tpm_error"},
     bank: Banks \cup {AnyBank}, out: BOOLEAN, source: {"none", "file", "list", "tpm"},
     asked: Seq(Selection), sel: Seq(Selection), left: Seq(Selection),
     lists: Seq(Seq(Value)), message: Message, signature: Message,
     todo: Seq(Extension), run: 0..MaxRuns, held: Seq(Value),
     alone: BOOLEAN, fault: BOOLEAN, origins: SUBSET (0..MaxRuns)]

TypeOK ==
    /\ register \in [Banks -> [Pcrs -> Nat]]
    /\ proc \in [Procs -> Process]
    /\ \A p \in Procs : proc[p].tool # "checkquote" => Len(proc[p].lists) <= MaxLists
    /\ file \in [sig: Message, msg: Message, pcrs: PcrFile, raw: Seq(Value)]
    /\ runs \in 0..MaxRuns

Idle == [tool |-> "none", pc |-> "idle", rc |-> "success",
         bank |-> AnyBank, out |-> FALSE, source |-> "none",
         asked |-> <<>>, sel |-> <<>>, left |-> <<>>, lists |-> <<>>,
         message |-> Nothing, signature |-> Nothing, todo |-> <<>>,
         run |-> 0, held |-> <<>>, alone |-> TRUE, fault |-> FALSE, origins |-> {}]

Init ==
    /\ register = [b \in Banks |-> [n \in Pcrs |-> 0]]
    /\ proc = [p \in Procs |-> Idle]
    /\ file = [sig |-> Nothing, msg |-> Nothing, pcrs |-> NoPcrFile, raw |-> <<>>]
    /\ runs = 0

-----------------------------------------------------------------------------
Running(p, tool, pc) == proc[p].tool = tool /\ proc[p].pc = pc

Invoke(p, image) ==
    /\ proc[p].pc = "idle"
    /\ runs < MaxRuns
    /\ runs' = runs + 1
    /\ proc' = [proc EXCEPT ![p] = [image EXCEPT !.run = runs + 1]]
    /\ UNCHANGED <<register, file>>

Return(p, rc) == proc' = [proc EXCEPT ![p].pc = "idle", ![p].rc = rc]

\* A tool ends, and nothing is left of it but its result.
End(p, rc, fault) ==
    proc' = [proc EXCEPT ![p] = [Idle EXCEPT !.tool = proc[p].tool, !.rc = rc,
                                             !.fault = fault]]

\* A command or a file access fails, and the tool with it.
Fail(p) ==
    /\ proc[p].pc # "idle"
    /\ End(p, "tpm_error", TRUE)
    /\ UNCHANGED <<register, file, runs>>

-----------------------------------------------------------------------------
(* pcrread and quote: reading in batches.                                  *)

\* The output file is opened before anything is read.
Opening(out) == IF out THEN "open" ELSE "banks"

PcrRead(p) ==
    \E sel \in Selections \cup {<<>>}, bank \in Banks \cup {AnyBank}, out \in BOOLEAN :
        /\ sel # <<>> => bank = AnyBank
        /\ Invoke(p, [Idle EXCEPT !.tool = "pcrread", !.bank = bank, !.out = out,
                                  !.asked = sel, !.sel = sel,
                                  !.pc = Opening(out)])

\* The authorisation of the key comes first; it changes nothing here.
QuoteTool(p) ==
    \E sel \in Selections, out \in BOOLEAN :
        Invoke(p, [Idle EXCEPT !.tool = "quote", !.out = out, !.asked = sel, !.sel = sel,
                               !.pc = Opening(out)])

\* fopen(path, "wb+") empties the file.
OpenOutput(p) ==
    /\ proc[p].pc = "open"
    /\ file' = IF proc[p].tool = "quote" THEN [file EXCEPT !.pcrs = NoPcrFile]
               ELSE [file EXCEPT !.raw = <<>>]
    /\ proc' = [proc EXCEPT ![p].pc = "banks"]
    /\ UNCHANGED <<register, runs>>

\* The selection is made fit for the TPM; nothing may be left of it.
ReadSelected(p, sel) ==
    IF sel = <<>> THEN Return(p, "general_error")
    ELSE proc' = [proc EXCEPT ![p].sel = sel, ![p].left = sel, ![p].pc = "read"]

GetBanks(p) ==
    /\ proc[p].pc = "banks"
    /\ IF proc[p].tool = "quote" THEN proc' = [proc EXCEPT ![p].pc = "quote"]
       ELSE ReadSelected(p, IF proc[p].asked # <<>> THEN Checked(proc[p].sel)
                            ELSE OfBank(proc[p].bank))
    /\ UNCHANGED <<register, file, runs>>

\* TPM2_Quote, with the selection as the user gave it; what is read afterwards is
\* made fit for the TPM.
Quote(p) ==
    /\ Running(p, "quote", "quote")
    /\ LET held == ValuesOf(Places(Implemented(proc[p].sel)))
           quoted == [proc EXCEPT ![p].held = held,
                                  ![p].message = [by |-> proc[p].run,
                                                  digest |-> Digest(held)]]
           sel == Checked(proc[p].sel)
       IN  IF ~Known(proc[p].sel) THEN Return(p, "tpm_error")
           ELSE IF ~proc[p].out THEN proc' = [quoted EXCEPT ![p].pc = "sig"]
           ELSE IF sel = <<>> THEN Return(p, "general_error")
           ELSE proc' = [quoted EXCEPT ![p].pc = "read", ![p].sel = sel, ![p].left = sel]
    /\ UNCHANGED <<register, file, runs>>

\* Fault: the lists fill up from the end.
ExtendedFront(lists, values) == <<values>> \o lists

Extended(lists, values) == Append(lists, values)

\* Fault: there is always room for one more list.
NoRoomLeft(lists) == FALSE

NoRoom(lists) == Len(lists) >= MaxLists

(***************************************************************************)
(* One turn of the loop of pcr_read_pcr_values.  TPM2_PCR_Read returns the *)
(* first PCRs of a selection, up to a batch, and says which they are.      *)
(***************************************************************************)
ReadBatch(p) ==
    /\ proc[p].pc = "read"
    /\ LET places == FirstOf(Batch, Places(proc[p].left))
           left == Without(proc[p].left, places)
           lists == Extended(proc[p].lists, ValuesOf(places))
           read == [proc EXCEPT ![p].left = left, ![p].lists = lists]
       IN  proc' = IF Unset(left) THEN [read EXCEPT ![p].pc = "label"]
                   ELSE IF NoRoom(lists)
                        THEN [read EXCEPT ![p].pc = "idle", ![p].rc = "general_error"]
                        ELSE read
    /\ UNCHANGED <<register, file, runs>>

\* The lines a walk over a selection and lists of values yields, and whether
\* it ends for want of values.
Values(p) == FlattenSeq(proc[p].lists)
Labels(p) == Places(proc[p].sel)
Enough(p) == Len(Labels(p)) <= Len(Values(p))
Walked(p) == FirstOf(Len(Labels(p)), Values(p))

\* print_pcr_values writes each value to the output file as it prints it.
PrintValues(p) ==
    /\ Running(p, "pcrread", "label")
    /\ Return(p, IF Enough(p) THEN "success" ELSE "general_error")
    /\ file' = IF proc[p].out THEN [file EXCEPT !.raw = Walked(p)] ELSE file
    /\ UNCHANGED <<register, runs>>

\* Fault: the values are not compared with the quote.
EnoughForQuote(p) == Enough(p)

\* There is a value for every label, and the values are those that were quoted.
Consistent(p) == Enough(p) /\ Digest(Walked(p)) = proc[p].message.digest

CompareQuote(p) ==
    /\ Running(p, "quote", "label")
    /\ IF Consistent(p) THEN proc' = [proc EXCEPT ![p].pc = "sig"]
       ELSE Return(p, "general_error")
    /\ UNCHANGED <<register, file, runs>>

(***************************************************************************)
(* write_output_files.  The result of a file that cannot be written is     *)
(* remembered, and the others are written all the same.                    *)
(***************************************************************************)
Save(p, name, content, empty, next) ==
    /\ \/ /\ file' = [file EXCEPT ![name] = content]
          /\ proc' = [proc EXCEPT ![p].pc = next]
       \/ /\ file' \in {file, [file EXCEPT ![name] = empty]}
          /\ proc' = [proc EXCEPT ![p].pc = next, ![p].rc = "general_error",
                                  ![p].fault = TRUE]
    /\ UNCHANGED <<register, runs>>

SaveSignature(p) ==
    Running(p, "quote", "sig") /\ Save(p, "sig", proc[p].message, Nothing, "msg")

SaveMessage(p) ==
    /\ Running(p, "quote", "msg")
    /\ Save(p, "msg", proc[p].message, Nothing, IF proc[p].out THEN "pcrs" ELSE "idle")

\* Fault: the selection is written as the user gave it.
PcrFileAsked(p) == [by |-> proc[p].run, sel |-> proc[p].asked, lists |-> proc[p].lists]

\* write_pcr_values: the selection that was read, and the lists.
PcrFileOf(p) == [by |-> proc[p].run, sel |-> proc[p].sel, lists |-> proc[p].lists]

SavePcrs(p) ==
    Running(p, "quote", "pcrs") /\ Save(p, "pcrs", PcrFileOf(p), NoPcrFile, "idle")

-----------------------------------------------------------------------------
(* checkquote, which needs no TPM.                                         *)

CheckQuote(p) ==
    \E source \in Sources : \E sel \in IF source = "list" THEN Selections ELSE {<<>>} :
        Invoke(p, [Idle EXCEPT !.tool = "checkquote", !.source = source, !.asked = sel,
                               !.sel = sel, !.pc = "msg"])

LoadMessage(p) ==
    /\ Running(p, "checkquote", "msg")
    /\ IF file.msg = Nothing THEN Return(p, "general_error")
       ELSE proc' = [proc EXCEPT ![p].message = file.msg, ![p].pc = "sig",
                                 ![p].origins = {file.msg.by}]
    /\ UNCHANGED <<register, file, runs>>

LoadSignature(p) ==
    /\ Running(p, "checkquote", "sig")
    /\ IF file.sig = Nothing THEN Return(p, "general_error")
       ELSE proc' = [proc EXCEPT ![p].signature = file.sig,
                                 ![p].pc = IF proc[p].source = "none" THEN "verify" ELSE "pcrs",
                                 ![p].origins = @ \cup {file.sig.by}]
    /\ UNCHANGED <<register, file, runs>>

(***************************************************************************)
(* parse_selection_data_from_file.  The four bytes of the count are read   *)
(* into a size_t of which nobody has set the other bytes, and all of it is *)
(* compared with the room for lists: the tool goes on with the lists as    *)
(* quote has written them, or takes the file for malformed.                *)
(***************************************************************************)
LoadPcrs(p) ==
    /\ Running(p, "checkquote", "pcrs")
    /\ proc[p].source = "file"
    /\ LET loaded == [proc[p] EXCEPT !.held = FlattenSeq(file.pcrs.lists),
                                     !.origins = @ \cup {file.pcrs.by}]
       IN  \/ file.pcrs = NoPcrFile /\ Return(p, "general_error")
           \/ /\ file.pcrs # NoPcrFile
              /\ proc' = [proc EXCEPT ![p] =
                             [loaded EXCEPT !.sel = file.pcrs.sel, !.pc = "verify",
                                            !.lists = file.pcrs.lists]]
           \/ /\ file.pcrs # NoPcrFile
              /\ proc' = [proc EXCEPT ![p] =
                             [loaded EXCEPT !.pc = "idle", !.rc = "general_error"]]
    /\ UNCHANGED <<register, file, runs>>

\* The digests of the file are read by the sizes that the selection makes one
\* expect; where these differ from what was written, what is read is garbage.
FileFits(values, places) ==
    /\ Len(places) <= Len(values)
    /\ \A i \in DOMAIN places : values[i].bank = places[i].bank

\* Fault: the last digest is stored but not counted.
PlainListsShort(values) == <<FirstOf(Len(values) - 1, values)>>

(***************************************************************************)
(* The lists of parse_selection_data_from_selection_string.  The digest    *)
(* that completes a list is stored in it, but instead of being counted it  *)
(* makes the tool go on to the next list.                                  *)
(***************************************************************************)
PlainLists(values) ==
    LET lists == Len(values) \div Batch + 1
    IN  [k \in 1..lists |->
            SubSeq(values, (k - 1) * Batch + 1,
                   IF k < lists THEN k * Batch - 1 ELSE Len(values))]

\* At the beginning of a bank the last list must not have been reached.
ListLeft(sel, i) == Len(Places(SubSeq(sel, 1, i - 1))) \div Batch < MaxLists - 1
ListsLeft(sel) == \A i \in DOMAIN sel : ListLeft(sel, i)

(***************************************************************************)
(* Within a bank nobody asks.  Past the last list the tool stores digests, *)
(* or the size of one it does not find in the file; if the last bank just  *)
(* fills the lists then it counts one more than there are.                 *)
(***************************************************************************)
Overruns(sel, values) ==
    LET room == Batch * MaxLists
    IN  /\ Len(values) >= room
        /\ \E i \in DOMAIN sel :
              /\ ListLeft(sel, i)
              /\ \/ Len(Places(SubSeq(sel, 1, i))) > room
                 \/ Len(Places(SubSeq(sel, 1, i))) = room /\ i = Len(sel)

\* A tool that writes past the lists, or counts past them, may be killed for it.
LoadPlain(p) ==
    /\ Running(p, "checkquote", "pcrs")
    /\ proc[p].source = "list"
    /\ LET values == FirstOf(Len(Labels(p)), file.raw)
           fits == /\ file.raw # <<>> /\ FileFits(file.raw, Labels(p))
                   /\ ListsLeft(proc[p].sel)
       IN  \/ ~fits /\ Return(p, "general_error")
           \/ fits /\ proc' = [proc EXCEPT ![p].pc = "verify", ![p].held = values,
                                           ![p].lists = PlainLists(values)]
           \/ Overruns(proc[p].sel, file.raw) /\ End(p, "general_error", TRUE)
    /\ UNCHANGED <<register, file, runs>>

\* The signature is one of the message; the PCR values hash to its digest.
Verify(p) ==
    /\ Running(p, "checkquote", "verify")
    /\ Return(p, IF /\ proc[p].signature = proc[p].message
                    /\ proc[p].source # "none" => Consistent(p)
                 THEN "success" ELSE "general_error")
    /\ UNCHANGED <<register, file, runs>>

-----------------------------------------------------------------------------
(* policypcr: tpm2_policy_build_pcr.                                       *)

PolicyPcr(p) ==
    \E sel \in Selections, source \in {"tpm", "list"} :
        Invoke(p, [Idle EXCEPT !.tool = "policypcr", !.asked = sel, !.sel = sel,
                               !.source = source, !.pc = "values"])

\* Fault: a policy is made of any number of PCRs.
AnyNumber(sel) == TRUE

\* evaluate_populate_pcr_digests: all values must come with one command.
FitsOneList(sel) == Len(Places(sel)) <= Batch

\* The values come from a file that has exactly as many, or from the TPM.
GatherValues(p) ==
    /\ Running(p, "policypcr", "values")
    /\ LET sel == proc[p].sel
           places == Places(Implemented(sel))
           policyOf(values, held) ==
               proc' = [proc EXCEPT ![p].lists = <<values>>, ![p].held = held,
                                    ![p].pc = "policy"]
       IN  IF ~FitsOneList(sel) THEN Return(p, "general_error")
           ELSE IF proc[p].source = "tpm"
           THEN IF Known(sel)
                THEN policyOf(ValuesOf(FirstOf(Batch, places)), ValuesOf(places))
                ELSE Return(p, "tpm_error")
           ELSE IF Len(file.raw) = Len(Places(sel)) /\ FileFits(file.raw, Places(sel))
           THEN policyOf(file.raw, file.raw)
           ELSE Return(p, "general_error")
    /\ UNCHANGED <<register, file, runs>>

\* External: a policy session wants the values of now, a trial session any.
PolicyCommand(p) ==
    /\ Running(p, "policypcr", "policy")
    /\ \E trial \in BOOLEAN :
          Return(p, IF /\ Known(proc[p].sel)
                       /\ \/ trial
                          \/ Digest(Values(p)) =
                                Digest(ValuesOf(Places(Implemented(proc[p].sel))))
                    THEN "success" ELSE "tpm_error")
    /\ UNCHANGED <<register, file, runs>>

-----------------------------------------------------------------------------
(* pcrextend and pcrreset: one command per PCR.                            *)

PcrExtend(p) ==
    \E todo \in Extensions :
        Invoke(p, [Idle EXCEPT !.tool = "pcrextend", !.todo = todo, !.pc = "change"])

PcrReset(p) ==
    \E pcrs \in Resets :
        Invoke(p, [Idle EXCEPT !.tool = "pcrreset", !.pc = "change",
                     !.todo = [i \in DOMAIN Ascending(pcrs) |->
                                  [pcr |-> Ascending(pcrs)[i], banks |-> Banks]]])

\* The TPM changes one PCR in some banks.
Changed(p, change) ==
    [b \in Banks |-> [n \in Pcrs |->
        IF n # change.pcr \/ b \notin change.banks \/ n \notin AssignedPcrs(b)
        THEN register[b][n]
        ELSE IF proc[p].tool = "pcrreset" THEN 0 ELSE register[b][n] + 1]]

ChangePcr(p) ==
    /\ proc[p].pc = "change"
    /\ proc[p].todo # <<>>
    /\ register' = Changed(p, Head(proc[p].todo))
    /\ proc' = [q \in Procs |-> IF q = p THEN [proc[q] EXCEPT !.todo = Tail(@)]
                                ELSE [proc[q] EXCEPT !.alone = FALSE]]
    /\ UNCHANGED <<file, runs>>

Changes(p) ==
    /\ proc[p].pc = "change"
    /\ proc[p].todo = <<>>
    /\ End(p, "success", FALSE)
    /\ UNCHANGED <<register, file, runs>>

-----------------------------------------------------------------------------
Start(p) ==
    \/ PcrRead(p) \/ QuoteTool(p) \/ CheckQuote(p) \/ PolicyPcr(p)
    \/ PcrExtend(p) \/ PcrReset(p)

Step(p) ==
    \/ OpenOutput(p) \/ GetBanks(p) \/ ReadBatch(p) \/ PrintValues(p)
    \/ Quote(p) \/ CompareQuote(p) \/ SaveSignature(p) \/ SaveMessage(p) \/ SavePcrs(p)
    \/ LoadMessage(p) \/ LoadSignature(p) \/ LoadPcrs(p) \/ LoadPlain(p) \/ Verify(p)
    \/ GatherValues(p) \/ PolicyCommand(p)
    \/ ChangePcr(p) \/ Changes(p)

\* The bound on the number of invocations is reached and every tool has ended.
Finished ==
    /\ runs = MaxRuns
    /\ \A p \in Procs : proc[p].pc = "idle"
    /\ UNCHANGED vars

Next == (\E p \in Procs : Start(p) \/ Step(p) \/ Fail(p)) \/ Finished

Spec == Init /\ [][Next]_vars

-----------------------------------------------------------------------------
Ended(p, tool) == proc[p].tool = tool /\ proc[p].pc = "idle"
Succeeded(p, tool) == Ended(p, tool) /\ proc[p].rc = "success"

\* The PCRs that a user of pcrread has asked for and that there are.
Asked(p) ==
    ToSet(Places(IF proc[p].asked = <<>> THEN OfBank(proc[p].bank)
                 ELSE Checked(proc[p].asked)))

(***************************************************************************)
(* Batches, and the walk over their lists in print_pcr_values, put every   *)
(* value of a pcrread that exits with 0 under the bank and the number of   *)
(* the PCR it was read from, and no PCR that was asked for is missing,     *)
(* whatever changes the PCRs meanwhile.                                    *)
(***************************************************************************)
LinesInPlace ==
    \A p \in Procs : Succeeded(p, "pcrread") =>
        /\ \A i \in DOMAIN Labels(p) : PlaceOf(Values(p)[i]) = Labels(p)[i]
        /\ ToSet(Labels(p)) = Asked(p)

(***************************************************************************)
(* A pcrread that exits with 0 and during which no PCR has changed prints  *)
(* what is in the PCRs.  (One during which they did may mix old and new:   *)
(* pcr_read_pcr_values ignores the update counter that the TPM returns.)   *)
(***************************************************************************)
UndisturbedLines ==
    \A p \in Procs : Succeeded(p, "pcrread") /\ proc[p].alone =>
        Walked(p) = ValuesOf(Labels(p))

(***************************************************************************)
(* The PCR values that a quote writes are read after TPM2_Quote, in        *)
(* batches; with exit code 0 they are nevertheless the values that the     *)
(* PCRs had, all together, when they were quoted.                          *)
(***************************************************************************)
QuotedLines ==
    \A p \in Procs : Succeeded(p, "quote") /\ proc[p].out =>
        Walked(p) = proc[p].held

(***************************************************************************)
(* tpm2_policy_build_pcr makes a policy of values that the PCRs had all    *)
(* together, and of all PCRs of the list that the TPM has: it refuses      *)
(* lists that one read of the PCRs cannot return.                          *)
(***************************************************************************)
PolicyWhole ==
    \A p \in Procs : Succeeded(p, "policypcr") => Values(p) = proc[p].held

Duplicated(sel) == ~IsInjective(Places(sel))

(***************************************************************************)
(* A pcrread fails for a reason: a call failed, there is nothing to read,  *)
(* a PCR was named twice, or tpm2_pcrs has no room for so many.            *)
(***************************************************************************)
FailureHasCause ==
    \A p \in Procs : Ended(p, "pcrread") /\ proc[p].rc # "success" =>
        \/ proc[p].fault
        \/ proc[p].asked # <<>> /\ Checked(proc[p].asked) = <<>>
        \/ proc[p].asked = <<>> /\ OfBank(proc[p].bank) = <<>>
        \/ Duplicated(proc[p].sel)
        \/ Len(Labels(p)) > Batch * MaxLists

\* A checkquote that has found the files of one quote, and met no fault.
FilesOfOneQuote(p) ==
    /\ Ended(p, "checkquote") /\ proc[p].source = "file" /\ ~proc[p].fault
    /\ \E run \in 1..MaxRuns : proc[p].origins = {run}

(***************************************************************************)
(* A checkquote that gets through the file of PCR values, and has message, *)
(* signature and values of one quote, accepts: the selection, the lists    *)
(* and the digest survive the files, whatever other tools write over these *)
(* before, in between and after.                                           *)
(***************************************************************************)
LoadedQuoteAccepted ==
    \A p \in Procs : FilesOfOneQuote(p) /\ proc[p].lists # <<>> => proc[p].rc = "success"

(***************************************************************************)
(* The manual and the test of checkquote verify a quote by the three files *)
(* that it has written.                                                    *)
(***************************************************************************)
GenuineQuoteAccepted ==
    \A p \in Procs : FilesOfOneQuote(p) /\ proc[p].held # <<>> => proc[p].rc = "success"

(***************************************************************************)
(* With plain values and a list of PCRs that do not fill a list of         *)
(* digests, checkquote tells a quote of these values from any other:       *)
(* whatever pcrreads and quotes write the files in between, it accepts if  *)
(* and only if what it has loaded is one quote's and these are its values. *)
(***************************************************************************)
PlainVerdict ==
    \A p \in Procs :
        /\ Ended(p, "checkquote") /\ proc[p].source = "list" /\ ~proc[p].fault
        /\ Len(proc[p].held) \in 1..(Batch - 1)
        => (proc[p].rc = "success" <=>
              /\ proc[p].signature = proc[p].message
              /\ Digest(proc[p].held) = proc[p].message.digest)

(***************************************************************************)
(* "Ensure all the digests across banks can fit in tpm2_pcrs", says        *)
(* checkquote where it reads plain values by a list of the user's.         *)
(***************************************************************************)
ListsFit ==
    \A p \in Procs : proc[p].tool = "checkquote" => Len(proc[p].lists) <= MaxLists

(***************************************************************************)
(* The test of checkquote says that the plain output of pcrread can be     *)
(* passed to the tool: values in the order of the list, the same as the    *)
(* quoted ones.                                                            *)
(***************************************************************************)
PlainReadAccepted ==
    \A p \in Procs : Ended(p, "checkquote") /\ proc[p].source = "list" /\ ~proc[p].fault =>
        \/ proc[p].held = <<>>
        \/ Digest(proc[p].held) # proc[p].message.digest
        \/ proc[p].signature # proc[p].message
        \/ proc[p].rc = "success"

(***************************************************************************)
(* The manual of checkquote: it validates the values of a quote, from its  *)
(* three files or, with --pcr-list, from the output of pcrread; its own    *)
(* comment: the digests fit in tpm2_pcrs.                                  *)
(***************************************************************************)
QuotesVerified == GenuineQuoteAccepted /\ PlainReadAccepted /\ ListsFit
=============================================================================
