---------------------------- MODULE LocalArtifacts ----------------------------
(***************************************************************************)
(* The commands of the reviewed-action layer that write under artifacts/:  *)
(* `proposal create', `proposal validate', `provenance append --local-test'*)
(* and `adapter-report', alone or as stages of the v1.1 pipeline.          *)
(*                                                                         *)
(* A file is the sequence of the items in it: an event is one line, any    *)
(* other item one document of DocLines lines.  Writing a file truncates it *)
(* first and its text arrives when it is closed; appending adds at the     *)
(* end, whatever the file has become.  Nothing is locked.  Every path may  *)
(* be given on the command line, also one that serves another purpose; a   *)
(* path outside artifacts/, like an append without --local-test, ends the  *)
(* command before it has done anything and is no step of the model.        *)
(***************************************************************************)
EXTENDS ProposalManifest, Naturals, FiniteSets, SequencesExt

CONSTANTS
    Proc,                          \* commands that may be in progress at a time
    Path,                          \* files under artifacts/
    Plan, Schema, Verdict,         \* where the commands write ...
    Log, Receipt, Adapter, Markdown,   \* ... unless they are told otherwise
    Named,                         \* bound: the paths given on command lines
    Editable,                      \* bound: the files the user edits
    UserItems,                     \* bound: what the user saves
    NoFile,
    DocLines,                      \* the lines of a document
    MaxCommands, MaxEdits, MaxKills    \* bounds on commands, edits, kills

-----------------------------------------------------------------------------
(* What files hold.                                                        *)

Document(m) == [is |-> "manifest", manifest |-> m]
Event(n)    == [is |-> "event", number |-> n]
Plain(kind) == [is |-> kind]

\* What json.loads makes of a file: a manifest, another object, a value that
\* the rules raise on (no object, say), or no JSON.
Reading == [is : {"manifest"}, manifest : Manifest]
              \cup [is : {"missing", "broken", "object", "value"}]

ValidationDoc ==
    [is : {"validation"}, status : {"PASS", "FAIL"}, of : Path, read : Reading]
ReceiptDoc == [is : {"receipt"}, log : Path, number : Nat, count : Nat]

\* mixed: what two writers of one file may leave, one text over another
Item == [is : {"manifest"}, manifest : Manifest] \cup [is : {"event"}, number : Nat]
           \cup ValidationDoc \cup ReceiptDoc
           \cup [is : {"schema", "adapter", "markdown", "mixed", "value"}]

ASSUME ArtifactsAssumption ==
    /\ {Plan, Schema, Verdict, Log, Receipt, Adapter, Markdown} \subseteq Path
    /\ Log \notin {Plan, Schema, Verdict, Receipt, Adapter, Markdown}
    /\ Plan \notin {Schema, Verdict, Receipt, Adapter, Markdown}
    /\ Named \subseteq Path /\ Editable \subseteq Path
    /\ UserItems \subseteq {i \in Item : i.is \notin {"validation", "receipt"}}
    /\ NoFile \notin Seq(Item)
    /\ DocLines \in Nat \ {0}
    /\ MaxCommands \in Nat /\ MaxEdits \in Nat /\ MaxKills \in Nat

Parse(content) ==
    CASE content = NoFile -> Plain("missing")
      [] content # NoFile /\ Len(content) # 1 -> Plain("broken")
      [] OTHER ->
            CASE content[1].is = "manifest" -> content[1]
              [] content[1].is = "value" -> Plain("value")
              [] content[1].is \in {"mixed", "markdown"} -> Plain("broken")
              [] OTHER -> Plain("object")

\* An object that is no manifest misses required fields.
Status(read) ==
    IF read.is = "manifest" /\ Passes(read.manifest) THEN "PASS" ELSE "FAIL"

\* The non-blank lines of a file.
Lines(content) ==
    Len(content)
      + (DocLines - 1) * Cardinality({i \in DOMAIN content :
                                        content[i].is # "event"})

-----------------------------------------------------------------------------
VARIABLES
    files,      \* [Path -> content or NoFile]
    proc,       \* [Proc -> command record]
    strayed,    \* history: paths written by the user or under a given name
    commands, edits, kills     \* counters

vars == <<files, proc, strayed, commands, edits, kills>>
counters == <<commands, edits, kills>>

\* from    the manifest that is read, the log that is appended to
\* out     where the validation or the receipt goes
\* number  the event of the command
\* todo    the documents still to be written, with their paths
Idle == [pc |-> "idle", from |-> Plan, out |-> Verdict, number |-> 0,
         todo |-> <<>>]

At(p, pc) == proc[p].pc = pc

To(path, doc) == [path |-> path, doc |-> doc]

Init ==
    /\ files = [f \in Path |-> NoFile]
    /\ proc = [p \in Proc |-> Idle]
    /\ strayed = {}
    /\ commands = 0 /\ edits = 0 /\ kills = 0

\* A name given on the command line in the place of the usual one.
Stray(given, usual) == IF given = usual THEN {} ELSE {given}

Start(p, c, strays) ==
    /\ At(p, "idle")
    /\ commands < MaxCommands
    /\ commands' = commands + 1
    /\ strayed' = strayed \cup strays
    /\ proc' = [proc EXCEPT ![p] = c]
    /\ UNCHANGED <<files, edits, kills>>

CreateProposal(p, out) ==
    Start(p, [Idle EXCEPT !.pc = "open",
                          !.todo = <<To(out, Document(DefaultManifest)),
                                     To(Schema, Plain("schema"))>>],
          Stray(out, Plan))

ValidateProposal(p, from, out) ==
    Start(p, [Idle EXCEPT !.pc = "look", !.from = from, !.out = out],
          Stray(out, Verdict))

AppendEvent(p, log, out) ==
    Start(p, [Idle EXCEPT !.pc = "openLog", !.from = log, !.out = out,
                          !.number = commands + 1],
          Stray(log, Log) \cup Stray(out, Receipt))

AdapterReport(p, out, markdown) ==
    Start(p, [Idle EXCEPT !.pc = "open",
                          !.todo = <<To(out, Plain("adapter")),
                                     To(markdown, Plain("markdown"))>>],
          Stray(out, Adapter) \cup Stray(markdown, Markdown))

-----------------------------------------------------------------------------
(* Reading: validate_proposal_file and the count of append_local_test_event. *)

\* The command turns to writing document doc.
Writing(c, doc) ==
    [c EXCEPT !.pc = "open", !.todo = <<To(c.out, doc)>>]

Finding(c, read) ==
    [is |-> "validation", status |-> Status(read), of |-> c.from, read |-> read]

ReceiptOf(c) ==
    [is |-> "receipt", log |-> c.from, number |-> c.number,
     count |-> Lines(files[c.from])]

LookForPlan(p) ==
    /\ At(p, "look")
    /\ proc' = [proc EXCEPT ![p] = IF files[@.from] = NoFile
                                   THEN Writing(@, Finding(@, Plain("missing")))
                                   ELSE [@ EXCEPT !.pc = "read"]]
    /\ UNCHANGED <<files, strayed, counters>>

\* A file that is gone by now raises, as does a value the rules cannot read:
\* the report stays what it was.
ReadPlan(p) ==
    LET read == Parse(files[proc[p].from])
    IN  /\ At(p, "read")
        /\ proc' = [proc EXCEPT ![p] = IF read.is \in {"missing", "value"}
                                       THEN Idle
                                       ELSE Writing(@, Finding(@, read))]
        /\ UNCHANGED <<files, strayed, counters>>

\* Mutant of OpenLog: the log is opened for writing.
RecreateLog(p) ==
    LET log == proc[p].from
    IN  /\ At(p, "openLog")
        /\ files' = [files EXCEPT ![log] = <<>>]
        /\ proc' = [proc EXCEPT ![p].pc = "append"]
        /\ UNCHANGED <<strayed, counters>>

\* Opened for appending, a log that does not exist is created.
OpenLog(p) ==
    LET log == proc[p].from
    IN  /\ At(p, "openLog")
        /\ files' = [files EXCEPT ![log] = IF @ = NoFile THEN <<>> ELSE @]
        /\ proc' = [proc EXCEPT ![p].pc = "append"]
        /\ UNCHANGED <<strayed, counters>>

\* Mutant of AppendLine: the line is written at the start of the file.
OverwriteLine(p) ==
    LET log == proc[p].from
    IN  /\ At(p, "append")
        /\ files' = [files EXCEPT ![log] =
                        <<Event(proc[p].number)>> \o SubSeq(@, 2, Len(@))]
        /\ proc' = [proc EXCEPT ![p].pc = "count"]
        /\ UNCHANGED <<strayed, counters>>

AppendLine(p) ==
    LET log == proc[p].from
    IN  /\ At(p, "append")
        /\ files' = [files EXCEPT ![log] = Append(@, Event(proc[p].number))]
        /\ proc' = [proc EXCEPT ![p].pc = "count"]
        /\ UNCHANGED <<strayed, counters>>

\* The receipt is computed from the file as it is read now.
CountLines(p) ==
    /\ At(p, "count")
    /\ proc' = [proc EXCEPT ![p] = IF files[@.from] = NoFile THEN Idle
                                   ELSE Writing(@, ReceiptOf(@))]
    /\ UNCHANGED <<files, strayed, counters>>

-----------------------------------------------------------------------------
(* Writing: Path.write_text, document by document.                         *)

Target(p) == Head(proc[p].todo).path

\* Mutant of Wrote: nothing tells the last document from the others.
WroteOne(c) == [c EXCEPT !.pc = "open", !.todo = Tail(@)]

Wrote(c) ==
    IF Len(c.todo) = 1 THEN Idle
    ELSE [c EXCEPT !.pc = "open", !.todo = Tail(@)]

OpenTarget(p) ==
    /\ At(p, "open")
    /\ files' = [files EXCEPT ![Target(p)] = <<>>]
    /\ proc' = [proc EXCEPT ![p].pc = "write"]
    /\ UNCHANGED <<strayed, counters>>

\* Mutant of WriteTarget: the text is still in a buffer when the command ends.
LeaveTarget(p) ==
    /\ At(p, "write")
    /\ proc' = [proc EXCEPT ![p] = Wrote(@)]
    /\ UNCHANGED <<files, strayed, counters>>

\* What another command or the user has put there since then is overwritten
\* from the start; of a longer text the end remains.
WriteTarget(p) ==
    /\ At(p, "write")
    /\ \E left \in IF files[Target(p)] = <<>> THEN {<<>>}
                   ELSE {<<>>, <<Plain("mixed")>>} :
          files' = [files EXCEPT ![Target(p)] =
                      IF left = <<>> THEN <<Head(proc[p].todo).doc>> ELSE left]
    /\ proc' = [proc EXCEPT ![p] = Wrote(@)]
    /\ UNCHANGED <<strayed, counters>>

-----------------------------------------------------------------------------
(* The user and the operating system.                                      *)

\* What command c is about to write goes to the file that path named before.
Cut(c, path) ==
    CASE c.pc = "write" /\ Head(c.todo).path = path -> Wrote(c)
      [] c.pc = "append" /\ c.from = path -> [c EXCEPT !.pc = "count"]
      [] OTHER -> c

\* The user removes a file or saves another text, in place or by renaming.
Edit(path, content, inPlace) ==
    /\ edits < MaxEdits
    /\ edits' = edits + 1
    /\ inPlace => content # NoFile
    /\ files' = [files EXCEPT ![path] = content]
    /\ strayed' = strayed \cup {path}
    /\ proc' = [p \in Proc |-> IF inPlace THEN proc[p] ELSE Cut(proc[p], path)]
    /\ UNCHANGED <<commands, kills>>

Kill(p) ==
    /\ ~ At(p, "idle")
    /\ kills < MaxKills
    /\ kills' = kills + 1
    /\ proc' = [proc EXCEPT ![p] = Idle]
    /\ UNCHANGED <<files, strayed, commands, edits>>

Command(p) ==
    \/ \E out \in Named \cup {Plan} : CreateProposal(p, out)
    \/ \E from \in Named \cup {Plan}, out \in Named \cup {Verdict} :
          ValidateProposal(p, from, out)
    \/ \E log \in Named \cup {Log}, out \in Named \cup {Receipt} :
          AppendEvent(p, log, out)
    \/ \E out \in Named \cup {Adapter}, markdown \in Named \cup {Markdown} :
          AdapterReport(p, out, markdown)

Step(p) ==
    \/ LookForPlan(p)
    \/ ReadPlan(p)
    \/ OpenLog(p)
    \/ AppendLine(p)
    \/ CountLines(p)
    \/ OpenTarget(p)
    \/ WriteTarget(p)
    \/ Kill(p)

Next ==
    \/ \E p \in Proc : Command(p) \/ Step(p)
    \/ \E path \in Editable, inPlace \in BOOLEAN,
          content \in {<<i>> : i \in UserItems} \cup {NoFile} :
             Edit(path, content, inPlace)

Spec == Init /\ [][Next]_vars

-----------------------------------------------------------------------------
(* Type invariant.                                                         *)

Order == [path : Path, doc : Item]

CommandRecord ==
    [pc : {"idle", "look", "read", "openLog", "append", "count", "open", "write"},
     from : Path, out : Path, number : Nat, todo : Seq(Order)]

\* Every variable has the type its comment gives it, and a command that is
\* writing has something to write.
TypeOK ==
    /\ files \in [Path -> Seq(Item) \cup {NoFile}]
    /\ proc \in [Proc -> CommandRecord]
    /\ \A p \in Proc : proc[p].pc \in {"open", "write"} => proc[p].todo # <<>>
    /\ strayed \in SUBSET Path
    /\ commands \in 0 .. MaxCommands
    /\ edits \in 0 .. MaxEdits
    /\ kills \in 0 .. MaxKills

-----------------------------------------------------------------------------
(* Safety.                                                                 *)

\* Everything that is in a file or about to be written.
Held ==
    (UNION {ToSet(files[f]) : f \in {f \in Path : files[f] # NoFile}})
       \cup (UNION {{o.doc : o \in ToSet(proc[p].todo)} : p \in Proc})

Validations == {d \in Held : d.is = "validation"}

\* Whatever a validation read, and whoever wrote it, a PASS was given to a
\* manifest that executes nothing and proposes no remote, destructive or
\* hard-gated action, although of the three only two are tested for by name.
PassIsReviewable ==
    \A d \in Validations :
        d.status = "PASS" =>
            d.read.is = "manifest" /\ Reviewable(d.read.manifest)

\* The manifest `proposal create' writes passes its own validation: as long as
\* nobody else writes the plan, a validation of it that fails, among any races
\* and after any crash, has caught it absent or broken: half written, or mixed
\* by two creations that gave it different titles.
OwnPlanIsAccepted ==
    Plan \notin strayed =>
        \A d \in Validations :
            d.of = Plan /\ d.status = "FAIL" => d.read.is \in {"missing", "broken"}

\* Unless a command is killed, a file is empty only while some command has it
\* open and is going to write to it.
EmptyWhileOpen ==
    kills = 0 =>
        \A f \in Path : files[f] = <<>> =>
            \E p \in Proc : \/ At(p, "write") /\ Target(p) = f
                            \/ At(p, "append") /\ proc[p].from = f

\* Appends race, the slower one may overwrite the receipt of the faster, and
\* any of them may be killed: every receipt speaks of an event that is in the
\* log, and its count lies between the event's line and the end of the log.
ReceiptIsInLog ==
    Log \notin strayed =>
        \A d \in Held : d.is = "receipt" /\ d.log = Log =>
            /\ files[Log] # NoFile
            /\ \E k \in DOMAIN files[Log] :
                  files[Log][k] = Event(d.number) /\ k <= d.count
            /\ d.count <= Len(files[Log])

\* No command takes back or changes a line of the log.
LogOnlyGrows ==
    [][Log \notin strayed' /\ files[Log] # NoFile =>
          files'[Log] # NoFile /\ IsPrefix(files[Log], files'[Log])]_vars
===============================================================================
