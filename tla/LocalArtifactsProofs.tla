------------------------- MODULE LocalArtifactsProofs -------------------------
(***************************************************************************)
(* Proofs about LocalArtifacts for any number of commands, any names given *)
(* on command lines, any manifests, edits and kills.                       *)
(***************************************************************************)
EXTENDS LocalArtifacts, FiniteSetTheorems, SequenceTheorems, TLAPS

Pc == {"idle", "look", "read", "openLog", "append", "count", "open", "write"}

Content == Seq(Item) \cup {NoFile}

-----------------------------------------------------------------------------
(* The operators the actions are made of.                                  *)

\* The documents the commands write are items.
LEMMA DocumentsAreItems ==
    /\ Document(DefaultManifest) \in Item
    /\ \A k \in {"schema", "adapter", "markdown", "mixed", "value"} :
          Plain(k) \in Item
    /\ \A n \in Nat : Event(n) \in Item
<1>1. DefaultManifest \in Manifest
  BY DEF DefaultManifest, Manifest, ActionType, Flag
<1>2. Document(DefaultManifest) \in Item
  BY <1>1 DEF Document, Item
<1>3. \A k \in {"schema", "adapter", "markdown", "mixed", "value"} :
         Plain(k) \in Item
  BY DEF Plain, Item
<1>4. \A n \in Nat : Event(n) \in Item
  BY DEF Event, Item
<1> QED
  BY <1>2, <1>3, <1>4

\* The manifest that is created passes the rules.
LEMMA DefaultPasses == Passes(DefaultManifest)
BY ManifestAssumption
   DEF Passes, DefaultManifest, FlagsClosed, MustBlock, Flag, Denied, Granted

\* What passes may be handed to a reviewer.
LEMMA PassesIsReviewable == \A m : Passes(m) => Reviewable(m)
BY DEF Passes, Reviewable, ActionPasses, MustBlock

\* Reading a file gives one of five findings.
LEMMA ParseType == \A content \in Content : Parse(content) \in Reading
<1> SUFFICES ASSUME NEW content \in Content
             PROVE  Parse(content) \in Reading
  OBVIOUS
<1>1. \A k \in {"missing", "broken", "object", "value"} : Plain(k) \in Reading
  BY DEF Plain, Reading
<1>2. CASE content = NoFile \/ Len(content) # 1
  BY <1>1, <1>2 DEF Parse
<1>3. CASE content # NoFile /\ Len(content) = 1
  <2>1. content \in Seq(Item)
    BY <1>3 DEF Content
  <2>2. content[1] \in Item
    BY <2>1, <1>3
  <2>3. content[1].is = "manifest" => content[1] \in Reading
    BY <2>2 DEF Item, ValidationDoc, ReceiptDoc, Reading
  <2>4. content[1].is = "manifest" => Parse(content) = content[1]
    BY <1>3 DEF Parse
  <2>5. content[1].is # "manifest" => \E k \in {"value", "broken", "object"} : Parse(content) = Plain(k)
    BY <1>3 DEF Parse
  <2> QED
    BY <1>1, <2>3, <2>4, <2>5
<1> QED
  BY <1>2, <1>3

\* The number of lines is a number; a log of events has a line for each.
LEMMA LinesType ==
    ASSUME NEW content \in Seq(Item)
    PROVE  /\ Lines(content) \in Nat
           /\ (\A i \in DOMAIN content : content[i].is = "event") =>
                 Lines(content) = Len(content)
<1> DEFINE Others == {i \in DOMAIN content : content[i].is # "event"}
<1>1. IsFiniteSet(Others)
  <2>1. DOMAIN content = 1 .. Len(content) /\ Len(content) \in Nat
    OBVIOUS
  <2>2. IsFiniteSet(1 .. Len(content))
    BY <2>1, FS_Interval
  <2> QED
    BY <2>1, <2>2, FS_Subset
<1>2. Cardinality(Others) \in Nat
  BY <1>1, FS_CardinalityType
<1>3. Lines(content) = Len(content) + (DocLines - 1) * Cardinality(Others)
  BY DEF Lines
<1>4. DocLines - 1 \in Nat
  BY ArtifactsAssumption
<1>5. (DocLines - 1) * Cardinality(Others) \in Nat
  BY <1>2, <1>4
<1>6. ASSUME \A i \in DOMAIN content : content[i].is = "event"
      PROVE  Cardinality(Others) = 0
  <2>1. Others = {}
    BY <1>6
  <2> QED
    BY <2>1, FS_EmptySet
<1>7. (DocLines - 1) * 0 = 0
  BY <1>4
<1> HIDE DEF Others
<1> QED
  BY <1>3, <1>5, <1>6, <1>7

-----------------------------------------------------------------------------
(* Type correctness.                                                       *)

\* A command record with something to write when it is going to write.
Fit(c) == c \in CommandRecord /\ (c.pc \in {"open", "write"} => c.todo # <<>>)

LEMMA OrderType ==
    ASSUME NEW path \in Path, NEW doc \in Item
    PROVE  To(path, doc) \in Order
BY DEF To, Order

LEMMA IdleFits == Fit(Idle)
<1>1. <<>> \in Seq(Order)
  OBVIOUS
<1>2. Plan \in Path /\ Verdict \in Path
  BY ArtifactsAssumption
<1> QED
  BY <1>1, <1>2 DEF Fit, Idle, CommandRecord

\* What a step does to the record of its command.
LEMMA RecordSteps ==
    ASSUME NEW c, Fit(c)
    PROVE  /\ \A pc \in Pc \ {"open", "write"} : Fit([c EXCEPT !.pc = pc])
           /\ c.pc = "open" => Fit([c EXCEPT !.pc = "write"])
           /\ \A doc \in Item : Fit(Writing(c, doc))
           /\ c.todo # <<>> => Fit(Wrote(c))
           /\ \A path : Fit(Cut(c, path))
<1>1. c \in CommandRecord
  BY DEF Fit
<1>2. ASSUME NEW pc \in Pc PROVE [c EXCEPT !.pc = pc] \in CommandRecord
  BY <1>1 DEF CommandRecord, Pc
<1>3. \A pc \in Pc \ {"open", "write"} : Fit([c EXCEPT !.pc = pc])
  BY <1>1, <1>2 DEF Fit, CommandRecord
<1>4. c.pc = "open" => Fit([c EXCEPT !.pc = "write"])
  BY <1>1, <1>2 DEF Fit, CommandRecord, Pc
<1>5. ASSUME NEW doc \in Item PROVE Fit(Writing(c, doc))
  <2>1. c.out \in Path
    BY <1>1 DEF CommandRecord
  <2>2. To(c.out, doc) \in Order
    BY <2>1, OrderType
  <2> DEFINE w == <<To(c.out, doc)>>
  <2>3. w \in Seq(Order) /\ w # <<>>
    BY <2>2
  <2>4. Writing(c, doc) = [c EXCEPT !.pc = "open", !.todo = w]
    BY DEF Writing
  <2> HIDE DEF w
  <2> QED
    BY <1>1, <2>3, <2>4 DEF Fit, CommandRecord
<1>6. ASSUME c.todo # <<>> PROVE Fit(Wrote(c))
  <2>1. CASE Len(c.todo) = 1
    BY <2>1, IdleFits DEF Wrote
  <2>2. CASE Len(c.todo) # 1
    <3>1. c.todo \in Seq(Order)
      BY <1>1 DEF CommandRecord
    <3>2. Len(c.todo) \in Nat \ {0}
      BY <3>1, <1>6, EmptySeq
    <3>3. /\ Tail(c.todo) \in Seq(Order)
          /\ Len(Tail(c.todo)) = Len(c.todo) - 1
      BY <3>1, <1>6, HeadTailProperties
    <3>4. Len(Tail(c.todo)) # 0
      BY <2>2, <3>2, <3>3
    <3>5. ASSUME Tail(c.todo) = <<>> PROVE FALSE
      <4>1. Len(<<>>) # 0
        BY <3>4, <3>5
      <4> QED
        BY <4>1
    <3> QED
      BY <1>1, <2>2, <3>3, <3>5 DEF Wrote, Fit, CommandRecord
  <2> QED
    BY <2>1, <2>2
<1>7. ASSUME NEW path PROVE Fit(Cut(c, path))
  <2>1. c.pc = "write" => c.todo # <<>>
    BY DEF Fit
  <2>2. Fit([c EXCEPT !.pc = "count"])
    BY <1>3 DEF Pc
  <2> QED
    BY <1>6, <2>1, <2>2 DEF Cut
<1> QED
  BY <1>3, <1>4, <1>5, <1>6, <1>7

\* TypeOK, and that a log opened for appending is there.
TypeInv ==
    /\ TypeOK
    /\ \A p \in Proc : At(p, "append") => files[proc[p].from] # NoFile

LEMMA InitType == Init => TypeInv
<1> SUFFICES ASSUME Init PROVE TypeInv
  OBVIOUS
<1>1. \A p \in Proc : proc[p] = Idle
  BY DEF Init
<1>2. Idle \in CommandRecord /\ Idle.pc = "idle"
  BY IdleFits DEF Fit, Idle
<1>3. proc \in [Proc -> CommandRecord]
  BY <1>2 DEF Init
<1>4. files \in [Path -> Seq(Item) \cup {NoFile}]
  BY DEF Init
<1> QED
  BY <1>1, <1>2, <1>3, <1>4, ArtifactsAssumption
     DEF TypeInv, TypeOK, At, Init

\* If a step leaves one record to be checked, and it fits, all do.
LEMMA OneRecord ==
    ASSUME TypeInv, NEW p \in Proc, NEW c, Fit(c),
           proc' = [proc EXCEPT ![p] = c]
    PROVE  /\ proc' \in [Proc -> CommandRecord]
           /\ \A q \in Proc : proc'[q].pc \in {"open", "write"} =>
                                 proc'[q].todo # <<>>
           /\ proc'[p] = c /\ \A q \in Proc \ {p} : proc'[q] = proc[q]
BY DEF TypeInv, TypeOK, Fit

LEMMA Fits == TypeInv => \A p \in Proc : Fit(proc[p])
BY DEF TypeInv, TypeOK, Fit

LEMMA FilesType ==
    TypeInv => /\ files \in [Path -> Content]
               /\ \A p \in Proc : proc[p].from \in Path /\ files[proc[p].from] \in Content
BY DEF TypeInv, TypeOK, Content, CommandRecord

\* Two documents in a row.
LEMMA PairFits ==
    ASSUME NEW a \in Path, NEW b \in Path, NEW d \in Item, NEW e \in Item
    PROVE  Fit([Idle EXCEPT !.pc = "open", !.todo = <<To(a, d), To(b, e)>>])
<1>1. To(a, d) \in Order /\ To(b, e) \in Order
  BY OrderType
<1> DEFINE w == <<To(a, d), To(b, e)>>
<1>2. w \in Seq(Order) /\ w # <<>>
  BY <1>1
<1> HIDE DEF w
<1>3. Fit([Idle EXCEPT !.pc = "open", !.todo = w])
  BY <1>2, IdleFits DEF Fit, CommandRecord
<1> QED
  BY <1>3 DEF w

\* The records commands start with.
LEMMA StartType ==
    ASSUME TypeInv, NEW p \in Proc, NEW c, Fit(c), c.pc # "append",
           NEW strays, strays \subseteq Path, Start(p, c, strays)
    PROVE  TypeInv'
<1>1. proc' = [proc EXCEPT ![p] = c] /\ files' = files
  BY DEF Start
<1>2. commands' \in 0 .. MaxCommands
  BY ArtifactsAssumption DEF Start, TypeInv, TypeOK
<1> QED
  BY <1>1, <1>2, OneRecord DEF Start, TypeInv, TypeOK, At

LEMMA CommandType ==
    ASSUME TypeInv, NEW p \in Proc, Command(p)
    PROVE  TypeInv'
<1> USE ArtifactsAssumption DEF Stray
<1>1. ASSUME NEW out \in Named \cup {Plan}, CreateProposal(p, out)
      PROVE  TypeInv'
  <2> DEFINE c == [Idle EXCEPT !.pc = "open",
                               !.todo = <<To(out, Document(DefaultManifest)),
                                          To(Schema, Plain("schema"))>>]
  <2>1. Fit(c)
    BY PairFits, DocumentsAreItems
  <2>2. c.pc = "open"
    BY DEF Idle
  <2>3. Start(p, c, Stray(out, Plan)) /\ Stray(out, Plan) \subseteq Path
    BY <1>1 DEF CreateProposal
  <2> HIDE DEF c
  <2> QED
    BY <2>1, <2>2, <2>3, StartType
<1>2. ASSUME NEW from \in Named \cup {Plan}, NEW out \in Named \cup {Verdict},
             ValidateProposal(p, from, out)
      PROVE  TypeInv'
  <2> DEFINE c == [Idle EXCEPT !.pc = "look", !.from = from, !.out = out]
  <2>1. Fit(c) /\ c.pc = "look"
    BY IdleFits DEF Fit, CommandRecord, Idle
  <2>2. Start(p, c, Stray(out, Verdict)) /\ Stray(out, Verdict) \subseteq Path
    BY <1>2 DEF ValidateProposal
  <2> HIDE DEF c
  <2> QED
    BY <2>1, <2>2, StartType
<1>3. ASSUME NEW log \in Named \cup {Log}, NEW out \in Named \cup {Receipt},
             AppendEvent(p, log, out)
      PROVE  TypeInv'
  <2> DEFINE c == [Idle EXCEPT !.pc = "openLog", !.from = log, !.out = out,
                               !.number = commands + 1]
  <2>1. commands + 1 \in Nat
    BY DEF TypeInv, TypeOK
  <2>2. Fit(c) /\ c.pc = "openLog"
    BY <2>1, IdleFits DEF Fit, CommandRecord, Idle
  <2> DEFINE s == Stray(log, Log) \cup Stray(out, Receipt)
  <2>3. Start(p, c, s) /\ s \subseteq Path
    BY <1>3 DEF AppendEvent
  <2> HIDE DEF c, s
  <2> QED
    BY <2>2, <2>3, StartType
<1>4. ASSUME NEW out \in Named \cup {Adapter},
             NEW markdown \in Named \cup {Markdown},
             AdapterReport(p, out, markdown)
      PROVE  TypeInv'
  <2> DEFINE c == [Idle EXCEPT !.pc = "open",
                               !.todo = <<To(out, Plain("adapter")),
                                          To(markdown, Plain("markdown"))>>]
  <2>1. Fit(c)
    BY PairFits, DocumentsAreItems
  <2>2. c.pc = "open"
    BY DEF Idle
  <2> DEFINE s == Stray(out, Adapter) \cup Stray(markdown, Markdown)
  <2>3. Start(p, c, s) /\ s \subseteq Path
    BY <1>4 DEF AdapterReport
  <2> HIDE DEF c, s
  <2> QED
    BY <2>1, <2>2, <2>3, StartType
<1> QED
  BY <1>1, <1>2, <1>3, <1>4 DEF Command

\* A step that changes the record of p, and at most one file, which is there
\* afterwards, keeps the types.
LEMMA StepRecord ==
    ASSUME TypeInv, NEW p \in Proc, NEW c, Fit(c),
           proc' = [proc EXCEPT ![p] = c],
           files' \in [Path -> Content],
           \A f \in Path : files'[f] = NoFile => files[f] = NoFile,
           c.pc = "append" => files'[c.from] # NoFile,
           UNCHANGED <<strayed, commands, edits>>, kills' \in 0 .. MaxKills
    PROVE  TypeInv'
<1>1. /\ proc' \in [Proc -> CommandRecord]
      /\ \A q \in Proc : proc'[q].pc \in {"open", "write"} => proc'[q].todo # <<>>
      /\ proc'[p] = c /\ \A q \in Proc \ {p} : proc'[q] = proc[q]
  BY OneRecord
<1>2. TypeOK'
  BY <1>1 DEF TypeInv, TypeOK, Content
<1>3. \A q \in Proc : proc'[q].pc = "append" => files'[proc'[q].from] # NoFile
  BY <1>1 DEF TypeInv, TypeOK, At, CommandRecord
<1> QED
  BY <1>2, <1>3 DEF TypeInv, At

LEMMA FindingType ==
    ASSUME NEW c \in CommandRecord, NEW read \in Reading
    PROVE  Finding(c, read) \in Item
BY DEF Finding, Status, CommandRecord, Item, ValidationDoc

LEMMA ReceiptType ==
    ASSUME NEW c \in CommandRecord, files[c.from] \in Seq(Item)
    PROVE  ReceiptOf(c) \in Item
BY LinesType DEF ReceiptOf, CommandRecord, Item, ReceiptDoc

\* The order a writing command is at.
LEMMA TargetType ==
    ASSUME TypeInv, NEW p \in Proc, proc[p].pc \in {"open", "write"}
    PROVE  Head(proc[p].todo) \in Order /\ Target(p) \in Path
               /\ Head(proc[p].todo).doc \in Item
<1>1. proc[p].todo \in Seq(Order) /\ proc[p].todo # <<>>
  BY DEF TypeInv, TypeOK, CommandRecord
<1>2. Head(proc[p].todo) \in Order
  BY <1>1, HeadTailProperties
<1> QED
  BY <1>2 DEF Target, Order

LEMMA OneFile ==
    ASSUME TypeInv, NEW f \in Path, NEW content \in Seq(Item),
           files' = [files EXCEPT ![f] = content]
    PROVE  /\ files' \in [Path -> Content]
           /\ \A g \in Path : files'[g] = NoFile => files[g] = NoFile
           /\ files'[f] # NoFile
BY ArtifactsAssumption DEF TypeInv, TypeOK, Content

LEMMA StepType ==
    ASSUME TypeInv, NEW p \in Proc, Step(p)
    PROVE  TypeInv'
<1>1. Fit(proc[p]) /\ proc[p] \in CommandRecord /\ kills \in 0 .. MaxKills
  BY Fits DEF TypeInv, TypeOK, Fit
<1>2. /\ files \in [Path -> Content]
      /\ proc[p].from \in Path /\ files[proc[p].from] \in Content
  BY FilesType
<1>3. CASE LookForPlan(p)
  <2>1. Plain("missing") \in Reading
    BY DEF Plain, Reading
  <2> DEFINE c == IF files[proc[p].from] = NoFile
                  THEN Writing(proc[p], Finding(proc[p], Plain("missing")))
                  ELSE [proc[p] EXCEPT !.pc = "read"]
  <2>2. Fit(c)
    BY <1>1, <2>1, FindingType, RecordSteps DEF Pc
  <2>3. c.pc # "append"
    BY <1>1 DEF CommandRecord, Writing
  <2>4. proc' = [proc EXCEPT ![p] = c]
    BY <1>3 DEF LookForPlan
  <2> HIDE DEF c
  <2> QED
    BY <1>1, <1>2, <1>3, <2>2, <2>3, <2>4, StepRecord DEF LookForPlan, counters
<1>4. CASE ReadPlan(p)
  <2> DEFINE read == Parse(files[proc[p].from])
             c == IF read.is \in {"missing", "value"} THEN Idle
                  ELSE Writing(proc[p], Finding(proc[p], read))
  <2>1. read \in Reading
    BY <1>2, ParseType
  <2>2. proc' = [proc EXCEPT ![p] = c]
    BY <1>4 DEF ReadPlan
  <2> HIDE DEF read
  <2>3. Fit(c)
    BY <1>1, <2>1, FindingType, RecordSteps, IdleFits
  <2>4. c.pc # "append"
    BY <1>1 DEF CommandRecord, Writing, Idle
  <2> HIDE DEF c
  <2> QED
    BY <1>1, <1>2, <1>4, <2>2, <2>3, <2>4, StepRecord DEF ReadPlan, counters
<1>5. CASE OpenLog(p)
  <2> DEFINE f == proc[p].from
             content == IF files[f] = NoFile THEN <<>> ELSE files[f]
             c == [proc[p] EXCEPT !.pc = "append"]
  <2>1. content \in Seq(Item) /\ f \in Path
    BY <1>2 DEF Content
  <2>2. Fit(c) /\ c.from = f
    BY <1>1, RecordSteps DEF Pc, CommandRecord
  <2>3. files' = [files EXCEPT ![f] = content] /\ proc' = [proc EXCEPT ![p] = c]
    BY <1>5, <1>1 DEF OpenLog, CommandRecord
  <2> HIDE DEF f, c, content
  <2> QED
    BY <1>1, <1>5, <2>1, <2>2, <2>3, OneFile, StepRecord DEF OpenLog, counters
<1>6. CASE AppendLine(p)
  <2> DEFINE f == proc[p].from
             content == Append(files[f], Event(proc[p].number))
             c == [proc[p] EXCEPT !.pc = "count"]
  <2>1. files[f] # NoFile
    BY <1>6 DEF AppendLine, TypeInv
  <2>2. content \in Seq(Item) /\ f \in Path
    BY <1>1, <1>2, <2>1, DocumentsAreItems DEF Content, CommandRecord
  <2>3. Fit(c) /\ c.pc = "count"
    BY <1>1, RecordSteps DEF Pc, CommandRecord
  <2>4. files' = [files EXCEPT ![f] = content] /\ proc' = [proc EXCEPT ![p] = c]
    BY <1>6, <1>1 DEF AppendLine, CommandRecord
  <2> HIDE DEF f, c, content
  <2> QED
    BY <1>1, <1>6, <2>2, <2>3, <2>4, OneFile, StepRecord DEF AppendLine, counters
<1>7. CASE CountLines(p)
  <2> DEFINE c == IF files[proc[p].from] = NoFile THEN Idle
                  ELSE Writing(proc[p], ReceiptOf(proc[p]))
  <2>1. Fit(c)
    BY <1>1, <1>2, ReceiptType, RecordSteps, IdleFits DEF Content
  <2>2. c.pc # "append"
    BY <1>1 DEF CommandRecord, Writing, Idle
  <2>3. proc' = [proc EXCEPT ![p] = c]
    BY <1>7 DEF CountLines
  <2> HIDE DEF c
  <2> QED
    BY <1>1, <1>2, <1>7, <2>1, <2>2, <2>3, StepRecord DEF CountLines, counters
<1>8. CASE OpenTarget(p)
  <2> DEFINE c == [proc[p] EXCEPT !.pc = "write"]
  <2>1. Fit(c) /\ c.pc = "write"
    BY <1>1, <1>8, RecordSteps DEF OpenTarget, At, CommandRecord
  <2>2. Target(p) \in Path /\ <<>> \in Seq(Item)
    BY <1>8, TargetType DEF OpenTarget, At
  <2>3. files' = [files EXCEPT ![Target(p)] = <<>>] /\ proc' = [proc EXCEPT ![p] = c]
    BY <1>8, <1>1 DEF OpenTarget, CommandRecord
  <2> HIDE DEF c
  <2> QED
    BY <1>1, <1>8, <2>1, <2>2, <2>3, OneFile, StepRecord DEF OpenTarget, counters
<1>9. CASE WriteTarget(p)
  <2> DEFINE c == Wrote(proc[p])
             d == Head(proc[p].todo).doc
  <2>1. Fit(c)
    BY <1>1, <1>9, RecordSteps DEF WriteTarget, At, Fit
  <2>2. c.pc # "append"
    BY <1>1 DEF Wrote, Idle, CommandRecord
  <2>3. Target(p) \in Path /\ d \in Item
    BY <1>9, TargetType DEF WriteTarget, At
  <2>4. proc' = [proc EXCEPT ![p] = c]
    BY <1>9 DEF WriteTarget
  <2>5. Plain("mixed") \in Item
    BY DocumentsAreItems
  <2> HIDE DEF c, d
  <2>6. \E content \in Seq(Item) : files' = [files EXCEPT ![Target(p)] = content]
    <3>1. <<d>> \in Seq(Item) /\ <<Plain("mixed")>> \in Seq(Item)
      BY <2>3, <2>5
    <3>2. PICK left \in {<<>>, <<Plain("mixed")>>} :
             files' = [files EXCEPT ![Target(p)] = IF left = <<>> THEN <<d>> ELSE left]
      BY <1>9 DEF WriteTarget, d
    <3> QED
      BY <3>1, <3>2
  <2> QED
    BY <1>1, <1>9, <2>1, <2>2, <2>3, <2>4, <2>6, OneFile, StepRecord
       DEF WriteTarget, counters
<1>10. CASE Kill(p)
  <2>1. Idle.pc # "append" /\ kills' \in 0 .. MaxKills
    BY <1>1, <1>10, ArtifactsAssumption DEF Kill, Idle
  <2> QED
    BY <1>1, <1>2, <1>10, <2>1, IdleFits, StepRecord DEF Kill
<1> QED
  BY <1>3, <1>4, <1>5, <1>6, <1>7, <1>8, <1>9, <1>10 DEF Step

\* A command that still appends after its file was renamed had another file.
LEMMA CutAppends ==
    ASSUME NEW c \in CommandRecord, NEW path, Cut(c, path).pc = "append"
    PROVE  c.pc = "append" /\ Cut(c, path) = c /\ c.from # path
<1>1. Wrote(c).pc # "append"
  BY DEF Wrote, Idle, CommandRecord
<1>2. [c EXCEPT !.pc = "count"].pc # "append"
  BY DEF CommandRecord
<1>3. Cut(c, path) # Wrote(c) /\ Cut(c, path) # [c EXCEPT !.pc = "count"]
  BY <1>1, <1>2
<1> QED
  BY <1>3 DEF Cut

\* A file that is written and then renamed away takes its writers with it.
LEMMA EditType ==
    ASSUME TypeInv, NEW path \in Editable, NEW inPlace \in BOOLEAN,
           NEW content \in {<<i>> : i \in UserItems} \cup {NoFile},
           Edit(path, content, inPlace)
    PROVE  TypeInv'
<1>1. path \in Path /\ content \in Content
  <2>1. \A i \in UserItems : i \in Item
    BY ArtifactsAssumption
  <2>2. \A i \in Item : <<i>> \in Seq(Item)
    OBVIOUS
  <2>3. path \in Path
    BY ArtifactsAssumption
  <2>4. CASE content = NoFile
    BY <2>3, <2>4 DEF Content
  <2>5. CASE content # NoFile
    <3>1. PICK i \in UserItems : content = <<i>>
      BY <2>5
    <3> QED
      BY <2>1, <2>2, <2>3, <3>1 DEF Content
  <2> QED
    BY <2>4, <2>5
<1>2. files' \in [Path -> Content] /\ files' = [files EXCEPT ![path] = content]
  BY <1>1, FilesType DEF Edit
<1>3. \A p \in Proc : Fit(IF inPlace THEN proc[p] ELSE Cut(proc[p], path))
  BY Fits, RecordSteps
<1>4. \A p \in Proc : proc'[p] = IF inPlace THEN proc[p] ELSE Cut(proc[p], path)
  BY DEF Edit
<1>5. proc' \in [Proc -> CommandRecord]
  BY <1>3 DEF Edit, Fit
<1>6. \A p \in Proc : proc'[p].pc \in {"open", "write"} => proc'[p].todo # <<>>
  BY <1>3, <1>4 DEF Fit
<1>7. TypeOK'
  BY <1>1, <1>2, <1>5, <1>6, ArtifactsAssumption DEF TypeInv, TypeOK, Edit, Content
<1>8. ASSUME NEW p \in Proc, proc'[p].pc = "append"
      PROVE  files'[proc'[p].from] # NoFile
  <2>1. proc[p] \in CommandRecord
    BY DEF TypeInv, TypeOK
  <2>2. proc[p].pc = "append" /\ proc'[p] = proc[p]
    BY <1>4, <1>8, <2>1, CutAppends
  <2>3. files[proc[p].from] # NoFile /\ proc[p].from \in Path
    BY <2>1, <2>2 DEF TypeInv, At, CommandRecord
  <2>4. inPlace \/ proc[p].from # path
    BY <1>4, <1>8, <2>1, CutAppends
  <2>5. inPlace => content # NoFile
    BY DEF Edit
  <2> QED
    BY <1>2, <2>2, <2>3, <2>4, <2>5, FilesType
<1> QED
  BY <1>7, <1>8 DEF TypeInv, At

LEMMA NextType == TypeInv /\ [Next]_vars => TypeInv'
<1> SUFFICES ASSUME TypeInv, [Next]_vars PROVE TypeInv'
  OBVIOUS
<1>1. CASE UNCHANGED vars
  BY <1>1 DEF vars, TypeInv, TypeOK, At
<1>2. CASE Next
  BY <1>2, CommandType, StepType, EditType DEF Next
<1> QED
  BY <1>1, <1>2

\* Every variable keeps its type, and what is being written is never empty.
THEOREM ArtifactsTypeCorrect == Spec => []TypeOK
<1>1. Spec => []TypeInv
  BY InitType, NextType, PTL DEF Spec
<1>2. TypeInv => TypeOK
  BY DEF TypeInv
<1> QED
  BY <1>1, <1>2, PTL

-----------------------------------------------------------------------------
(* What a step does, said once for all invariants: which documents a       *)
(* command newly turns to, how a file changes, what records keep.          *)

Orders(c) == ToSet(c.todo)


\* Commands turn to documents of four kinds; only `proposal create' writes
\* to the plan, and nothing is written over the log, unless they are named.
NewOrder(p, o) ==
    \/ /\ o.doc.is \notin {"validation", "receipt"}
       /\ o.path = Plan /\ Plan \notin strayed' => o.doc = Document(DefaultManifest)
       /\ o.path = Log => Log \in strayed'
    \/ At(p, "look") /\ o = To(proc[p].out, Finding(proc[p], Plain("missing")))
    \/ /\ At(p, "read")
       /\ o = To(proc[p].out, Finding(proc[p], Parse(files[proc[p].from])))
    \/ /\ At(p, "count") /\ files[proc[p].from] # NoFile
       /\ o = To(proc[p].out, ReceiptOf(proc[p]))

OrdersKept ==
    \A p \in Proc : \A o \in Orders(proc'[p]) :
        o \in Orders(proc[p]) \/ NewOrder(p, o)

Change(f) ==
    \/ f \in strayed' /\ files'[f] \in {NoFile} \cup {<<i>> : i \in UserItems}
    \/ \E p \in Proc : /\ At(p, "openLog") /\ f = proc[p].from
                       /\ files[f] = NoFile /\ files'[f] = <<>>
    \/ \E p \in Proc : /\ At(p, "append") /\ f = proc[p].from
                       /\ files'[f] = Append(files[f], Event(proc[p].number))
    \/ \E p \in Proc : At(p, "open") /\ f = Target(p) /\ files'[f] = <<>>
    \/ \E p \in Proc : /\ At(p, "write") /\ f = Target(p)
                       /\ \/ files'[f] = <<Head(proc[p].todo).doc>>
                          \/ files'[f] = <<Plain("mixed")>>

FilesKept == \A f \in Path : files'[f] = files[f] \/ Change(f)

\* Outputs and logs are the usual ones or strayed; a command that is going to
\* count has counted on before, has appended its line, or has lost its file.
RecordsKept ==
    \A p \in Proc :
        LET c == proc[p]
            d == proc'[p]
        IN  /\ d.out = c.out \/ (\A f \in {Plan, Log} : d.out = f => f \in strayed')
            /\ d.pc \in {"openLog", "append"} =>
                  \/ c.pc \in {"openLog", "append"} /\ d.from = c.from
                  \/ d.from = Plan => Plan \in strayed'
            /\ d.pc = "count" =>
                  \/ d.from \in strayed'
                  \/ /\ c.pc \in {"append", "count"}
                     /\ d.from = c.from /\ d.number = c.number
                     /\ c.pc = "append" =>
                           files'[c.from] = Append(files[c.from], Event(c.number))

Kept == OrdersKept /\ FilesKept /\ RecordsKept /\ strayed \subseteq strayed'

\* What the operators of the actions do to the documents to be written.
LEMMA OrderSteps ==
    ASSUME NEW c, Fit(c)
    PROVE  /\ \A pc : Orders([c EXCEPT !.pc = pc]) = Orders(c)
           /\ \A doc : Orders(Writing(c, doc)) = {To(c.out, doc)}
           /\ c.todo # <<>> => Orders(Wrote(c)) \subseteq Orders(c)
           /\ \A path : Orders(Cut(c, path)) \subseteq Orders(c)
           /\ Orders(Idle) = {}
<1>1. c \in CommandRecord /\ c.todo \in Seq(Order)
  BY DEF Fit, CommandRecord
<1>2. \A pc : Orders([c EXCEPT !.pc = pc]) = Orders(c)
  BY <1>1 DEF Orders, CommandRecord
<1>3. ASSUME NEW doc PROVE Orders(Writing(c, doc)) = {To(c.out, doc)}
  <2> DEFINE w == <<To(c.out, doc)>>
  <2>1. Writing(c, doc).todo = w
    BY <1>1 DEF Writing, CommandRecord
  <2>2. DOMAIN w = {1} /\ w[1] = To(c.out, doc)
    OBVIOUS
  <2> HIDE DEF w
  <2> QED
    BY <2>1, <2>2 DEF Orders, ToSet
<1>4. Orders(Idle) = {}
  <2>1. DOMAIN <<>> = {}
    OBVIOUS
  <2> QED
    BY <2>1 DEF Orders, ToSet, Idle
<1>5. ASSUME c.todo # <<>> PROVE Orders(Wrote(c)) \subseteq Orders(c)
  <2>1. CASE Len(c.todo) = 1
    BY <1>4, <2>1 DEF Wrote
  <2>2. CASE Len(c.todo) # 1
    <3>1. Wrote(c).todo = Tail(c.todo)
      BY <1>1, <2>2 DEF Wrote, CommandRecord
    <3>2. \A i \in DOMAIN Tail(c.todo) :
             i + 1 \in DOMAIN c.todo /\ Tail(c.todo)[i] = c.todo[i + 1]
      BY <1>1, <1>5
    <3> QED
      BY <3>1, <3>2 DEF Orders, ToSet
  <2> QED
    BY <2>1, <2>2
<1>6. ASSUME NEW path PROVE Orders(Cut(c, path)) \subseteq Orders(c)
  <2>1. c.pc = "write" => c.todo # <<>>
    BY DEF Fit
  <2> QED
    BY <1>2, <1>5, <2>1 DEF Cut
<1> QED
  BY <1>2, <1>3, <1>4, <1>5, <1>6

\* A command that starts or goes on alone.
LEMMA KeptByOne ==
    ASSUME TypeInv, NEW p \in Proc, NEW c, proc' = [proc EXCEPT ![p] = c],
           \A o \in Orders(c) : o \in Orders(proc[p]) \/ NewOrder(p, o),
           FilesKept, strayed \subseteq strayed',
           c.out = proc[p].out \/ (\A f \in {Plan, Log} : c.out = f => f \in strayed'),
           c.pc \in {"openLog", "append"} =>
              \/ proc[p].pc \in {"openLog", "append"} /\ c.from = proc[p].from
              \/ c.from = Plan => Plan \in strayed',
           c.pc = "count" =>
              /\ proc[p].pc = "append"
              /\ c.from = proc[p].from /\ c.number = proc[p].number
              /\ files'[c.from] = Append(files[c.from], Event(c.number))
    PROVE  Kept
<1>1. proc'[p] = c /\ \A q \in Proc \ {p} : proc'[q] = proc[q]
  BY DEF TypeInv, TypeOK
<1>2. OrdersKept
  BY <1>1 DEF OrdersKept
<1>3. RecordsKept
  <2>1. ASSUME NEW q \in Proc, q # p
        PROVE  /\ proc'[q].out = proc[q].out
               /\ proc'[q] = proc[q]
    BY <1>1, <2>1
  <2> QED
    BY <1>1, <2>1 DEF RecordsKept
<1> QED
  BY <1>2, <1>3 DEF Kept

\* The orders of two documents in a row.
LEMMA PairOrders ==
    ASSUME NEW x, NEW y, NEW c, c.todo = <<x, y>>
    PROVE  Orders(c) = {x, y}
<1> DEFINE w == <<x, y>>
<1>1. DOMAIN w = {1, 2} /\ w[1] = x /\ w[2] = y
  OBVIOUS
<1>2. c.todo = w
  OBVIOUS
<1> HIDE DEF w
<1> QED
  BY <1>1, <1>2 DEF Orders, ToSet

\* A command that starts: what it writes is no report yet.
LEMMA StartKept ==
    ASSUME TypeInv, NEW p \in Proc, NEW c, NEW strays, Start(p, c, strays),
           c.pc # "count",
           \A o \in Orders(c) : NewOrder(p, o),
           \A f \in {Plan, Log} : c.out = f => f \in strays,
           c.pc \in {"openLog", "append"} /\ c.from = Plan => Plan \in strays
    PROVE  Kept
<1>1. /\ proc' = [proc EXCEPT ![p] = c] /\ files' = files
      /\ strayed' = strayed \cup strays
  BY DEF Start
<1>2. FilesKept
  BY <1>1 DEF FilesKept
<1> QED
  BY <1>1, <1>2, KeptByOne

LEMMA CommandKept ==
    ASSUME TypeInv, NEW p \in Proc, Command(p)
    PROVE  Kept
<1> USE ArtifactsAssumption
<1>0. Idle = [pc |-> "idle", from |-> Plan, out |-> Verdict, number |-> 0,
              todo |-> <<>>]
  BY DEF Idle
<1>1. ASSUME NEW out \in Named \cup {Plan}, CreateProposal(p, out)
      PROVE  Kept
  <2> DEFINE x == To(out, Document(DefaultManifest))
             y == To(Schema, Plain("schema"))
             w == <<x, y>>
             c == [Idle EXCEPT !.pc = "open", !.todo = w]
  <2>1. Start(p, c, Stray(out, Plan))
    BY <1>1 DEF CreateProposal
  <2>2. strayed' = strayed \cup Stray(out, Plan)
    BY <2>1 DEF Start
  <2>3. NewOrder(p, x) /\ NewOrder(p, y)
    BY <2>2 DEF NewOrder, To, Document, Plain, Stray
  <2> HIDE DEF x, y
  <2>4. c.todo = <<x, y>>
    BY <1>0
  <2> HIDE DEF w
  <2>5. c.pc = "open" /\ c.out = Verdict
    BY <1>0
  <2> HIDE DEF c
  <2>6. Orders(c) = {x, y}
    BY <2>4, PairOrders
  <2> QED
    BY <2>1, <2>3, <2>5, <2>6, StartKept
<1>2. ASSUME NEW from \in Named \cup {Plan}, NEW out \in Named \cup {Verdict},
             ValidateProposal(p, from, out)
      PROVE  Kept
  <2> DEFINE c == [Idle EXCEPT !.pc = "look", !.from = from, !.out = out]
  <2>1. Start(p, c, Stray(out, Verdict))
    BY <1>2 DEF ValidateProposal
  <2>2. c.pc = "look" /\ c.out = out /\ c.todo = <<>> /\ Idle.todo = <<>>
    BY <1>0
  <2>3. Orders(c) = {}
    BY <2>2, IdleFits, OrderSteps DEF Orders
  <2>4. \A f \in {Plan, Log} : c.out = f => f \in Stray(out, Verdict)
    BY <2>2 DEF Stray
  <2> HIDE DEF c
  <2> QED
    BY <2>1, <2>2, <2>3, <2>4, StartKept
<1>3. ASSUME NEW log \in Named \cup {Log}, NEW out \in Named \cup {Receipt},
             AppendEvent(p, log, out)
      PROVE  Kept
  <2> DEFINE c == [Idle EXCEPT !.pc = "openLog", !.from = log, !.out = out,
                               !.number = commands + 1]
             s == Stray(log, Log) \cup Stray(out, Receipt)
  <2>1. Start(p, c, s)
    BY <1>3 DEF AppendEvent
  <2>2. c.pc = "openLog" /\ c.out = out /\ c.from = log /\ c.todo = <<>> /\ Idle.todo = <<>>
    BY <1>0
  <2>3. Orders(c) = {}
    BY <2>2, IdleFits, OrderSteps DEF Orders
  <2>4. \A f \in {Plan, Log} : c.out = f => f \in s
    BY <2>2 DEF Stray
  <2>5. c.from = Plan => Plan \in s
    BY <2>2 DEF Stray
  <2> HIDE DEF c, s
  <2> QED
    BY <2>1, <2>2, <2>3, <2>4, <2>5, StartKept
<1>4. ASSUME NEW out \in Named \cup {Adapter},
             NEW markdown \in Named \cup {Markdown},
             AdapterReport(p, out, markdown)
      PROVE  Kept
  <2> DEFINE x == To(out, Plain("adapter"))
             y == To(markdown, Plain("markdown"))
             w == <<x, y>>
             c == [Idle EXCEPT !.pc = "open", !.todo = w]
             s == Stray(out, Adapter) \cup Stray(markdown, Markdown)
  <2>1. Start(p, c, s)
    BY <1>4 DEF AdapterReport
  <2>2. strayed' = strayed \cup s
    BY <2>1 DEF Start
  <2>3. NewOrder(p, x) /\ NewOrder(p, y)
    BY <2>2 DEF NewOrder, To, Plain, Stray
  <2> HIDE DEF x, y, s
  <2>4. c.todo = <<x, y>>
    BY <1>0
  <2> HIDE DEF w
  <2>5. c.pc = "open" /\ c.out = Verdict
    BY <1>0
  <2> HIDE DEF c
  <2>6. Orders(c) = {x, y}
    BY <2>4, PairOrders
  <2> QED
    BY <2>1, <2>3, <2>5, <2>6, StartKept
<1> QED
  BY <1>1, <1>2, <1>3, <1>4 DEF Command

LEMMA StepKept ==
    ASSUME TypeInv, NEW p \in Proc, Step(p)
    PROVE  Kept
<1>1. Fit(proc[p]) /\ proc[p] \in CommandRecord
  BY Fits DEF Fit
<1>2. /\ files \in [Path -> Content]
      /\ proc[p].from \in Path
  BY FilesType
<1>3. /\ Idle.out = Verdict /\ Idle.pc = "idle" /\ Orders(Idle) = {}
      /\ Verdict \notin {Plan, Log}
  BY <1>1, OrderSteps, ArtifactsAssumption DEF Idle
<1>4. strayed' = strayed
  BY DEF Step, LookForPlan, ReadPlan, OpenLog, AppendLine, CountLines,
         OpenTarget, WriteTarget, Kill
<1>5. ASSUME NEW pc \in Pc
      PROVE  LET d == [proc[p] EXCEPT !.pc = pc]
             IN  d.pc = pc /\ d.out = proc[p].out /\ d.from = proc[p].from
                    /\ d.number = proc[p].number
  BY <1>1 DEF CommandRecord
<1>6. ASSUME NEW doc
      PROVE  LET d == Writing(proc[p], doc)
             IN  d.pc = "open" /\ d.out = proc[p].out
  BY <1>1 DEF CommandRecord, Writing
<1>7. CASE LookForPlan(p)
  <2> DEFINE doc == Finding(proc[p], Plain("missing"))
  <2>1. CASE files[proc[p].from] = NoFile
    <3> DEFINE c == Writing(proc[p], doc)
    <3>1. proc' = [proc EXCEPT ![p] = c] /\ files' = files /\ At(p, "look")
      BY <1>7, <2>1 DEF LookForPlan
    <3>2. \A o \in Orders(c) : NewOrder(p, o)
      BY <1>1, <3>1, OrderSteps DEF NewOrder
    <3> QED
      BY <1>4, <1>6, <3>1, <3>2, KeptByOne DEF FilesKept
  <2>2. CASE files[proc[p].from] # NoFile
    <3> DEFINE c == [proc[p] EXCEPT !.pc = "read"]
    <3>1. proc' = [proc EXCEPT ![p] = c] /\ files' = files
      BY <1>7, <2>2 DEF LookForPlan
    <3>2. Orders(c) = Orders(proc[p])
      BY <1>1, OrderSteps
    <3>3. c.pc = "read" /\ c.out = proc[p].out
      BY <1>5 DEF Pc
    <3> HIDE DEF c
    <3> QED
      BY <1>4, <3>1, <3>2, <3>3, KeptByOne DEF FilesKept
  <2> QED
    BY <2>1, <2>2
<1>8. CASE ReadPlan(p)
  <2> DEFINE read == Parse(files[proc[p].from])
             c == IF read.is \in {"missing", "value"} THEN Idle
                  ELSE Writing(proc[p], Finding(proc[p], read))
  <2>1. proc' = [proc EXCEPT ![p] = c] /\ files' = files /\ At(p, "read")
    BY <1>8 DEF ReadPlan
  <2>2. \A o \in Orders(c) : NewOrder(p, o)
    BY <1>1, <1>3, <2>1, OrderSteps DEF NewOrder
  <2>3. c.pc \in {"idle", "open"} /\ c.out \in {Verdict, proc[p].out}
    BY <1>3, <1>6
  <2> HIDE DEF c, read
  <2> QED
    BY <1>3, <1>4, <2>1, <2>2, <2>3, KeptByOne DEF FilesKept
<1>9. CASE OpenLog(p)
  <2> DEFINE c == [proc[p] EXCEPT !.pc = "append"]
  <2>1. /\ proc' = [proc EXCEPT ![p] = c] /\ At(p, "openLog")
        /\ files' = [files EXCEPT ![proc[p].from] = IF @ = NoFile THEN <<>> ELSE @]
    BY <1>1, <1>9 DEF OpenLog, CommandRecord
  <2>2. Orders(c) = Orders(proc[p])
    BY <1>1, OrderSteps
  <2>3. c.pc = "append" /\ c.out = proc[p].out /\ c.from = proc[p].from
    BY <1>5 DEF Pc
  <2>4. FilesKept
    BY <1>2, <2>1 DEF FilesKept, Change
  <2> HIDE DEF c
  <2> QED
    BY <1>4, <2>1, <2>2, <2>3, <2>4, KeptByOne DEF At
<1>10. CASE AppendLine(p)
  <2> DEFINE c == [proc[p] EXCEPT !.pc = "count"]
             content == Append(files[proc[p].from], Event(proc[p].number))
  <2>1. /\ proc' = [proc EXCEPT ![p] = c] /\ At(p, "append")
        /\ files' = [files EXCEPT ![proc[p].from] = content]
    BY <1>1, <1>10 DEF AppendLine, CommandRecord
  <2>2. Orders(c) = Orders(proc[p])
    BY <1>1, OrderSteps
  <2>3. /\ c.pc = "count" /\ c.out = proc[p].out /\ c.from = proc[p].from
        /\ c.number = proc[p].number
    BY <1>5 DEF Pc
  <2>4. files'[proc[p].from] = content
    BY <1>2, <2>1
  <2>5. FilesKept
    BY <1>2, <2>1 DEF FilesKept, Change
  <2>6. files'[c.from] = Append(files[c.from], Event(c.number))
    BY <2>3, <2>4
  <2> HIDE DEF c, content
  <2> QED
    BY <1>4, <2>1, <2>2, <2>3, <2>5, <2>6, KeptByOne DEF At
<1>11. CASE CountLines(p)
  <2>1. files' = files /\ At(p, "count")
    BY <1>11 DEF CountLines
  <2>2. CASE files[proc[p].from] = NoFile
    <3>1. proc' = [proc EXCEPT ![p] = Idle]
      BY <1>11, <2>2 DEF CountLines
    <3> QED
      BY <1>3, <1>4, <2>1, <3>1, KeptByOne DEF FilesKept
  <2>3. CASE files[proc[p].from] # NoFile
    <3> DEFINE c == Writing(proc[p], ReceiptOf(proc[p]))
    <3>1. proc' = [proc EXCEPT ![p] = c]
      BY <1>11, <2>3 DEF CountLines
    <3>2. \A o \in Orders(c) : NewOrder(p, o)
      BY <1>1, <2>1, <2>3, OrderSteps DEF NewOrder
    <3> QED
      BY <1>4, <1>6, <2>1, <3>1, <3>2, KeptByOne DEF FilesKept
  <2> QED
    BY <2>2, <2>3
<1>12. CASE OpenTarget(p)
  <2> DEFINE c == [proc[p] EXCEPT !.pc = "write"]
  <2>1. /\ proc' = [proc EXCEPT ![p] = c] /\ At(p, "open")
        /\ files' = [files EXCEPT ![Target(p)] = <<>>]
    BY <1>1, <1>12 DEF OpenTarget, CommandRecord
  <2>2. Orders(c) = Orders(proc[p])
    BY <1>1, OrderSteps
  <2>3. c.pc = "write" /\ c.out = proc[p].out
    BY <1>5 DEF Pc
  <2>4. FilesKept
    BY <1>2, <2>1 DEF FilesKept, Change
  <2> HIDE DEF c
  <2> QED
    BY <1>4, <2>1, <2>2, <2>3, <2>4, KeptByOne
<1>13. CASE WriteTarget(p)
  <2> DEFINE c == Wrote(proc[p])
  <2>1. proc' = [proc EXCEPT ![p] = c] /\ At(p, "write")
    BY <1>13 DEF WriteTarget
  <2>2. \A o \in Orders(c) : o \in Orders(proc[p])
    BY <1>1, <2>1, OrderSteps DEF Fit, At
  <2>3. c.pc \in {"idle", "open"} /\ c.out \in {Verdict, proc[p].out}
    BY <1>1, <1>3 DEF Wrote, CommandRecord
  <2>4. FilesKept
    <3>1. PICK left \in {<<>>, <<Plain("mixed")>>} :
             files' = [files EXCEPT ![Target(p)] =
                          IF left = <<>> THEN <<Head(proc[p].todo).doc>> ELSE left]
      BY <1>13 DEF WriteTarget
    <3>2. \A f \in Path : f # Target(p) => files'[f] = files[f]
      BY <1>2, <3>1
    <3>3. \A f \in Path : f = Target(p) =>
             \/ files'[f] = <<Head(proc[p].todo).doc>>
             \/ files'[f] = <<Plain("mixed")>>
      BY <1>2, <3>1
    <3> QED
      BY <2>1, <3>2, <3>3 DEF FilesKept, Change
  <2> HIDE DEF c
  <2> QED
    BY <1>3, <1>4, <2>1, <2>2, <2>3, <2>4, KeptByOne
<1>14. CASE Kill(p)
  <2>1. proc' = [proc EXCEPT ![p] = Idle] /\ files' = files
    BY <1>14 DEF Kill
  <2> QED
    BY <1>3, <1>4, <2>1, KeptByOne DEF FilesKept
<1> QED
  BY <1>7, <1>8, <1>9, <1>10, <1>11, <1>12, <1>13, <1>14 DEF Step

LEMMA EditKept ==
    ASSUME TypeInv, NEW path \in Editable, NEW inPlace \in BOOLEAN,
           NEW content \in {<<i>> : i \in UserItems} \cup {NoFile},
           Edit(path, content, inPlace)
    PROVE  Kept
<1>1. /\ files' = [files EXCEPT ![path] = content]
      /\ strayed' = strayed \cup {path} /\ path \in Path
      /\ \A p \in Proc : proc'[p] = IF inPlace THEN proc[p] ELSE Cut(proc[p], path)
  BY ArtifactsAssumption DEF Edit
<1>2. FilesKept
  BY <1>1, FilesType DEF FilesKept, Change
<1>3. ASSUME NEW p \in Proc PROVE Fit(proc[p]) /\ proc[p] \in CommandRecord
  BY Fits DEF Fit
<1>4. OrdersKept
  BY <1>1, <1>3, OrderSteps DEF OrdersKept
<1>5. ASSUME NEW p \in Proc, NEW c, c = proc[p], NEW d, d = Cut(c, path)
      PROVE  /\ d.out \in {c.out, Verdict}
             /\ d.pc \in {"openLog", "append"} => d = c
             /\ d.pc = "count" => d = c \/ d.from = path
  <2>1. CASE c.pc = "write" /\ Head(c.todo).path = path
    <3>1. d = Wrote(c)
      BY <1>5, <2>1 DEF Cut
    <3> QED
      BY <1>3, <1>5, <3>1 DEF Wrote, Idle, CommandRecord
  <2>2. CASE ~ (c.pc = "write" /\ Head(c.todo).path = path)
             /\ c.pc = "append" /\ c.from = path
    <3>1. d = [c EXCEPT !.pc = "count"]
      BY <1>5, <2>2 DEF Cut
    <3> QED
      BY <1>3, <1>5, <2>2, <3>1 DEF CommandRecord
  <2>3. CASE /\ ~ (c.pc = "write" /\ Head(c.todo).path = path)
             /\ ~ (c.pc = "append" /\ c.from = path)
    BY <1>5, <2>3 DEF Cut
  <2> QED
    BY <2>1, <2>2, <2>3
<1>6. Verdict \notin {Plan, Log}
  BY ArtifactsAssumption
<1>7. RecordsKept
  <2>1. ASSUME NEW p \in Proc
        PROVE  /\ proc'[p].out \in {proc[p].out, Verdict}
               /\ proc'[p].pc \in {"openLog", "append"} => proc'[p] = proc[p]
               /\ proc'[p].pc = "count" => proc'[p] = proc[p] \/ proc'[p].from = path
    BY <1>1, <1>5
  <2> QED
    BY <1>1, <1>6, <2>1 DEF RecordsKept
<1> QED
  BY <1>1, <1>2, <1>4, <1>7 DEF Kept

LEMMA NextKept == TypeInv /\ [Next]_vars => Kept
<1> SUFFICES ASSUME TypeInv, [Next]_vars PROVE Kept
  OBVIOUS
<1>1. CASE UNCHANGED vars
  BY <1>1 DEF vars, Kept, OrdersKept, FilesKept, RecordsKept
<1>2. CASE Next
  BY <1>2, CommandKept, StepKept, EditKept DEF Next
<1> QED
  BY <1>1, <1>2

-----------------------------------------------------------------------------
(* What is held after a step was held before, is no report, or is the      *)
(* report some command has just made.                                      *)

FreshReport(d) ==
    \E p \in Proc :
        \/ At(p, "look") /\ d = Finding(proc[p], Plain("missing"))
        \/ At(p, "read") /\ d = Finding(proc[p], Parse(files[proc[p].from]))
        \/ At(p, "count") /\ files[proc[p].from] # NoFile /\ d = ReceiptOf(proc[p])

InFiles(d) == \E f \in Path : files[f] # NoFile /\ d \in ToSet(files[f])
InOrders(d) == \E p \in Proc : \E o \in Orders(proc[p]) : d = o.doc

LEMMA HeldIs ==
    \A d : /\ d \in Held <=> InFiles(d) \/ InOrders(d)
           /\ d \in Held' => InFiles(d)' \/ InOrders(d)'
BY DEF Held, InFiles, InOrders, Orders

\* The elements of a sequence of one.
LEMMA OneElement == \A x : ToSet(<<x>>) = {x}
<1> SUFFICES ASSUME NEW x PROVE ToSet(<<x>>) = {x}
  OBVIOUS
<1> DEFINE w == <<x>>
<1>1. DOMAIN w = {1} /\ w[1] = x
  OBVIOUS
<1> HIDE DEF w
<1>2. ToSet(w) = {x}
  BY <1>1 DEF ToSet
<1> QED
  BY <1>2 DEF w

LEMMA NoElement == ToSet(<<>>) = {}
BY DEF ToSet

LEMMA AppendElement ==
    ASSUME NEW s \in Seq(Item), NEW x
    PROVE  ToSet(Append(s, x)) = ToSet(s) \cup {x}
<1> DEFINE w == Append(s, x)
<1>1. /\ DOMAIN w = 1 .. Len(s) + 1 /\ DOMAIN s = 1 .. Len(s) /\ Len(s) \in Nat
      /\ w[Len(s) + 1] = x
      /\ \A i \in 1 .. Len(s) : w[i] = s[i]
  OBVIOUS
<1> HIDE DEF w
<1>2. 1 .. Len(s) + 1 = (1 .. Len(s)) \cup {Len(s) + 1}
  BY <1>1
<1>3. ToSet(w) = ToSet(s) \cup {x}
  BY <1>1, <1>2 DEF ToSet
<1> QED
  BY <1>3 DEF w

LEMMA HeldNext ==
    ASSUME TypeInv, Kept, NEW d \in Held'
    PROVE  d \in Held \/ d.is \notin {"validation", "receipt"} \/ FreshReport(d)
<1>1. ASSUME NEW p \in Proc, NEW o \in Orders(proc'[p]), d = o.doc
      PROVE  d \in Held \/ d.is \notin {"validation", "receipt"} \/ FreshReport(d)
  <2>1. CASE o \in Orders(proc[p])
    BY <1>1, <2>1, HeldIs DEF InOrders
  <2>2. CASE NewOrder(p, o)
    BY <1>1, <2>2 DEF NewOrder, To, FreshReport
  <2> QED
    BY <1>1, <2>1, <2>2 DEF Kept, OrdersKept
<1>2. ASSUME NEW f \in Path, files'[f] # NoFile, d \in ToSet(files'[f])
      PROVE  d \in Held \/ d.is \notin {"validation", "receipt"}
  <2>1. CASE files'[f] = files[f]
    BY <1>2, <2>1, HeldIs DEF InFiles
  <2>2. CASE Change(f)
    <3>1. CASE files'[f] \in {<<i>> : i \in UserItems}
      BY <1>2, <3>1, OneElement, ArtifactsAssumption
    <3>2. CASE files'[f] = <<>>
      BY <1>2, <3>2, NoElement
    <3>3. ASSUME NEW p \in Proc, At(p, "append"), f = proc[p].from,
                 files'[f] = Append(files[f], Event(proc[p].number))
          PROVE  d \in Held \/ d.is \notin {"validation", "receipt"}
      <4>1. files[f] \in Seq(Item) /\ files[f] # NoFile
        BY <3>3, FilesType DEF TypeInv, Content
      <4>2. d \in ToSet(files[f]) \/ d = Event(proc[p].number)
        BY <1>2, <3>3, <4>1, AppendElement
      <4> QED
        BY <4>1, <4>2, HeldIs DEF InFiles, Event
    <3>4. ASSUME NEW p \in Proc, At(p, "write"), f = Target(p),
                 files'[f] = <<Head(proc[p].todo).doc>>
          PROVE  d \in Held
      <4>1. proc[p].todo \in Seq(Order) /\ proc[p].todo # <<>>
        BY <3>4 DEF TypeInv, TypeOK, At, CommandRecord
      <4>2. Head(proc[p].todo) \in Orders(proc[p])
        BY <4>1 DEF Orders, ToSet
      <4>3. d = Head(proc[p].todo).doc
        BY <1>2, <3>4, OneElement
      <4> QED
        BY <4>2, <4>3, HeldIs DEF InOrders
    <3>5. CASE files'[f] = <<Plain("mixed")>>
      BY <1>2, <3>5, OneElement DEF Plain
    <3> QED
      BY <1>2, <2>2, <3>1, <3>2, <3>3, <3>4, <3>5 DEF Change
  <2> QED
    BY <2>1, <2>2 DEF Kept, FilesKept
<1>3. InFiles(d)' \/ InOrders(d)'
  BY HeldIs
<1> QED
  BY <1>1, <1>2, <1>3 DEF InFiles, InOrders

-----------------------------------------------------------------------------
(* A PASS is deserved.                                                     *)

\* Every verdict is the one the rules give to what was read.
VerdictInv ==
    \A d \in Validations : d.read \in Reading /\ d.status = Status(d.read)

LEMMA NothingHeld == Init => Held = {}
<1> SUFFICES ASSUME Init PROVE Held = {}
  OBVIOUS
<1>1. \A f \in Path : files[f] = NoFile
  BY DEF Init
<1>2. \A p \in Proc : Orders(proc[p]) = {}
  BY IdleFits, OrderSteps DEF Init
<1> QED
  BY <1>1, <1>2, HeldIs DEF InFiles, InOrders

\* A fresh validation is a finding about a reading.
LEMMA FreshValidation ==
    ASSUME TypeInv, NEW d, FreshReport(d), d.is = "validation"
    PROVE  \E p \in Proc :
              /\ d.of = proc[p].from /\ d.status = Status(d.read)
              /\ \/ At(p, "look") /\ d.read = Plain("missing")
                 \/ At(p, "read") /\ d.read = Parse(files[proc[p].from])
BY DEF FreshReport, Finding, ReceiptOf

LEMMA NextVerdict == TypeInv /\ VerdictInv /\ [Next]_vars => VerdictInv'
<1> SUFFICES ASSUME TypeInv, VerdictInv, [Next]_vars, NEW d \in Validations'
             PROVE  d.read \in Reading /\ d.status = Status(d.read)
  BY DEF VerdictInv
<1>1. d \in Held' /\ d.is = "validation"
  BY DEF Validations
<1>2. d \in Held \/ FreshReport(d)
  BY <1>1, NextKept, HeldNext
<1>3. CASE d \in Held
  BY <1>1, <1>3 DEF VerdictInv, Validations
<1>4. CASE FreshReport(d)
  <2>1. Plain("missing") \in Reading
    BY DEF Plain, Reading
  <2> QED
    BY <1>1, <1>4, <2>1, FreshValidation, FilesType, ParseType
<1> QED
  BY <1>2, <1>3, <1>4

\* PASS is given to nothing but a manifest a reviewer may be handed.
THEOREM PassesAreReviewable == Spec => []PassIsReviewable
<1>1. Init => VerdictInv
  BY NothingHeld DEF VerdictInv, Validations
<1>2. VerdictInv => PassIsReviewable
  BY PassesIsReviewable DEF VerdictInv, PassIsReviewable, Status
<1> QED
  BY <1>1, <1>2, InitType, NextType, NextVerdict, PTL DEF Spec

-----------------------------------------------------------------------------
(* The plan of `proposal create' passes.                                   *)

\* As long as the plan is written by `proposal create' alone, it is absent,
\* half written, what that command writes, or two such texts mixed; and so are
\* the validations.
PlanIs == {NoFile, <<>>, <<Document(DefaultManifest)>>, <<Plain("mixed")>>}

OwnPlan ==
    /\ files[Plan] \in PlanIs
    /\ \A p \in Proc :
          /\ proc[p].out # Plan
          /\ proc[p].pc \in {"openLog", "append"} => proc[p].from # Plan
          /\ \A o \in Orders(proc[p]) :
                o.path = Plan => o.doc = Document(DefaultManifest)
    /\ \A d \in Validations :
          d.of = Plan /\ d.status = "FAIL" => d.read.is \in {"missing", "broken"}

PlanInv == Plan \notin strayed => OwnPlan

\* Reading such a plan passes, or finds it absent or broken.
LEMMA ReadOwnPlan ==
    ASSUME NEW content \in PlanIs
    PROVE  \/ Parse(content).is \in {"missing", "broken"}
           \/ Status(Parse(content)) = "PASS"
<1>1. CASE content = NoFile
  BY <1>1 DEF Parse, Plain
<1>2. CASE content # NoFile /\ content = <<>>
  <2>1. Len(content) # 1
    BY <1>2
  <2> QED
    BY <1>2, <2>1 DEF Parse, Plain
<1>3. CASE content # NoFile /\ content = <<Document(DefaultManifest)>>
  <2> DEFINE d == Document(DefaultManifest)
  <2>1. d.is = "manifest" /\ Status(d) = "PASS"
    BY DefaultPasses DEF Document, Status
  <2> HIDE DEF d
  <2>2. Len(content) = 1 /\ content[1] = d
    BY <1>3 DEF d
  <2> QED
    BY <1>3, <2>1, <2>2 DEF Parse
<1>4. CASE content # NoFile /\ content = <<Plain("mixed")>>
  <2>1. Len(content) = 1 /\ content[1].is = "mixed"
    BY <1>4 DEF Plain
  <2> QED
    BY <1>4, <2>1 DEF Parse, Plain
<1> QED
  BY <1>1, <1>2, <1>3, <1>4 DEF PlanIs

LEMMA InitPlan == Init => PlanInv
<1> SUFFICES ASSUME Init PROVE PlanInv
  OBVIOUS
<1>1. /\ files[Plan] = NoFile
      /\ \A p \in Proc : proc[p] = Idle
  BY ArtifactsAssumption DEF Init
<1>2. Idle.out # Plan /\ Idle.pc = "idle" /\ Orders(Idle) = {}
  BY IdleFits, OrderSteps, ArtifactsAssumption DEF Idle
<1> QED
  BY <1>1, <1>2, NothingHeld DEF PlanInv, OwnPlan, PlanIs, Validations

\* The order a command is carrying out is one of its orders.
LEMMA FirstOrder ==
    ASSUME TypeInv, NEW p \in Proc, proc[p].pc \in {"open", "write"}
    PROVE  Head(proc[p].todo) \in Orders(proc[p])
<1>1. proc[p].todo \in Seq(Order) /\ proc[p].todo # <<>>
  BY DEF TypeInv, TypeOK, CommandRecord
<1> QED
  BY <1>1 DEF Orders, ToSet

LEMMA NextPlan == TypeInv /\ PlanInv /\ [Next]_vars => PlanInv'
<1> SUFFICES ASSUME TypeInv, PlanInv, [Next]_vars, Plan \notin strayed'
             PROVE  OwnPlan'
  BY DEF PlanInv
<1>1. Kept
  BY NextKept
<1>2. OwnPlan
  BY <1>1 DEF PlanInv, Kept
<1>3. Plan \in Path
  BY ArtifactsAssumption
<1>4. files'[Plan] \in PlanIs
  <2>1. ASSUME NEW p \in Proc, At(p, "append"), Plan = proc[p].from
        PROVE  FALSE
    BY <1>2, <2>1 DEF OwnPlan, At
  <2>2. ASSUME NEW p \in Proc, At(p, "write"), Plan = Target(p)
        PROVE  Head(proc[p].todo).doc = Document(DefaultManifest)
    BY <1>2, <2>2, FirstOrder DEF OwnPlan, At, Target
  <2> QED
    BY <1>1, <1>2, <1>3, <2>1, <2>2 DEF Kept, FilesKept, Change, OwnPlan, PlanIs
<1>5. ASSUME NEW p \in Proc
      PROVE  /\ proc'[p].out # Plan
             /\ proc'[p].pc \in {"openLog", "append"} => proc'[p].from # Plan
  BY <1>1, <1>2 DEF Kept, RecordsKept, OwnPlan
<1>6. ASSUME NEW p \in Proc, NEW o \in Orders(proc'[p]), o.path = Plan
      PROVE  o.doc = Document(DefaultManifest)
  <2>1. proc[p].out # Plan
    BY <1>2 DEF OwnPlan
  <2> QED
    BY <1>1, <1>2, <1>6, <2>1 DEF Kept, OrdersKept, NewOrder, To, OwnPlan
<1>7. ASSUME NEW d \in Validations', d.of = Plan, d.status = "FAIL"
      PROVE  d.read.is \in {"missing", "broken"}
  <2>1. d \in Held' /\ d.is = "validation"
    BY DEF Validations
  <2>2. CASE d \in Held
    BY <1>2, <1>7, <2>1, <2>2 DEF OwnPlan, Validations
  <2>3. CASE FreshReport(d)
    <3>1. PICK p \in Proc :
             /\ d.of = proc[p].from /\ d.status = Status(d.read)
             /\ \/ At(p, "look") /\ d.read = Plain("missing")
                \/ At(p, "read") /\ d.read = Parse(files[proc[p].from])
      BY <2>1, <2>3, FreshValidation
    <3>2. CASE d.read = Plain("missing")
      BY <3>2 DEF Plain
    <3>3. CASE d.read = Parse(files[proc[p].from])
      BY <1>2, <1>7, <3>1, <3>3, ReadOwnPlan DEF OwnPlan
    <3> QED
      BY <3>1, <3>2, <3>3
  <2> QED
    BY <1>1, <2>1, <2>2, <2>3, HeldNext
<1> QED
  BY <1>4, <1>5, <1>6, <1>7 DEF OwnPlan

\* The default proposal is accepted by any validation that reads it whole.
THEOREM OwnPlansAreAccepted == Spec => []OwnPlanIsAccepted
<1>1. PlanInv => OwnPlanIsAccepted
  BY DEF PlanInv, OwnPlan, OwnPlanIsAccepted
<1> QED
  BY <1>1, InitType, NextType, InitPlan, NextPlan, PTL DEF Spec

-----------------------------------------------------------------------------
(* The log and its receipts.                                               *)

\* Line k of content c is that of an event.
Logged(c, number, k) ==
    c # NoFile /\ k \in DOMAIN c /\ c[k] = Event(number)

\* As long as nothing else is written to it, the log holds events only, and
\* those it holds that are counted or that a receipt speaks of.
OwnLog ==
    /\ files[Log] # NoFile =>
          \A k \in DOMAIN files[Log] : files[Log][k].is = "event"
    /\ \A p \in Proc :
          /\ proc[p].out # Log
          /\ \A o \in Orders(proc[p]) : o.path # Log
          /\ proc[p].pc = "count" /\ proc[p].from = Log =>
                \E k : Logged(files[Log], proc[p].number, k)
    /\ \A d \in Held : d.is = "receipt" /\ d.log = Log =>
          /\ \E k : Logged(files[Log], d.number, k) /\ k <= d.count
          /\ d.count \in Nat /\ d.count <= Len(files[Log])

LogInv == Log \notin strayed => OwnLog

LEMMA InitLog == Init => LogInv
<1> SUFFICES ASSUME Init PROVE LogInv
  OBVIOUS
<1>1. files[Log] = NoFile /\ \A p \in Proc : proc[p] = Idle
  BY ArtifactsAssumption DEF Init
<1>2. Idle.out # Log /\ Idle.pc = "idle" /\ Orders(Idle) = {}
  BY IdleFits, OrderSteps, ArtifactsAssumption DEF Idle
<1> QED
  BY <1>1, <1>2, NothingHeld DEF LogInv, OwnLog

\* The log stays, is created empty, or grows by the line of a command.
LEMMA LogSteps ==
    ASSUME TypeInv, OwnLog, Kept, Log \notin strayed'
    PROVE  \/ files'[Log] = files[Log]
           \/ files[Log] = NoFile /\ files'[Log] = <<>>
           \/ \E p \in Proc :
                 /\ At(p, "append") /\ proc[p].from = Log
                 /\ files[Log] \in Seq(Item)
                 /\ files'[Log] = Append(files[Log], Event(proc[p].number))
<1>1. Log \in Path
  BY ArtifactsAssumption
<1>2. ASSUME NEW p \in Proc, proc[p].pc \in {"open", "write"}, Log = Target(p)
      PROVE  FALSE
  BY <1>2, FirstOrder DEF OwnLog, Target
<1>3. ASSUME NEW p \in Proc, At(p, "append"), Log = proc[p].from
      PROVE  files[Log] \in Seq(Item)
  BY <1>3, FilesType DEF TypeInv, Content
<1> QED
  BY <1>1, <1>2, <1>3 DEF Kept, FilesKept, Change, At

\* What growing by a line leaves in place.
LEMMA Grown ==
    ASSUME NEW s \in Seq(Item), NEW x
    PROVE  /\ DOMAIN s \subseteq DOMAIN Append(s, x)
           /\ \A k \in DOMAIN s : Append(s, x)[k] = s[k]
           /\ \A k \in DOMAIN Append(s, x) : k \in DOMAIN s \/ Append(s, x)[k] = x
           /\ Len(s) + 1 \in DOMAIN Append(s, x)
           /\ Append(s, x)[Len(s) + 1] = x
           /\ Len(s) \in Nat /\ Len(Append(s, x)) = Len(s) + 1
OBVIOUS

LEMMA NextLog == TypeInv /\ LogInv /\ [Next]_vars => LogInv'
<1> SUFFICES ASSUME TypeInv, LogInv, [Next]_vars, Log \notin strayed'
             PROVE  OwnLog'
  BY DEF LogInv
<1>1. Kept /\ TypeInv'
  BY NextKept, NextType
<1>2. OwnLog
  BY <1>1 DEF LogInv, Kept
<1>3. \/ files'[Log] = files[Log]
      \/ files[Log] = NoFile /\ files'[Log] = <<>>
      \/ \E p \in Proc :
            /\ At(p, "append") /\ proc[p].from = Log
            /\ files[Log] \in Seq(Item)
            /\ files'[Log] = Append(files[Log], Event(proc[p].number))
  BY <1>1, <1>2, LogSteps
<1>4. files'[Log] # NoFile =>
         \A k \in DOMAIN files'[Log] : files'[Log][k].is = "event"
  <2>1. ASSUME NEW p \in Proc, At(p, "append"), proc[p].from = Log,
               files[Log] \in Seq(Item),
               files'[Log] = Append(files[Log], Event(proc[p].number))
        PROVE  \A k \in DOMAIN files'[Log] : files'[Log][k].is = "event"
    <3>1. files[Log] # NoFile
      BY <2>1 DEF TypeInv
    <3>2. \A k \in DOMAIN files[Log] : files[Log][k].is = "event"
      BY <1>2, <3>1 DEF OwnLog
    <3>3. Event(proc[p].number).is = "event"
      BY DEF Event
    <3> QED
      BY <2>1, <3>2, <3>3, Grown
  <2> QED
    BY <1>2, <1>3, <2>1 DEF OwnLog
<1>5. \A number, k : Logged(files[Log], number, k) => Logged(files'[Log], number, k)
  <2>1. ASSUME NEW p \in Proc, At(p, "append"), proc[p].from = Log,
               files[Log] \in Seq(Item),
               files'[Log] = Append(files[Log], Event(proc[p].number)),
               NEW number, NEW k, Logged(files[Log], number, k)
        PROVE  k \in DOMAIN files'[Log] /\ files'[Log][k] = Event(number)
    BY <2>1, Grown DEF Logged
  <2>2. files[Log] # NoFile => files'[Log] # NoFile
    <3>1. \A x : \A s \in Seq(Item) : x \in Item => Append(s, x) \in Seq(Item)
      OBVIOUS
    <3>2. \A p \in Proc : Event(proc[p].number) \in Item
      BY DocumentsAreItems DEF TypeInv, TypeOK, CommandRecord
    <3> QED
      BY <1>3, <3>1, <3>2, ArtifactsAssumption
  <2> QED
    BY <1>3, <2>1, <2>2 DEF Logged
<1>6. ASSUME NEW p \in Proc
      PROVE  /\ proc'[p].out # Log
             /\ \A o \in Orders(proc'[p]) : o.path # Log
  <2>1. proc[p].out # Log /\ \A o \in Orders(proc[p]) : o.path # Log
    BY <1>2 DEF OwnLog
  <2> QED
    BY <1>1, <2>1 DEF Kept, RecordsKept, OrdersKept, NewOrder, To
<1>7. ASSUME NEW p \in Proc, proc'[p].pc = "count", proc'[p].from = Log
      PROVE  \E k : Logged(files'[Log], proc'[p].number, k)
  <2>1. /\ proc[p].pc \in {"append", "count"}
        /\ proc[p].from = Log /\ proc'[p].number = proc[p].number
        /\ proc[p].pc = "append" =>
              files'[Log] = Append(files[Log], Event(proc[p].number))
    BY <1>1, <1>7 DEF Kept, RecordsKept
  <2>2. CASE proc[p].pc = "count"
    BY <1>2, <1>5, <2>1, <2>2 DEF OwnLog
  <2>3. CASE proc[p].pc = "append"
    <3>1. files[Log] \in Seq(Item)
      BY <2>1, <2>3, FilesType DEF TypeInv, At, Content
    <3>2. /\ Len(files[Log]) + 1 \in DOMAIN files'[Log]
          /\ files'[Log][Len(files[Log]) + 1] = Event(proc[p].number)
      BY <2>1, <2>3, <3>1, Grown
    <3>3. files'[Log] # NoFile
      <4>1. Event(proc[p].number) \in Item
        BY DocumentsAreItems DEF TypeInv, TypeOK, CommandRecord
      <4> QED
        BY <2>1, <2>3, <3>1, <4>1, ArtifactsAssumption
    <3> QED
      BY <2>1, <3>2, <3>3 DEF Logged
  <2> QED
    BY <2>1, <2>2, <2>3
<1>8. ASSUME NEW d \in Held', d.is = "receipt", d.log = Log
      PROVE  /\ \E k : Logged(files'[Log], d.number, k) /\ k <= d.count
             /\ d.count \in Nat /\ d.count <= Len(files'[Log])
  <2>1. d \in Held \/ FreshReport(d)
    BY <1>1, <1>8, HeldNext
  <2>2. /\ \E k : Logged(files[Log], d.number, k) /\ k <= d.count
        /\ d.count \in Nat /\ d.count <= Len(files[Log])
    <3>1. CASE d \in Held
      BY <1>2, <1>8, <3>1 DEF OwnLog
    <3>2. CASE FreshReport(d)
      <4>1. PICK p \in Proc :
               At(p, "count") /\ files[proc[p].from] # NoFile /\ d = ReceiptOf(proc[p])
        BY <1>8, <3>2 DEF FreshReport, Finding
      <4>2. /\ proc[p].from = Log /\ d.number = proc[p].number
            /\ d.count = Lines(files[Log])
        BY <1>8, <4>1 DEF ReceiptOf
      <4>3. files[Log] \in Seq(Item)
        BY <4>1, <4>2, FilesType DEF Content
      <4>4. Lines(files[Log]) = Len(files[Log]) /\ Len(files[Log]) \in Nat
        BY <1>2, <4>1, <4>2, <4>3, LinesType DEF OwnLog
      <4>5. PICK k : Logged(files[Log], proc[p].number, k)
        BY <1>2, <4>1, <4>2 DEF OwnLog, At
      <4>6. k <= Len(files[Log])
        BY <4>3, <4>5 DEF Logged
      <4> QED
        BY <4>2, <4>4, <4>5, <4>6
    <3> QED
      BY <2>1, <3>1, <3>2
  <2>3. files[Log] \in Seq(Item)
    BY <2>2, FilesType, ArtifactsAssumption DEF Logged, Content
  <2>4. files[Log] # NoFile
    BY <2>2 DEF Logged
  <2>5. Len(files'[Log]) \in {Len(files[Log]), Len(files[Log]) + 1}
    BY <1>3, <2>3, <2>4, Grown
  <2>6. Len(files[Log]) \in Nat
    BY <2>3
  <2> QED
    BY <1>5, <2>2, <2>5, <2>6
<1> QED
  BY <1>4, <1>6, <1>7, <1>8 DEF OwnLog

\* No receipt speaks of an event that is not in the log.
THEOREM ReceiptsAreInLog == Spec => []ReceiptIsInLog
<1>1. TypeInv /\ LogInv => ReceiptIsInLog
  BY DEF LogInv, OwnLog, ReceiptIsInLog, Logged
<1> QED
  BY <1>1, InitType, NextType, InitLog, NextLog, PTL DEF Spec

\* No command changes a line of the log or takes it back.
THEOREM LogsOnlyGrow == Spec => LogOnlyGrows
<1>1. TypeInv /\ LogInv /\ [Next]_vars =>
         [Log \notin strayed' /\ files[Log] # NoFile =>
             files'[Log] # NoFile /\ IsPrefix(files[Log], files'[Log])]_vars
  <2> SUFFICES ASSUME TypeInv, LogInv, [Next]_vars, Log \notin strayed',
                      files[Log] # NoFile
               PROVE  files'[Log] # NoFile /\ IsPrefix(files[Log], files'[Log])
    OBVIOUS
  <2>1. Kept /\ TypeInv' /\ OwnLog
    BY NextKept, NextType DEF LogInv, Kept
  <2>2. files[Log] \in Seq(Item)
    BY FilesType, ArtifactsAssumption DEF Content
  <2>3. CASE files'[Log] = files[Log]
    BY <2>2, <2>3 DEF IsPrefix
  <2>4. ASSUME NEW x \in Item, files'[Log] = Append(files[Log], x)
        PROVE  files'[Log] # NoFile /\ IsPrefix(files[Log], files'[Log])
    <3>1. files'[Log] \in Seq(Item)
      BY <2>2, <2>4
    <3>2. files'[Log] # NoFile
      BY <3>1, ArtifactsAssumption
    <3>3. \E u \in Seq(Item) : files'[Log] = files[Log] \o u
      <4> DEFINE u == <<x>>
      <4>1. u \in Seq(Item)
        OBVIOUS
      <4>2. files'[Log] = files[Log] \o u
        BY <2>2, <2>4, <4>1
      <4> QED
        BY <4>1, <4>2
    <3> QED
      BY <2>2, <3>1, <3>2, <3>3 DEF IsPrefix
  <2>5. \A p \in Proc : Event(proc[p].number) \in Item
    BY DocumentsAreItems DEF TypeInv, TypeOK, CommandRecord
  <2> QED
    BY <2>1, <2>3, <2>4, <2>5, LogSteps
<1> QED
  BY <1>1, InitType, NextType, InitLog, NextLog, PTL DEF Spec, LogOnlyGrows

-----------------------------------------------------------------------------
(* Empty files.                                                            *)

\* Command p has file f open and is going to write to it.
Opens(p, f) ==
    \/ At(p, "write") /\ Target(p) = f
    \/ At(p, "append") /\ proc[p].from = f

EmptyInv ==
    kills = 0 => \A f \in Path : files[f] = <<>> => \E p \in Proc : Opens(p, f)

\* A step of p that leaves every file as it is but those p then has open, or
\* has written to, keeps the rest.
LEMMA EmptyByOne ==
    ASSUME TypeInv, EmptyInv, NEW p \in Proc, NEW c,
           proc' = [proc EXCEPT ![p] = c], kills' = kills,
           \A f \in Path :
              \/ files'[f] # <<>>
              \/ Opens(p, f)'
              \/ files'[f] = files[f] /\ ~ Opens(p, f)
    PROVE  EmptyInv'
<1>1. \A q \in Proc \ {p} : proc'[q] = proc[q]
  BY DEF TypeInv, TypeOK
<1>2. ASSUME NEW q \in Proc \ {p}, NEW f, Opens(q, f)
      PROVE  Opens(q, f)'
  BY <1>1, <1>2 DEF Opens, At, Target
<1> QED
  BY <1>2 DEF EmptyInv

LEMMA CommandEmpty ==
    ASSUME TypeInv, EmptyInv, NEW p \in Proc, Command(p)
    PROVE  EmptyInv'
<1>1. \E c, strays : Start(p, c, strays)
  BY DEF Command, CreateProposal, ValidateProposal, AppendEvent, AdapterReport
<1>2. PICK c, strays : Start(p, c, strays)
  BY <1>1
<1>3. /\ proc' = [proc EXCEPT ![p] = c] /\ files' = files /\ kills' = kills
      /\ At(p, "idle")
  BY <1>2 DEF Start
<1> QED
  BY <1>3, EmptyByOne DEF Opens, At

LEMMA StepEmpty ==
    ASSUME TypeInv, EmptyInv, NEW p \in Proc, Step(p)
    PROVE  EmptyInv'
<1>1. /\ files \in [Path -> Content] /\ proc[p].from \in Path
      /\ proc[p] \in CommandRecord /\ proc \in [Proc -> CommandRecord]
  BY FilesType DEF TypeInv, TypeOK
<1>2. CASE LookForPlan(p) \/ ReadPlan(p) \/ CountLines(p)
  <2>1. /\ \E c : proc' = [proc EXCEPT ![p] = c]
        /\ files' = files /\ kills' = kills
        /\ proc[p].pc \notin {"write", "append"}
    BY <1>2 DEF LookForPlan, ReadPlan, CountLines, counters, At
  <2> QED
    BY <2>1, EmptyByOne DEF Opens, At
<1>3. CASE OpenLog(p)
  <2> DEFINE c == [proc[p] EXCEPT !.pc = "append"]
  <2>1. /\ proc' = [proc EXCEPT ![p] = c] /\ kills' = kills /\ At(p, "openLog")
        /\ \A f \in Path : f # proc[p].from => files'[f] = files[f]
    BY <1>1, <1>3 DEF OpenLog, counters
  <2>2. proc'[p].pc = "append" /\ proc'[p].from = proc[p].from
    BY <1>1, <2>1 DEF CommandRecord
  <2> HIDE DEF c
  <2>3. \A f : f = proc[p].from => Opens(p, f)'
    BY <2>2 DEF Opens, At
  <2> QED
    BY <2>1, <2>3, EmptyByOne DEF Opens, At
<1>4. CASE AppendLine(p)
  <2>1. files[proc[p].from] \in Seq(Item)
    BY <1>1, <1>4 DEF AppendLine, TypeInv, Content
  <2> DEFINE s == files[proc[p].from]
             t == Append(s, Event(proc[p].number))
  <2>2. t # <<>>
    <3>1. Len(t) = Len(s) + 1 /\ Len(s) \in Nat
      BY <2>1
    <3> HIDE DEF t, s
    <3>2. ASSUME t = <<>> PROVE FALSE
      <4>1. Len(<<>>) # 0
        BY <3>1, <3>2
      <4> QED
        BY <4>1
    <3> QED
      BY <3>2
  <2>3. /\ \E c : proc' = [proc EXCEPT ![p] = c]
        /\ kills' = kills /\ At(p, "append")
        /\ \A f \in Path : f # proc[p].from => files'[f] = files[f]
        /\ files'[proc[p].from] = t
    BY <1>1, <1>4 DEF AppendLine, counters
  <2> HIDE DEF t, s
  <2> QED
    BY <2>2, <2>3, EmptyByOne DEF Opens, At
<1>5. CASE OpenTarget(p)
  <2> DEFINE c == [proc[p] EXCEPT !.pc = "write"]
  <2>1. /\ proc' = [proc EXCEPT ![p] = c] /\ kills' = kills /\ At(p, "open")
        /\ \A f \in Path : f # Target(p) => files'[f] = files[f]
    BY <1>1, <1>5 DEF OpenTarget, counters
  <2>2. proc'[p].pc = "write" /\ proc'[p].todo = proc[p].todo
    BY <1>1, <2>1 DEF CommandRecord
  <2> HIDE DEF c
  <2>3. \A f : f = Target(p) => Opens(p, f)'
    BY <2>2 DEF Opens, At, Target
  <2> QED
    BY <2>1, <2>3, EmptyByOne DEF Opens, At
<1>6. CASE WriteTarget(p)
  <2>1. PICK left \in {<<>>, <<Plain("mixed")>>} :
           files' = [files EXCEPT ![Target(p)] =
                        IF left = <<>> THEN <<Head(proc[p].todo).doc>> ELSE left]
    BY <1>6 DEF WriteTarget
  <2>2. \A x : <<x>> # <<>>
    OBVIOUS
  <2>3. /\ \E c : proc' = [proc EXCEPT ![p] = c]
        /\ kills' = kills /\ At(p, "write")
    BY <1>6 DEF WriteTarget, counters
  <2>4. \A f \in Path : \/ f = Target(p) /\ files'[f] # <<>>
                        \/ f # Target(p) /\ files'[f] = files[f]
    BY <1>1, <2>1, <2>2
  <2> QED
    BY <2>3, <2>4, EmptyByOne DEF Opens, At
<1>7. CASE Kill(p)
  BY <1>7 DEF Kill, TypeInv, TypeOK, EmptyInv
<1> QED
  BY <1>2, <1>3, <1>4, <1>5, <1>6, <1>7 DEF Step

LEMMA EditEmpty ==
    ASSUME TypeInv, EmptyInv, NEW path \in Editable, NEW inPlace \in BOOLEAN,
           NEW content \in {<<i>> : i \in UserItems} \cup {NoFile},
           Edit(path, content, inPlace)
    PROVE  EmptyInv'
<1>1. /\ files' = [files EXCEPT ![path] = content] /\ kills' = kills
      /\ path \in Path
      /\ \A p \in Proc : proc'[p] = IF inPlace THEN proc[p] ELSE Cut(proc[p], path)
  BY ArtifactsAssumption DEF Edit
<1>2. content # <<>>
  <2>1. \A x : <<x>> # <<>>
    OBVIOUS
  <2>2. <<>> \in Seq(Item)
    OBVIOUS
  <2> QED
    BY <2>1, <2>2, ArtifactsAssumption
<1>3. ASSUME NEW p \in Proc, NEW f \in Path \ {path}, Opens(p, f)
      PROVE  Opens(p, f)'
  <2>1. proc'[p] = proc[p]
    BY <1>1, <1>3 DEF Opens, At, Target, Cut
  <2> QED
    BY <1>3, <2>1 DEF Opens, At, Target
<1>4. \A f \in Path \ {path} : files'[f] = files[f]
  BY <1>1, FilesType
<1>5. files'[path] = content
  BY <1>1, FilesType
<1> QED
  BY <1>1, <1>2, <1>3, <1>4, <1>5 DEF EmptyInv

\* Without a crash no command leaves an empty file behind.
THEOREM EmptyOnlyWhileOpen == Spec => []EmptyWhileOpen
<1>1. Init => EmptyInv
  <2>1. <<>> \in Seq(Item)
    OBVIOUS
  <2> QED
    BY <2>1, ArtifactsAssumption DEF Init, EmptyInv
<1>2. TypeInv /\ EmptyInv /\ [Next]_vars => EmptyInv'
  <2> SUFFICES ASSUME TypeInv, EmptyInv, [Next]_vars PROVE EmptyInv'
    OBVIOUS
  <2>1. CASE UNCHANGED vars
    BY <2>1 DEF vars, EmptyInv, Opens, At, Target
  <2> QED
    BY <2>1, CommandEmpty, StepEmpty, EditEmpty DEF Next
<1>3. EmptyInv => EmptyWhileOpen
  BY DEF EmptyInv, EmptyWhileOpen, Opens
<1> QED
  BY <1>1, <1>2, <1>3, InitType, NextType, PTL DEF Spec
===============================================================================
