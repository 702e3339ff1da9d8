------------------------- MODULE ApprovalGatesProofs -------------------------
(***************************************************************************)
(* Proofs about ApprovalGates for any number of commands in progress, any  *)
(* policies the user may save, and any number of commands, edits, kills.   *)
(***************************************************************************)
EXTENDS ApprovalGates, InductionLemmas

Pc == {"idle", "ensure", "create", "write", "load", "read", "answer"}

\* What a policy lists are actions.
LEMMA ListsActions ==
    ASSUME NEW text \in Seq(Line), NEW k \in Section
    PROVE  Listed(text, k) \subseteq Action
<1>1. \A j \in DOMAIN text : text[j] \in Line
  OBVIOUS
<1>2. \A line \in Line : line.is = "item" => line.name \in Action
  BY DEF Line, Headings
<1> QED
  BY <1>1, <1>2 DEF Listed

\* A policy that was truncated and not yet written lists nothing.
LEMMA EmptyListsNothing == \A k : Listed(<<>>, k) = {}
BY DEF Listed

\* A decision is one of three, and a PASS or BLOCKED is due to the lists.
LEMMA DecisionType ==
    ASSUME NEW text, NEW a
    PROVE  /\ Decision(text, a) \in {"PASS", "BLOCKED", "FAIL"}
           /\ Decision(text, a) = "PASS" =>
                 text # NoFile /\ a \in Listed(text, "allowed")
           /\ Decision(text, a) = "BLOCKED" =>
                 text # NoFile /\ a \in Behind(text)
BY DEF Decision

\* The gate report has its type whatever was loaded.
LEMMA ReportType ==
    ASSUME NEW text \in Seq(Line) \cup {NoFile}
    PROVE  GateReport(text) \in [status : {"absent", "PASS", "FAIL"},
                                 allowed : SUBSET Action,
                                 gated : SUBSET Action]
<1>1. CASE text = NoFile
  BY <1>1 DEF GateReport
<1>2. CASE text # NoFile
  <2>1. text \in Seq(Line)
    BY <1>2
  <2>2. Listed(text, "allowed") \subseteq Action
        /\ Listed(text, "gated") \subseteq Action
    BY <2>1, ListsActions DEF Section
  <2> QED
    BY <1>2, <2>2 DEF GateReport
<1> QED
  BY <1>1, <1>2
-----------------------------------------------------------------------------
\* What a step does to the record of its command.
LEMMA CommandStep ==
    ASSUME NEW c \in Command, NEW pc \in Pc, NEW text \in Seq(Line)
    PROVE  /\ Noticed(c) \in Command
           /\ Ensured(c) \in Command
           /\ [c EXCEPT !.pc = pc] \in Command
           /\ [c EXCEPT !.pc = pc, !.read = text] \in Command
           /\ Noticed(c).pc = c.pc /\ Noticed(c).read = c.read
           /\ Noticed(c).alone = FALSE
           /\ Ensured(c).pc \in {"ensure", "load"}
           /\ Ensured(c).read = c.read /\ Ensured(c).alone = c.alone
<1>1. /\ c.pc \in Pc /\ c.action \in Action \cup {NoAction}
      /\ c.again \in BOOLEAN /\ c.alone \in BOOLEAN
      /\ c.read \in Seq(Line) \cup {NoFile}
  BY DEF Command, Pc
<1>2. Noticed(c) \in Command
  BY <1>1 DEF Command, Noticed, Pc
<1>3. Ensured(c) \in Command
  BY <1>1 DEF Command, Ensured, Pc
<1>4. [c EXCEPT !.pc = pc] \in Command
  BY <1>1 DEF Command, Pc
<1>5. [c EXCEPT !.pc = pc, !.read = text] \in Command
  BY <1>1 DEF Command, Pc
<1>6. /\ Noticed(c).pc = c.pc /\ Noticed(c).read = c.read
      /\ Noticed(c).alone = FALSE
  BY DEF Command, Noticed
<1>7. /\ Ensured(c).pc \in {"ensure", "load"}
      /\ Ensured(c).read = c.read /\ Ensured(c).alone = c.alone
  BY DEF Command, Ensured
<1> QED
  BY <1>2, <1>3, <1>4, <1>5, <1>6, <1>7

-----------------------------------------------------------------------------
\* Every action leaves the variables in their types.
LEMMA TypeStep == TypeOK /\ [Next]_vars => TypeOK'
<1> SUFFICES ASSUME TypeOK, [Next]_vars
             PROVE  TypeOK'
  OBVIOUS
<1> USE GatesAssumption
<1>0. Idle \in Command
  BY DEF Idle, Command
<1>a. \A q \in Proc : proc[q] \in Command
  BY DEF TypeOK
<1>1. ASSUME NEW p \in Proc, NEW a \in Action \cup {NoAction},
             NEW again \in BOOLEAN, Ask(p, a, again)
      PROVE  TypeOK'
  <2> DEFINE new == [pc |-> "ensure", action |-> a, again |-> again,
                     read |-> NoFile,
                     alone |-> \A q \in Proc \ {p} : At(q, "idle")]
  <2>1. new \in Command
    BY DEF Command
  <2>2. \A q \in Proc : Noticed(proc[q]) \in Command
    BY <1>a, CommandStep DEF Pc
  <2>3. proc' = [q \in Proc |-> IF q = p THEN new ELSE Noticed(proc[q])]
    BY <1>1 DEF Ask
  <2> HIDE DEF new
  <2>4. proc' \in [Proc -> Command]
    BY <2>1, <2>2, <2>3
  <2>5. commands' \in 0 .. MaxCommands
    BY <1>1 DEF Ask, TypeOK
  <2> QED
    BY <1>1, <2>4, <2>5 DEF Ask, TypeOK
<1>2. ASSUME NEW p \in Proc, FindPolicy(p) \/ WriteDefault(p)
      PROVE  TypeOK'
  <2>1. Ensured(proc[p]) \in Command
    BY <1>a, CommandStep DEF Pc
  <2> QED
    BY <1>2, <2>1 DEF FindPolicy, WriteDefault, TypeOK, counters
<1>3. ASSUME NEW p \in Proc, MissPolicy(p) \/ CreatePolicy(p) \/ LookUp(p)
      PROVE  TypeOK'
  <2>1. \A pc \in Pc : [proc[p] EXCEPT !.pc = pc] \in Command
    BY <1>a, CommandStep
  <2>2. \E pc \in Pc : proc' = [proc EXCEPT ![p].pc = pc]
    BY <1>3 DEF MissPolicy, CreatePolicy, LookUp, Goto, Pc
  <2>3. proc' \in [Proc -> Command]
    BY <2>1, <2>2 DEF TypeOK
  <2>4. file' \in Seq(Line) \cup {NoFile}
    <3>1. <<>> \in Seq(Line)
      OBVIOUS
    <3> QED
      BY <1>3, <3>1 DEF MissPolicy, CreatePolicy, LookUp, TypeOK
  <2> QED
    BY <1>3, <2>3, <2>4 DEF MissPolicy, CreatePolicy, LookUp, TypeOK, counters
<1>4. ASSUME NEW p \in Proc, ReadPolicy(p)
      PROVE  TypeOK'
  <2>1. file # NoFile => [proc[p] EXCEPT !.pc = "answer", !.read = file]
                         \in Command
    BY <1>a, CommandStep DEF TypeOK, Pc
  <2>2. proc' \in [Proc -> Command]
    BY <1>0, <1>4, <2>1 DEF ReadPolicy, TypeOK
  <2> QED
    BY <1>4, <2>2 DEF ReadPolicy, TypeOK, counters
<1>5. ASSUME NEW p \in Proc, Answer(p)
      PROVE  TypeOK'
  <2>1. proc[p].action \in Action
    BY <1>5, <1>a DEF Answer, Command
  <2>2. said' \in [Action -> SUBSET {"PASS", "BLOCKED", "FAIL"}]
    BY <1>5, <2>1, DecisionType DEF Answer, TypeOK
  <2> QED
    BY <1>0, <1>5, <2>2 DEF Answer, TypeOK, counters
<1>6. ASSUME NEW p \in Proc, WriteReport(p)
      PROVE  TypeOK'
  <2>1. proc[p].read \in Seq(Line) \cup {NoFile}
    BY <1>a DEF Command
  <2> QED
    BY <1>0, <1>6, <2>1, ReportType DEF WriteReport, TypeOK, counters
<1>7. ASSUME NEW p \in Proc, Kill(p)
      PROVE  TypeOK'
  BY <1>0, <1>7 DEF Kill, TypeOK
<1>8. ASSUME NEW text \in UserTexts \cup {NoFile}, NEW inPlace \in BOOLEAN,
             Edit(text, inPlace)
      PROVE  TypeOK'
  <2>1. \A q \in Proc : /\ Ensured(proc[q]) \in Command
                        /\ Noticed(proc[q]) \in Command
                        /\ Noticed(Ensured(proc[q])) \in Command
    BY <1>a, CommandStep DEF Pc
  <2>2. proc' \in [Proc -> Command]
    BY <1>8, <2>1 DEF Edit
  <2>3. edits' \in 0 .. MaxEdits
    BY <1>8 DEF Edit, TypeOK
  <2> QED
    BY <1>8, <2>2, <2>3 DEF Edit, TypeOK
<1>9. CASE UNCHANGED vars
  BY <1>9 DEF vars, TypeOK
<1> QED
  BY <1>1, <1>2, <1>3, <1>4, <1>5, <1>6, <1>7, <1>8, <1>9 DEF Next, Step

-----------------------------------------------------------------------------
(* The inductive invariants.                                               *)

\* While the user leaves the policy alone, the file and whatever a command
\* has loaded is the default policy, a truncated one or none, and every
\* answer follows from one of these.
Untouched == {NoFile, <<>>, DefaultText}

StrictInv ==
    edits = 0 =>
        /\ file \in Untouched
        /\ \A p \in Proc : proc[p].read \in Untouched
        /\ \A a \in Action :
              /\ "PASS" \in said[a] => a \in Listed(DefaultText, "allowed")
              /\ "BLOCKED" \in said[a] => a \in Behind(DefaultText)

\* A command is only alone while the others are idle, and once it has seen
\* to the policy it answers from the file as it is.
LoneInv ==
    \A p \in Proc : proc[p].alone =>
        /\ \A q \in Proc \ {p} : proc[q].pc = "idle"
        /\ proc[p].pc \in {"load", "read", "answer"} => file # NoFile
        /\ proc[p].pc = "answer" => proc[p].read = file

GatesInv == TypeOK /\ StrictInv /\ EmptyWhileWritten /\ LoneInv

\* From a policy nobody touched, a PASS names an action the default allows
\* and a BLOCKED one it puts behind approval.
LEMMA UntouchedDecision ==
    ASSUME NEW text \in Untouched, NEW a
    PROVE  /\ Decision(text, a) = "PASS" => a \in Listed(DefaultText, "allowed")
           /\ Decision(text, a) = "BLOCKED" => a \in Behind(DefaultText)
BY DecisionType, EmptyListsNothing DEF Untouched, Behind

LEMMA StrictStep == TypeOK /\ StrictInv /\ [Next]_vars => StrictInv'
<1> SUFFICES ASSUME TypeOK, StrictInv, [Next]_vars, edits' = 0
             PROVE  /\ file' \in Untouched
                    /\ \A q \in Proc : proc'[q].read \in Untouched
                    /\ \A a \in Action :
                          /\ "PASS" \in said'[a] =>
                                a \in Listed(DefaultText, "allowed")
                          /\ "BLOCKED" \in said'[a] =>
                                a \in Behind(DefaultText)
  BY DEF StrictInv
<1>a. \A q \in Proc : proc[q] \in Command
  BY DEF TypeOK
<1>b. ASSUME edits = 0
      PROVE  /\ file \in Untouched
             /\ \A q \in Proc : proc[q].read \in Untouched
             /\ \A a \in Action :
                   /\ "PASS" \in said[a] => a \in Listed(DefaultText, "allowed")
                   /\ "BLOCKED" \in said[a] => a \in Behind(DefaultText)
  BY <1>b DEF StrictInv
<1>c. NoFile \in Untouched /\ <<>> \in Untouched /\ DefaultText \in Untouched
  BY DEF Untouched
<1>d. Idle.read = NoFile
  BY DEF Idle
<1>1. ASSUME NEW p \in Proc, NEW a \in Action \cup {NoAction},
             NEW again \in BOOLEAN, Ask(p, a, again)
      PROVE  file' \in Untouched /\ \A q \in Proc : proc'[q].read \in Untouched
  <2>1. edits = 0
    BY <1>1 DEF Ask
  <2>2. \A q \in Proc : Noticed(proc[q]).read = proc[q].read
    BY <1>a DEF Noticed, Command
  <2>3. \A q \in Proc : proc'[q].read = IF q = p THEN NoFile
                                        ELSE proc[q].read
    BY <1>1, <2>2 DEF Ask
  <2> QED
    BY <1>1, <1>b, <1>c, <2>1, <2>3 DEF Ask
<1>2. ASSUME NEW p \in Proc, FindPolicy(p) \/ WriteDefault(p)
      PROVE  file' \in Untouched /\ \A q \in Proc : proc'[q].read \in Untouched
  <2>1. edits = 0 /\ Ensured(proc[p]).read = proc[p].read
    BY <1>2, <1>a DEF FindPolicy, WriteDefault, counters, Ensured, Command
  <2>2. \A q \in Proc : proc'[q].read = proc[q].read
    BY <1>2, <2>1 DEF FindPolicy, WriteDefault, TypeOK
  <2> QED
    BY <1>2, <1>b, <1>c, <2>1, <2>2 DEF FindPolicy, WriteDefault
<1>3. ASSUME NEW p \in Proc, MissPolicy(p) \/ CreatePolicy(p) \/ LookUp(p)
      PROVE  file' \in Untouched /\ \A q \in Proc : proc'[q].read \in Untouched
  <2>1. edits = 0
    BY <1>3 DEF MissPolicy, CreatePolicy, LookUp, counters
  <2>2. \A q \in Proc : proc'[q].read = proc[q].read
    BY <1>3, <1>a DEF MissPolicy, CreatePolicy, LookUp, Goto, TypeOK, Command
  <2> QED
    BY <1>3, <1>b, <1>c, <2>1, <2>2 DEF MissPolicy, CreatePolicy, LookUp
<1>4. ASSUME NEW p \in Proc, ReadPolicy(p)
      PROVE  file' \in Untouched /\ \A q \in Proc : proc'[q].read \in Untouched
  <2>1. edits = 0
    BY <1>4 DEF ReadPolicy, counters
  <2>2. \A q \in Proc : proc'[q].read \in {proc[q].read, file, NoFile}
    BY <1>4, <1>a, <1>d DEF ReadPolicy, TypeOK, Command
  <2> QED
    BY <1>4, <1>b, <1>c, <2>1, <2>2 DEF ReadPolicy
<1>5. ASSUME NEW p \in Proc, Answer(p) \/ WriteReport(p) \/ Kill(p)
      PROVE  file' \in Untouched /\ \A q \in Proc : proc'[q].read \in Untouched
  <2>1. edits = 0
    BY <1>5 DEF Answer, WriteReport, Kill, counters
  <2>2. \A q \in Proc : proc'[q].read \in {proc[q].read, NoFile}
    BY <1>5, <1>a, <1>d DEF Answer, WriteReport, Kill, TypeOK
  <2> QED
    BY <1>5, <1>b, <1>c, <2>1, <2>2 DEF Answer, WriteReport, Kill
<1>6. ASSUME NEW text, NEW inPlace, Edit(text, inPlace)
      PROVE  FALSE
  BY <1>6 DEF Edit, TypeOK
<1>7. ASSUME NEW p \in Proc, Answer(p), NEW a \in Action
      PROVE  /\ "PASS" \in said'[a] => a \in Listed(DefaultText, "allowed")
             /\ "BLOCKED" \in said'[a] => a \in Behind(DefaultText)
  <2>1. edits = 0
    BY <1>7 DEF Answer, counters
  <2>2. proc[p].read \in Untouched
    BY <1>b, <2>1
  <2>3. said'[a] \subseteq IF a = proc[p].action
                          THEN said[a] \cup {Decision(proc[p].read, a)}
                          ELSE said[a]
    BY <1>7 DEF Answer, TypeOK
  <2> QED
    BY <1>b, <2>1, <2>2, <2>3, UntouchedDecision
<1>8. (\E p \in Proc : Answer(p)) \/ said' = said
  BY DEF Next, Step, Ask, FindPolicy, MissPolicy, CreatePolicy, WriteDefault,
         LookUp, ReadPolicy, WriteReport, Kill, Edit, vars
<1>9. CASE UNCHANGED vars
  BY <1>9, <1>b DEF vars
<1>10. file' \in Untouched /\ \A q \in Proc : proc'[q].read \in Untouched
  BY <1>1, <1>2, <1>3, <1>4, <1>5, <1>6, <1>9 DEF Next, Step
<1>11. CASE said' = said
  <2>1. edits = 0
    BY <1>6 DEF Next, Step, Ask, FindPolicy, MissPolicy, CreatePolicy,
         WriteDefault, LookUp, ReadPolicy, Answer, WriteReport, Kill, counters,
         vars
  <2> QED
    BY <1>b, <1>10, <1>11, <2>1
<1> QED
  BY <1>7, <1>8, <1>10, <1>11

\* Only a truncation empties the file, and the command that did it is about
\* to write.
LEMMA EmptyStep ==
    TypeOK /\ EmptyWhileWritten /\ [Next]_vars => EmptyWhileWritten'
<1> SUFFICES ASSUME TypeOK, EmptyWhileWritten, [Next]_vars,
                    kills' = 0, file' = <<>>
             PROVE  \E q \in Proc : proc'[q].pc = "write"
  BY DEF EmptyWhileWritten, At
<1> USE GatesAssumption
<1>a. \A q \in Proc : proc[q] \in Command
  BY DEF TypeOK
<1>b. ASSUME NEW p \in Proc, proc[p].pc # "write", kills = 0, file = <<>>,
             \A q \in Proc \ {p} : proc[q].pc = "write" =>
                                    proc'[q].pc = "write"
      PROVE  \E q \in Proc : proc'[q].pc = "write"
  BY <1>b DEF EmptyWhileWritten, At
<1>1. ASSUME NEW p \in Proc, NEW a \in Action \cup {NoAction},
             NEW again \in BOOLEAN, Ask(p, a, again)
      PROVE  \E q \in Proc : proc'[q].pc = "write"
  <2>1. \A q \in Proc : Noticed(proc[q]).pc = proc[q].pc
    BY <1>a DEF Noticed, Command
  <2>2. \A q \in Proc \ {p} : proc'[q].pc = proc[q].pc
    BY <1>1, <2>1 DEF Ask
  <2> QED
    BY <1>1, <1>b, <2>2 DEF Ask, At
<1>2. ASSUME NEW p \in Proc, FindPolicy(p) \/ MissPolicy(p) \/ LookUp(p)
                               \/ ReadPolicy(p)
      PROVE  \E q \in Proc : proc'[q].pc = "write"
  <2>1. proc[p].pc # "write" /\ kills = 0 /\ file = <<>>
    BY <1>2 DEF FindPolicy, MissPolicy, LookUp, ReadPolicy, At, counters
  <2>2. \A q \in Proc \ {p} : proc'[q] = proc[q]
    BY <1>2 DEF FindPolicy, MissPolicy, LookUp, ReadPolicy, Goto, TypeOK
  <2> QED
    BY <1>b, <2>1, <2>2
<1>3. ASSUME NEW p \in Proc, CreatePolicy(p)
      PROVE  \E q \in Proc : proc'[q].pc = "write"
  BY <1>3, <1>a DEF CreatePolicy, Goto, TypeOK, Command
<1>4. ASSUME NEW p \in Proc, WriteDefault(p)
      PROVE  FALSE
  BY <1>4 DEF WriteDefault
<1>5. ASSUME NEW p \in Proc, Answer(p) \/ WriteReport(p)
      PROVE  \E q \in Proc : proc'[q].pc = "write"
  <2>1. proc[p].pc # "write" /\ kills = 0 /\ file = <<>>
    BY <1>5 DEF Answer, WriteReport, At, counters
  <2>2. \A q \in Proc \ {p} : proc'[q] = proc[q]
    BY <1>5 DEF Answer, WriteReport, TypeOK
  <2> QED
    BY <1>b, <2>1, <2>2
<1>6. ASSUME NEW p \in Proc, Kill(p)
      PROVE  FALSE
  BY <1>6 DEF Kill, TypeOK
<1>7. ASSUME NEW text \in UserTexts \cup {NoFile}, NEW inPlace \in BOOLEAN,
             Edit(text, inPlace)
      PROVE  FALSE
  <2>1. <<>> \in Seq(Line)
    OBVIOUS
  <2> QED
    BY <1>7, <2>1 DEF Edit
<1>8. CASE UNCHANGED vars
  BY <1>8 DEF vars, EmptyWhileWritten, At
<1> QED
  BY <1>1, <1>2, <1>3, <1>4, <1>5, <1>6, <1>7, <1>8 DEF Next, Step

\* A step of another command, and an edit, end a command's being alone; its
\* own steps find or make a policy before they read it.
LEMMA LoneStep == TypeOK /\ LoneInv /\ [Next]_vars => LoneInv'
<1> SUFFICES ASSUME TypeOK, LoneInv, [Next]_vars,
                    NEW l \in Proc, proc'[l].alone
             PROVE  /\ \A q \in Proc \ {l} : proc'[q].pc = "idle"
                    /\ proc'[l].pc \in {"load", "read", "answer"} =>
                          file' # NoFile
                    /\ proc'[l].pc = "answer" => proc'[l].read = file'
  BY DEF LoneInv
<1> USE GatesAssumption
<1> DEFINE Goal ==
      /\ \A q \in Proc \ {l} : proc'[q].pc = "idle"
      /\ proc'[l].pc \in {"load", "read", "answer"} => file' # NoFile
      /\ proc'[l].pc = "answer" => proc'[l].read = file'
<1>a. \A q \in Proc : proc[q] \in Command
  BY DEF TypeOK
<1>b. Idle.alone = FALSE /\ Idle.pc = "idle"
  BY DEF Idle
\* Only the lone command itself can move.
<1>c. ASSUME NEW p \in Proc, p # l, proc'[l] = proc[l], proc[p].pc # "idle"
      PROVE  FALSE
  BY <1>c DEF LoneInv
<1>1. ASSUME NEW p \in Proc, NEW a \in Action \cup {NoAction},
             NEW again \in BOOLEAN, Ask(p, a, again)
      PROVE  Goal
  <2>1. \A q \in Proc : /\ Noticed(proc[q]).pc = proc[q].pc
                        /\ ~ Noticed(proc[q]).alone
    BY <1>a DEF Noticed, Command
  <2>2. l = p
    BY <1>1, <2>1 DEF Ask
  <2>3. proc'[l].pc = "ensure" /\ \A q \in Proc \ {l} : At(q, "idle")
    BY <1>1, <2>2 DEF Ask
  <2>4. \A q \in Proc \ {l} : proc'[q].pc = proc[q].pc
    BY <1>1, <2>1, <2>2 DEF Ask
  <2> QED
    BY <2>3, <2>4 DEF At
<1>2. ASSUME NEW p \in Proc, FindPolicy(p) \/ WriteDefault(p)
      PROVE  Goal
  <2>1. p = l
    BY <1>2, <1>c DEF FindPolicy, WriteDefault, At, TypeOK
  <2>2. /\ Ensured(proc[l]).pc \in {"ensure", "load"}
        /\ Ensured(proc[l]).alone = proc[l].alone
    BY <1>a DEF Ensured, Command
  <2>3. file' # NoFile
    BY <1>2 DEF FindPolicy, WriteDefault
  <2>4. proc'[l] = Ensured(proc[l]) /\ \A q \in Proc \ {l} : proc'[q] = proc[q]
    BY <1>2, <2>1 DEF FindPolicy, WriteDefault, TypeOK
  <2> QED
    BY <2>2, <2>3, <2>4 DEF LoneInv
<1>3. ASSUME NEW p \in Proc, MissPolicy(p) \/ CreatePolicy(p)
      PROVE  Goal
  <2>1. p = l
    BY <1>3, <1>c DEF MissPolicy, CreatePolicy, Goto, At, TypeOK
  <2>2. /\ proc'[l].pc \in {"create", "write"}
        /\ proc'[l].alone = proc[l].alone
        /\ \A q \in Proc \ {l} : proc'[q] = proc[q]
    <3>1. CASE MissPolicy(l)
      BY <1>a, <3>1 DEF MissPolicy, Goto, TypeOK, Command
    <3>2. CASE CreatePolicy(l)
      BY <1>a, <3>2 DEF CreatePolicy, Goto, TypeOK, Command
    <3> QED
      BY <1>3, <2>1, <3>1, <3>2
  <2> QED
    BY <2>2 DEF LoneInv
<1>4. ASSUME NEW p \in Proc, LookUp(p)
      PROVE  Goal
  <2>1. p = l
    BY <1>4, <1>c DEF LookUp, Goto, At, TypeOK
  <2>2. /\ proc'[l].alone = proc[l].alone
        /\ \A q \in Proc \ {l} : proc'[q] = proc[q]
    BY <1>4, <1>a, <2>1 DEF LookUp, Goto, TypeOK, Command
  <2>3. proc[l].pc = "load" /\ file' = file
    BY <1>4, <2>1 DEF LookUp, At
  <2>4. file # NoFile /\ \A q \in Proc \ {l} : proc[q].pc = "idle"
    BY <2>2, <2>3 DEF LoneInv
  <2>5. proc'[l].pc = "read"
    BY <1>4, <1>a, <2>1, <2>4 DEF LookUp, Goto, TypeOK, Command
  <2> QED
    BY <2>2, <2>3, <2>4, <2>5
<1>5. ASSUME NEW p \in Proc, ReadPolicy(p)
      PROVE  Goal
  <2>1. p = l
    BY <1>5, <1>c DEF ReadPolicy, At, TypeOK
  <2>2. file # NoFile /\ file' = file
    BY <1>5, <1>b, <2>1 DEF ReadPolicy, TypeOK
  <2>3. /\ proc'[l].alone = proc[l].alone
        /\ proc'[l].read = file
        /\ \A q \in Proc \ {l} : proc'[q] = proc[q]
    BY <1>5, <1>a, <2>1, <2>2 DEF ReadPolicy, TypeOK, Command
  <2> QED
    BY <2>2, <2>3 DEF LoneInv
<1>6. ASSUME NEW p \in Proc, Answer(p) \/ WriteReport(p) \/ Kill(p)
      PROVE  Goal
  <2>1. proc' = [proc EXCEPT ![p] = Idle] /\ proc[p].pc # "idle"
    BY <1>6 DEF Answer, WriteReport, Kill, At
  <2>2. p # l
    BY <1>b, <2>1 DEF TypeOK
  <2>3. proc'[l] = proc[l]
    BY <2>1, <2>2 DEF TypeOK
  <2> QED
    BY <1>c, <2>1, <2>2, <2>3
<1>7. ASSUME NEW text \in UserTexts \cup {NoFile}, NEW inPlace \in BOOLEAN,
             Edit(text, inPlace)
      PROVE  Goal
  <2>1. Noticed(proc[l]).alone = FALSE
    BY <1>a DEF Noticed, Command
  <2>2. Noticed(Ensured(proc[l])).alone = FALSE
    BY <1>a DEF Noticed, Ensured, Command
  <2>3. ~ proc'[l].alone
    BY <1>7, <2>1, <2>2 DEF Edit
  <2> QED
    BY <2>3
<1>8. CASE UNCHANGED vars
  BY <1>8 DEF vars, LoneInv
<1> QED
  BY <1>1, <1>2, <1>3, <1>4, <1>5, <1>6, <1>7, <1>8 DEF Next, Step

-----------------------------------------------------------------------------
(* The theorems.                                                           *)

LEMMA InitGatesInv == Init => GatesInv
<1> SUFFICES ASSUME Init
             PROVE  GatesInv
  OBVIOUS
<1>1. TypeOK
  BY GatesAssumption DEF Init, TypeOK, Idle, Command
<1>2. StrictInv
  BY DEF Init, StrictInv, Untouched, Idle
<1>3. EmptyWhileWritten
  <2>1. <<>> \in Seq(Line)
    OBVIOUS
  <2> QED
    BY <2>1, GatesAssumption DEF Init, EmptyWhileWritten
<1>4. LoneInv
  BY DEF Init, LoneInv, Idle
<1> QED
  BY <1>1, <1>2, <1>3, <1>4 DEF GatesInv

LEMMA GatesInvariance == Spec => []GatesInv
<1>1. GatesInv /\ [Next]_vars => GatesInv'
  BY TypeStep, StrictStep, EmptyStep, LoneStep DEF GatesInv
<1> QED
  BY <1>1, InitGatesInv, PTL DEF Spec

\* Every variable keeps its type, whatever commands, edits and kills occur.
THEOREM GatesTypeCorrect == Spec => []TypeOK
BY GatesInvariance, PTL DEF GatesInv

\* However many commands race to create the policy and whichever of them are
\* killed, without an edit no action behind approval is ever allowed.
THEOREM StrictUntilEdited == Spec => []UneditedIsStrict
<1>1. GatesInv => UneditedIsStrict
  BY DefaultIsSound DEF GatesInv, StrictInv, UneditedIsStrict
<1> QED
  BY <1>1, GatesInvariance, PTL

\* Without kills the policy file is empty only while a command writes it.
THEOREM NeverLeftEmpty == Spec => []EmptyWhileWritten
BY GatesInvariance, PTL DEF GatesInv

\* A command that ran alone answers from the policy in force.
THEOREM LoneCommandIsCurrent == Spec => []LoneAnswerIsCurrent
<1>1. GatesInv => LoneAnswerIsCurrent
  BY DEF GatesInv, LoneInv, LoneAnswerIsCurrent, At
<1> QED
  BY <1>1, GatesInvariance, PTL
-----------------------------------------------------------------------------
(* The reader of the policy.                                               *)

Reader == [items : [Section -> SUBSET Action], numbers : SUBSET Section,
           key : Section \cup {"-"}]

\* What a heading, an item and any other line do to what was read.
LEMMA ReadHeading ==
    ASSUME NEW r \in Reader, NEW line \in Line, line.is \in Headings
    PROVE  /\ line.name \in Section
           /\ ReadLine(r, line) \in Reader
           /\ ReadLine(r, line).items = [r.items EXCEPT ![line.name] = {}]
           /\ ReadLine(r, line).numbers = IF line.is = "number"
                                          THEN r.numbers \cup {line.name}
                                          ELSE r.numbers \ {line.name}
           /\ ReadLine(r, line).key = IF line.is = "open" THEN line.name ELSE "-"
<1>1. line.name \in Section
  BY DEF Line, Headings
<1>2. ReadLine(r, line) =
        [r EXCEPT !.items[line.name] = {},
                  !.numbers = IF line.is = "number" THEN @ \cup {line.name}
                              ELSE @ \ {line.name},
                  !.key = IF line.is = "open" THEN line.name ELSE "-"]
  BY DEF ReadLine, Headings
<1>3. /\ ReadLine(r, line).items = [r.items EXCEPT ![line.name] = {}]
      /\ ReadLine(r, line).numbers = IF line.is = "number"
                                     THEN r.numbers \cup {line.name}
                                     ELSE r.numbers \ {line.name}
      /\ ReadLine(r, line).key = IF line.is = "open" THEN line.name ELSE "-"
      /\ ReadLine(r, line) = [items |-> ReadLine(r, line).items,
                              numbers |-> ReadLine(r, line).numbers,
                              key |-> ReadLine(r, line).key]
  BY <1>2 DEF Reader
<1>4. /\ ReadLine(r, line).items \in [Section -> SUBSET Action]
      /\ ReadLine(r, line).numbers \in SUBSET Section
      /\ ReadLine(r, line).key \in Section \cup {"-"}
  BY <1>1, <1>3 DEF Reader
<1>5. ReadLine(r, line) \in Reader
  BY <1>3, <1>4 DEF Reader
<1> QED
  BY <1>1, <1>3, <1>5

LEMMA ReadItem ==
    ASSUME NEW r \in Reader, NEW line \in Line, line.is \notin Headings
    PROVE  /\ ReadLine(r, line) \in Reader
           /\ ReadLine(r, line).numbers = r.numbers
           /\ ReadLine(r, line).key = r.key
           /\ ReadLine(r, line).items =
                IF line.is = "item" /\ r.key # "-"
                THEN [r.items EXCEPT ![r.key] = @ \cup {line.name}]
                ELSE r.items
<1>1. CASE line.is = "item" /\ r.key # "-"
  <2>1. ReadLine(r, line) = [r EXCEPT !.items[r.key] = @ \cup {line.name}]
    BY <1>1 DEF ReadLine, Headings
  <2>2. line.name \in Action
    BY <1>1 DEF Line, Headings
  <2> QED
    BY <1>1, <2>1, <2>2 DEF Reader
<1>2. CASE ~ (line.is = "item" /\ r.key # "-")
  <2>1. ReadLine(r, line) = r
    BY <1>2 DEF ReadLine
  <2> QED
    BY <1>2, <2>1
<1> QED
  BY <1>1, <1>2

\* The reader goes through a text line by line.
LEMMA ReadingSteps ==
    ASSUME NEW text \in Seq(Line)
    PROVE  \E after \in [Nat -> Reader] :
              /\ after[0] = NothingRead
              /\ \A n \in Nat : n < Len(text) =>
                    after[n + 1] = ReadLine(after[n], text[n + 1])
              /\ Parsed(text) = after[Len(text)]
<1> DEFINE step == [n \in Nat |-> [r \in Reader |->
                       IF n < Len(text) THEN ReadLine(r, text[n + 1]) ELSE r]]
           D == 0 .. Len(text)
           IsReading(f) ==
               f = [n \in D |-> IF n = 0 THEN NothingRead
                                ELSE ReadLine(f[n - 1], text[n])]
<1>1. Len(text) \in Nat /\ \A n \in Nat : n < Len(text) => text[n + 1] \in Line
  OBVIOUS
<1>2. NothingRead \in Reader
  BY DEF NothingRead, Reader
<1>3. step \in [Nat -> [Reader -> Reader]]
  <2>1. ASSUME NEW n \in Nat, NEW r \in Reader, n < Len(text)
        PROVE  ReadLine(r, text[n + 1]) \in Reader
    BY <1>1, <2>1, ReadHeading, ReadItem
  <2> QED
    BY <2>1
<1>4. PICK f \in [Nat -> Reader] : Iterates(f, NothingRead, step)
  <2> HIDE DEF step
  <2> QED
    BY <1>2, <1>3, IteratesExist
<1>5. f[0] = NothingRead
  BY <1>4 DEF Iterates
<1>6. ASSUME NEW n \in Nat, n < Len(text)
      PROVE  f[n + 1] = ReadLine(f[n], text[n + 1])
  <2>1. f[n + 1] = step[n][f[n]] /\ f[n] \in Reader
    BY <1>4 DEF Iterates
  <2> QED
    BY <1>6, <2>1
<1> DEFINE g == [n \in D |-> f[n]]
<1>7. IsReading(g)
  <2>1. ASSUME NEW n \in D
        PROVE  g[n] = IF n = 0 THEN NothingRead ELSE ReadLine(g[n - 1], text[n])
    <3>1. CASE n = 0
      BY <1>5, <3>1
    <3>2. CASE n # 0
      <4>1. n - 1 \in Nat /\ n - 1 < Len(text) /\ (n - 1) + 1 = n /\ n - 1 \in D
        BY <1>1, <3>2
      <4> QED
        BY <1>6, <3>2, <4>1
    <3> QED
      BY <3>1, <3>2
  <2> QED
    BY <2>1
<1> DEFINE h == CHOOSE x : IsReading(x)
<1>8. IsReading(h)
  <2> HIDE DEF IsReading, g
  <2> QED
    BY <1>7
<1>9. Parsed(text) = h[Len(text)]
  BY DEF Parsed
<1>10. \A n \in Nat : n \in D => h[n] = f[n]
  <2> HIDE DEF h
  <2> DEFINE P == {n \in Nat : n \in D => h[n] = f[n]}
  <2>1. h = [n \in D |-> IF n = 0 THEN NothingRead
                         ELSE ReadLine(h[n - 1], text[n])]
    BY <1>8
  <2>2. 0 \in P
    BY <1>1, <1>5, <2>1
  <2>3. ASSUME NEW n \in Nat, n \in P PROVE n + 1 \in P
    <3> SUFFICES ASSUME n + 1 \in D PROVE h[n + 1] = f[n + 1]
      OBVIOUS
    <3>1. n \in D /\ n < Len(text) /\ n + 1 # 0 /\ (n + 1) - 1 = n
      BY <1>1
    <3>2. h[n + 1] = ReadLine(h[n], text[n + 1])
      BY <2>1, <3>1
    <3> QED
      BY <1>6, <2>3, <3>1, <3>2
  <2> HIDE DEF P
  <2>4. Nat \subseteq P
    BY <2>2, <2>3, SetInduction
  <2> QED
    BY <2>4 DEF P
<1>11. Parsed(text) = f[Len(text)]
  <2> HIDE DEF h
  <2> QED
    BY <1>1, <1>9, <1>10
<1> QED
  BY <1>5, <1>6, <1>11

\* Heading i is the last one of section k among the first n lines.
LastUpTo(text, k, i, n) ==
    /\ IsHeading(text, i) /\ text[i].name = k
    /\ \A j \in 1 .. n : j > i /\ IsHeading(text, j) => text[j].name # k

\* Line j is an item of section k when n lines are read.
ItemUpTo(text, k, j, n) ==
    /\ text[j].is = "item"
    /\ \E i \in 1 .. n : /\ LastUpTo(text, k, i, n)
                         /\ text[i].is = "open"
                         /\ Under(text, i, j)

\* The current key is the section whose list is open.
OpenUpTo(text, k, n) ==
    \E i \in 1 .. n : /\ text[i].is = "open" /\ text[i].name = k
                      /\ \A h \in 1 .. n : h > i => ~ IsHeading(text, h)

\* r is what the first n lines list, and the section whose list is open.
ReadUpTo(text, r, n) ==
    \A k \in Section :
        /\ k \in r.numbers <=>
              \E i \in 1 .. n : LastUpTo(text, k, i, n) /\ text[i].is = "number"
        /\ r.items[k] = {text[j].name : j \in {j \in 1 .. n : ItemUpTo(text, k, j, n)}}
        /\ r.key = k <=> OpenUpTo(text, k, n)

\* Another section's heading, or a line that is none, hides no last heading.
LEMMA LastIsKept ==
    ASSUME NEW text \in Seq(Line), NEW n \in Nat, n + 1 \in 1 .. Len(text),
           NEW k \in Section,
           IsHeading(text, n + 1) => text[n + 1].name # k
    PROVE  /\ \A i \in 1 .. n : LastUpTo(text, k, i, n + 1) <=> LastUpTo(text, k, i, n)
           /\ ~ LastUpTo(text, k, n + 1, n + 1)
<1>1. \A j : j \in 1 .. n + 1 <=> j \in 1 .. n \/ j = n + 1
  OBVIOUS
<1> QED
  BY <1>1 DEF LastUpTo

\* A heading replaces its section, and opens its list or none.
LEMMA HeadingReads ==
    ASSUME NEW text \in Seq(Line), NEW n \in Nat, n + 1 \in 1 .. Len(text),
           NEW r \in Reader, ReadUpTo(text, r, n), IsHeading(text, n + 1)
    PROVE  ReadUpTo(text, ReadLine(r, text[n + 1]), n + 1)
<1> DEFINE line == text[n + 1]
           next == ReadLine(r, line)
<1>1. line \in Line /\ Len(text) \in Nat
  OBVIOUS
<1>2. /\ line.name \in Section
      /\ next.items = [r.items EXCEPT ![line.name] = {}]
      /\ next.numbers = IF line.is = "number" THEN r.numbers \cup {line.name}
                        ELSE r.numbers \ {line.name}
      /\ next.key = IF line.is = "open" THEN line.name ELSE "-"
  BY <1>1, ReadHeading DEF IsHeading
<1> HIDE DEF next
<1>3. \A j : j \in 1 .. n + 1 <=> j \in 1 .. n \/ j = n + 1
  OBVIOUS
<1>4. r.items \in [Section -> SUBSET Action]
  BY DEF Reader
<1>5. line.is # "item" /\ ~ (line.is = "open" /\ line.is = "number")
  BY DEF IsHeading, Headings
<1> SUFFICES ASSUME NEW k \in Section
             PROVE  /\ k \in next.numbers <=>
                         \E i \in 1 .. n + 1 :
                            LastUpTo(text, k, i, n + 1) /\ text[i].is = "number"
                    /\ next.items[k] =
                         {text[j].name :
                            j \in {j \in 1 .. n + 1 : ItemUpTo(text, k, j, n + 1)}}
                    /\ next.key = k <=> OpenUpTo(text, k, n + 1)
  BY DEF ReadUpTo, next
<1>6. next.key = k <=> OpenUpTo(text, k, n + 1)
  <2>1. OpenUpTo(text, k, n + 1) <=> line.is = "open" /\ line.name = k
    BY <1>3 DEF OpenUpTo
  <2>2. k # "-"
    BY DEF Section
  <2> QED
    BY <1>2, <2>1, <2>2
<1>7. CASE k = line.name
  <2>1. \A i \in 1 .. n + 1 : LastUpTo(text, k, i, n + 1) <=> i = n + 1
    BY <1>3, <1>7 DEF LastUpTo
  <2>2. \A j \in 1 .. n + 1 : ~ ItemUpTo(text, k, j, n + 1)
    BY <2>1 DEF ItemUpTo, Under
  <2>3. next.items[k] = {}
    BY <1>2, <1>4, <1>7
  <2> QED
    BY <1>2, <1>6, <1>7, <2>1, <2>2, <2>3
<1>8. CASE k # line.name
  <2>1. /\ \A i \in 1 .. n : LastUpTo(text, k, i, n + 1) <=> LastUpTo(text, k, i, n)
        /\ ~ LastUpTo(text, k, n + 1, n + 1)
    BY <1>8, LastIsKept
  <2>2. \A j \in 1 .. n : ItemUpTo(text, k, j, n + 1) <=> ItemUpTo(text, k, j, n)
    BY <1>3, <2>1 DEF ItemUpTo
  <2>3. ~ ItemUpTo(text, k, n + 1, n + 1)
    BY <1>5 DEF ItemUpTo
  <2>4. {j \in 1 .. n + 1 : ItemUpTo(text, k, j, n + 1)} =
          {j \in 1 .. n : ItemUpTo(text, k, j, n)}
    BY <1>3, <2>2, <2>3
  <2>5. next.items[k] = r.items[k]
    BY <1>2, <1>4, <1>8
  <2>6. k \in next.numbers <=> k \in r.numbers
    BY <1>2, <1>8
  <2>7. (\E i \in 1 .. n + 1 : LastUpTo(text, k, i, n + 1) /\ text[i].is = "number")
          <=> \E i \in 1 .. n : LastUpTo(text, k, i, n) /\ text[i].is = "number"
    BY <1>3, <2>1
  <2> QED
    BY <1>6, <2>4, <2>5, <2>6, <2>7 DEF ReadUpTo
<1> QED
  BY <1>7, <1>8

\* An item goes to the list that is open; any other line goes nowhere.
LEMMA ItemReads ==
    ASSUME NEW text \in Seq(Line), NEW n \in Nat, n + 1 \in 1 .. Len(text),
           NEW r \in Reader, ReadUpTo(text, r, n), ~ IsHeading(text, n + 1)
    PROVE  ReadUpTo(text, ReadLine(r, text[n + 1]), n + 1)
<1> DEFINE line == text[n + 1]
           next == ReadLine(r, line)
<1>1. line \in Line /\ Len(text) \in Nat /\ DOMAIN text = 1 .. Len(text)
  OBVIOUS
<1>2. /\ next.numbers = r.numbers
      /\ next.key = r.key
      /\ next.items = IF line.is = "item" /\ r.key # "-"
                      THEN [r.items EXCEPT ![r.key] = @ \cup {line.name}]
                      ELSE r.items
  BY <1>1, ReadItem DEF IsHeading
<1> HIDE DEF next
<1>3. \A j : j \in 1 .. n + 1 <=> j \in 1 .. n \/ j = n + 1
  OBVIOUS
<1>4. r.items \in [Section -> SUBSET Action] /\ r.key \in Section \cup {"-"}
  BY DEF Reader
<1>5. line.is # "open"
  BY DEF IsHeading, Headings
<1> SUFFICES ASSUME NEW k \in Section
             PROVE  /\ k \in next.numbers <=>
                         \E i \in 1 .. n + 1 :
                            LastUpTo(text, k, i, n + 1) /\ text[i].is = "number"
                    /\ next.items[k] =
                         {text[j].name :
                            j \in {j \in 1 .. n + 1 : ItemUpTo(text, k, j, n + 1)}}
                    /\ next.key = k <=> OpenUpTo(text, k, n + 1)
  BY DEF ReadUpTo, next
<1>6. next.key = k <=> OpenUpTo(text, k, n + 1)
  <2>1. OpenUpTo(text, k, n + 1) <=> OpenUpTo(text, k, n)
    BY <1>3, <1>5 DEF OpenUpTo
  <2> QED
    BY <1>2, <2>1 DEF ReadUpTo
<1>7. /\ \A i \in 1 .. n : LastUpTo(text, k, i, n + 1) <=> LastUpTo(text, k, i, n)
      /\ ~ LastUpTo(text, k, n + 1, n + 1)
  BY LastIsKept
<1>8. k \in next.numbers <=>
        \E i \in 1 .. n + 1 :
            LastUpTo(text, k, i, n + 1) /\ text[i].is = "number"
  BY <1>2, <1>3, <1>7 DEF ReadUpTo
<1>9. \A j \in 1 .. n : ItemUpTo(text, k, j, n + 1) <=> ItemUpTo(text, k, j, n)
  BY <1>3, <1>7 DEF ItemUpTo
<1>10. ItemUpTo(text, k, n + 1, n + 1) <=> line.is = "item" /\ r.key = k
  <2>1. ASSUME NEW i \in 1 .. n, text[i].is = "open"
        PROVE  LastUpTo(text, k, i, n) /\ Under(text, i, n + 1) <=>
                 text[i].name = k /\ \A h \in 1 .. n : h > i => ~ IsHeading(text, h)
    <3>1. Under(text, i, n + 1) <=> \A h \in 1 .. n : h > i => ~ IsHeading(text, h)
      BY <1>1 DEF Under
    <3>2. IsHeading(text, i)
      BY <2>1 DEF IsHeading, Headings
    <3> QED
      BY <3>1, <3>2 DEF LastUpTo
  <2>2. (\E i \in 1 .. n + 1 : LastUpTo(text, k, i, n + 1) /\ text[i].is = "open"
                                 /\ Under(text, i, n + 1))
          <=> OpenUpTo(text, k, n)
    BY <1>3, <1>5, <1>7, <2>1 DEF OpenUpTo
  <2> QED
    BY <2>2 DEF ItemUpTo, ReadUpTo
<1> DEFINE old == {j \in 1 .. n : ItemUpTo(text, k, j, n)}
           new == {j \in 1 .. n + 1 : ItemUpTo(text, k, j, n + 1)}
<1>11. r.items[k] = {text[j].name : j \in old}
  BY DEF ReadUpTo
<1>12. next.items[k] = {text[j].name : j \in new}
  <2>1. CASE line.is = "item" /\ r.key = k
    <3>1. new = old \cup {n + 1}
      BY <1>3, <1>9, <1>10, <2>1
    <3>2. r.key # "-"
      BY <2>1 DEF Section
    <3>3. next.items[k] = r.items[k] \cup {line.name}
      BY <1>2, <1>4, <2>1, <3>2
    <3> QED
      BY <1>11, <3>1, <3>3
  <2>2. CASE ~ (line.is = "item" /\ r.key = k)
    <3>1. new = old
      BY <1>3, <1>9, <1>10, <2>2
    <3>2. next.items[k] = r.items[k]
      BY <1>2, <1>4, <2>2
    <3> QED
      BY <1>11, <3>1, <3>2
  <2> QED
    BY <2>1, <2>2
<1> QED
  BY <1>6, <1>8, <1>12

\* Whatever the lines and their order, the reader finds what the text lists:
\* by induction over the lines read.
THEOREM EveryTextIsReadAsListed ==
    ASSUME NEW text \in Seq(Line)
    PROVE  ReadAsListed(text)
<1>1. PICK after \in [Nat -> Reader] :
         /\ after[0] = NothingRead
         /\ \A n \in Nat : n < Len(text) =>
               after[n + 1] = ReadLine(after[n], text[n + 1])
         /\ Parsed(text) = after[Len(text)]
  BY ReadingSteps
<1>2. Len(text) \in Nat /\ DOMAIN text = 1 .. Len(text)
  OBVIOUS
<1> DEFINE P == {n \in Nat : n <= Len(text) => ReadUpTo(text, after[n], n)}
<1>3. 0 \in P
  <2>1. \A k \in Section : k # "-"
    BY DEF Section
  <2>2. \A k : ~ OpenUpTo(text, k, 0)
    BY DEF OpenUpTo
  <2>3. ReadUpTo(text, NothingRead, 0)
    BY <2>1, <2>2 DEF ReadUpTo, NothingRead
  <2> QED
    BY <1>1, <2>3
<1>4. ASSUME NEW n \in Nat, n \in P PROVE n + 1 \in P
  <2> SUFFICES ASSUME n + 1 <= Len(text)
               PROVE  ReadUpTo(text, after[n + 1], n + 1)
    OBVIOUS
  <2>1. n < Len(text) /\ n + 1 \in 1 .. Len(text) /\ after[n] \in Reader
    BY <1>2
  <2>2. after[n + 1] = ReadLine(after[n], text[n + 1])
    BY <1>1, <2>1
  <2>3. ReadUpTo(text, after[n], n)
    BY <1>2, <1>4
  <2> QED
    BY <2>1, <2>2, <2>3, HeadingReads, ItemReads
<1>5. ReadUpTo(text, Parsed(text), Len(text))
  <2>1. Nat \subseteq P
    <3> HIDE DEF P
    <3> QED
      BY <1>3, <1>4, SetInduction
  <2> QED
    BY <1>1, <1>2, <2>1
<1>6. \A k, i : LastUpTo(text, k, i, Len(text)) <=> LastHeading(text, k, i)
  BY <1>2 DEF LastUpTo, LastHeading
<1>7. Parsed(text).numbers = Numbered(text)
  <2>1. Parsed(text).numbers \subseteq Section
    BY <1>1, <1>2 DEF Reader
  <2> QED
    BY <1>2, <1>5, <1>6, <2>1 DEF ReadUpTo, Numbered
<1>8. ASSUME NEW k \in Section PROVE Parsed(text).items[k] = Listed(text, k)
  <2>1. Parsed(text).items[k] =
          {text[j].name : j \in {j \in 1 .. Len(text) : ItemUpTo(text, k, j, Len(text))}}
    BY <1>5 DEF ReadUpTo
  <2>2. \A j : ItemUpTo(text, k, j, Len(text)) <=>
           /\ text[j].is = "item"
           /\ \E i \in DOMAIN text : /\ LastHeading(text, k, i)
                                     /\ text[i].is = "open"
                                     /\ Under(text, i, j)
    BY <1>2, <1>6 DEF ItemUpTo
  <2> QED
    BY <1>2, <2>1, <2>2 DEF Listed
<1> QED
  BY <1>7, <1>8 DEF ReadAsListed

\* Every policy that comes to be in force is read as it is listed.
THEOREM PoliciesAreReadAsListed == Spec => []ReaderIsFaithful
<1>1. TypeOK => ReaderIsFaithful
  BY EveryTextIsReadAsListed DEF TypeOK, ReaderIsFaithful
<1> QED
  BY <1>1, GatesTypeCorrect, PTL
=============================================================================
