---------------------------- MODULE ApprovalGates ----------------------------
(***************************************************************************)
(* The approval gates: `ghm check-gates', with or without --action, and    *)
(* the gate check the pipelines and `provenance current-state' make.       *)
(*                                                                         *)
(* Every command first ensures that policies/approval-gates.yaml exists,   *)
(* then loads it, then answers for one action or writes the gate report.   *)
(* Nothing locks the file.  Several commands run at a time, the user saves *)
(* or removes the policy, and a command may be killed between any two      *)
(* steps; creating the file truncates it before its text is written.       *)
(***************************************************************************)
EXTENDS PolicyText

CONSTANTS
    Proc,          \* the commands that may be in progress at a time
    DefaultText,   \* DEFAULT_POLICY_TEXT
    UserTexts,     \* the policies the user may save
    NoFile,        \* there is no policy file
    NoAction,      \* the command writes the report
    MaxCommands,   \* bound: commands given
    MaxEdits,      \* bound: policies saved or removed
    MaxKills       \* bound: commands killed

Behind(text) == Listed(text, "gated") \cup Listed(text, "blocked")

ASSUME GatesAssumption ==
    /\ DefaultText \in Seq(Line) /\ DefaultText # <<>>
    /\ UserTexts \subseteq Seq(Line) \ {<<>>}
    /\ NoFile \notin Seq(Line)
    /\ NoAction \notin Action
    /\ MaxCommands \in Nat /\ MaxEdits \in Nat /\ MaxKills \in Nat

\* The default policy asks for no approval of an action it allows.
ASSUME DefaultIsSound ==
    Listed(DefaultText, "allowed") \cap Behind(DefaultText) = {}

VARIABLES
    file,       \* the policy file: its text, or NoFile
    proc,       \* [Proc -> command record]
    report,     \* artifacts/v1/approval-gate-check.json
    said,       \* history: the answers given for each action
    commands,   \* counter
    edits,      \* counter
    kills       \* counter

vars == <<file, proc, report, said, commands, edits, kills>>
counters == <<commands, edits, kills>>

\* read    the policy the command has loaded
\* again   `check-gates' ensures the policy twice when it writes the report
\* alone   history: no other command and no edit since the command started
Idle == [pc |-> "idle", action |-> NoAction, again |-> FALSE, read |-> NoFile,
         alone |-> FALSE]

At(p, pc) == proc[p].pc = pc

Goto(p, pc) == proc' = [proc EXCEPT ![p].pc = pc]

Noticed(c) == [c EXCEPT !.alone = FALSE]

Init ==
    /\ file \in {NoFile, DefaultText}
    /\ proc = [p \in Proc |-> Idle]
    /\ report = [status |-> "absent", allowed |-> {}, gated |-> {}]
    /\ said = [a \in Action |-> {}]
    /\ commands = 0 /\ edits = 0 /\ kills = 0

Ask(p, action, again) ==
    /\ At(p, "idle")
    /\ commands < MaxCommands
    /\ commands' = commands + 1
    /\ again => action = NoAction
    /\ LET new == [pc |-> "ensure", action |-> action, again |-> again,
                   read |-> NoFile,
                   alone |-> \A q \in Proc \ {p} : At(q, "idle")]
       IN  proc' = [q \in Proc |-> IF q = p THEN new ELSE Noticed(proc[q])]
    /\ UNCHANGED <<file, report, said, edits, kills>>

-----------------------------------------------------------------------------
(* ensure_policy_file: look, create, write.                                *)

Ensured(c) ==
    [c EXCEPT !.pc = IF c.again THEN "ensure" ELSE "load", !.again = FALSE]

FindPolicy(p) ==
    /\ At(p, "ensure")
    /\ file # NoFile
    /\ proc' = [proc EXCEPT ![p] = Ensured(@)]
    /\ UNCHANGED <<file, report, said, counters>>

\* Mutant of MissPolicy: a missing policy is left to load_policy.
MissPolicyAnyway(p) ==
    /\ At(p, "ensure")
    /\ file = NoFile
    /\ proc' = [proc EXCEPT ![p] = Ensured(@)]
    /\ UNCHANGED <<file, report, said, counters>>

MissPolicy(p) ==
    /\ At(p, "ensure")
    /\ file = NoFile
    /\ Goto(p, "create")
    /\ UNCHANGED <<file, report, said, counters>>

\* write_text opens the file for writing, whatever it has become ...
CreatePolicy(p) ==
    /\ At(p, "create")
    /\ file' = <<>>
    /\ Goto(p, "write")
    /\ UNCHANGED <<report, said, counters>>

\* Mutant of WriteDefault: the default text is never written.
TouchDefault(p) ==
    /\ At(p, "write")
    /\ proc' = [proc EXCEPT ![p] = Ensured(@)]
    /\ UNCHANGED <<file, report, said, counters>>

\* ... and the text reaches it when the file is closed.
WriteDefault(p) ==
    /\ At(p, "write")
    /\ file' = DefaultText
    /\ proc' = [proc EXCEPT ![p] = Ensured(@)]
    /\ UNCHANGED <<report, said, counters>>

-----------------------------------------------------------------------------
(* load_policy: look again, read.                                          *)

LookUp(p) ==
    /\ At(p, "load")
    /\ Goto(p, IF file = NoFile THEN "answer" ELSE "read")
    /\ UNCHANGED <<file, report, said, counters>>

\* The read raises if the file was removed meanwhile.
ReadPolicy(p) ==
    /\ At(p, "read")
    /\ proc' = [proc EXCEPT ![p] = IF file = NoFile THEN Idle
                                   ELSE [@ EXCEPT !.pc = "answer",
                                                  !.read = file]]
    /\ UNCHANGED <<file, report, said, counters>>

-----------------------------------------------------------------------------
(* Answers.  An integer in place of a list raises, and nothing is said.    *)

\* Mutant of Decision: what no list names needs no approval.
DecisionByListing(text, a) ==
    IF text = NoFile THEN "FAIL"
    ELSE IF a \in Behind(text) THEN "BLOCKED" ELSE "PASS"

\* Mutant of Decision: the result of a failed load is handed on as it is.
DecisionOfLoad(text, a) ==
    IF text = NoFile THEN "absent"
    ELSE IF a \in Listed(text, "allowed") THEN "PASS"
    ELSE IF a \in Behind(text) THEN "BLOCKED" ELSE "FAIL"

\* Exit codes 0, 2 and 4.
Decision(text, a) ==
    IF text = NoFile THEN "FAIL"
    ELSE IF a \in Listed(text, "allowed") THEN "PASS"
    ELSE IF a \in Behind(text) THEN "BLOCKED" ELSE "FAIL"

Raises(text, sections) == text # NoFile /\ Numbered(text) \cap sections # {}

Answer(p) ==
    LET text == proc[p].read
        a    == proc[p].action
    IN  /\ At(p, "answer") /\ a # NoAction
        /\ said' = IF Raises(text, {"allowed", "gated", "blocked"}) THEN said
                   ELSE [said EXCEPT ![a] = @ \cup {Decision(text, a)}]
        /\ proc' = [proc EXCEPT ![p] = Idle]
        /\ UNCHANGED <<file, report, counters>>

GateReport(text) ==
    IF text = NoFile THEN [status |-> "FAIL", allowed |-> {}, gated |-> {}]
    ELSE [status |-> "PASS", allowed |-> Listed(text, "allowed"),
          gated |-> Listed(text, "gated")]

WriteReport(p) ==
    LET text == proc[p].read
    IN  /\ At(p, "answer") /\ proc[p].action = NoAction
        /\ report' = IF Raises(text, {"gated", "blocked"}) THEN report
                     ELSE GateReport(text)
        /\ proc' = [proc EXCEPT ![p] = Idle]
        /\ UNCHANGED <<file, said, counters>>

-----------------------------------------------------------------------------
(* The user and the operating system.                                      *)

\* The user removes the policy or saves another.  An editor writes in place
\* or renames a new file over the old one; in the second case, and when the
\* file is removed, what a command is about to write goes to the old file.
Edit(text, inPlace) ==
    /\ edits < MaxEdits
    /\ edits' = edits + 1
    /\ inPlace => text # NoFile
    /\ file' = text
    /\ proc' = [p \in Proc |->
                  Noticed(IF At(p, "write") /\ ~ inPlace
                          THEN Ensured(proc[p]) ELSE proc[p])]
    /\ UNCHANGED <<report, said, commands, kills>>

Kill(p) ==
    /\ ~ At(p, "idle")
    /\ kills < MaxKills
    /\ kills' = kills + 1
    /\ proc' = [proc EXCEPT ![p] = Idle]
    /\ UNCHANGED <<file, report, said, commands, edits>>

Step(p) ==
    \/ \E a \in Action \cup {NoAction}, again \in BOOLEAN : Ask(p, a, again)
    \/ FindPolicy(p)
    \/ MissPolicy(p)
    \/ CreatePolicy(p)
    \/ WriteDefault(p)
    \/ LookUp(p)
    \/ ReadPolicy(p)
    \/ Answer(p)
    \/ WriteReport(p)
    \/ Kill(p)

Next ==
    \/ \E p \in Proc : Step(p)
    \/ \E text \in UserTexts \cup {NoFile}, inPlace \in BOOLEAN :
          Edit(text, inPlace)

Spec == Init /\ [][Next]_vars

-----------------------------------------------------------------------------
(* Type invariant.                                                         *)

Command ==
    [pc : {"idle", "ensure", "create", "write", "load", "read", "answer"},
     action : Action \cup {NoAction}, again : BOOLEAN,
     read : Seq(Line) \cup {NoFile}, alone : BOOLEAN]

\* Every variable has the type its comment gives it.
TypeOK ==
    /\ file \in Seq(Line) \cup {NoFile}
    /\ proc \in [Proc -> Command]
    /\ report \in [status : {"absent", "PASS", "FAIL"},
                   allowed : SUBSET Action, gated : SUBSET Action]
    /\ said \in [Action -> SUBSET {"PASS", "BLOCKED", "FAIL"}]
    /\ commands \in 0 .. MaxCommands
    /\ edits \in 0 .. MaxEdits
    /\ kills \in 0 .. MaxKills

-----------------------------------------------------------------------------
(* Safety.                                                                 *)

\* As long as the user has left the policy alone, commands that read it while
\* another creates it, or after another was killed creating it, may fail to
\* find an action, but none of them allows an action the default policy puts
\* behind approval, and no action is both allowed and blocked.
UneditedIsStrict ==
    edits = 0 =>
        \A a \in Action :
            /\ a \in Behind(DefaultText) => "PASS" \notin said[a]
            /\ ~ ({"PASS", "BLOCKED"} \subseteq said[a])

\* Commands may race to create the policy and overwrite each other and the
\* user, but unless one is killed the file is only empty for the time between
\* the truncation and the write.
EmptyWhileWritten ==
    kills = 0 /\ file = <<>> => \E p \in Proc : At(p, "write")

\* A command that ran alone answers from the policy in force when it answers,
\* and there is one: the policy it created is the policy it loaded.
LoneAnswerIsCurrent ==
    \A p \in Proc : At(p, "answer") /\ proc[p].alone =>
        proc[p].read = file /\ file # NoFile

\* The line reader of the gates takes every policy for what it lists.
ReaderIsFaithful == file # NoFile => ReadAsListed(file)

-----------------------------------------------------------------------------
(* Statements of the documentation.                                        *)

\* EV-019 "human approval gates are enforced": a gate check that passes names
\* actions that need approval.
GatesAreListed == report.status = "PASS" => report.gated # {}
=============================================================================
