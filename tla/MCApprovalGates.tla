--------------------------- MODULE MCApprovalGates ---------------------------
(***************************************************************************)
(* Instances of ApprovalGates for TLC.                                     *)
(***************************************************************************)
EXTENDS ApprovalGates

CONSTANTS p1, p2, local, push, delete

Open(k) == [is |-> "open", name |-> k]
Entry(a) == [is |-> "item", name |-> a]

MCDefault == <<Open("allowed"), Entry(local), Open("gated"), Entry(push),
               Open("blocked"), Entry(delete)>>

\* The lines that matter to the reader.
SomeLines ==
    {Open("allowed"), Open("gated"), [is |-> "word", name |-> "gated"],
     [is |-> "number", name |-> "gated"], Entry(local), Entry(push),
     [is |-> "noise", name |-> "-"]}

\* Policies of the user's own: every text of one or two lines, and every one of
\* three that opens a list first, which the next lines close, open again, put
\* aside or add to.  Among them are policies that allow the push or block
\* nothing, and some have a number where a list is expected.
OwnTexts ==
    {<<Open("allowed"), Entry(push)>>,
     <<Open("gated"), Entry(push), [is |-> "number", name |-> "allowed"]>>}
       \cup (SeqOf(SomeLines, 2) \ {<<>>})
       \cup {<<Open("gated"), line1, line2>> : line1, line2 \in SomeLines}
=============================================================================
