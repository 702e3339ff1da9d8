----------------------------- MODULE PolicyText -----------------------------
(***************************************************************************)
(* How policies/approval-gates.yaml is read.  gates.py has a line reader   *)
(* of its own, not a YAML parser; a policy is the sequence of its lines,   *)
(* and a line is what the reader takes it for:                             *)
(*   open    "key:", which starts the list of a section, an empty one      *)
(*   word    "key: text", which replaces the section by a string           *)
(*   number  "key: 12", which replaces it by an integer                    *)
(*   item    "  - action", added to the list that is open, if one is       *)
(*   noise   a blank line, a comment, a line indented in any other way     *)
(* A string in place of a list is a list of letters: it names no action.   *)
(***************************************************************************)
EXTENDS Naturals, SequencesExt

CONSTANT Action     \* the action names that occur in policies and requests

\* allowed_without_human_approval, always_require_human_approval,
\* blocked_in_v1, and the keys no decision looks at
Section == {"allowed", "gated", "blocked", "other"}

Headings == {"open", "word", "number"}

Line == [is : Headings, name : Section] \cup [is : {"item"}, name : Action]
           \cup [is : {"noise"}, name : {"-"}]

-----------------------------------------------------------------------------
(* The reader, line by line.                                               *)

NothingRead == [items |-> [k \in Section |-> {}], numbers |-> {}, key |-> "-"]

\* Mutant of ReadLine: only a list heading moves the current key.
ReadLineIntoOldList(r, line) ==
    CASE line.is = "open" -> [r EXCEPT !.items[line.name] = {},
                                       !.numbers = @ \ {line.name},
                                       !.key = line.name]
      [] line.is \in {"word", "number"} ->
            [r EXCEPT !.items[line.name] = {},
                      !.numbers = IF line.is = "number" THEN @ \cup {line.name}
                                  ELSE @ \ {line.name}]
      [] line.is = "item" /\ r.key # "-" ->
            [r EXCEPT !.items[r.key] = @ \cup {line.name}]
      [] OTHER -> r

\* A heading replaces what its section held so far.
ReadLine(r, line) ==
    CASE line.is \in Headings ->
            [r EXCEPT !.items[line.name] = {},
                      !.numbers = IF line.is = "number" THEN @ \cup {line.name}
                                  ELSE @ \ {line.name},
                      !.key = IF line.is = "open" THEN line.name ELSE "-"]
      [] line.is = "item" /\ r.key # "-" ->
            [r EXCEPT !.items[r.key] = @ \cup {line.name}]
      [] OTHER -> r

Parsed(text) ==
    LET after[n \in 0 .. Len(text)] ==   \* what is read after n lines
          IF n = 0 THEN NothingRead ELSE ReadLine(after[n - 1], text[n])
    IN  after[Len(text)]

-----------------------------------------------------------------------------
(* What the reader makes of a text, without reading it in order.           *)

IsHeading(text, i) == text[i].is \in Headings

\* Line i is the last heading of section k.
LastHeading(text, k, i) ==
    /\ IsHeading(text, i) /\ text[i].name = k
    /\ \A j \in DOMAIN text : j > i /\ IsHeading(text, j) => text[j].name # k

\* Item j stands in the list that heading i opens.
Under(text, i, j) ==
    /\ i < j
    /\ \A h \in DOMAIN text : i < h /\ h < j => ~ IsHeading(text, h)

Listed(text, k) ==
    {text[j].name : j \in {j \in DOMAIN text :
        /\ text[j].is = "item"
        /\ \E i \in DOMAIN text : /\ LastHeading(text, k, i)
                                  /\ text[i].is = "open"
                                  /\ Under(text, i, j)}}

Numbered(text) ==
    {k \in Section : \E i \in DOMAIN text :
        LastHeading(text, k, i) /\ text[i].is = "number"}

\* The reader finds exactly what the text lists.
ReadAsListed(text) ==
    /\ Parsed(text).numbers = Numbered(text)
    /\ \A k \in Section : Parsed(text).items[k] = Listed(text, k)
=============================================================================
