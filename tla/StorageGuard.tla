---------------------------- MODULE StorageGuard ----------------------------
(***************************************************************************)
(* `storage-audit' and `raw-archive-proposal' (storage.py): one walk per   *)
(* root that counts files and bytes, and a capacity status of the sum,     *)
(* while the programs that are measured go on writing.  The two commands   *)
(* differ in what they render only.                                        *)
(*                                                                         *)
(* The walk is pathlib's rglob: a directory is listed, its entries are     *)
(* tested one by one, then it is listed again for the directories to go    *)
(* down into.  A directory that is gone when it is listed is an error that *)
(* nobody catches up to Python 3.12 and an empty one after that.           *)
(***************************************************************************)
EXTENDS Integers, FiniteSetsExt, SequencesExt

CONSTANTS
    Path,       \* paths as sequences of names
    Dir,        \* those that are directories, if they are there
    SkipName,   \* SKIP_DIR_NAMES
    RootLists,  \* bound: the --active-root lists that are tried
    Archive,    \* the --archive-root
    MaxSize,    \* bound: bytes of a file
    MaxChanges, \* bound: changes during an audit
    Warning, Hard, \* the two thresholds
    ErrorCap    \* the errors a root reports

ASSUME StorageGuardAssumption ==
    /\ Dir \subseteq Path /\ Archive \in Path
    /\ RootLists \subseteq Seq(Path)
    /\ Warning \in Nat /\ Hard \in Nat /\ Warning <= Hard
    /\ MaxSize \in Nat /\ MaxChanges \in Nat /\ ErrorCap \in Nat

File == Path \ Dir

\* Paths are finitely many non-empty sequences of names; above a path there are
\* directories only, and at least one above a file.
ASSUME PathAssumption ==
    /\ IsFiniteSet(Path)
    /\ Path \subseteq Seq(UNION {ToSet(p) : p \in Path})
    /\ \A p \in Path : Len(p) > 0 /\ (p \in File => Len(p) > 1)
    /\ \A p \in Path : \A n \in 1 .. Len(p) - 1 : SubSeq(p, 1, n) \in Dir

VARIABLES
    disk,       \* size of each path, Absent, or 0 for a directory
    roots,      \* the command's active roots
    pc,         \* root, walk, stat, report, done
    todo,       \* directories to list
    here,       \* sequence of at most one: the directory being listed
    pending,    \* its entries to test
    target,     \* sequence of at most one: the file to stat
    count,      \* counts of the root being walked
    stats,      \* counts of the roots done; the archive root is the last
    status,     \* capacity_status
    exit,
    changes, low, high  \* for the properties: changes so far, and the least
                        \* and greatest size each file had since the start

walk == <<todo, here, pending, target, count>>
vars == <<disk, roots, pc, walk, stats, status, exit, changes, low, high>>

Absent == -1
There(p) == disk[p] # Absent
Parent(p) == Front(p)
Entries(d) == {p \in Path : Len(p) = Len(d) + 1 /\ Parent(p) = d /\ There(p)}
Bytes(size) == IF size = Absent THEN 0 ELSE size
Sizes(d) == [f \in File |-> Bytes(d[f])]

\* Mutant of Skipped: the root's own path is looked at as well.
SkippedAnywhere(root, p) == \E i \in DOMAIN p : p[i] \in SkipName

\* A part of the path below the root is one of the names to skip.
Skipped(root, p) == \E i \in Len(root) + 1 .. Len(p) : p[i] \in SkipName

Zero == [exists |-> TRUE, bytes |-> 0, files |-> 0, dirs |-> 0, errors |-> 0]
Gone == [Zero EXCEPT !.exists = FALSE]

Total(ss) == LET active == 1 .. Len(roots)
             IN  SumFunctionOnSet([i \in active |-> ss[i].bytes], active)

\* Mutant of classify_capacity: the limit itself is above the limit.
classify_capacity_eagerly(total) ==
    CASE total >= Hard -> "above_hard_limit"
      [] total < Hard /\ total >= Warning -> "warning_to_hard_limit"
      [] OTHER -> "below_warning"

classify_capacity(total) ==
    CASE total > Hard -> "above_hard_limit"
      [] total <= Hard /\ total >= Warning -> "warning_to_hard_limit"
      [] OTHER -> "below_warning"

IsTree(f) ==
    \A p \in Path : f[p] # Absent /\ Parent(p) \in Path => f[Parent(p)] # Absent

Init ==
    /\ disk \in {f \in [Path -> Absent .. MaxSize] :
                    IsTree(f) /\ \A d \in Dir : f[d] <= 0}
    /\ roots \in RootLists
    /\ pc = "root"
    /\ todo = {} /\ here = <<>> /\ pending = {} /\ target = <<>> /\ count = Zero
    /\ stats = <<>>
    /\ status = "none" /\ exit = "none"
    /\ changes = 0
    /\ low = Sizes(disk) /\ high = Sizes(disk)

-----------------------------------------------------------------------------
(* The walk.                                                               *)

Arguments == Append(roots, Archive)
Root == Arguments[Len(stats) + 1]
Around == UNCHANGED <<disk, roots, status, changes, low, high>>

Raise ==
    /\ pc' = "done" /\ exit' = "raised"
    /\ UNCHANGED <<walk, stats>>

\* A root that is a file has no entries: it counts nothing.
OpenRoot ==
    /\ pc = "root" /\ Len(stats) < Len(Arguments)
    /\ \/ /\ ~ There(Root)
          /\ stats' = Append(stats, Gone)
          /\ UNCHANGED <<pc, walk>>
       \/ /\ There(Root)
          /\ pc' = "walk"
          /\ todo' = {Root} \cap Dir
          /\ count' = Zero
          /\ UNCHANGED <<here, pending, target, stats>>
    /\ UNCHANGED exit
    /\ Around

\* Both listings of a directory fail alike when it is gone.
Listing(d, found, missed) ==
    \/ There(d) /\ found
    \/ ~ There(d) /\ missed /\ UNCHANGED <<pc, exit, target, count, stats>>
    \/ ~ There(d) /\ Raise

ListEntries ==
    /\ pc = "walk" /\ here = <<>>
    /\ \E d \in todo :
          Listing(d,
              /\ todo' = todo \ {d}
              /\ here' = <<d>>
              /\ pending' = Entries(d)
              /\ UNCHANGED <<pc, exit, target, count, stats>>,
              /\ todo' = todo \ {d}
              /\ UNCHANGED <<here, pending>>)
    /\ Around

TestEntry ==
    /\ pc = "walk"
    /\ \E p \in pending :
          /\ pending' = pending \ {p}
          /\ IF There(p) /\ ~ Skipped(Root, p)
             THEN IF p \in Dir
                  THEN /\ count' = [count EXCEPT !.dirs = @ + 1]
                       /\ UNCHANGED <<pc, target>>
                  ELSE /\ count' = [count EXCEPT !.files = @ + 1]
                       /\ pc' = "stat" /\ target' = <<p>>
             ELSE UNCHANGED <<pc, target, count>>
    /\ UNCHANGED <<todo, here, stats, exit>>
    /\ Around

StatFile ==
    /\ pc = "stat"
    /\ pc' = "walk" /\ target' = <<>>
    /\ count' = IF There(target[1])
                THEN [count EXCEPT !.bytes = @ + disk[target[1]]]
                ELSE [count EXCEPT !.errors = @ + 1]
    /\ UNCHANGED <<todo, here, pending, stats, exit>>
    /\ Around

\* Mutant of Descend: glob is called instead of rglob.
DescendNever ==
    /\ pc = "walk" /\ here # <<>> /\ pending = {}
    /\ here' = <<>>
    /\ UNCHANGED <<pc, todo, pending, target, count, stats, exit>>
    /\ Around

Descend ==
    /\ pc = "walk" /\ here # <<>> /\ pending = {}
    /\ Listing(here[1],
           /\ todo' = todo \cup (Entries(here[1]) \cap Dir)
           /\ here' = <<>>
           /\ UNCHANGED <<pc, pending, target, count, stats, exit>>,
           /\ here' = <<>>
           /\ UNCHANGED <<todo, pending>>)
    /\ Around

\* Mutant of CloseRoot: the errors are not cut.
CloseRootWithAllErrors ==
    /\ pc = "walk" /\ todo = {} /\ here = <<>>
    /\ stats' = Append(stats, count)
    /\ pc' = "root"
    /\ UNCHANGED <<walk, exit>>
    /\ Around

CloseRoot ==
    /\ pc = "walk" /\ todo = {} /\ here = <<>>
    /\ stats' = Append(stats,
                    [count EXCEPT !.errors = IF @ < ErrorCap THEN @ ELSE ErrorCap])
    /\ pc' = "root"
    /\ UNCHANGED <<walk, exit>>
    /\ Around

-----------------------------------------------------------------------------
(* The report.                                                             *)

Classify ==
    /\ pc = "root" /\ Len(stats) = Len(Arguments)
    /\ status' = classify_capacity(Total(stats))
    /\ pc' = "report"
    /\ UNCHANGED <<disk, roots, walk, stats, exit, changes, low, high>>

\* --out is looked at when the audit is done; the exit code says nothing of
\* the capacity.
Report ==
    /\ pc = "report"
    /\ \E allowed \in BOOLEAN : exit' = IF allowed THEN "ok" ELSE "unsafe_output"
    /\ pc' = "done"
    /\ UNCHANGED <<walk, stats>>
    /\ Around

-----------------------------------------------------------------------------
(* The programs that are measured.                                         *)

Now(f) ==
    /\ pc # "done" /\ changes < MaxChanges
    /\ disk' = f
    /\ changes' = changes + 1
    /\ LET now == Sizes(f)
       IN  /\ low' = [x \in File |-> IF now[x] < low[x] THEN now[x] ELSE low[x]]
           /\ high' = [x \in File |-> IF now[x] > high[x] THEN now[x] ELSE high[x]]
    /\ UNCHANGED <<roots, pc, walk, stats, status, exit>>

WriteFile ==
    \E f \in File, size \in 0 .. MaxSize :
        /\ There(Parent(f)) /\ disk[f] # size
        /\ Now([disk EXCEPT ![f] = size])

MoveFile ==
    \E f, g \in File :
        /\ There(f) /\ There(Parent(g)) /\ f # g
        /\ Now([disk EXCEPT ![g] = disk[f], ![f] = Absent])

MakeDir ==
    \E d \in Dir :
        /\ ~ There(d) /\ (Parent(d) \in Path => There(Parent(d)))
        /\ Now([disk EXCEPT ![d] = 0])

\* A file, or a directory with all that is in it, is deleted or moved away.
TakeAway ==
    \E p \in Path :
        /\ There(p)
        /\ Now([x \in Path |-> IF IsPrefix(p, x) THEN Absent ELSE disk[x]])

Audit ==
    \/ OpenRoot
    \/ ListEntries
    \/ TestEntry
    \/ StatFile
    \/ Descend
    \/ CloseRoot
    \/ Classify
    \/ Report

Next == Audit \/ WriteFile \/ MoveFile \/ MakeDir \/ TakeAway

Spec == Init /\ [][Next]_vars

-----------------------------------------------------------------------------
(* Type invariant.                                                         *)

Counts ==
    [exists : BOOLEAN, bytes : Nat, files : 0 .. Cardinality(File),
     dirs : 0 .. Cardinality(Dir), errors : Nat]

\* Every variable has its type; a root reports no more errors than the cap,
\* and no more than it has files.
TypeOK ==
    /\ disk \in [Path -> Absent .. MaxSize] /\ IsTree(disk)
    /\ roots \in RootLists
    /\ pc \in {"root", "walk", "stat", "report", "done"}
    /\ todo \subseteq Dir /\ pending \subseteq Path
    /\ here \in {<<>>} \cup {<<d>> : d \in Dir}
    /\ target \in {<<>>} \cup {<<f>> : f \in File}
    /\ count \in Counts
    /\ Len(stats) <= Len(Arguments)
    /\ \A i \in DOMAIN stats :
          stats[i] \in Counts /\ stats[i].errors <= ErrorCap
                              /\ stats[i].errors <= stats[i].files
    /\ exit \in {"none", "ok", "unsafe_output", "raised"}
    /\ changes \in 0 .. MaxChanges

-----------------------------------------------------------------------------
(* Safety.                                                                 *)

\* What an audit of root is about.
Below(root, S) ==
    {p \in S : /\ IsStrictPrefix(root, p)
               /\ ToSet(SubSeq(p, Len(root) + 1, Len(p))) \cap SkipName = {}}

Measured(root) == Below(root, File)

\* While nothing changes, the report is exact, for every root by itself.
QuietIsExact ==
    changes = 0 =>
        /\ exit # "raised"
        /\ \A i \in DOMAIN stats :
              LET root == Arguments[i]
                  now(S) == {p \in S : There(p)}
              IN  stats[i] =
                    [exists |-> There(root),
                     bytes |-> SumFunctionOnSet(Sizes(disk), Measured(root)),
                     files |-> Cardinality(now(Measured(root))),
                     dirs |-> Cardinality(now(Below(root, Dir))),
                     errors |-> 0]

Covered == UNION {Measured(roots[i]) : i \in DOMAIN roots}

\* No alarm is missed: the bytes that were there all the time are in the sum,
\* however files come, go and move meanwhile.
AlarmIsRaised ==
    status # "none" /\ SumFunctionOnSet(low, Covered) > Hard
        => status = "above_hard_limit"

\* No alarm is raised for nothing: unless two of the roots overlap, what is
\* counted has been there, each file at the largest size it had.
AlarmIsEarned ==
    /\ status = "above_hard_limit"
    /\ \A i, j \in DOMAIN roots :
          i # j => Measured(roots[i]) \cap Measured(roots[j]) = {}
    => SumFunctionOnSet(high, Covered) > Hard
=============================================================================
