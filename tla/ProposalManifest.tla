--------------------------- MODULE ProposalManifest ---------------------------
(***************************************************************************)
(* The rules a reviewed-apply proposal is validated by                     *)
(* (proposals.py, validate_manifest).  A manifest keeps of each field what *)
(* the rules ask of it: a flag is the literal it must be, its opposite, or *)
(* anything else, a missing field included ("is not False" refuses both).  *)
(***************************************************************************)
CONSTANTS
    Remote, Destructive,   \* REMOTE_PUBLICATION_ACTIONS, DESTRUCTIVE_ACTIONS
    Gated,                 \* GATED_ACTIONS
    Listed,                \* the gated types a manifest has to block
    Unknown,               \* other action types a manifest may name
    NoType                 \* the empty type

ASSUME ManifestAssumption == Listed \subseteq Gated

ActionType == Remote \cup Destructive \cup Gated \cup Unknown

\* Top-level flags and those of the apply plan, with the value demanded.
Denied == {"destructive", "apply_allowed", "apply_executed",
           "destructive_operations_allowed", "remote_publication_allowed",
           "provenance_upgrade_allowed"}
Granted == {"review_gated", "human_approval_required"}
Flag == Denied \cup Granted

\* An action: destructive, remote   the literal True is given
\*            inside                target is no absolute or climbing path
ActionRecord ==
    [type : ActionType \cup {NoType}, destructive : BOOLEAN, remote : BOOLEAN,
     inside : BOOLEAN]

\* complete  every required field is there; the version fields are right;
\*           evidence, required_approvals, blockers, warnings are as demanded
\* actions   the actions; malformed: the field, or an entry, is of another type
Manifest ==
    [complete : BOOLEAN, flags : [Flag -> {"true", "false", "other"}],
     blocked : SUBSET ActionType, actions : SUBSET ActionRecord,
     malformed : BOOLEAN]

\* Mutant of DefaultManifest: it blocks the gated types only.
DefaultManifestGated ==
    [complete |-> TRUE,
     flags |-> [f \in Flag |-> IF f \in Granted THEN "true" ELSE "false"],
     blocked |-> Gated, actions |-> {}, malformed |-> FALSE]

\* build_default_manifest: every gate closed, nothing to do.
DefaultManifest ==
    [complete |-> TRUE,
     flags |-> [f \in Flag |-> IF f \in Granted THEN "true" ELSE "false"],
     blocked |-> Remote \cup Destructive \cup Gated, actions |-> {},
     malformed |-> FALSE]

MustBlock == Remote \cup Destructive \cup Listed

FlagsClosed(m) ==
    /\ \A f \in Denied : m.flags[f] = "false"
    /\ \A f \in Granted : m.flags[f] = "true"

\* Mutant of ActionPasses: an action is looked up in the fixed sets only.
ActionPassesUnlessFixed(m, a) ==
    /\ a.type # NoType
    /\ ~ a.destructive /\ ~ a.remote /\ a.inside
    /\ a.type \notin Remote \cup Destructive

\* A type that is unknown is a warning only.
ActionPasses(m, a) ==
    /\ a.type # NoType
    /\ ~ a.destructive /\ ~ a.remote /\ a.inside
    /\ a.type \notin m.blocked \cup Remote \cup Destructive

Passes(m) ==
    /\ m.complete
    /\ FlagsClosed(m)
    /\ MustBlock \subseteq m.blocked
    /\ ~ m.malformed
    /\ \A a \in m.actions : ActionPasses(m, a)

\* What a manifest that passed may still propose: no remote or destructive
\* action, none of the gated types a manifest must block, and no execution.
\* The other gated types are kept out only by the manifest's own list.
Reviewable(m) ==
    /\ FlagsClosed(m)
    /\ \A a \in m.actions :
          /\ a.type \notin Remote \cup Destructive \cup Listed
          /\ a.type \in Gated => a.type \notin m.blocked
          /\ ~ a.destructive /\ ~ a.remote
===============================================================================
