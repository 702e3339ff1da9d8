--------------------------- MODULE MCLocalArtifacts ---------------------------
(***************************************************************************)
(* Instances of LocalArtifacts for TLC.                                    *)
(***************************************************************************)
EXTENDS LocalArtifacts

CONSTANTS p1, p2, push, delete, commit, mutate, local

Proposing(type) ==
    [DefaultManifest EXCEPT
        !.actions = {[type |-> type, destructive |-> FALSE, remote |-> FALSE,
                      inside |-> TRUE]}]

Either == Permutations({p1, p2})

\* Manifests a user may write: one with a blocked action, one that leaves a
\* gated type out of its list and proposes it, and a JSON value.
MCUserItems ==
    {Document(Proposing(mutate)),
     Document([Proposing(commit) EXCEPT !.blocked = @ \ {commit}]),
     Plain("value")}
===============================================================================
