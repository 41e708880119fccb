----------------------------- MODULE VersionSet -----------------------------
(***************************************************************************)
(* What a store of events promises, whatever the order of its writers'     *)
(* steps: it holds a set of versions, versions are added at any time, and  *)
(* a version leaves the set only in the step that adds one that may take   *)
(* its place.  For addressable events that is a newer version of the same  *)
(* address, so the newest version ever added is always in the set, and an  *)
(* event without an address is never replaced.  For anchors it is another  *)
(* one of the same transaction, so a transaction keeps a claim once it has *)
(* one.                                                                    *)
(***************************************************************************)
EXTENDS Naturals

CONSTANTS
    Events,             \* the versions
    Replaces(_, _)      \* Replaces(e, f): version e may take the place of f

VARIABLE versions       \* the versions in the store

Init == versions = {}

\* e joins; any number of the versions it replaces leave.
Publish(e) ==
    \E old \in SUBSET {f \in versions : Replaces(e, f)} :
        versions' = (versions \ old) \union {e}

Next == \E e \in Events : Publish(e)

Spec == Init /\ [][Next]_versions
=============================================================================
