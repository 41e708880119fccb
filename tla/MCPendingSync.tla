---------------------------- MODULE MCPendingSync ----------------------------
(***************************************************************************)
(* Two transactions and batches of one, the second transaction recorded    *)
(* while the node runs.  The first is claimed on a relay that answers; a   *)
(* later claim of it on a relay that fails at times does not validate and  *)
(* hides the first whenever that relay answers.                            *)
(***************************************************************************)
EXTENDS PendingSync

CONSTANTS sync, http, r1, r2, t1, t2, p1, p2

MCHandlers == {http}
MCRelays == {r1, r2}
MCSteady == {r1}
MCTxs == {t1, t2}
MCDiscoveredAt == [t \in MCTxs |-> IF t = t1 THEN 1 ELSE 2]
MCRecorded == {t1}
MCPubkeys == {p1, p2}

Anchor(p, t, n, v) == [pk |-> p, tx |-> t, created |-> n, id |-> n, valid |-> v]

MCAnchors == { Anchor(p1, t1, 1, TRUE), Anchor(p2, t1, 3, FALSE) }
MCHolds == {<<r1, Anchor(p1, t1, 1, TRUE)>>, <<r2, Anchor(p2, t1, 3, FALSE)>>}
=============================================================================
