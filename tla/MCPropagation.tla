---------------------------- MODULE MCPropagation ----------------------------
(***************************************************************************)
(* Two nodes that found each other and share a relay.  An old anchor that  *)
(* the first node has, an update of its author, and a propagation event    *)
(* that asks the other node to fetch the anchor.                           *)
(* Units of five minutes: fresh for two of them, remembered for three.     *)
(***************************************************************************)
EXTENDS Propagation

CONSTANTS n1, n2, r1, a1

MCNodes == {n1, n2}
MCRelays == {r1}
MCFragile == {n2}
MCDiscovered(n) == MCNodes \ {n}

Event(k, c) == [kind |-> k, by |-> a1, created |-> c, addr |-> a1]
Anchor == Event("anchor", -3)
Update == Event("update", 0)
Plea == Event("propagation", -3)
MCEvents == {Anchor, Update, Plea}
MCKnown == {<<n1, Anchor>>}
MCOffers == {<<n1, Update>>, <<r1, Update>>, <<r1, Plea>>, <<r1, Anchor>>}
=============================================================================
