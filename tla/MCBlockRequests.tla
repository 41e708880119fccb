--------------------------- MODULE MCBlockRequests ---------------------------
(***************************************************************************)
(* Two calls that want the same block; two peers that stay and are asked  *)
(* at once, or a single one that may be lost before or while it is asked.  *)
(***************************************************************************)
EXTENDS BlockRequests

CONSTANTS c1, c2, b1, p1, p2, p3, a1, a2, a3

MCCalls == {c1, c2}
MCBlocks == {b1}
MCPeers == {p1, p2, p3}
MCAddresses == {a1, a2, a3}
MCAddrOf == [p \in MCPeers |-> IF p = p1 THEN a1 ELSE IF p = p2 THEN a2 ELSE a3]
MCInitial == {{p1}, {p2, p3}}
MCFlaky == {p1}
=============================================================================
