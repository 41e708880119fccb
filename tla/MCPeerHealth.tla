----------------------------- MODULE MCPeerHealth -----------------------------
(***************************************************************************)
(* Two goroutines that discover, the health check, one address of another  *)
(* node, whose identity may change, and one of our own.                    *)
(***************************************************************************)
EXTENDS PeerHealth

CONSTANTS d1, d2, a1, own, k1, k2, u1, u2

MCDiscoverers == {d1, d2}
MCAddresses == {a1}
MCOwn == {own}
MCKeys == {k1, k2}
MCUrls == {u1, u2}
MCRequested == {{u1}}
MCConfigured == {u2}
MCAnnouncements == {[addresses |-> {a1, own}, urls |-> {u1, u2}]}
=============================================================================
