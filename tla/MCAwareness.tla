----------------------------- MODULE MCAwareness -----------------------------
(***************************************************************************)
(* One peer and the admin with two lists each, one DNN ID with one name,   *)
(* two relays of which the second fails at times, and two requests for the *)
(* admin's list beside the operator's own edits.                           *)
(***************************************************************************)
EXTENDS Awareness

CONSTANTS loop, h1, h2, p1, admin, t1, n1, r1, r2

MCAdminSyncs == {h1, h2}
MCPeers == {p1}
MCTlds == {t1}
MCLabels == {n1}
MCRelays == <<r1, r2>>
MCSteady == {r1}

Tld == <<t1, NoLabel>>
Name == <<t1, n1>>

List(author, n, entries) == [by |-> author, created |-> n, tags |-> entries]

Peer1 == List(p1, 1, << <<Tld, "block">> >>)
Peer2 == List(p1, 2, << <<Name, "block">> >>)
Admin1 == List(admin, 1, << <<Name, "block">> >>)
Admin2 == List(admin, 2, << <<Name, "other">>, <<Tld, "allow">> >>)

MCLists == {Peer1, Peer2, Admin1, Admin2}
MCHolds == {<<r1, Peer1>>, <<r1, Peer2>>, <<r1, Admin1>>, <<r2, Admin2>>}
MCEdits == {<<Name, "block">>}
=============================================================================
