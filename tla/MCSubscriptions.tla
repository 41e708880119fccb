--------------------------- MODULE MCSubscriptions ---------------------------
(***************************************************************************)
(* Two clients that share two subscription ids, and two versions of an     *)
(* event of which the second may be blocked.                               *)
(***************************************************************************)
EXTENDS Subscriptions

CONSTANTS c1, c2, s1, s2

MCClients == {c1, c2}
MCSubIds == {s1, s2}
MCEvents == {1, 2}
MCNewer(e, f) == e > f
MCQueries == {{{1}, {2}}}
MCGuarded == {2}
=============================================================================
