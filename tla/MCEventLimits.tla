---------------------------- MODULE MCEventLimits ----------------------------
(***************************************************************************)
(* One handler, beside which events are relayed and the cleanup runs.      *)
(* Limits of one version and two d tags, three d tags: d1 has two versions *)
(* that tie and a newer one, and gets referenced.  The text of d2 happens  *)
(* to occur in the naddr of d1, that of d1 does not.                       *)
(***************************************************************************)
EXTENDS EventLimits

CONSTANTS h1, d1, d2, d3

MCHandlers == {h1}
MCDTags == {d1, d2, d3}
MCReferable == {d1}
MCLooksLike == {<<d2, d1>>}

Event(d, t, n) == [d |-> d, ts |-> t, n |-> n]

MCEvents ==
    { Event(d1, 1, 1), Event(d1, 1, 2), Event(d1, 2, 1), Event(d2, 2, 1), Event(d3, 3, 1) }
=============================================================================
