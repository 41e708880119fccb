------------------------- MODULE MCAddressableStore -------------------------
(***************************************************************************)
(* Two callers.  One address of the name table gets three versions, two of *)
(* them with one created_at; the other tables get one event each, and the  *)
(* connection event has no d tag.                                          *)
(***************************************************************************)
EXTENDS AddressableStore

CONSTANTS c1, c2, d1

MCCallers == {c1, c2}
MCDTags == {d1}

Event(k, d, t, n) == [kind |-> k, d |-> d, ts |-> t, n |-> n]

MCEvents ==
    { Event("name", d1, 1, 1), Event("name", d1, 2, 1), Event("name", d1, 2, 2),
      Event("connection", NoDTag, 1, 1), Event("metadata", d1, 1, 1) }

\* Three versions of one address, each with a created_at of its own.
MCDistinctVersions ==
    { Event("name", d1, 1, 1), Event("name", d1, 2, 1), Event("name", d1, 3, 1) }
=============================================================================
