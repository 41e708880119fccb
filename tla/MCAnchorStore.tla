---------------------------- MODULE MCAnchorStore ----------------------------
(***************************************************************************)
(* Two callers, two transactions.  One owner has two d tags competing for  *)
(* x1, one of them in two versions and moved to x2 by a third; another     *)
(* pubkey also claims x1.                                                  *)
(***************************************************************************)
EXTENDS AnchorStore

CONSTANTS c1, c2, p1, p2, d1, d2, x1, x2

MCCallers == {c1, c2}
MCPubkeys == {p1, p2}
MCDTags == {d1, d2}
MCTxs == {x1, x2}

Anchor(p, d, x, created, updated, i) ==
    [pk |-> p, d |-> d, tx |-> x, created |-> created, updated |-> updated, id |-> i]

MCAnchors ==
    { Anchor(p1, d1, x1, 1, 1, 1), Anchor(p1, d1, x1, 2, 3, 2),
      Anchor(p1, d2, x1, 2, 2, 3), Anchor(p1, d1, x2, 3, 4, 4),
      Anchor(p2, d1, x1, 1, 1, 5) }
=============================================================================
