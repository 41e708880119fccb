----------------------------- MODULE MCChainSync -----------------------------
(***************************************************************************)
(* One manual caller.  b2 gives way to c2 and c3.  c2 has t2, at another   *)
(* position than b2 has it, and not t1.                                    *)
(***************************************************************************)
EXTENDS ChainSync

CONSTANTS b1, b2, c2, c3, t1, t2, s, h1

MCHandlers == {h1}
MCTxs == {t1, t2}
MCAnchored == {t1}
MCManualHeights == {2}
MCBlocks == {b1, b2, c2, c3}

MCContent ==
    [b \in MCBlocks |-> CASE b = b2 -> <<t1, t2>>
                          [] b = c2 -> <<t2>>
                          [] OTHER  -> <<>>]

\* A reorganization at height 2.
MCReorg == << <<b1, b2>>, <<b1, c2, c3>> >>
=============================================================================
