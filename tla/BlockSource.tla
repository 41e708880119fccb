----------------------------- MODULE BlockSource -----------------------------
(***************************************************************************)
(* What a client that downloads blocks promises to its callers, however    *)
(* many peers it asks for one block and in whatever order they answer: a   *)
(* block is kept only after a peer sent it to a call that waits for it, a  *)
(* call is served a block that is kept or was sent to it, and fails only   *)
(* if no good block was.  A call ends once, and its end is not taken back  *)
(* unless the process restarts.                                            *)
(***************************************************************************)
CONSTANTS Calls, Blocks, NoBlock

VARIABLES
    kept,      \* the blocks that are kept
    promised   \* call |-> where it is, its block, whether a peer sent it that block

Outcomes == {"served", "failed"}
NotYet == [at |-> "idle", block |-> NoBlock, answered |-> FALSE]

Init == kept = {} /\ promised = [c \in Calls |-> NotYet]

Ask(c, b) ==
    /\ promised[c].at = "idle"
    /\ promised' = [promised EXCEPT ![c] =
                      [at |-> IF b \in kept THEN "served" ELSE "waiting",
                       block |-> b, answered |-> FALSE]]
    /\ UNCHANGED kept

\* Also once more, by another of the peers that were asked.
Answer(c) ==
    /\ promised[c].at = "waiting"
    /\ kept' = kept \union {promised[c].block}
    /\ promised' = [promised EXCEPT ![c].answered = TRUE]

End(c, outcome) ==
    /\ promised[c].at = "waiting"
    /\ outcome = IF promised[c].answered THEN "served" ELSE "failed"
    /\ promised' = [promised EXCEPT ![c].at = outcome]
    /\ UNCHANGED kept

\* The process lost its memory.
Restart == kept' = {} /\ promised' = [c \in Calls |-> NotYet]

Next ==
    \/ \E c \in Calls : \/ \E b \in Blocks : Ask(c, b)
                        \/ Answer(c)
                        \/ \E outcome \in Outcomes : End(c, outcome)
    \/ Restart

Spec == Init /\ [][Next]_<<kept, promised>>
=============================================================================
