--------------------------- MODULE ChainSyncProofs ---------------------------
(***************************************************************************)
(* Proofs about ChainSync, for any chains, blocks, transactions, handlers, *)
(* intervals and number of faults: the variables keep their types, and     *)
(* last_synced_block never runs ahead of the scan.                         *)
(***************************************************************************)
EXTENDS ChainSync, SequenceTheorems, TLAPS

Calls == [at : Steps, first : Nat, n : Nat, end : Nat,
          block : Blocks \union {None}, tx : Txs \union {None}]

Places == [n : Heights, i : Nat] \union {None}

\* TypeOK in parts, one per group of variables a step writes.
ClientOK ==
    /\ best \in 1..Len(History)
    /\ cache \in Seq(Blocks) /\ Len(cache) \in 0..MaxHeight
    /\ count \in 0..Len(cache) /\ indexed \subseteq Blocks

CallsOK == calls \in [Procs -> Calls] /\ \A p \in Procs : WellFormed(p)

RowsOK ==
    /\ lastSynced \in Nat
    /\ blocks \in [Heights -> Blocks \union {None}]
    /\ txs \in [Txs -> Places] /\ anchors \in [Txs -> Places] /\ marked \subseteq Txs

HistoryOK ==
    /\ published \subseteq Txs
    /\ scanned \subseteq Blocks \X Heights
    /\ excused \subseteq Heights /\ guessed \subseteq Txs
    /\ faults \in 0..MaxFaults

LEMMA TypeParts == TypeOK <=> ClientOK /\ CallsOK /\ RowsOK /\ HistoryOK
BY DEF TypeOK, ClientOK, CallsOK, RowsOK, HistoryOK, Calls, Places

-----------------------------------------------------------------------------
(* Constants. *)

LEMMA HeightsAreNat == MaxHeight \in Nat /\ Heights = 1..MaxHeight /\ Heights \subseteq Nat
<1>1. Len(History) \in 1..Len(History)
  BY HistoryAssumption
<1>2. Len(History[Len(History)]) \in 1..MaxHeight
  BY <1>1, HistoryAssumption
<1>3. History[Len(History)] \in Seq(Blocks)
  BY <1>1, HistoryAssumption
<1>4. MaxHeight \in Nat
  BY <1>3 DEF MaxHeight
<1> QED BY <1>4 DEF Heights

LEMMA NumbersAreNat ==
    BatchSize \in Nat \ {0} /\ MaxFaults \in Nat /\ ReorgLookback \in Nat
BY NumbersAssumption

LEMMA ProcsOK == Syncer \in Procs /\ \A p \in Handlers : p \in Procs /\ p # Syncer
BY NamesAssumption DEF Procs

\* The best chain is a sequence of blocks of at most the largest height.
LEMMA BestOK ==
    ASSUME best \in 1..Len(History)
    PROVE  /\ Best \in Seq(Blocks) /\ Len(Best) \in Heights
           /\ \A n \in DOMAIN Best : n \in Heights /\ Best[n] \in Blocks
<1>1. Best \in Seq(Blocks) /\ Len(Best) \in 1..MaxHeight
  BY HistoryAssumption DEF Best
<1>2. Best \in [1..Len(Best) -> Blocks]
  BY HistoryAssumption DEF Best
<1> QED BY <1>1, <1>2, HeightsAreNat

LEMMA CacheValues ==
    ASSUME cache \in Seq(Blocks), NEW n \in DOMAIN cache
    PROVE  cache[n] \in Blocks
OBVIOUS

LEMMA IndexIsNat ==
    ASSUME NEW b \in Blocks, NEW t \in InBlock(b)
    PROVE  t \in Txs /\ IndexIn(b, t) \in Nat
<1>1. Content[b] \in Seq(Txs)
  BY ContentAssumption
<1>2. \E i \in DOMAIN Content[b] : Content[b][i] = t
  BY DEF InBlock
<1>3. IndexIn(b, t) \in DOMAIN Content[b]
  BY <1>2 DEF IndexIn
<1> QED BY <1>1, <1>2, <1>3

-----------------------------------------------------------------------------
(* The client's answers. *)

LEMMA CountAnswer ==
    ASSUME ClientOK, NEW h \in Heights, GetBlockCount(h)
    PROVE  /\ cache' \in Seq(Blocks) /\ Len(cache') \in 0..MaxHeight
           /\ count' \in 0..Len(cache') /\ h <= Len(cache')
<1>1. Best \in Seq(Blocks) /\ Len(Best) \in Heights
  BY BestOK DEF ClientOK
<1>2. CASE count > 0
  BY <1>2 DEF GetBlockCount, ClientOK
<1>3. CASE ~(count > 0)
  BY <1>1, <1>3, HeightsAreNat DEF GetBlockCount
<1> QED BY <1>2, <1>3

LEMMA HashAnswer ==
    ASSUME ClientOK, NEW n \in Heights, NEW b \in Blocks, GetBlockHash(n, b)
    PROVE  cache' \in Seq(Blocks) /\ Len(cache') \in 0..MaxHeight /\ Len(cache') >= Len(cache)
<1>1. CASE n \in DOMAIN cache
  BY <1>1 DEF GetBlockHash, ClientOK
<1>2. CASE n \notin DOMAIN cache
  <2>1. cache' = SubSeq(Best, 1, n) /\ n \in DOMAIN Best
    BY <1>2 DEF GetBlockHash
  <2>2. \A i \in 1..n : Best[i] \in Blocks
    BY <2>1, BestOK DEF ClientOK
  <2>3. SubSeq(Best, 1, n) \in Seq(Blocks) /\ Len(SubSeq(Best, 1, n)) = n
    BY <2>2, HeightsAreNat, SubSeqProperties
  <2>4. n > Len(cache)
    BY <1>2, HeightsAreNat DEF ClientOK
  <2> QED BY <2>1, <2>3, <2>4, HeightsAreNat DEF ClientOK
<1> QED BY <1>1, <1>2

-----------------------------------------------------------------------------
(* Steps of one process. *)

\* Process p's record becomes x; the others keep theirs.
Becomes(p, x) ==
    /\ calls' \in [Procs -> Calls]
    /\ calls'[p] = x
    /\ \A q \in Procs : q # p => calls'[q] = calls[q]

LEMMA ReplaceCall ==
    ASSUME CallsOK, NEW p \in Procs, NEW x \in Calls, calls' = [calls EXCEPT ![p] = x]
    PROVE  Becomes(p, x)
BY DEF CallsOK, Becomes

LEMMA CallsUnchanged == ASSUME CallsOK, calls' = calls PROVE CallsOK'
<1>1. ASSUME NEW q \in Procs PROVE WellFormed(q)'
  <2>1. WellFormed(q) /\ calls'[q] = calls[q]
    BY DEF CallsOK
  <2> QED BY <2>1 DEF WellFormed
<1> QED BY <1>1 DEF CallsOK

LEMMA CallsKept ==
    ASSUME CallsOK, NEW p \in Procs, NEW x, Becomes(p, x), WellFormed(p)'
    PROVE  CallsOK'
<1>1. ASSUME NEW q \in Procs PROVE WellFormed(q)'
  <2>1. CASE q = p
    BY <2>1
  <2>2. CASE q # p
    BY <2>2 DEF Becomes, CallsOK, WellFormed
  <2> QED BY <2>1, <2>2
<1> QED BY <1>1 DEF CallsOK, Becomes

\* GoTo changes only the step.
Moved(p, step) == [at |-> step, first |-> calls[p].first, n |-> calls[p].n,
                   end |-> calls[p].end, block |-> calls[p].block, tx |-> calls[p].tx]

LEMMA GoToStep ==
    ASSUME CallsOK, NEW p \in Procs, NEW step \in Steps, GoTo(p, step)
    PROVE  Becomes(p, Moved(p, step))
<1>1. calls[p] \in Calls
  BY DEF CallsOK
<1>2. Moved(p, step) \in Calls
  BY <1>1 DEF Moved, Calls
<1>3. [calls[p] EXCEPT !.at = step] = Moved(p, step)
  BY <1>1 DEF Moved, Calls
<1>4. calls' = [calls EXCEPT ![p] = Moved(p, step)]
  BY <1>3 DEF GoTo
<1> QED BY <1>2, <1>4, ReplaceCall

LEMMA ReturnStep ==
    ASSUME CallsOK, NEW p \in Procs, Return(p)
    PROVE  Becomes(p, Idle) /\ CallsOK'
<1>1. Idle \in Calls
  BY DEF Idle, Calls, Steps
<1>2. Becomes(p, Idle)
  BY <1>1, ReplaceCall DEF Return
<1>3. WellFormed(p)'
  BY <1>2 DEF Becomes, Idle, WellFormed, OnBlockSteps, BatchSteps
<1> QED BY <1>2, <1>3, CallsKept

\* A process that has a block to work on goes on to a step that needs no more.
LEMMA MoveOn ==
    ASSUME CallsOK, NEW p \in Procs, NEW step \in Steps, GoTo(p, step),
           step \in {"storeTxs", "storeAnchors", "advance"} =>
               calls[p].at \in {"writeBlock", "storeTxs", "storeAnchors"},
           step = "advance" => p = Syncer,
           step = "storeTx" => calls[p].at = "writeBlock" /\ calls[p].tx # None,
           step = "readLast" => calls[p].at = "storeAnchors" /\ p # Syncer,
           step = "writeLast" => calls[p].at = "readLast",
           step \notin {"fetch", "writeBlock", "handleReorg"}
    PROVE  CallsOK'
<1>1. Becomes(p, Moved(p, step))
  BY GoToStep
<1>2. calls[p] \in Calls /\ WellFormed(p)
  BY DEF CallsOK
<1>3. /\ calls'[p].at = step /\ calls'[p].n = calls[p].n /\ calls'[p].end = calls[p].end
      /\ calls'[p].block = calls[p].block /\ calls'[p].tx = calls[p].tx
  BY <1>1 DEF Becomes, Moved
<1>4. calls[p].tx # None => calls[p].tx \in Txs
  BY <1>2 DEF Calls
<1>5. WellFormed(p)'
  BY <1>2, <1>3, <1>4 DEF WellFormed, OnBlockSteps, BatchSteps, Steps
<1> QED BY <1>1, <1>5, CallsKept

LEMMA ContinueStep ==
    ASSUME CallsOK, calls[Syncer].at \in {"fetch", "advance"}, Continue
    PROVE  /\ CallsOK'
           /\ \/ calls'[Syncer].at = "fetch" /\ calls'[Syncer].n = calls[Syncer].n + 1
              \/ calls'[Syncer].at = "checkReorg"
           /\ \A q \in Procs : q # Syncer => calls'[q] = calls[q]
<1>1. calls[Syncer] \in Calls /\ WellFormed(Syncer) /\ Syncer \in Procs
  BY ProcsOK DEF CallsOK
<1>2. CASE GoTo(Syncer, "checkReorg")
  <2>1. Becomes(Syncer, Moved(Syncer, "checkReorg"))
    BY <1>1, <1>2, GoToStep DEF Steps
  <2> QED BY <1>1, <1>2, <2>1, MoveOn DEF Steps, Becomes, Moved
<1>3. CASE /\ calls[Syncer].n < calls[Syncer].end
           /\ calls' = [calls EXCEPT ![Syncer].at = "fetch", ![Syncer].n = calls[Syncer].n + 1]
  <2>1. calls'[Syncer].at = "fetch" /\ calls'[Syncer].n = calls[Syncer].n + 1
        /\ calls'[Syncer].end = calls[Syncer].end
    BY <1>1, <1>3 DEF CallsOK, Calls
  <2>2. Becomes(Syncer, calls'[Syncer])
    BY <1>1, <1>3 DEF CallsOK, Calls, Steps, Becomes
  <2>3. WellFormed(Syncer)'
    BY <1>1, <1>3, <2>1, HeightsAreNat DEF WellFormed, BatchSteps, OnBlockSteps
  <2> QED BY <1>1, <2>1, <2>2, <2>3, CallsKept DEF Becomes
<1> QED BY <1>2, <1>3 DEF Continue

-----------------------------------------------------------------------------
(* Type correctness of each action. *)

Typed == ClientOK /\ CallsOK /\ RowsOK /\ HistoryOK

LEMMA FaultCounted == ASSUME HistoryOK, Fault PROVE faults' \in 0..MaxFaults
BY NumbersAreNat DEF HistoryOK, Fault

\* Where a run of the sync goroutine starts: after last_synced_block, or at the genesis.
LEMMA StartedFrom ==
    ASSUME Typed, StartBatch \/ StartUnread
    PROVE  \E last \in Nat : last <= lastSynced /\ StartFrom(last)
<1>1. lastSynced \in Nat
  BY DEF Typed, RowsOK
<1> QED BY <1>1 DEF StartBatch, StartUnread, Genesis

LEMMA StartTyped == ASSUME Typed, StartBatch \/ StartUnread PROVE Typed'
<1> USE DEF Typed
<1>0. PICK last \in Nat : last <= lastSynced /\ StartFrom(last)
  BY StartedFrom
<1>1. PICK h \in Heights :
        /\ GetBlockCount(h)
        /\ calls' = IF CaughtUp(last, h) THEN calls
                    ELSE [calls EXCEPT ![Syncer] =
                             Started("fetch", last + 1, Smaller(last + BatchSize, h), None, None)]
  BY <1>0 DEF StartFrom
<1>2. ClientOK'
  BY <1>0, <1>1, CountAnswer DEF ClientOK, StartFrom, world
<1>3. CallsOK'
  <2>1. CASE CaughtUp(last, h)
    <3>1. calls' = calls
      BY <1>1, <2>1
    <3> QED BY <3>1, CallsUnchanged
  <2>2. CASE ~CaughtUp(last, h)
    <3> DEFINE e == Smaller(last + BatchSize, h)
               x == Started("fetch", last + 1, e, None, None)
    <3>1. last \in Nat /\ h \in Nat /\ last < h /\ h <= MaxHeight /\ MaxHeight \in Nat
      BY <2>2, HeightsAreNat DEF CaughtUp
    <3>2. e \in Nat /\ last + 1 <= e /\ e <= h
      BY <3>1, NumbersAreNat DEF Smaller
    <3> HIDE DEF e
    <3>3. e \in Heights /\ last + 1 \in Heights
      BY <3>1, <3>2, HeightsAreNat
    <3>4. x \in Calls
      BY <3>1, <3>2 DEF Calls, Steps, Started
    <3>5. calls' = [calls EXCEPT ![Syncer] = x]
      BY <1>1, <2>2 DEF e
    <3>6. Becomes(Syncer, x)
      BY <3>4, <3>5, ProcsOK, ReplaceCall
    <3>7. WellFormed(Syncer)'
      BY <3>2, <3>3, <3>6 DEF WellFormed, Becomes, OnBlockSteps, Started
    <3> QED BY <3>6, <3>7, ProcsOK, CallsKept
  <2> QED BY <2>1, <2>2
<1>4. faults' \in 0..MaxFaults
  BY FaultCounted DEF StartBatch, StartUnread, HistoryOK
<1> QED BY <1>0, <1>2, <1>3, <1>4 DEF StartFrom, world, tables, history, RowsOK, HistoryOK

LEMMA FetchNextTyped == ASSUME Typed, FetchNext PROVE Typed'
<1> USE DEF Typed
<1> DEFINE c == calls[Syncer]
<1>1. At(Syncer, "fetch") /\ c.n \in DOMAIN cache /\ UNCHANGED <<world, tables, history, faults>>
  BY DEF FetchNext
<1>2. CASE cache' = <<>> /\ count' = 0 /\ Return(Syncer) /\ UNCHANGED indexed
  <2>1. CallsOK'
    BY <1>2, ReturnStep, ProcsOK
  <2> QED BY <1>1, <1>2, <2>1, HeightsAreNat
      DEF ClientOK, RowsOK, HistoryOK, world, tables, history
<1>3. CASE Downloaded(Syncer, cache[c.n]) /\ UNCHANGED <<cache, count>>
  <2> DEFINE b == cache[c.n]
  <2>1. b \in Blocks
    BY <1>1, CacheValues DEF ClientOK
  <2> HIDE DEF b
  <2>2. calls' = [calls EXCEPT ![Syncer].at = "writeBlock", ![Syncer].block = b]
    BY <1>3 DEF Downloaded, b
  <2>3. Becomes(Syncer, calls'[Syncer])
    BY <2>1, <2>2, ProcsOK DEF CallsOK, Calls, Steps, Becomes
  <2>4. /\ calls'[Syncer].at = "writeBlock" /\ calls'[Syncer].block = b
        /\ calls'[Syncer].n = c.n /\ calls'[Syncer].end = c.end
    BY <2>2, ProcsOK DEF CallsOK, Calls
  <2>5. WellFormed(Syncer)
    BY ProcsOK DEF CallsOK
  <2>6. WellFormed(Syncer)'
    BY <1>1, <2>1, <2>4, <2>5 DEF WellFormed, OnBlockSteps, BatchSteps, At
  <2>7. CallsOK'
    BY <2>3, <2>6, ProcsOK, CallsKept
  <2>8. indexed' \subseteq Blocks
    BY <1>3, <2>1 DEF Downloaded, ClientOK, b
  <2> QED BY <1>1, <1>3, <2>7, <2>8 DEF ClientOK, RowsOK, HistoryOK, world, tables, history
<1> QED BY <1>2, <1>3 DEF FetchNext

LEMMA AdvanceTyped ==
    ASSUME Typed, Advance \/ AdvanceFails
    PROVE  Typed'
<1> USE DEF Typed
<1>1. At(Syncer, "advance") /\ Continue /\ UNCHANGED <<world, client, blocks, txs, anchors, marked, history>>
  BY DEF Advance, AdvanceFails, tables
<1>2. CallsOK'
  BY <1>1, ContinueStep DEF At
<1>3. lastSynced' \in {lastSynced, calls[Syncer].n} /\ (UNCHANGED faults \/ Fault)
  BY DEF Advance, AdvanceFails, tables
<1>4. lastSynced' \in Nat
  BY <1>3, ProcsOK DEF RowsOK, CallsOK, Calls
<1>5. faults' \in 0..MaxFaults
  BY <1>3, NumbersAreNat DEF Fault, HistoryOK
<1> QED BY <1>1, <1>2, <1>4, <1>5 DEF ClientOK, RowsOK, HistoryOK, world, client, history

LEMMA FetchFailsTyped == ASSUME Typed, FetchFails PROVE Typed'
<1> USE DEF Typed
<1>1. CallsOK'
  BY ProcsOK, MoveOn DEF FetchFails, Steps
<1>2. faults' \in 0..MaxFaults
  BY NumbersAreNat DEF FetchFails, Fault, HistoryOK
<1> QED BY <1>1, <1>2
    DEF FetchFails, ClientOK, RowsOK, HistoryOK, world, client, tables, history

LEMMA SyncSpecificBlockTyped ==
    ASSUME Typed, NEW p \in Handlers, NEW n \in Heights, SyncSpecificBlock(p, n)
    PROVE  Typed'
<1> USE DEF Typed
<1>1. UNCHANGED <<world, count, tables, history, faults>>
  BY DEF SyncSpecificBlock
<1>2. ASSUME NEW b \in Blocks, GetBlockHash(n, b), indexed' = indexed \union {b},
             calls' = [calls EXCEPT ![p] = Started("writeBlock", n, n, b, None)]
      PROVE  Typed'
  <2> DEFINE x == Started("writeBlock", n, n, b, None)
  <2>1. x \in Calls
    BY HeightsAreNat DEF Calls, Steps, Started
  <2>2. calls' = [calls EXCEPT ![p] = x]
    BY <1>2
  <2>3. Becomes(p, x)
    BY <2>1, <2>2, ProcsOK, ReplaceCall
  <2>4. WellFormed(p)'
    BY <2>3, ProcsOK DEF WellFormed, Becomes, OnBlockSteps, Started
  <2>5. CallsOK'
    BY <2>3, <2>4, ProcsOK, CallsKept
  <2> QED BY <1>1, <1>2, <2>5, HashAnswer
      DEF ClientOK, RowsOK, HistoryOK, world, tables, history
<1>3. CASE Linked /\ cache' = Best /\ UNCHANGED <<calls, indexed>>
  <2>1. cache' \in Seq(Blocks) /\ Len(cache') \in 0..MaxHeight /\ Len(cache') >= Len(cache)
    <3>1. Best \in Seq(Blocks) /\ Len(Best) \in Heights
      BY BestOK DEF ClientOK
    <3>2. Len(cache) \in DOMAIN cache \/ Len(cache) = 0
      BY DEF ClientOK
    <3>3. Len(cache) <= Len(Best)
      BY <1>3, <3>1, <3>2, HeightsAreNat DEF Linked, ClientOK
    <3> QED BY <1>3, <3>1, <3>3, HeightsAreNat
  <2>2. CallsOK'
    BY <1>3, CallsUnchanged
  <2> QED BY <1>1, <1>3, <2>1, <2>2
      DEF ClientOK, RowsOK, HistoryOK, world, tables, history
<1> QED BY <1>2, <1>3 DEF SyncSpecificBlock

LEMMA SyncSpecificTransactionTyped ==
    ASSUME Typed, NEW p \in Handlers, NEW t \in Txs, SyncSpecificTransaction(p, t)
    PROVE  Typed'
<1> USE DEF Typed
<1>1. PICK n \in DOMAIN cache :
        /\ cache[n] \in indexed
        /\ calls' = [calls EXCEPT ![p] = Started("writeBlock", n, n, cache[n], t)]
  BY DEF SyncSpecificTransaction
<1>2. UNCHANGED <<world, client, tables, history, faults>>
  BY DEF SyncSpecificTransaction
<1> DEFINE b == cache[n]
           x == Started("writeBlock", n, n, b, t)
<1>3. b \in Blocks
  BY <1>1 DEF ClientOK
<1>4. n \in Heights
  <2>1. n \in 1..Len(cache)
    BY <1>1 DEF ClientOK
  <2> QED BY <2>1, HeightsAreNat DEF ClientOK
<1> HIDE DEF b
<1>5. x \in Calls
  BY <1>3, <1>4, HeightsAreNat DEF Calls, Steps, Started
<1>6. calls' = [calls EXCEPT ![p] = x]
  BY <1>1 DEF b
<1>7. Becomes(p, x)
  BY <1>5, <1>6, ProcsOK, ReplaceCall
<1>8. WellFormed(p)'
  BY <1>3, <1>4, <1>7, ProcsOK DEF WellFormed, Becomes, OnBlockSteps, Started
<1>9. CallsOK'
  BY <1>7, <1>8, ProcsOK, CallsKept
<1> QED BY <1>2, <1>9 DEF ClientOK, RowsOK, HistoryOK, world, client, tables, history

LEMMA StoreOneTxTyped ==
    ASSUME Typed, NEW p \in Procs, StoreOneTx(p)
    PROVE  Typed'
<1> USE DEF Typed
<1>1. /\ At(p, "storeTx") /\ Return(p)
      /\ txs' \in {txs, [txs EXCEPT ![calls[p].tx] = Place(calls[p].n, 2)]}
      /\ guessed' = guessed \union {calls[p].tx}
      /\ UNCHANGED <<world, client, lastSynced, blocks, anchors, marked, scanned, excused, faults>>
  BY DEF StoreOneTx
<1>2. calls[p].tx \in Txs /\ calls[p].n \in Heights
  BY <1>1 DEF CallsOK, WellFormed, At, OnBlockSteps
<1>3. Place(calls[p].n, 2) \in Places
  BY <1>2 DEF Place, Places
<1>4. txs' \in [Txs -> Places]
  BY <1>1, <1>2, <1>3 DEF RowsOK
<1>5. CallsOK'
  BY <1>1, ReturnStep
<1> QED BY <1>1, <1>2, <1>4, <1>5 DEF ClientOK, RowsOK, HistoryOK, world, client

LEMMA ReadLastTyped ==
    ASSUME Typed, NEW p \in Handlers, ReadLast(p) \/ ReadLastFails(p) \/ WriteLastFails(p)
    PROVE  Typed'
<1> USE DEF Typed
<1>1. CallsOK'
  <2>1. CASE Return(p)
    BY <2>1, ReturnStep, ProcsOK
  <2>2. CASE At(p, "readLast") /\ GoTo(p, "writeLast")
    BY <2>2, MoveOn, ProcsOK DEF At, Steps
  <2> QED BY <2>1, <2>2 DEF ReadLast, ReadLastFails, WriteLastFails
<1>2. faults' \in 0..MaxFaults
  BY FaultCounted DEF ReadLast, ReadLastFails, WriteLastFails, HistoryOK
<1> QED BY <1>1, <1>2
    DEF ReadLast, ReadLastFails, WriteLastFails, ClientOK, RowsOK, HistoryOK,
        world, client, tables, history

LEMMA WriteLastTyped ==
    ASSUME Typed, NEW p \in Handlers, WriteLast(p)
    PROVE  Typed'
<1> USE DEF Typed
<1>1. CallsOK'
  BY ReturnStep, ProcsOK DEF WriteLast
<1>2. calls[p].n \in Nat
  BY ProcsOK DEF CallsOK, Calls
<1> QED BY <1>1, <1>2 DEF WriteLast, ClientOK, RowsOK, HistoryOK, world, client

LEMMA WriteBlockTyped ==
    ASSUME Typed, NEW p \in Procs, WriteBlock(p) \/ WriteBlockFails(p)
    PROVE  Typed'
<1> USE DEF Typed
<1>1. At(p, "writeBlock")
  BY DEF WriteBlock, WriteBlockFails
<1>2. CallsOK'
  <2>1. CASE GoTo(p, "storeTxs")
    BY <1>1, <2>1, MoveOn DEF At, Steps
  <2>2. CASE GoTo(p, "storeTx") /\ calls[p].tx # None
    BY <1>1, <2>2, MoveOn DEF At, Steps
  <2>3. CASE Return(p)
    BY <2>3, ReturnStep
  <2> QED BY <2>1, <2>2, <2>3 DEF WriteBlock, WriteBlockFails
<1>3. CASE WriteBlock(p)
  <2>1. calls[p].n \in Heights /\ calls[p].block \in Blocks
    BY <1>1 DEF CallsOK, WellFormed, At, OnBlockSteps
  <2>2. blocks' \in [Heights -> Blocks \union {None}]
    BY <1>3, <2>1 DEF WriteBlock, RowsOK
  <2> QED BY <1>2, <1>3, <2>2
      DEF WriteBlock, ClientOK, RowsOK, HistoryOK, world, client, history
<1>4. CASE WriteBlockFails(p)
  BY <1>2, <1>4, FaultCounted
  DEF WriteBlockFails, ClientOK, RowsOK, HistoryOK, world, client, tables, history
<1> QED BY <1>3, <1>4

LEMMA StoredRows ==
    ASSUME RowsOK, NEW b \in Blocks, NEW n \in Heights, NEW at \in SUBSET InBlock(b)
    PROVE  Stored(b, n, at) \in [Txs -> Places]
<1>1. ASSUME NEW t \in at PROVE Place(n, IndexIn(b, t)) \in Places
  BY IndexIsNat DEF Place, Places
<1>2. \A t \in Txs : txs[t] \in Places
  BY DEF RowsOK
<1> QED BY <1>1, <1>2 DEF Stored

LEMMA StoreTxsTyped ==
    ASSUME Typed, NEW p \in Procs, StoreTxs(p) \/ StoreTxsFails(p)
    PROVE  Typed'
<1> USE DEF Typed
<1> DEFINE c == calls[p]
<1>1. At(p, "storeTxs") /\ GoTo(p, "storeAnchors")
  BY DEF StoreTxs, StoreTxsFails
<1>2. c.n \in Heights /\ c.block \in Blocks
  BY <1>1 DEF CallsOK, WellFormed, At, OnBlockSteps
<1>3. CallsOK'
  BY <1>1, MoveOn DEF At, Steps
<1>4. CASE StoreTxs(p)
  <2>1. txs' \in [Txs -> Places]
    BY <1>2, <1>4, StoredRows DEF StoreTxs
  <2> QED BY <1>2, <1>3, <1>4, <2>1
      DEF StoreTxs, ClientOK, RowsOK, HistoryOK, world, client
<1>5. CASE StoreTxsFails(p)
  <2>1. txs' \in [Txs -> Places]
    BY <1>2, <1>5, StoredRows DEF StoreTxsFails
  <2> QED BY <1>2, <1>3, <1>5, <2>1, FaultCounted
      DEF StoreTxsFails, ClientOK, RowsOK, HistoryOK, world, client
<1> QED BY <1>4, <1>5

LEMMA StoreOneTxFailsTyped ==
    ASSUME Typed, NEW p \in Procs, StoreOneTxFails(p)
    PROVE  Typed'
<1> USE DEF Typed
<1>1. CallsOK'
  BY ReturnStep DEF StoreOneTxFails
<1> QED BY <1>1, FaultCounted
    DEF StoreOneTxFails, ClientOK, RowsOK, HistoryOK, world, client, tables, history

\* New rows at places, and marks.
LEMMA AnchorRows ==
    ASSUME RowsOK, NEW found \in SUBSET Txs, NEW places, \A t \in found : places[t] \in Places,
           AnchorAt(found, places), UNCHANGED <<lastSynced, blocks, txs>>
    PROVE  RowsOK'
<1>1. \A t \in Txs : anchors[t] \in Places
  BY DEF RowsOK
<1>2. anchors' \in [Txs -> Places]
  BY <1>1 DEF AnchorAt
<1>3. marked' \subseteq Txs
  BY DEF RowsOK, AnchorAt
<1> QED BY <1>2, <1>3 DEF RowsOK

LEMMA StoreAnchorsTyped ==
    ASSUME Typed, NEW p \in Procs, StoreAnchors(p)
    PROVE  Typed'
<1> USE DEF Typed
<1> DEFINE c == calls[p]
           computed == [t \in InBlock(c.block) |-> Place(c.n, IndexIn(c.block, t))]
<1>1. At(p, "storeAnchors")
  BY DEF StoreAnchors
<1>2. c.n \in Heights /\ c.block \in Blocks
  BY <1>1 DEF CallsOK, WellFormed, At, OnBlockSteps
<1>3. CallsOK'
  BY <1>1, MoveOn, ProcsOK DEF StoreAnchors, At, Steps
<1>4. PICK found \in SUBSET (InBlock(c.block) \intersect published) : AnchorAt(found, computed)
  BY DEF StoreAnchors
<1>5. found \subseteq Txs /\ \A t \in found : computed[t] \in Places
  BY <1>2, <1>4, IndexIsNat DEF Place, Places
<1>6. UNCHANGED <<lastSynced, blocks, txs>>
  BY DEF StoreAnchors
<1>7. RowsOK'
  <2> HIDE DEF computed
  <2> QED BY <1>4, <1>5, <1>6, AnchorRows
<1> QED BY <1>3, <1>7 DEF StoreAnchors, ClientOK, HistoryOK, world, client, history

LEMMA AnchorArrivesTyped ==
    ASSUME Typed, NEW t \in Txs, PublishAnchor(t) \/ SyncPending(t)
    PROVE  Typed'
<1> USE DEF Typed
<1>1. UNCHANGED <<best, client, calls, lastSynced, blocks, txs, history, faults>>
  BY DEF PublishAnchor, SyncPending, world
<1>2. CallsOK'
  BY <1>1, CallsUnchanged
<1>3. RowsOK'
  <2>1. CASE AnchorAt({t}, txs)
    <3>1. \A u \in {t} : txs[u] \in Places
      BY DEF RowsOK
    <3> QED BY <1>1, <2>1, <3>1, AnchorRows
  <2>2. CASE UNCHANGED <<anchors, marked>>
    BY <1>1, <2>2 DEF RowsOK
  <2> QED BY <2>1, <2>2 DEF PublishAnchor, SyncPending
<1>4. published' \subseteq Txs
  BY DEF PublishAnchor, SyncPending, HistoryOK, world
<1> QED BY <1>1, <1>2, <1>3, <1>4 DEF ClientOK, HistoryOK, client, history

LEMMA CheckReorgTyped == ASSUME Typed, CheckReorg PROVE Typed'
<1> USE DEF Typed
<1> DEFINE c == calls[Syncer]
<1>1. At(Syncer, "checkReorg") /\ UNCHANGED <<world, indexed, tables, history, faults>>
  BY DEF CheckReorg
<1>2. CASE Return(Syncer) /\ UNCHANGED <<cache, count>>
  <2>1. CallsOK'
    BY <1>2, ReturnStep, ProcsOK
  <2> QED BY <1>1, <1>2, <2>1 DEF ClientOK, RowsOK, HistoryOK, world, tables, history
<1>3. ASSUME NEW h \in Heights, GetBlockCount(h), Return(Syncer) PROVE Typed'
  <2>1. CallsOK'
    BY <1>3, ReturnStep, ProcsOK
  <2> QED BY <1>1, <1>3, <2>1, CountAnswer
      DEF ClientOK, RowsOK, HistoryOK, world, tables, history
<1>4. ASSUME NEW h \in Heights, GetBlockCount(h), NEW n \in Heights,
             calls' = [calls EXCEPT ![Syncer].at = "handleReorg", ![Syncer].n = n]
      PROVE  Typed'
  <2>1. Becomes(Syncer, calls'[Syncer])
    BY <1>4, ProcsOK, HeightsAreNat DEF CallsOK, Calls, Steps, Becomes
  <2>2. calls'[Syncer].at = "handleReorg" /\ calls'[Syncer].n = n
    BY <1>4, ProcsOK DEF CallsOK, Calls
  <2>3. WellFormed(Syncer)'
    BY <2>2 DEF WellFormed, OnBlockSteps, BatchSteps
  <2>4. CallsOK'
    BY <2>1, <2>3, ProcsOK, CallsKept
  <2> QED BY <1>1, <1>4, <2>4, CountAnswer
      DEF ClientOK, RowsOK, HistoryOK, world, tables, history
<1>5. \A h \in Heights, rest \in SUBSET Heights : Mismatches(h, rest) \subseteq Heights
  BY DEF Mismatches
<1> QED BY <1>2, <1>3, <1>4, <1>5 DEF CheckReorg

LEMMA HandleReorgTyped ==
    ASSUME Typed, HandleReorg \/ HandleReorgFails
    PROVE  Typed'
<1> USE DEF Typed
<1> DEFINE start == calls[Syncer].n
<1>1. At(Syncer, "handleReorg") /\ Return(Syncer)
  BY DEF HandleReorg, HandleReorgFails
<1>2. CallsOK'
  BY <1>1, ReturnStep, ProcsOK
<1>3. CASE HandleReorgFails
  BY <1>2, <1>3, FaultCounted
  DEF HandleReorgFails, ClientOK, RowsOK, HistoryOK, world, client, tables, history
<1>4. CASE HandleReorg
  <2>1. PICK h \in Heights :
            /\ GetBlockCount(h)
            /\ blocks' = Rewritten(start, h)
            /\ indexed' = indexed \union {cache'[n] : n \in start..h}
    BY <1>4 DEF HandleReorg
  <2>2. start \in Heights
    BY <1>1, ProcsOK DEF CallsOK, WellFormed, At
  <2>3. /\ cache' \in Seq(Blocks) /\ Len(cache') \in 0..MaxHeight
        /\ count' \in 0..Len(cache') /\ h <= Len(cache')
    BY <2>1, CountAnswer
  <2>4. \A n \in start..h : cache'[n] \in Blocks
    BY <2>2, <2>3, HeightsAreNat
  <2>5. indexed' \subseteq Blocks
    BY <2>1, <2>4 DEF ClientOK
  <2>6. \A n \in Heights : start <= n /\ n <= h => n \in start..h
    BY <2>2, HeightsAreNat
  <2>7. blocks' \in [Heights -> Blocks \union {None}]
    BY <2>1, <2>4, <2>6 DEF Rewritten, RowsOK
  <2>8. anchors' \in [Txs -> Places]
    <3>1. \A t \in Txs : anchors[t] \in Places
      BY DEF RowsOK
    <3> QED BY <1>4, <3>1 DEF HandleReorg, AnchorsUpTo, Places
  <2> QED BY <1>2, <1>4, <2>3, <2>5, <2>7, <2>8
      DEF HandleReorg, ClientOK, RowsOK, HistoryOK, world, history
<1> QED BY <1>3, <1>4

LEMMA AllIdle == ASSUME calls' = [p \in Procs |-> Idle] PROVE CallsOK'
BY DEF CallsOK, Calls, Idle, Steps, WellFormed, OnBlockSteps, BatchSteps

LEMMA CrashTyped == ASSUME Typed, Crash PROVE Typed'
<1>1. CallsOK'
  BY AllIdle DEF Crash
<1> QED BY <1>1, FaultCounted, HeightsAreNat
    DEF Typed, Crash, ClientOK, RowsOK, HistoryOK, world, tables, history

LEMMA WorldTyped == ASSUME Typed, NewBestChain \/ ExpireCount PROVE Typed'
<1> USE DEF Typed
<1>1. CallsOK'
  BY CallsUnchanged DEF NewBestChain, ExpireCount
<1>2. best' \in 1..Len(History)
  BY HistoryAssumption DEF NewBestChain, ExpireCount, ClientOK, world
<1> QED BY <1>1, <1>2
    DEF NewBestChain, ExpireCount, ClientOK, RowsOK, HistoryOK, world, client, tables, history

LEMMA InitTyped == Init => Typed
<1> SUFFICES ASSUME Init PROVE Typed
  OBVIOUS
<1>1. CallsOK
  BY DEF Init, CallsOK, Calls, Idle, Steps, WellFormed, OnBlockSteps, BatchSteps
<1>2. ClientOK
  BY HistoryAssumption, HeightsAreNat DEF Init, ClientOK
<1>3. RowsOK
  BY DEF Init, RowsOK, Places, Genesis
<1> QED BY <1>1, <1>2, <1>3, NumbersAreNat DEF Typed, Init, HistoryOK

LEMMA StepTyped == Typed /\ [Next]_vars => Typed'
<1> SUFFICES ASSUME Typed, [Next]_vars PROVE Typed'
  OBVIOUS
<1>1. CASE NewBestChain \/ ExpireCount
  BY <1>1, WorldTyped
<1>2. CASE \E t \in Txs : PublishAnchor(t) \/ SyncPending(t)
  BY <1>2, AnchorArrivesTyped
<1>3. CASE SyncStep
  BY <1>3, ProcsOK, StartTyped, FetchNextTyped, WriteBlockTyped, StoreTxsTyped,
     StoreAnchorsTyped, AdvanceTyped, CheckReorgTyped, HandleReorgTyped
  DEF SyncStep, OnBlock
<1>4. CASE \E p \in Handlers : ManualStep(p)
  BY <1>4, ProcsOK, NumbersAssumption, SyncSpecificBlockTyped, SyncSpecificTransactionTyped,
     WriteBlockTyped, StoreTxsTyped, StoreAnchorsTyped, StoreOneTxTyped, ReadLastTyped,
     WriteLastTyped
  DEF ManualStep, OnBlock
<1>5. CASE FaultyStep
  BY <1>5, StartTyped, FetchFailsTyped, AdvanceTyped, CrashTyped, WriteBlockTyped,
     StoreTxsTyped, StoreOneTxFailsTyped, ReadLastTyped
  DEF FaultyStep
<1>6. CASE UNCHANGED vars
  <2>1. CallsOK'
    BY <1>6, CallsUnchanged DEF Typed, vars
  <2> QED BY <1>6, <2>1
      DEF Typed, vars, world, client, tables, history, ClientOK, RowsOK, HistoryOK
<1> QED BY <1>1, <1>2, <1>3, <1>4, <1>5, <1>6 DEF Next

LEMMA AlwaysTyped == Spec => []Typed
BY InitTyped, StepTyped, PTL DEF Spec

\* TypeOK holds whatever chains, handlers, intervals and faults there are: processes
\* always have the height, block and transaction that their next step uses, and the
\* cached tip height never exceeds the cached headers.
THEOREM TypeCorrect == Spec => []TypeOK
<1>1. Typed => TypeOK
  BY TypeParts DEF Typed
<1> QED BY <1>1, AlwaysTyped, PTL

-----------------------------------------------------------------------------
(* last_synced_block and the scan.  SyncedIsScanned is not inductive: what a *)
(* process is about to write into last_synced_block must be covered too, and *)
(* so must every height below the one the sync goroutine works on.           *)

AfterScan == {"storeAnchors", "advance", "readLast", "writeLast"}

HasScanned(p) == calls[p].at \in AfterScan => Covered(calls[p].n)

BatchScanned(p) ==
    p = Syncer /\ calls[p].at \in BatchSteps =>
        \A m \in Heights : m < calls[p].n => Covered(m)

ScanInv == SyncedIsScanned /\ \A p \in Procs : HasScanned(p) /\ BatchScanned(p)

Grows == scanned \subseteq scanned' /\ excused \subseteq excused'

LEMMA CoveredStays == ASSUME Grows, NEW n, Covered(n) PROVE Covered(n)'
BY DEF Grows, Covered

LEMMA SyncedStays ==
    ASSUME SyncedIsScanned, Grows, lastSynced' = lastSynced
    PROVE  SyncedIsScanned'
BY CoveredStays DEF SyncedIsScanned

\* A step of process p must establish the invariant for p and the tables only.
LEMMA ScanKept ==
    ASSUME ScanInv, Grows, NEW p \in Procs, \A q \in Procs : q # p => calls'[q] = calls[q],
           SyncedIsScanned', HasScanned(p)', BatchScanned(p)'
    PROVE  ScanInv'
<1>1. ASSUME NEW q \in Procs, q # p PROVE HasScanned(q)' /\ BatchScanned(q)'
  <2>1. HasScanned(q) /\ BatchScanned(q) /\ calls'[q] = calls[q]
    BY <1>1 DEF ScanInv
  <2> QED BY <2>1, CoveredStays DEF HasScanned, BatchScanned
<1> QED BY <1>1 DEF ScanInv

LEMMA ScanKeptByReturn ==
    ASSUME Typed, ScanInv, Grows, NEW p \in Procs, Return(p), SyncedIsScanned'
    PROVE  ScanInv'
<1>1. Becomes(p, Idle)
  BY ReturnStep DEF Typed
<1>2. calls'[p].at = "idle"
  BY <1>1 DEF Becomes, Idle
<1>3. HasScanned(p)' /\ BatchScanned(p)'
  BY <1>2 DEF HasScanned, BatchScanned, AfterScan, BatchSteps
<1> QED BY <1>1, <1>3, ScanKept DEF Becomes

LEMMA ScanKeptByGoTo ==
    ASSUME Typed, ScanInv, Grows, NEW p \in Procs, NEW step \in Steps, GoTo(p, step),
           lastSynced' = lastSynced,
           step \in AfterScan => calls[p].at \in AfterScan \/ Covered(calls[p].n)',
           p = Syncer /\ step \in BatchSteps => calls[p].at \in BatchSteps
    PROVE  ScanInv'
<1>1. Becomes(p, Moved(p, step))
  BY GoToStep DEF Typed
<1>2. calls'[p].at = step /\ calls'[p].n = calls[p].n
  BY <1>1 DEF Becomes, Moved
<1>3. HasScanned(p) /\ BatchScanned(p) /\ SyncedIsScanned
  BY DEF ScanInv
<1>4. HasScanned(p)'
  BY <1>2, <1>3, CoveredStays DEF HasScanned
<1>5. BatchScanned(p)'
  BY <1>2, <1>3, CoveredStays DEF BatchScanned
<1> QED BY <1>1, <1>3, <1>4, <1>5, SyncedStays, ScanKept DEF Becomes

\* Steps that leave the calls, last_synced_block and the history alone.
LEMMA ScanKeptAside ==
    ASSUME ScanInv, UNCHANGED <<calls, lastSynced, history>>
    PROVE  ScanInv'
BY DEF ScanInv, SyncedIsScanned, HasScanned, BatchScanned, Covered, history

LEMMA StartScans == ASSUME Typed, ScanInv, StartBatch \/ StartUnread PROVE ScanInv'
<1>0. PICK last \in Nat : last <= lastSynced /\ StartFrom(last)
  BY StartedFrom
<1>1. UNCHANGED <<lastSynced, history>>
  BY <1>0 DEF StartFrom, tables
<1>2. PICK h \in Heights :
        calls' = IF CaughtUp(last, h) THEN calls
                 ELSE [calls EXCEPT ![Syncer] =
                          Started("fetch", last + 1, Smaller(last + BatchSize, h), None, None)]
  BY <1>0 DEF StartFrom
<1>3. CASE CaughtUp(last, h)
  BY <1>1, <1>2, <1>3, ScanKeptAside
<1>4. CASE ~CaughtUp(last, h)
  <2>1. Grows
    BY <1>1 DEF Grows, history
  <2>2. calls'[Syncer].at = "fetch" /\ calls'[Syncer].n = last + 1
    BY <1>2, <1>4, ProcsOK DEF Typed, CallsOK, Started
  <2>3. \A q \in Procs : q # Syncer => calls'[q] = calls[q]
    BY <1>2, <1>4 DEF Typed, CallsOK
  <2>4. SyncedIsScanned'
    BY <1>1, <2>1, SyncedStays DEF ScanInv
  <2>5. HasScanned(Syncer)'
    BY <2>2 DEF HasScanned, AfterScan
  <2>6. \A m \in Heights : m < calls'[Syncer].n => m <= lastSynced'
    BY <1>0, <1>1, <2>2, HeightsAreNat DEF Typed, RowsOK
  <2>7. BatchScanned(Syncer)'
    BY <2>4, <2>6 DEF BatchScanned, SyncedIsScanned
  <2> QED BY <2>1, <2>3, <2>4, <2>5, <2>7, ProcsOK, ScanKept
<1> QED BY <1>3, <1>4

LEMMA FetchNextScans == ASSUME Typed, ScanInv, FetchNext PROVE ScanInv'
<1>1. At(Syncer, "fetch") /\ UNCHANGED <<lastSynced, history>>
  BY DEF FetchNext, tables
<1>2. Grows /\ SyncedIsScanned'
  BY <1>1, SyncedStays DEF Grows, history, ScanInv
<1>3. CASE Return(Syncer)
  BY <1>2, <1>3, ProcsOK, ScanKeptByReturn
<1>4. CASE Downloaded(Syncer, cache[calls[Syncer].n])
  <2>1. /\ calls'[Syncer].at = "writeBlock" /\ calls'[Syncer].n = calls[Syncer].n
        /\ \A q \in Procs : q # Syncer => calls'[q] = calls[q]
    BY <1>4, ProcsOK DEF Downloaded, Typed, CallsOK, Calls
  <2>2. BatchScanned(Syncer)
    BY ProcsOK DEF ScanInv
  <2>3. HasScanned(Syncer)'
    BY <2>1 DEF HasScanned, AfterScan
  <2>4. BatchScanned(Syncer)'
    BY <1>1, <1>2, <2>1, <2>2, CoveredStays DEF BatchScanned, BatchSteps, At
  <2> QED BY <1>2, <2>1, <2>3, <2>4, ProcsOK, ScanKept
<1> QED BY <1>3, <1>4 DEF FetchNext

LEMMA AdvanceScans == ASSUME Typed, ScanInv, Advance \/ AdvanceFails PROVE ScanInv'
<1> DEFINE n == calls[Syncer].n
<1>1. At(Syncer, "advance") /\ Continue /\ UNCHANGED history
  BY DEF Advance, AdvanceFails
<1>2. Grows
  BY <1>1 DEF Grows, history
<1>3. Covered(n) /\ \A m \in Heights : m < n => Covered(m)
  BY <1>1, ProcsOK DEF ScanInv, HasScanned, BatchScanned, AfterScan, BatchSteps, At
<1>4. n \in Heights /\ n \in Nat
  BY <1>1, ProcsOK, HeightsAreNat DEF Typed, CallsOK, WellFormed, At, BatchSteps
<1>5. \A m \in Heights : m <= n => Covered(m)'
  BY <1>2, <1>3, <1>4, HeightsAreNat, CoveredStays
<1>6. SyncedIsScanned'
  <2>1. CASE lastSynced' = lastSynced
    BY <1>2, <2>1, SyncedStays DEF ScanInv
  <2>2. CASE lastSynced' = n
    BY <1>5, <2>2 DEF SyncedIsScanned
  <2> QED BY <2>1, <2>2 DEF Advance, AdvanceFails, tables
<1>7. /\ \/ calls'[Syncer].at = "fetch" /\ calls'[Syncer].n = n + 1
         \/ calls'[Syncer].at = "checkReorg"
      /\ \A q \in Procs : q # Syncer => calls'[q] = calls[q]
  BY <1>1, ContinueStep DEF Typed, At
<1>8. HasScanned(Syncer)'
  BY <1>7 DEF HasScanned, AfterScan
<1>9. BatchScanned(Syncer)'
  BY <1>4, <1>5, <1>7, HeightsAreNat DEF BatchScanned, BatchSteps
<1> QED BY <1>2, <1>6, <1>7, <1>8, <1>9, ProcsOK, ScanKept

LEMMA ManualStartScans ==
    ASSUME Typed, ScanInv, NEW p \in Handlers,
           (\E n \in Heights : SyncSpecificBlock(p, n)) \/
           (\E t \in Txs : SyncSpecificTransaction(p, t))
    PROVE  ScanInv'
<1>1. UNCHANGED <<lastSynced, history>>
  BY DEF SyncSpecificBlock, SyncSpecificTransaction, tables
<1>2. Grows /\ SyncedIsScanned'
  BY <1>1, SyncedStays DEF Grows, history, ScanInv
<1>3. CASE calls' = calls
  BY <1>1, <1>3, ScanKeptAside
<1>4. ASSUME NEW n, NEW b, NEW t, calls' = [calls EXCEPT ![p] = Started("writeBlock", n, n, b, t)]
      PROVE  ScanInv'
  <2>1. calls'[p].at = "writeBlock" /\ \A q \in Procs : q # p => calls'[q] = calls[q]
    BY <1>4, ProcsOK DEF Typed, CallsOK, Started
  <2>2. HasScanned(p)' /\ BatchScanned(p)'
    BY <2>1, ProcsOK DEF HasScanned, BatchScanned, AfterScan
  <2> QED BY <1>2, <2>1, <2>2, ProcsOK, ScanKept
<1> QED BY <1>3, <1>4 DEF SyncSpecificBlock, SyncSpecificTransaction

LEMMA ReadLastScans ==
    ASSUME Typed, ScanInv, NEW p \in Handlers,
           ReadLast(p) \/ ReadLastFails(p) \/ WriteLastFails(p)
    PROVE  ScanInv'
<1>1. UNCHANGED <<lastSynced, history>>
  BY DEF ReadLast, ReadLastFails, WriteLastFails, tables
<1>2. Grows /\ SyncedIsScanned'
  BY <1>1, SyncedStays DEF Grows, history, ScanInv
<1>3. CASE Return(p)
  BY <1>2, <1>3, ProcsOK, ScanKeptByReturn
<1>4. CASE At(p, "readLast") /\ GoTo(p, "writeLast")
  BY <1>1, <1>2, <1>4, ProcsOK, ScanKeptByGoTo DEF Steps, AfterScan, At
<1> QED BY <1>3, <1>4 DEF ReadLast, ReadLastFails, WriteLastFails

\* The heights it jumps over are excused.
LEMMA WriteLastScans == ASSUME Typed, ScanInv, NEW p \in Handlers, WriteLast(p) PROVE ScanInv'
<1>1. Grows
  BY DEF WriteLast, Grows
<1>2. calls[p].n \in Nat /\ lastSynced \in Nat
  BY ProcsOK DEF Typed, CallsOK, Calls, RowsOK
<1>3. ASSUME NEW m \in Heights, m <= calls[p].n PROVE Covered(m)'
  <2>1. CASE m = calls[p].n
    BY <1>1, <2>1, ProcsOK, CoveredStays DEF WriteLast, ScanInv, HasScanned, AfterScan, At
  <2>2. CASE m <= lastSynced
    BY <1>1, <2>2, CoveredStays DEF ScanInv, SyncedIsScanned
  <2>3. CASE lastSynced < m /\ m < calls[p].n
    BY <2>3 DEF WriteLast, Covered
  <2> QED BY <1>2, <1>3, <2>1, <2>2, <2>3, HeightsAreNat
<1>4. SyncedIsScanned'
  BY <1>3 DEF WriteLast, SyncedIsScanned
<1> QED BY <1>1, <1>4, ProcsOK, ScanKeptByReturn DEF WriteLast

LEMMA BlockStepScans ==
    ASSUME Typed, ScanInv, NEW p \in Procs,
           \/ WriteBlock(p) \/ WriteBlockFails(p) \/ StoreAnchors(p)
           \/ StoreOneTx(p) \/ StoreOneTxFails(p)
    PROVE  ScanInv'
<1>1. lastSynced' = lastSynced /\ Grows
  BY DEF WriteBlock, WriteBlockFails, StoreAnchors, StoreOneTx, StoreOneTxFails,
         tables, history, Grows
<1>2. SyncedIsScanned'
  BY <1>1, SyncedStays DEF ScanInv
<1>3. CASE Return(p)
  BY <1>1, <1>2, <1>3, ScanKeptByReturn
<1>4. CASE At(p, "writeBlock") /\ \E step \in {"storeTxs", "storeTx"} : GoTo(p, step)
  BY <1>1, <1>4, ScanKeptByGoTo DEF Steps, AfterScan, BatchSteps, At
<1>5. CASE /\ At(p, "storeAnchors")
           /\ GoTo(p, IF p = Syncer THEN "advance" ELSE "readLast")
  BY <1>1, <1>5, ScanKeptByGoTo DEF Steps, AfterScan, BatchSteps, At
<1> QED BY <1>3, <1>4, <1>5
    DEF WriteBlock, WriteBlockFails, StoreAnchors, StoreOneTx, StoreOneTxFails

LEMMA StoreTxsScans ==
    ASSUME Typed, ScanInv, NEW p \in Procs, StoreTxs(p) \/ StoreTxsFails(p)
    PROVE  ScanInv'
<1>1. /\ At(p, "storeTxs") /\ GoTo(p, "storeAnchors")
      /\ lastSynced' = lastSynced /\ Grows
  BY DEF StoreTxs, StoreTxsFails, Grows
<1>2. calls[p].block \in Blocks
  BY <1>1 DEF Typed, CallsOK, WellFormed, At, OnBlockSteps
<1>3. calls[p].n \in excused' \/ \E b \in Blocks : <<b, calls[p].n>> \in scanned'
  BY <1>2 DEF StoreTxs, StoreTxsFails
<1>4. calls'[p].n = calls[p].n
  <2>1. Becomes(p, Moved(p, "storeAnchors"))
    BY <1>1, GoToStep DEF Typed, Steps
  <2> QED BY <2>1 DEF Becomes, Moved
<1>5. Covered(calls[p].n)'
  BY <1>3, <1>4 DEF Covered
<1> QED BY <1>1, <1>5, ScanKeptByGoTo DEF Steps, AfterScan, BatchSteps, At

LEMMA ReorgScans ==
    ASSUME Typed, ScanInv, FetchFails \/ CheckReorg \/ HandleReorg \/ HandleReorgFails
    PROVE  ScanInv'
<1>1. lastSynced' = lastSynced /\ Grows
  BY DEF FetchFails, CheckReorg, HandleReorg, HandleReorgFails, tables, history, Grows
<1>2. SyncedIsScanned'
  BY <1>1, SyncedStays DEF ScanInv
<1>3. CASE Return(Syncer)
  BY <1>1, <1>2, <1>3, ProcsOK, ScanKeptByReturn
<1>4. CASE GoTo(Syncer, "checkReorg")
  BY <1>1, <1>4, ProcsOK, ScanKeptByGoTo DEF Steps, AfterScan, BatchSteps
<1>5. ASSUME NEW n, calls' = [calls EXCEPT ![Syncer].at = "handleReorg", ![Syncer].n = n]
      PROVE  ScanInv'
  <2>1. /\ calls'[Syncer].at = "handleReorg"
        /\ \A q \in Procs : q # Syncer => calls'[q] = calls[q]
    BY <1>5, ProcsOK DEF Typed, CallsOK, Calls
  <2>2. HasScanned(Syncer)' /\ BatchScanned(Syncer)'
    BY <2>1 DEF HasScanned, BatchScanned, AfterScan, BatchSteps
  <2> QED BY <1>1, <1>2, <2>1, <2>2, ProcsOK, ScanKept
<1> QED BY <1>3, <1>4, <1>5 DEF FetchFails, CheckReorg, HandleReorg, HandleReorgFails

LEMMA CrashScans == ASSUME Typed, ScanInv, Crash PROVE ScanInv'
<1>1. SyncedIsScanned'
  BY SyncedStays DEF Crash, tables, history, Grows, ScanInv
<1>2. \A p \in Procs : calls'[p].at = "idle"
  BY DEF Crash, Idle
<1> QED BY <1>1, <1>2 DEF ScanInv, HasScanned, BatchScanned, AfterScan, BatchSteps

LEMMA InitScans == Init => ScanInv
<1> SUFFICES ASSUME Init PROVE ScanInv
  OBVIOUS
<1>1. SyncedIsScanned
  BY HeightsAreNat DEF Init, Genesis, SyncedIsScanned
<1>2. \A p \in Procs : calls[p].at = "idle"
  BY DEF Init, Idle
<1> QED BY <1>1, <1>2 DEF ScanInv, HasScanned, BatchScanned, AfterScan, BatchSteps

LEMMA StepScans == Typed /\ ScanInv /\ [Next]_vars => ScanInv'
<1> SUFFICES ASSUME Typed, ScanInv, [Next]_vars PROVE ScanInv'
  OBVIOUS
<1>1. CASE NewBestChain \/ ExpireCount \/ \E t \in Txs : PublishAnchor(t) \/ SyncPending(t)
  BY <1>1, ScanKeptAside DEF NewBestChain, ExpireCount, PublishAnchor, SyncPending, tables
<1>2. CASE SyncStep
  BY <1>2, ProcsOK, StartScans, FetchNextScans, AdvanceScans, BlockStepScans,
     StoreTxsScans, ReorgScans
  DEF SyncStep, OnBlock
<1>3. CASE \E p \in Handlers : ManualStep(p)
  BY <1>3, ProcsOK, NumbersAssumption, ManualStartScans, BlockStepScans, StoreTxsScans,
     ReadLastScans, WriteLastScans
  DEF ManualStep, OnBlock
<1>4. CASE FaultyStep
  BY <1>4, StartScans, ReorgScans, AdvanceScans, CrashScans, BlockStepScans, StoreTxsScans,
     ReadLastScans
  DEF FaultyStep
<1>5. CASE UNCHANGED vars
  BY <1>5, ScanKeptAside DEF vars, tables
<1> QED BY <1>1, <1>2, <1>3, <1>4, <1>5 DEF Next

\* No height is ever passed over: up to last_synced_block every height was scanned, or
\* is one that a manual sync skipped or whose inserts failed, whatever fails, crashes
\* or interleaves (syncBitcoin's "This ensures we don't skip blocks").
THEOREM NothingSkipped == Spec => []SyncedIsScanned
<1>1. ScanInv => SyncedIsScanned
  BY DEF ScanInv
<1> QED BY <1>1, AlwaysTyped, InitScans, StepScans, PTL DEF Spec

-----------------------------------------------------------------------------
(* The rows of transactions.                                                 *)

TxsKept == \A t \in Txs : txs[t] = None \/ txs'[t] = txs[t]

LEMMA NoPlaceIsNone == ASSUME NEW n \in Heights, NEW i \in Nat PROVE Place(n, i) # None
BY NamesAssumption DEF Place

\* A row, and so a position that is taken, stays.
LEMMA RecordedStays ==
    ASSUME Typed, ScannedIsRecorded, TxsKept, NEW s \in scanned, NEW t \in InBlock(s[1])
    PROVE  \/ txs'[t] # None
           \/ \E u \in Txs : txs'[u] = Place(s[2], IndexIn(s[1], t))
<1>1. s[1] \in Blocks /\ s[2] \in Heights
  BY DEF Typed, HistoryOK
<1>2. t \in Txs /\ Place(s[2], IndexIn(s[1], t)) # None
  BY <1>1, IndexIsNat, NoPlaceIsNone
<1> QED BY <1>2 DEF ScannedIsRecorded, TxsKept

LEMMA RecordsKept ==
    ASSUME Typed, ScannedIsRecorded, TxsKept, scanned' = scanned
    PROVE  ScannedIsRecorded'
BY RecordedStays DEF ScannedIsRecorded, InBlock, IndexIn

LEMMA StoredKeeps ==
    ASSUME NEW b, NEW n, NEW at, txs' = Stored(b, n, at)
    PROVE  TxsKept
BY DEF Stored, TxsKept

\* INSERT OR IGNORE leaves a transaction out only if its position is taken.
LEMMA StoredRecords ==
    ASSUME Typed, NEW b \in Blocks, NEW n \in Heights, txs' = Stored(b, n, InBlock(b)),
           NEW t \in InBlock(b)
    PROVE  txs'[t] # None \/ \E u \in Txs : txs'[u] = Place(n, IndexIn(b, t))
<1>1. t \in Txs /\ Place(n, IndexIn(b, t)) # None
  BY IndexIsNat, NoPlaceIsNone
<1>2. CASE \E u \in Txs : txs[u] = Place(n, IndexIn(b, t))
  BY <1>1, <1>2, StoredKeeps DEF TxsKept
<1>3. CASE ~\E u \in Txs : txs[u] = Place(n, IndexIn(b, t))
  BY <1>1, <1>3 DEF Stored
<1> QED BY <1>2, <1>3

LEMMA StepRecords == Typed /\ ScannedIsRecorded /\ [Next]_vars => ScannedIsRecorded'
<1> SUFFICES ASSUME Typed, ScannedIsRecorded, [Next]_vars PROVE ScannedIsRecorded'
  OBVIOUS
<1>1. CASE scanned' = scanned /\ txs' = txs
  BY <1>1, RecordsKept DEF TxsKept
<1>2. ASSUME NEW p \in Procs, StoreTxs(p) PROVE ScannedIsRecorded'
  <2> DEFINE b == calls[p].block
             n == calls[p].n
  <2>1. /\ txs' = Stored(b, n, InBlock(b))
        /\ scanned' = scanned \union {<<b, n>>}
    BY <1>2 DEF StoreTxs
  <2>2. b \in Blocks /\ n \in Heights
    BY <1>2 DEF StoreTxs, Typed, CallsOK, WellFormed, At, OnBlockSteps
  <2> HIDE DEF b, n
  <2>3. TxsKept
    BY <2>1, StoredKeeps
  <2>4. ASSUME NEW s \in scanned', NEW t \in InBlock(s[1])
        PROVE  txs'[t] # None \/ \E u \in Txs : txs'[u] = Place(s[2], IndexIn(s[1], t))
    <3>1. CASE s \in scanned
      BY <2>3, <2>4, <3>1, RecordedStays
    <3>2. CASE s = <<b, n>>
      BY <2>1, <2>2, <2>4, <3>2, StoredRecords
    <3> QED BY <2>1, <2>4, <3>1, <3>2
  <2> QED BY <2>4 DEF ScannedIsRecorded, InBlock, IndexIn
<1>3. ASSUME NEW p \in Procs, StoreTxsFails(p) PROVE ScannedIsRecorded'
  BY <1>3, StoredKeeps, RecordsKept DEF StoreTxsFails
<1>4. ASSUME NEW p \in Procs, StoreOneTx(p) PROVE ScannedIsRecorded'
  BY <1>4, RecordsKept DEF StoreOneTx, TxsKept, Typed, RowsOK
<1>5. CASE NewBestChain \/ ExpireCount \/ \E t \in Txs : PublishAnchor(t) \/ SyncPending(t)
  BY <1>1, <1>5 DEF NewBestChain, ExpireCount, PublishAnchor, SyncPending, tables, history
<1>6. CASE SyncStep
  BY <1>1, <1>2, <1>6, ProcsOK
  DEF SyncStep, OnBlock, StartBatch, StartFrom, FetchNext, WriteBlock, StoreAnchors, Advance,
      CheckReorg, HandleReorg, HandleReorgFails, tables, history
<1>7. CASE \E p \in Handlers : ManualStep(p)
  BY <1>1, <1>2, <1>4, <1>7, ProcsOK
  DEF ManualStep, OnBlock, SyncSpecificBlock, SyncSpecificTransaction, WriteBlock,
      StoreAnchors, ReadLast, WriteLast, tables, history
<1>8. CASE FaultyStep
  BY <1>1, <1>3, <1>8
  DEF FaultyStep, StartUnread, StartFrom, FetchFails, AdvanceFails, Crash, WriteBlockFails,
      StoreOneTxFails, ReadLastFails, WriteLastFails, tables, history
<1> QED BY <1>1, <1>5, <1>6, <1>7, <1>8 DEF Next, vars, history, tables

\* A block once scanned stays recorded, except where a position was taken before:
\* neither a recovery nor a concurrent sync removes or moves a transaction's row.
THEOREM ScansAreRecorded == Spec => []ScannedIsRecorded
<1>1. Init => ScannedIsRecorded
  BY DEF Init, ScannedIsRecorded
<1> QED BY <1>1, AlwaysTyped, StepRecords, PTL DEF Spec

-----------------------------------------------------------------------------
(* Positions.  PlacesAgree is strengthened by: every cached hash, and every  *)
(* block a process works on, stands at a height where some chain has it.     *)

GoodPlace(t, place) ==
    place # None => \A b \in Blocks :
        Home(t) = {b} => place.i = IndexIn(b, t) /\ place.n \in HeightsOf(b)

GoodRows(rows) == \A t \in Txs \ guessed : GoodPlace(t, rows[t])
GoodCache == \A n \in DOMAIN cache : n \in HeightsOf(cache[n])
GoodCall(p) == calls[p].at \in OnBlockSteps => calls[p].n \in HeightsOf(calls[p].block)

PlaceInv ==
    /\ GoodRows(txs) /\ GoodRows(anchors)
    /\ GoodCache
    /\ \A p \in Procs : GoodCall(p)

LEMMA BestIsGood ==
    ASSUME ClientOK, NEW n \in DOMAIN Best
    PROVE  n \in HeightsOf(Best[n])
BY BestOK DEF ClientOK, HeightsOf, Best

LEMMA GoodAnswer ==
    ASSUME ClientOK, GoodCache, \/ \E h \in Heights : GetBlockCount(h)
                                \/ cache' = cache \/ cache' = Best \/ cache' = <<>>
    PROVE  GoodCache'
<1>1. CASE cache' = Best
  BY <1>1, BestIsGood DEF GoodCache, HeightsOf
<1>2. CASE cache' = cache
  BY <1>2 DEF GoodCache, HeightsOf
<1>3. CASE cache' = <<>>
  BY <1>3 DEF GoodCache
<1>4. ASSUME NEW h \in Heights, GetBlockCount(h) PROVE cache' = cache \/ cache' = Best
  BY <1>4 DEF GetBlockCount
<1> QED BY <1>1, <1>2, <1>3, <1>4

LEMMA GoodHash ==
    ASSUME ClientOK, GoodCache, NEW n \in Heights, NEW b \in Blocks, GetBlockHash(n, b)
    PROVE  GoodCache' /\ n \in HeightsOf(b)
<1>1. CASE n \in DOMAIN cache
  BY <1>1 DEF GetBlockHash, GoodCache, HeightsOf
<1>2. CASE n \notin DOMAIN cache
  <2>1. cache' = SubSeq(Best, 1, n) /\ n \in DOMAIN Best /\ b = Best[n]
    BY <1>2 DEF GetBlockHash
  <2>2. Best \in Seq(Blocks)
    BY BestOK DEF ClientOK
  <2>3. \A i \in 1..n : i \in DOMAIN Best /\ Best[i] \in Blocks
    BY <2>1, <2>2
  <2>4. SubSeq(Best, 1, n) = [i \in 1..n |-> Best[i]]
    BY <2>1, <2>2, HeightsAreNat
  <2>5. \A i \in DOMAIN cache' : i \in DOMAIN Best /\ cache'[i] = Best[i]
    BY <2>1, <2>3, <2>4
  <2> QED BY <2>1, <2>5, BestIsGood DEF GoodCache, HeightsOf
<1> QED BY <1>1, <1>2

LEMMA GoodCallKept ==
    ASSUME \A p \in Procs : GoodCall(p),
           NEW p \in Procs, \A q \in Procs : q # p => calls'[q] = calls[q], GoodCall(p)'
    PROVE  \A q \in Procs : GoodCall(q)'
BY DEF GoodCall, HeightsOf

LEMMA GoodByReturn ==
    ASSUME Typed, \A p \in Procs : GoodCall(p), NEW p \in Procs, Return(p)
    PROVE  \A q \in Procs : GoodCall(q)'
<1>1. Becomes(p, Idle)
  BY ReturnStep DEF Typed
<1>2. GoodCall(p)'
  BY <1>1 DEF Becomes, Idle, GoodCall, OnBlockSteps
<1> QED BY <1>1, <1>2, GoodCallKept DEF Becomes

LEMMA GoodByGoTo ==
    ASSUME Typed, \A p \in Procs : GoodCall(p), NEW p \in Procs, NEW step \in Steps,
           GoTo(p, step), step \in OnBlockSteps => calls[p].at \in OnBlockSteps
    PROVE  \A q \in Procs : GoodCall(q)'
<1>1. Becomes(p, Moved(p, step))
  BY GoToStep DEF Typed
<1>2. calls'[p].at = step /\ calls'[p].n = calls[p].n /\ calls'[p].block = calls[p].block
  BY <1>1 DEF Becomes, Moved
<1>3. GoodCall(p)'
  BY <1>2 DEF GoodCall, HeightsOf
<1> QED BY <1>1, <1>3, GoodCallKept DEF Becomes

LEMMA GoodByStart ==
    ASSUME Typed, \A p \in Procs : GoodCall(p), NEW p \in Procs, NEW step,
           NEW n, NEW end, NEW b, NEW t, calls' = [calls EXCEPT ![p] = Started(step, n, end, b, t)],
           step \in OnBlockSteps => n \in HeightsOf(b)
    PROVE  \A q \in Procs : GoodCall(q)'
<1>1. /\ calls'[p].at = step /\ calls'[p].n = n /\ calls'[p].block = b
      /\ \A q \in Procs : q # p => calls'[q] = calls[q]
  BY DEF Typed, CallsOK, Started
<1>2. GoodCall(p)'
  BY <1>1 DEF GoodCall, HeightsOf
<1> QED BY <1>1, <1>2, GoodCallKept

\* Steps that write no rows of transactions or anchors.
RowsKept == UNCHANGED <<txs, anchors, guessed>>

LEMMA GoodRowsAfter ==
    ASSUME \A t \in Txs \ guessed' : GoodPlace(t, txs'[t]) /\ GoodPlace(t, anchors'[t])
    PROVE  GoodRows(txs)' /\ GoodRows(anchors)'
<1>1. ASSUME NEW t \in Txs \ guessed' PROVE GoodPlace(t, txs[t])' /\ GoodPlace(t, anchors[t])'
  <2>1. GoodPlace(t, txs'[t]) /\ GoodPlace(t, anchors'[t])
    OBVIOUS
  <2> QED BY <2>1, Zenon DEF GoodPlace, Home, InBlock, IndexIn, HeightsOf
<1> QED BY <1>1 DEF GoodRows

LEMMA GoodRowsKept ==
    ASSUME GoodRows(txs), GoodRows(anchors), RowsKept
    PROVE  GoodRows(txs)' /\ GoodRows(anchors)'
BY GoodRowsAfter DEF GoodRows, RowsKept

LEMMA StartsArePlaced ==
    ASSUME Typed, PlaceInv,
           \/ StartBatch \/ StartUnread
           \/ \E p \in Handlers : \/ \E n \in Heights : SyncSpecificBlock(p, n)
                                  \/ \E t \in Txs : SyncSpecificTransaction(p, t)
    PROVE  PlaceInv'
<1> USE DEF PlaceInv
<1>1. GoodRows(txs)' /\ GoodRows(anchors)'
  BY GoodRowsKept
  DEF RowsKept, StartBatch, StartUnread, StartFrom, SyncSpecificBlock, SyncSpecificTransaction,
      tables, history
<1>2. CASE StartBatch \/ StartUnread
  <2>1. \A q \in Procs : GoodCall(q)'
    <3>1. CASE calls' = calls
      BY <3>1 DEF GoodCall, HeightsOf
    <3>2. ASSUME NEW n, NEW end,
                 calls' = [calls EXCEPT ![Syncer] = Started("fetch", n, end, None, None)]
          PROVE  \A q \in Procs : GoodCall(q)'
      BY <3>2, ProcsOK, GoodByStart DEF OnBlockSteps
    <3> QED BY <1>2, <3>1, <3>2 DEF StartBatch, StartUnread, StartFrom
  <2> QED BY <1>1, <1>2, <2>1, GoodAnswer DEF StartBatch, StartUnread, StartFrom, Typed
<1>3. ASSUME NEW p \in Handlers, NEW n \in Heights, SyncSpecificBlock(p, n) PROVE PlaceInv'
  <2>1. ASSUME NEW b \in Blocks, GetBlockHash(n, b),
               calls' = [calls EXCEPT ![p] = Started("writeBlock", n, n, b, None)]
        PROVE  PlaceInv'
    <3>1. GoodCache' /\ n \in HeightsOf(b)
      BY <2>1, GoodHash DEF Typed
    <3>2. \A q \in Procs : GoodCall(q)'
      BY <2>1, <3>1, ProcsOK, GoodByStart
    <3> QED BY <1>1, <3>1, <3>2
  <2>2. CASE cache' = Best /\ UNCHANGED calls
    <3>1. \A q \in Procs : GoodCall(q)'
      BY <2>2 DEF GoodCall, HeightsOf
    <3> QED BY <1>1, <2>2, <3>1, GoodAnswer DEF Typed
  <2> QED BY <1>3, <2>1, <2>2 DEF SyncSpecificBlock
<1>4. ASSUME NEW p \in Handlers, NEW t \in Txs, SyncSpecificTransaction(p, t) PROVE PlaceInv'
  <2>1. PICK n \in DOMAIN cache :
            calls' = [calls EXCEPT ![p] = Started("writeBlock", n, n, cache[n], t)]
    BY <1>4 DEF SyncSpecificTransaction
  <2>2. n \in HeightsOf(cache[n])
    BY <2>1 DEF GoodCache
  <2>3. \A q \in Procs : GoodCall(q)'
    BY <2>1, <2>2, ProcsOK, GoodByStart
  <2>4. GoodCache'
    BY <1>4, GoodAnswer DEF SyncSpecificTransaction, client, Typed
  <2> QED BY <1>1, <2>3, <2>4
<1> QED BY <1>2, <1>3, <1>4

LEMMA FetchIsPlaced == ASSUME Typed, PlaceInv, FetchNext PROVE PlaceInv'
<1> USE DEF PlaceInv
<1>1. GoodRows(txs)' /\ GoodRows(anchors)'
  BY GoodRowsKept DEF RowsKept, FetchNext, tables, history
<1>2. GoodCache'
  BY GoodAnswer DEF FetchNext, Typed
<1>3. \A q \in Procs : GoodCall(q)'
  <2>1. CASE Return(Syncer)
    BY <2>1, ProcsOK, GoodByReturn
  <2>2. CASE Downloaded(Syncer, cache[calls[Syncer].n])
    <3> DEFINE n == calls[Syncer].n
               b == cache[n]
    <3>1. n \in HeightsOf(b)
      BY DEF FetchNext, GoodCache
    <3>2. calls' = [calls EXCEPT ![Syncer].at = "writeBlock", ![Syncer].block = b]
      BY <2>2 DEF Downloaded
    <3> HIDE DEF b
    <3>3. /\ calls'[Syncer].at = "writeBlock" /\ calls'[Syncer].n = n
          /\ calls'[Syncer].block = b
          /\ \A q \in Procs : q # Syncer => calls'[q] = calls[q]
      BY <3>2, ProcsOK DEF Typed, CallsOK, Calls
    <3>4. calls'[Syncer].n \in HeightsOf(calls'[Syncer].block)
      BY <3>1, <3>3
    <3>5. GoodCall(Syncer)'
      BY <3>4 DEF GoodCall, HeightsOf
    <3> QED BY <3>3, <3>5, ProcsOK, GoodCallKept
  <2> QED BY <2>1, <2>2 DEF FetchNext
<1> QED BY <1>1, <1>2, <1>3

LEMMA BlockStepIsPlaced ==
    ASSUME Typed, PlaceInv, NEW p \in Procs,
           \/ WriteBlock(p) \/ WriteBlockFails(p) \/ StoreOneTxFails(p)
           \/ /\ p \in Handlers
              /\ ReadLast(p) \/ WriteLast(p) \/ ReadLastFails(p) \/ WriteLastFails(p)
    PROVE  PlaceInv'
<1> USE DEF PlaceInv
<1>1. RowsKept /\ cache' = cache
  BY DEF WriteBlock, WriteBlockFails, StoreOneTxFails, ReadLast, WriteLast, ReadLastFails,
         WriteLastFails, RowsKept, tables, history, client
<1>2. CASE Return(p)
  BY <1>2, GoodByReturn, <1>1, GoodRowsKept, GoodAnswer DEF Typed
<1>3. CASE /\ At(p, "writeBlock") \/ At(p, "readLast")
           /\ \E step \in {"storeTxs", "storeTx", "writeLast"} :
                GoTo(p, step) /\ (At(p, "readLast") => step = "writeLast")
  <2>1. \A q \in Procs : GoodCall(q)'
    BY <1>3, GoodByGoTo DEF At, Steps, OnBlockSteps
  <2> QED BY <1>1, <2>1, GoodRowsKept, GoodAnswer DEF Typed
<1>4. Return(p) \/ (/\ At(p, "writeBlock") \/ At(p, "readLast")
                    /\ \E step \in {"storeTxs", "storeTx", "writeLast"} :
                        GoTo(p, step) /\ (At(p, "readLast") => step = "writeLast"))
  BY DEF WriteBlock, WriteBlockFails, StoreOneTxFails, ReadLast, WriteLast, ReadLastFails,
         WriteLastFails, At
<1> QED BY <1>2, <1>3, <1>4

LEMMA ComputedIsGood ==
    ASSUME NEW b \in Blocks, NEW n \in HeightsOf(b), NEW t \in InBlock(b)
    PROVE  GoodPlace(t, Place(n, IndexIn(b, t)))
<1>1. b \in Home(t)
  BY DEF Home
<1> QED BY <1>1 DEF GoodPlace, Place

LEMMA StoreTxsIsPlaced ==
    ASSUME Typed, PlaceInv, NEW p \in Procs, StoreTxs(p) \/ StoreTxsFails(p)
    PROVE  PlaceInv'
<1> USE DEF PlaceInv
<1> DEFINE b == calls[p].block
           n == calls[p].n
<1>1. /\ At(p, "storeTxs") /\ GoTo(p, "storeAnchors")
      /\ cache' = cache /\ UNCHANGED <<anchors, guessed>>
  BY DEF StoreTxs, StoreTxsFails, client
<1>2. PICK some \in SUBSET InBlock(b) : txs' = Stored(b, n, some)
  BY DEF StoreTxs, StoreTxsFails
<1>3. b \in Blocks /\ n \in HeightsOf(b)
  BY <1>1 DEF Typed, CallsOK, WellFormed, GoodCall, At, OnBlockSteps
<1> HIDE DEF b, n
<1>4. ASSUME NEW t \in Txs \ guessed PROVE GoodPlace(t, txs'[t])
  <2>1. txs'[t] = txs[t] \/ (t \in some /\ txs'[t] = Place(n, IndexIn(b, t)))
    BY <1>2 DEF Stored
  <2> QED BY <1>3, <2>1, ComputedIsGood DEF GoodRows
<1>5. GoodRows(txs)' /\ GoodRows(anchors)'
  BY <1>1, <1>4, GoodRowsAfter DEF GoodRows
<1>6. \A q \in Procs : GoodCall(q)'
  BY <1>1, GoodByGoTo DEF At, Steps, OnBlockSteps
<1> QED BY <1>1, <1>5, <1>6, GoodAnswer DEF Typed

LEMMA StoreOneTxIsPlaced ==
    ASSUME Typed, PlaceInv, NEW p \in Procs, StoreOneTx(p)
    PROVE  PlaceInv'
<1> USE DEF PlaceInv
<1>1. /\ guessed' = guessed \union {calls[p].tx} /\ UNCHANGED anchors
      /\ \A t \in Txs : t # calls[p].tx => txs'[t] = txs[t]
  BY DEF StoreOneTx, Typed, RowsOK
<1>2. GoodRows(txs)' /\ GoodRows(anchors)'
  BY <1>1, GoodRowsAfter DEF GoodRows
<1>3. \A q \in Procs : GoodCall(q)'
  BY GoodByReturn DEF StoreOneTx
<1> QED BY <1>2, <1>3, GoodAnswer DEF StoreOneTx, client, Typed

LEMMA StoreAnchorsIsPlaced ==
    ASSUME Typed, PlaceInv, NEW p \in Procs, StoreAnchors(p)
    PROVE  PlaceInv'
<1> USE DEF PlaceInv
<1> DEFINE b == calls[p].block
           n == calls[p].n
           computed == [t \in InBlock(b) |-> Place(n, IndexIn(b, t))]
<1>1. /\ At(p, "storeAnchors") /\ cache' = cache /\ UNCHANGED <<txs, guessed>>
      /\ GoTo(p, IF p = Syncer THEN "advance" ELSE "readLast")
  BY DEF StoreAnchors, client, history
<1>2. PICK found \in SUBSET InBlock(b) : AnchorAt(found, computed)
  BY DEF StoreAnchors
<1>3. b \in Blocks /\ n \in HeightsOf(b)
  BY <1>1 DEF Typed, CallsOK, WellFormed, GoodCall, At, OnBlockSteps
<1>4. ASSUME NEW t \in Txs \ guessed PROVE GoodPlace(t, anchors'[t])
  <2>1. anchors'[t] = anchors[t] \/ (t \in found /\ anchors'[t] = Place(n, IndexIn(b, t)))
    BY <1>2 DEF AnchorAt
  <2> HIDE DEF b, n
  <2> QED BY <1>2, <1>3, <2>1, ComputedIsGood DEF GoodRows
<1>5. GoodRows(txs)' /\ GoodRows(anchors)'
  BY <1>1, <1>4, GoodRowsAfter DEF GoodRows
<1>6. \A q \in Procs : GoodCall(q)'
  BY <1>1, GoodByGoTo DEF At, Steps, OnBlockSteps
<1> QED BY <1>1, <1>5, <1>6, GoodAnswer DEF Typed

LEMMA ArrivalIsPlaced ==
    ASSUME Typed, PlaceInv, NEW t \in Txs, PublishAnchor(t) \/ SyncPending(t)
    PROVE  PlaceInv'
<1> USE DEF PlaceInv
<1>1. UNCHANGED <<cache, calls, txs, guessed>>
  BY DEF PublishAnchor, SyncPending, client, history
<1>2. \A u \in Txs : anchors'[u] \in {anchors[u], txs[u]}
  BY DEF PublishAnchor, SyncPending, AnchorAt
<1>3. GoodRows(txs)' /\ GoodRows(anchors)'
  BY <1>1, <1>2, GoodRowsAfter DEF GoodRows
<1>4. \A q \in Procs : GoodCall(q)'
  BY <1>1 DEF GoodCall, HeightsOf
<1> QED BY <1>1, <1>3, <1>4, GoodAnswer DEF Typed

LEMMA ReorgIsPlaced ==
    ASSUME Typed, PlaceInv,
           FetchFails \/ Advance \/ AdvanceFails \/ CheckReorg \/ HandleReorg \/ HandleReorgFails
    PROVE  PlaceInv'
<1> USE DEF PlaceInv
<1>1. GoodCache'
  <2>1. CASE cache' = cache
    BY <2>1, GoodAnswer DEF Typed
  <2>2. CASE \E h \in Heights : GetBlockCount(h)
    BY <2>2, GoodAnswer DEF Typed
  <2> QED BY <2>1, <2>2
      DEF FetchFails, Advance, AdvanceFails, CheckReorg, HandleReorg, HandleReorgFails, client
<1>2. \A q \in Procs : GoodCall(q)'
  <2>1. CASE Return(Syncer)
    BY <2>1, ProcsOK, GoodByReturn
  <2>2. CASE GoTo(Syncer, "checkReorg")
    BY <2>2, ProcsOK, GoodByGoTo DEF Steps, OnBlockSteps
  <2>3. ASSUME NEW step \in {"fetch", "handleReorg"}, NEW n,
               calls' = [calls EXCEPT ![Syncer].at = step, ![Syncer].n = n]
        PROVE  \A q \in Procs : GoodCall(q)'
    <3>1. calls'[Syncer].at = step /\ \A q \in Procs : q # Syncer => calls'[q] = calls[q]
      BY <2>3, ProcsOK DEF Typed, CallsOK, Calls
    <3>2. GoodCall(Syncer)'
      BY <3>1 DEF GoodCall, OnBlockSteps
    <3> QED BY <3>1, <3>2, ProcsOK, GoodCallKept
  <2> QED BY <2>1, <2>2, <2>3
      DEF FetchFails, Advance, AdvanceFails, Continue, CheckReorg, HandleReorg, HandleReorgFails
<1>3. GoodRows(txs)' /\ GoodRows(anchors)'
  <2>1. UNCHANGED <<txs, guessed>> /\ \A t \in Txs : anchors'[t] \in {anchors[t], None}
    BY DEF FetchFails, Advance, AdvanceFails, CheckReorg, HandleReorg, HandleReorgFails,
           AnchorsUpTo, tables, history
  <2>2. \A t \in Txs : GoodPlace(t, None)
    BY DEF GoodPlace
  <2> QED BY <2>1, <2>2, GoodRowsAfter DEF GoodRows
<1> QED BY <1>1, <1>2, <1>3

LEMMA CrashIsPlaced == ASSUME Typed, PlaceInv, Crash PROVE PlaceInv'
<1> USE DEF PlaceInv
<1>1. GoodCache'
  BY GoodAnswer DEF Crash, Typed
<1>2. \A q \in Procs : GoodCall(q)'
  BY DEF Crash, Idle, GoodCall, OnBlockSteps
<1> QED BY <1>1, <1>2, GoodRowsKept DEF Crash, RowsKept, tables, history

LEMMA UnchangedIsPlaced ==
    ASSUME Typed, PlaceInv, NewBestChain \/ ExpireCount \/ UNCHANGED vars
    PROVE  PlaceInv'
<1> USE DEF PlaceInv
<1>1. RowsKept /\ UNCHANGED <<cache, calls>>
  BY DEF NewBestChain, ExpireCount, vars, RowsKept, tables, history, client
<1>2. \A q \in Procs : GoodCall(q)'
  BY <1>1 DEF GoodCall, HeightsOf
<1> QED BY <1>1, <1>2, GoodAnswer, GoodRowsKept DEF Typed

LEMMA StepPlaces == Typed /\ PlaceInv /\ [Next]_vars => PlaceInv'
<1> SUFFICES ASSUME Typed, PlaceInv, [Next]_vars PROVE PlaceInv'
  OBVIOUS
<1>1. CASE NewBestChain \/ ExpireCount \/ UNCHANGED vars
  BY <1>1, UnchangedIsPlaced
<1>2. CASE \E t \in Txs : PublishAnchor(t) \/ SyncPending(t)
  BY <1>2, ArrivalIsPlaced
<1>3. CASE SyncStep
  BY <1>3, ProcsOK, StartsArePlaced, FetchIsPlaced, BlockStepIsPlaced, StoreTxsIsPlaced,
     StoreAnchorsIsPlaced, ReorgIsPlaced
  DEF SyncStep, OnBlock
<1>4. CASE \E p \in Handlers : ManualStep(p)
  BY <1>4, ProcsOK, NumbersAssumption, StartsArePlaced, BlockStepIsPlaced, StoreTxsIsPlaced,
     StoreAnchorsIsPlaced, StoreOneTxIsPlaced
  DEF ManualStep, OnBlock
<1>5. CASE FaultyStep
  BY <1>5, ProcsOK, StartsArePlaced, ReorgIsPlaced, CrashIsPlaced, BlockStepIsPlaced,
     StoreTxsIsPlaced
  DEF FaultyStep
<1> QED BY <1>1, <1>2, <1>3, <1>4, <1>5 DEF Next

LEMMA InitPlaced == Init => PlaceInv
BY DEF Init, PlaceInv, GoodRows, GoodPlace, GoodCache, GoodCall, Idle, OnBlockSteps

\* A transaction of a single block never guessed about has its index in that block as
\* position, and a height at which a chain has the block, in bitcoin_transactions and in
\* anchor_events, whichever of syncBitcoin, the manual syncs, the pending sync and the
\* subscriptions wrote the rows, before or after reorganizations.
THEOREM PositionsAgree == Spec => []PlacesAgree
<1>1. Typed /\ PlaceInv => PlacesAgree
  BY DEF Typed, RowsOK, PlaceInv, GoodRows, GoodPlace, PlacesAgree
<1> QED BY <1>1, AlwaysTyped, InitPlaced, StepPlaces, PTL DEF Spec
=============================================================================
