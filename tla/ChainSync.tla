------------------------------ MODULE ChainSync ------------------------------
(***************************************************************************)
(* How a node follows the Bitcoin chain: the sync goroutine (syncBitcoin   *)
(* in internal/sync/syncer.go) with the reorg check that ends each of its  *)
(* runs (internal/reorg/reorg.go), the HTTP handlers that sync one block   *)
(* or one transaction at the same time, the header cache of the P2P client *)
(* (internal/bitcoin/p2p_client.go), and the tables they write.            *)
(*                                                                         *)
(* Each database statement, or batch of statements that only add rows, is  *)
(* a step; downloads are part of the step before the statement that uses   *)
(* them.  handleReorg is one SQL transaction and so one step.  Heights     *)
(* count from 1, the genesis block of the network.  A transaction has one  *)
(* anchor event; AnchorStore has the case of several.  The reorg check     *)
(* reads the stored hashes in one step.                                    *)
(*                                                                         *)
(* Outside the node: the best chain, which every peer and the REST service *)
(* follow, goes through History; anchors get published.                    *)
(***************************************************************************)
EXTENDS Naturals, Sequences, FiniteSets

CONSTANTS
    Blocks,            \* the blocks there are, standing for their hashes
    Txs,               \* the valid DNN transactions
    Anchored,          \* the transactions that get an anchor at some time
    Content,           \* block |-> its valid transactions in position order
    History,           \* the best chains, in the order in which they become best
    None,
    Syncer, Handlers,  \* the sync goroutine, the HTTP handlers
    BatchSize,         \* config.BlockBatchSize
    RestInterval,      \* how often a block is compared with the REST service (100)
    ReorgCheckInterval, ReorgLookback,    \* internal/policy: 144, 1008
    ManualHeights,     \* bound on the heights the handlers ask for
    MaxFaults          \* bound on failed statements or downloads and crashes

Procs == {Syncer} \union Handlers
Genesis == 1
MaxHeight == Len(History[Len(History)])
Heights == 1..MaxHeight

ASSUME NamesAssumption ==
    /\ None \notin Blocks /\ None \notin Txs /\ None \notin [n : Heights, i : Nat]
    /\ Syncer \notin Handlers

\* Chains only get longer, and hold known blocks.
ASSUME HistoryAssumption ==
    /\ History \in Seq(Seq(Blocks)) /\ Len(History) \in Nat \ {0}
    /\ \A k \in 1..Len(History) :
        /\ Len(History[k]) \in 1..MaxHeight
        /\ History[k] \in [1..Len(History[k]) -> Blocks]

ASSUME ContentAssumption == Content \in [Blocks -> Seq(Txs)] /\ Anchored \subseteq Txs

ASSUME NumbersAssumption ==
    /\ {BatchSize, RestInterval, ReorgCheckInterval} \subseteq Nat \ {0}
    /\ {ReorgLookback, MaxFaults} \subseteq Nat
    /\ ManualHeights \subseteq Heights

VARIABLES
    best,         \* which chain of History is the best one now
    published,    \* the transactions whose anchor is on the relays
    cache,        \* headerCache: the hashes of heights 1, 2, ...
    count,        \* currentHeight while it is younger than 30 s, else 0
    indexed,      \* the blocks whose transactions are in txToBlockHash
    calls,        \* process |-> what it does next
    lastSynced,   \* sync_state.last_synced_block
    blocks,       \* dnn_blocks: height |-> hash
    txs,          \* bitcoin_transactions: transaction |-> height and position
    anchors,      \* anchor_events: transaction |-> height and position
    marked,       \* transactions with has_anchor_event = 1
    scanned,      \* history: blocks all of whose transactions were stored
    excused,      \* history: heights a manual sync jumped over or a fault hit
    guessed,      \* history: transactions stored by SyncSpecificTransaction
    faults        \* number of faults so far

world == <<best, published>>
client == <<cache, count, indexed>>
tables == <<lastSynced, blocks, txs, anchors, marked>>
history == <<scanned, excused, guessed>>
vars == <<world, client, calls, tables, history, faults>>

-----------------------------------------------------------------------------

Best == History[best]
Place(n, i) == [n |-> n, i |-> i]
InBlock(b) == {Content[b][i] : i \in DOMAIN Content[b]}
IndexIn(b, t) == CHOOSE i \in DOMAIN Content[b] : Content[b][i] = t

Steps == {"idle", "fetch", "writeBlock", "storeTxs", "storeTx", "storeAnchors",
          "advance", "readLast", "writeLast", "checkReorg", "handleReorg"}

\* A process at work: first and end delimit its batch, n is its height (from
\* checkReorg on, the height recovery starts at), block its block, tx its transaction.
Started(step, n, end, b, t) ==
    [at |-> step, first |-> n, n |-> n, end |-> end, block |-> b, tx |-> t]
Idle == [at |-> "idle", first |-> 0, n |-> 0, end |-> 0, block |-> None, tx |-> None]
At(p, step) == calls[p].at = step
GoTo(p, step) == calls' = [calls EXCEPT ![p].at = step]
Return(p) == calls' = [calls EXCEPT ![p] = Idle]

Fault == faults < MaxFaults /\ faults' = faults + 1

OnBlockSteps == {"writeBlock", "storeTxs", "storeTx", "storeAnchors"}
BatchSteps == {"fetch", "writeBlock", "storeTxs", "storeAnchors", "advance"}

\* A process has the height, block and transaction that its next step uses.
WellFormed(p) ==
    LET c == calls[p] IN
    /\ c.at \in OnBlockSteps \union BatchSteps \union {"readLast", "writeLast", "handleReorg"} =>
            c.n \in Heights
    /\ c.at \in OnBlockSteps => c.block \in Blocks
    /\ c.at = "storeTx" => c.tx \in Txs
    /\ p = Syncer /\ c.at \in BatchSteps => c.end \in Heights /\ c.n <= c.end

TypeOK ==
    /\ best \in 1..Len(History) /\ published \subseteq Txs
    /\ cache \in Seq(Blocks) /\ Len(cache) \in 0..MaxHeight
    /\ count \in 0..Len(cache) /\ indexed \subseteq Blocks
    /\ calls \in [Procs -> [at : Steps, first : Nat, n : Nat, end : Nat,
                            block : Blocks \union {None}, tx : Txs \union {None}]]
    /\ \A p \in Procs : WellFormed(p)
    /\ lastSynced \in Nat
    /\ blocks \in [Heights -> Blocks \union {None}]
    /\ txs \in [Txs -> [n : Heights, i : Nat] \union {None}]
    /\ anchors \in [Txs -> [n : Heights, i : Nat] \union {None}]
    /\ marked \subseteq Txs
    /\ scanned \subseteq Blocks \X Heights
    /\ excused \subseteq Heights /\ guessed \subseteq Txs
    /\ faults \in 0..MaxFaults

Init ==
    /\ best = 1 /\ published = {}
    /\ cache = <<>> /\ count = 0 /\ indexed = {}
    /\ calls = [p \in Procs |-> Idle]
    /\ lastSynced = Genesis - 1
    /\ blocks = [n \in Heights |-> None]
    /\ txs = [t \in Txs |-> None] /\ anchors = [t \in Txs |-> None] /\ marked = {}
    /\ scanned = {} /\ excused = {} /\ guessed = {}
    /\ faults = 0

-----------------------------------------------------------------------------
(* Outside the node. *)

NewBestChain ==
    /\ best < Len(History)
    /\ best' = best + 1
    /\ UNCHANGED <<published, client, calls, tables, history, faults>>

\* Half a minute passes: the cached height is no longer used.
ExpireCount ==
    /\ count > 0
    /\ count' = 0
    /\ UNCHANGED <<world, cache, indexed, calls, tables, history, faults>>

-----------------------------------------------------------------------------
(* The P2P client. *)

\* Peers answer a request for the headers after the last cached one.  If that one
\* is not on their chain they answer from their genesis block, and the check of
\* prev_hash refuses every header.
Linked == \A n \in DOMAIN cache : n \in DOMAIN Best /\ cache[n] = Best[n]

\* GetBlockCount returns h; without a recent height it asks the peers and caches
\* their headers up to the tip.
GetBlockCount(h) ==
    IF count > 0
    THEN h = count /\ UNCHANGED <<cache, count>>
    ELSE Linked /\ h = Len(Best) /\ cache' = Best /\ count' = h

\* GetBlockHash returns b.  The cache is never compared with the chain again.
GetBlockHash(n, b) ==
    IF n \in DOMAIN cache
    THEN b = cache[n] /\ UNCHANGED cache
    ELSE Linked /\ n \in DOMAIN Best /\ b = Best[n] /\ cache' = SubSeq(Best, 1, n)

-----------------------------------------------------------------------------
(* syncBitcoin. *)

Smaller(x, y) == IF x < y THEN x ELSE y

\* Mutant: the tip is taken for synced when only its parent is.
CaughtUpButOne(last, h) == last + 1 >= h
CaughtUp(last, h) == last >= h

StartFrom(last) ==
    /\ At(Syncer, "idle")
    /\ \E h \in Heights :
        /\ GetBlockCount(h)
        /\ calls' = IF CaughtUp(last, h) THEN calls
                    ELSE [calls EXCEPT ![Syncer] =
                             Started("fetch", last + 1, Smaller(last + BatchSize, h), None, None)]
    /\ UNCHANGED <<world, indexed, tables, history>>

StartBatch == StartFrom(lastSynced) /\ UNCHANGED faults

\* A last_synced_block that cannot be read counts as none: the sync begins again.
StartUnread == StartFrom(Genesis - 1) /\ Fault

\* The first block of a batch and every RestInterval-th are compared with the REST
\* service, if it answers: a difference clears the cache and ends the run.
Diverges(n) == n \in DOMAIN Best /\ cache[n] # Best[n]

Downloaded(p, b) ==
    /\ calls' = [calls EXCEPT ![p].at = "writeBlock", ![p].block = b]
    /\ indexed' = indexed \union {b}

FetchNext ==
    LET c == calls[Syncer] IN
    /\ At(Syncer, "fetch")
    /\ c.n \in DOMAIN cache
    /\ \/ /\ c.n = c.first \/ c.n % RestInterval = 0
          /\ Diverges(c.n)
          /\ cache' = <<>> /\ count' = 0
          /\ Return(Syncer)
          /\ UNCHANGED indexed
       \/ Downloaded(Syncer, cache[c.n]) /\ UNCHANGED <<cache, count>>
    /\ UNCHANGED <<world, tables, history, faults>>

\* To the next block of the batch, or to the check that ends the run.
Continue ==
    LET c == calls[Syncer] IN
    \/ /\ c.n < c.end
       /\ calls' = [calls EXCEPT ![Syncer].at = "fetch", ![Syncer].n = c.n + 1]
    \/ /\ ~(c.n < c.end)
       /\ GoTo(Syncer, "checkReorg")

\* Mutant: a block that cannot be downloaded is passed over.
SkipFailedBlock ==
    /\ At(Syncer, "fetch")
    /\ Continue
    /\ Fault
    /\ UNCHANGED <<world, client, tables, history>>

\* "STOPPING to prevent gaps": the rest of the batch is left to the next run.
FetchFails ==
    /\ At(Syncer, "fetch")
    /\ GoTo(Syncer, "checkReorg")
    /\ Fault
    /\ UNCHANGED <<world, client, tables, history>>

\* last_synced_block is written after the block's transactions and anchors.
Advance ==
    /\ At(Syncer, "advance")
    /\ lastSynced' = calls[Syncer].n
    /\ Continue
    /\ UNCHANGED <<world, client, blocks, txs, anchors, marked, history, faults>>

\* The error is logged and the loop goes on.
AdvanceFails ==
    /\ At(Syncer, "advance")
    /\ Continue
    /\ Fault
    /\ UNCHANGED <<world, client, tables, history>>

-----------------------------------------------------------------------------
(* The manual syncs. *)

\* SyncSpecificBlock of any height; an unknown one only extends the cache.  With an
\* orphan on top of the cache the request for an uncached height never returns.
SyncSpecificBlock(p, n) ==
    /\ At(p, "idle")
    /\ \/ \E b \in Blocks :
            /\ GetBlockHash(n, b)
            /\ calls' = [calls EXCEPT ![p] = Started("writeBlock", n, n, b, None)]
            /\ indexed' = indexed \union {b}
       \/ /\ n \notin DOMAIN cache /\ n \notin DOMAIN Best /\ Linked
          /\ cache' = Best
          /\ UNCHANGED <<calls, indexed>>
    /\ UNCHANGED <<world, count, tables, history, faults>>

\* SyncSpecificTransaction looks in the blocks downloaded since the process started.
SyncSpecificTransaction(p, t) ==
    /\ At(p, "idle")
    /\ \E n \in DOMAIN cache :
        /\ cache[n] \in indexed /\ t \in InBlock(cache[n])
        /\ calls' = [calls EXCEPT ![p] = Started("writeBlock", n, n, cache[n], t)]
    /\ UNCHANGED <<world, client, tables, history, faults>>

\* "position 1 as placeholder", stored as position + 1.
StoreOneTx(p) ==
    LET c == calls[p] IN
    /\ At(p, "storeTx")
    /\ txs' = IF txs[c.tx] # None \/ \E u \in Txs : txs[u] = Place(c.n, 2)
              THEN txs
              ELSE [txs EXCEPT ![c.tx] = Place(c.n, 2)]
    /\ guessed' = guessed \union {c.tx}
    /\ Return(p)
    /\ UNCHANGED <<world, client, lastSynced, blocks, anchors, marked, scanned, excused, faults>>

\* SyncSpecificBlock moves last_synced_block up to its block, skipping what is between.
ReadLast(p) ==
    /\ At(p, "readLast")
    /\ IF calls[p].n > lastSynced THEN GoTo(p, "writeLast") ELSE Return(p)
    /\ UNCHANGED <<world, client, tables, history, faults>>

WriteLast(p) ==
    /\ At(p, "writeLast")
    /\ lastSynced' = calls[p].n
    /\ excused' = excused \union {m \in Heights : lastSynced < m /\ m < calls[p].n}
    /\ Return(p)
    /\ UNCHANGED <<world, client, blocks, txs, anchors, marked, scanned, guessed, faults>>

\* An unreadable last_synced_block counts as 0; a failed update is logged.
ReadLastFails(p) ==
    /\ At(p, "readLast")
    /\ GoTo(p, "writeLast")
    /\ Fault
    /\ UNCHANGED <<world, client, tables, history>>

WriteLastFails(p) ==
    /\ At(p, "writeLast")
    /\ Return(p)
    /\ Fault
    /\ UNCHANGED <<world, client, tables, history>>

-----------------------------------------------------------------------------
(* Processing one block, by any process. *)

WriteBlock(p) ==
    LET c == calls[p] IN
    /\ At(p, "writeBlock")
    /\ blocks' = [blocks EXCEPT ![c.n] = c.block]
    /\ GoTo(p, IF c.tx = None THEN "storeTxs" ELSE "storeTx")
    /\ UNCHANGED <<world, client, lastSynced, txs, anchors, marked, history, faults>>

\* Only SyncSpecificBlock gives up; the others log the error.
WriteBlockFails(p) ==
    /\ At(p, "writeBlock")
    /\ CASE p = Syncer             -> GoTo(p, "storeTxs")
         [] calls[p].tx # None     -> GoTo(p, "storeTx")
         [] OTHER                  -> Return(p)
    /\ Fault
    /\ UNCHANGED <<world, client, tables, history>>

\* Mutants: one transaction per height; positions counted from 0.
StoredOnePerHeight(b, n, at) ==
    [t \in Txs |->
        IF t \in at /\ txs[t] = None /\ IndexIn(b, t) = 1
        THEN Place(n, IndexIn(b, t))
        ELSE txs[t]]

StoredFromZero(b, n, at) ==
    [t \in Txs |->
        IF t \in at /\ txs[t] = None /\ ~\E u \in Txs : txs[u] = Place(n, IndexIn(b, t) - 1)
        THEN Place(n, IndexIn(b, t) - 1)
        ELSE txs[t]]

\* INSERT OR IGNORE of the transactions at, under the keys transaction_id and
\* (bitcoin_block_number, position).
Stored(b, n, at) ==
    [t \in Txs |->
        IF t \in at /\ txs[t] = None /\ ~\E u \in Txs : txs[u] = Place(n, IndexIn(b, t))
        THEN Place(n, IndexIn(b, t))
        ELSE txs[t]]

StoreTxs(p) ==
    LET c == calls[p] IN
    /\ At(p, "storeTxs")
    /\ txs' = Stored(c.block, c.n, InBlock(c.block))
    /\ scanned' = scanned \union {<<c.block, c.n>>}
    /\ GoTo(p, "storeAnchors")
    /\ UNCHANGED <<world, client, lastSynced, blocks, anchors, marked, excused, guessed, faults>>

\* Some inserts fail: each is logged, and the block goes on.
StoreTxsFails(p) ==
    LET c == calls[p] IN
    /\ At(p, "storeTxs")
    /\ \E some \in SUBSET InBlock(c.block) : txs' = Stored(c.block, c.n, some)
    /\ excused' = excused \union {c.n}
    /\ GoTo(p, "storeAnchors")
    /\ Fault
    /\ UNCHANGED <<world, client, lastSynced, blocks, anchors, marked, scanned, guessed>>

StoreOneTxFails(p) ==
    /\ At(p, "storeTx")
    /\ Return(p)
    /\ Fault
    /\ UNCHANGED <<world, client, tables, history>>

\* StoreAnchorEvent: nothing for an anchor that is stored already; else the row, and
\* the mark if the transaction has a row.
AnchorAt(found, places) ==
    LET new == {t \in found : anchors[t] = None} IN
    /\ anchors' = [t \in Txs |-> IF t \in new THEN places[t] ELSE anchors[t]]
    /\ marked' = marked \union {t \in new : txs[t] # None}

\* The relays return some of the published anchors.  (Those of transactions whose
\* insert failed are not asked for: the model allows them too.)
StoreAnchors(p) ==
    LET c == calls[p]
        computed == [t \in InBlock(c.block) |-> Place(c.n, IndexIn(c.block, t))] IN
    /\ At(p, "storeAnchors")
    /\ \E found \in SUBSET (InBlock(c.block) \intersect published) : AnchorAt(found, computed)
    /\ GoTo(p, IF p = Syncer THEN "advance" ELSE "readLast")
    /\ UNCHANGED <<world, client, lastSynced, blocks, txs, history, faults>>

\* A new anchor reaches the relays, and this node if a subscription or its own
\* relay gets it while the transaction is known.
PublishAnchor(t) ==
    /\ t \in Anchored \ published
    /\ published' = published \union {t}
    /\ \/ txs[t] # None /\ AnchorAt({t}, txs)
       \/ UNCHANGED <<anchors, marked>>
    /\ UNCHANGED <<best, client, calls, lastSynced, blocks, txs, history, faults>>

\* SyncPendingTransactions asks the relays for transactions that have no mark.
SyncPending(t) ==
    /\ t \in published \ marked /\ txs[t] # None
    /\ AnchorAt({t}, txs)
    /\ UNCHANGED <<world, client, calls, lastSynced, blocks, txs, history, faults>>

-----------------------------------------------------------------------------
(* Reorganizations: CheckAndHandleReorg of the batch's end. *)

ShouldCheckReorg(dnn) == dnn > 0 /\ dnn % ReorgCheckInterval = 0

\* Stored hashes, from the lookback to h, that differ from the REST service's, or
\* from the cache's at the heights for which that does not answer.
Mismatches(h, rest) ==
    {n \in Heights :
        /\ n <= h /\ n + ReorgLookback >= h
        /\ blocks[n] # None
        /\ IF n \in rest \intersect DOMAIN Best THEN blocks[n] # Best[n]
           ELSE n \in DOMAIN cache' /\ blocks[n] # cache'[n]}

CheckReorg ==
    LET c == calls[Syncer] IN
    /\ At(Syncer, "checkReorg")
    /\ \/ /\ \/ ~ShouldCheckReorg(c.end - Genesis)
             \/ count = 0 /\ ~Linked                \* GetBlockCount fails
          /\ Return(Syncer)
          /\ UNCHANGED <<cache, count>>
       \/ /\ ShouldCheckReorg(c.end - Genesis)
          /\ \E h \in Heights, rest \in SUBSET Heights :
                /\ GetBlockCount(h)
                /\ \/ Mismatches(h, rest) = {} /\ Return(Syncer)
                   \/ \E n \in Mismatches(h, rest) :
                        /\ \A m \in Mismatches(h, rest) : n <= m
                        /\ calls' = [calls EXCEPT ![Syncer].at = "handleReorg", ![Syncer].n = n]
    /\ UNCHANGED <<world, indexed, tables, history, faults>>

\* DELETE ... WHERE block_number > start and dnn_block_number > start, then the
\* hashes of the cache from start on.  No transaction row, mark or anchor is added:
\* processBlockTransactions reads columns the tables do not have.
Rewritten(start, h) ==
    [n \in Heights |->
        IF start <= n /\ n <= h THEN cache'[n]
        ELSE IF n > start THEN None ELSE blocks[n]]

AnchorsUpTo(start) ==
    [t \in Txs |-> IF anchors[t] # None /\ anchors[t].n > start THEN None ELSE anchors[t]]

HandleReorg ==
    LET start == calls[Syncer].n IN
    /\ At(Syncer, "handleReorg")
    /\ \E h \in Heights :
        /\ GetBlockCount(h)
        /\ blocks' = Rewritten(start, h)
        /\ indexed' = indexed \union {cache'[n] : n \in start..h}
    /\ anchors' = AnchorsUpTo(start)
    /\ Return(Syncer)
    /\ UNCHANGED <<world, lastSynced, txs, marked, history, faults>>

\* Any error rolls the transaction back.
HandleReorgFails ==
    /\ At(Syncer, "handleReorg")
    /\ \/ count = 0 /\ ~Linked /\ UNCHANGED faults
       \/ Fault
    /\ Return(Syncer)
    /\ UNCHANGED <<world, client, tables, history>>

\* The process dies and starts again with empty caches.
Crash ==
    /\ Fault
    /\ calls' = [p \in Procs |-> Idle]
    /\ cache' = <<>> /\ count' = 0 /\ indexed' = {}
    /\ UNCHANGED <<world, tables, history>>

-----------------------------------------------------------------------------

OnBlock(p) == WriteBlock(p) \/ StoreTxs(p) \/ StoreAnchors(p)

SyncStep ==
    \/ StartBatch \/ FetchNext \/ OnBlock(Syncer) \/ Advance
    \/ CheckReorg \/ HandleReorg \/ HandleReorgFails

ManualStep(p) ==
    \/ \E n \in ManualHeights : SyncSpecificBlock(p, n)
    \/ \E t \in Txs : SyncSpecificTransaction(p, t)
    \/ OnBlock(p) \/ StoreOneTx(p) \/ ReadLast(p) \/ WriteLast(p)

FaultyStep ==
    \/ StartUnread \/ FetchFails \/ AdvanceFails \/ Crash
    \/ \E p \in Procs : WriteBlockFails(p) \/ StoreTxsFails(p) \/ StoreOneTxFails(p)
    \/ \E p \in Handlers : ReadLastFails(p) \/ WriteLastFails(p)

Next ==
    \/ NewBestChain \/ ExpireCount
    \/ \E t \in Txs : PublishAnchor(t) \/ SyncPending(t)
    \/ SyncStep
    \/ \E p \in Handlers : ManualStep(p)
    \/ FaultyStep

Spec == Init /\ [][Next]_vars

\* The ticker starts a run as long as the process lives, a run goes on until it
\* ends, and time passes.
FairSpec == Spec /\ WF_vars(SyncStep) /\ WF_vars(ExpireCount)

-----------------------------------------------------------------------------
(* Properties. *)

\* A height whose block was scanned, or that is excused.
Covered(n) == n \in excused \/ \E b \in Blocks : <<b, n>> \in scanned

\* "This ensures we don't skip blocks if a future block fails": every height up to
\* last_synced_block was scanned, whatever failed, crashed or ran beside the sync
\* goroutine, unless a manual sync jumped over it or its inserts failed.
SyncedIsScanned == \A n \in Heights : n <= lastSynced => Covered(n)

\* A transaction of a scanned block is recorded, unless another one holds its
\* position in that height: a guessed position or an orphaned block's.
ScannedIsRecorded ==
    \A s \in scanned : \A t \in InBlock(s[1]) :
        \/ txs[t] # None
        \/ \E u \in Txs : txs[u] = Place(s[2], IndexIn(s[1], t))

\* Transactions of a single block whose position nobody guessed have their index in
\* that block as position, in both tables, whichever process stored them.
Home(t) == {b \in Blocks : t \in InBlock(b)}
HeightsOf(b) == {n \in Heights : \E k \in 1..Len(History) : n \in DOMAIN History[k] /\ History[k][n] = b}

PlacesAgree ==
    \A t \in Txs \ guessed, b \in Blocks :
        Home(t) = {b} =>
            \A place \in {txs[t], anchors[t]} \ {None} :
                place.i = IndexIn(b, t) /\ place.n \in HeightsOf(b)

\* As long as no orphan stays in the header cache, the node catches up with the chain.
CatchesUp == <>[]Linked => []<>(lastSynced >= Len(Best))

\* "Automatic chain reorganization handling": the node catches up, always.
RecoversFromReorgs == []<>(lastSynced >= Len(Best))
=============================================================================
