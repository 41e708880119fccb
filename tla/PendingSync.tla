----------------------------- MODULE PendingSync -----------------------------
(***************************************************************************)
(* The search for the anchors of transactions that have none:              *)
(* SyncPendingTransactions and its batched relay queries                   *)
(* (internal/sync/syncer.go) over bitcoin_transactions                     *)
(* (internal/database/queries.go).                                         *)
(*                                                                         *)
(* A call takes up to BatchSize transactions no relay was asked for and up *)
(* to BatchSize that were asked for in vain, asks every relay for all of   *)
(* them at once, stores what it found, marks the first lot as checked and  *)
(* starts again.  It stops when nothing new was found, or after            *)
(* MaxIterations.  The sync goroutine calls it after each Bitcoin sync,    *)
(* and an HTTP handler in a goroutine of its own, without looking whether  *)
(* one is under way.  Meanwhile blocks bring transactions, relays receive  *)
(* anchors, and subscriptions store some of them.                          *)
(*                                                                         *)
(* StoreAnchorEvent is one step here (module AnchorStore takes it apart),  *)
(* and a pubkey uses one d tag.                                            *)
(***************************************************************************)
EXTENDS Naturals, Sequences, FiniteSets, SequencesExt

CONSTANTS
    SyncLoop, Handlers,     \* the sync goroutine; HTTP requests
    Relays, Steady,         \* all of them; those whose queries never fail
    Txs, DiscoveredAt,      \* the valid transactions and the second each is recorded
    Recorded,               \* those recorded when the process starts
    Pubkeys, Anchors,
    Holds,                  \* <<r, e>>: the relay r may come to hold e
    NoAnchor,
    BatchSize, MaxIterations,    \* 200 and 100 in the source
    MaxFaults               \* bound on failed SQL statements

\* created is created_at (and the content's updated_at), id orders the event ids;
\* valid anchors pass ValidateTagReferences.
ASSUME AnchorsAssumption ==
    /\ Anchors \subseteq [pk : Pubkeys, tx : Txs, created : Nat, id : Nat, valid : BOOLEAN]
    /\ \A e, f \in Anchors : e.id = f.id => e = f
    /\ NoAnchor \notin Anchors /\ IsFiniteSet(Anchors)

ASSUME WorldAssumption ==
    /\ Steady \subseteq Relays
    /\ IsFiniteSet(Txs) /\ DiscoveredAt \in [Txs -> Nat]
    /\ Recorded \subseteq Txs /\ Holds \subseteq Relays \X Anchors
    /\ SyncLoop \notin Handlers

ASSUME BatchesAssumption ==
    BatchSize \in Nat \ {0} /\ MaxIterations \in Nat \ {0} /\ MaxFaults \in Nat

VARIABLES
    known,       \* the rows of bitcoin_transactions
    checked,     \* those with a relay_checked_at
    marked,      \* those with has_anchor_event = 1
    anchors,     \* the rows of anchor_events
    held,        \* <<r, e>>: the relay r holds e
    searches,    \* caller |-> where its call is, and its variables
    faults       \* number of faults so far

table == <<known, checked, marked, anchors>>
pendingVars == <<table, held, searches, faults>>

-----------------------------------------------------------------------------

Callers == {SyncLoop} \union Handlers

NothingFound == [t \in Txs |-> NoAnchor]

\* heard is a history: all the anchors relays answered with in this iteration;
\* listed too: the rows at the moment of the first query.
NoSearch == [at |-> "idle", iteration |-> 0, unchecked |-> <<>>, todo |-> <<>>,
             asking |-> {}, results |-> NothingFound, found |-> FALSE,
             heard |-> {}, listed |-> {}]

SearchAt(c, place) == searches[c].at = place
Running(c) == ~SearchAt(c, "idle")
Return(c) == searches' = [searches EXCEPT ![c] = NoSearch]

PendingTypeOK ==
    /\ checked \subseteq known /\ marked \subseteq known /\ known \subseteq Txs
    /\ anchors \subseteq Anchors /\ held \subseteq Holds
    /\ \A c \in Callers :
        /\ searches[c].at \in {"idle", "selectUnchecked", "selectChecked", "query", "store"}
        /\ searches[c].iteration \in 0..MaxIterations
        /\ searches[c].results \in [Txs -> Anchors \union {NoAnchor}]
        /\ \A t \in Txs : searches[c].results[t] # NoAnchor => searches[c].results[t].tx = t
        /\ Range(searches[c].unchecked) \union Range(searches[c].todo) \subseteq known
        /\ Len(searches[c].unchecked) <= BatchSize /\ Len(searches[c].todo) <= 2 * BatchSize
        /\ searches[c].asking # {} => SearchAt(c, "query")
    /\ faults \in 0..MaxFaults

PendingInit ==
    /\ known = Recorded /\ checked = {} /\ marked = {} /\ anchors = {}
    /\ held = {}
    /\ searches = [c \in Callers |-> NoSearch]
    /\ faults = 0

-----------------------------------------------------------------------------
(* The rest of the node, and the relays. *)

\* StoreValidBitcoinTransaction, in the order of discovered_at.
Discover(t) ==
    /\ t \notin known
    /\ \A u \in known : DiscoveredAt[u] <= DiscoveredAt[t]
    /\ known' = known \union {t}
    /\ UNCHANGED <<checked, marked, anchors, held, searches, faults>>

Publish(r, e) ==
    /\ <<r, e>> \in Holds \ held
    /\ held' = held \union {<<r, e>>}
    /\ UNCHANGED <<table, searches, faults>>

\* StoreAnchorEvent: refused if a later anchor of the pubkey is stored; the row
\* replaces any other of its transaction.
Superseded(e) == \E f \in anchors : f.pk = e.pk /\ f.created > e.created

StoreAnchorEvent(e) ==
    IF Superseded(e) \/ e \in anchors
    THEN UNCHANGED <<anchors, marked>>
    ELSE /\ anchors' = {f \in anchors : f.tx # e.tx} \union {e}
         /\ marked' = marked \union {e.tx}

\* A subscription or a client brings an anchor of a known transaction.
Arrive(e) ==
    /\ e.valid /\ e.tx \in known
    /\ \E r \in Relays : <<r, e>> \in held
    /\ StoreAnchorEvent(e)
    /\ UNCHANGED <<known, checked, held, searches, faults>>

-----------------------------------------------------------------------------
(* The two queries of an iteration. *)

Newer(t, u) == DiscoveredAt[t] > DiscoveredAt[u]
Older(t, u) == DiscoveredAt[t] < DiscoveredAt[u]

\* ORDER BY .. LIMIT BatchSize: rows that tie come in any order.
Listings(rows, Before(_, _)) ==
    LET size == IF Cardinality(rows) < BatchSize THEN Cardinality(rows) ELSE BatchSize IN
    {s \in UNION {SetToSeqs(S) : S \in {R \in SUBSET rows : Cardinality(R) = size}} :
        /\ \A i, j \in DOMAIN s : i < j => ~Before(s[j], s[i])
        /\ \A i \in DOMAIN s, t \in rows \ Range(s) : ~Before(t, s[i])}

Unchecked == known \ (checked \union marked)
CheckedWithoutAnchor == checked \ marked

\* Mutant: no LIMIT.
AllUnchecked ==
    {s \in SetToSeqs(Unchecked) : \A i, j \in DOMAIN s : i < j => ~Newer(s[j], s[i])}

GetUncheckedBitcoinTransactions == Listings(Unchecked, Newer)

\* Mutant: the query repeats the condition of the first one.
GetUncheckedAgain == Listings(CheckedWithoutAnchor \ checked, Older)
GetCheckedTransactionsWithoutAnchor == Listings(CheckedWithoutAnchor, Older)

Begin(c) ==
    /\ ~Running(c)
    /\ searches' = [searches EXCEPT ![c] =
                        [NoSearch EXCEPT !.at = "selectUnchecked", !.iteration = 1]]
    /\ UNCHANGED <<table, held, faults>>

SelectUnchecked(c) ==
    /\ SearchAt(c, "selectUnchecked")
    /\ \E list \in GetUncheckedBitcoinTransactions :
        searches' = [searches EXCEPT ![c] =
                    [NoSearch EXCEPT !.at = "selectChecked", !.iteration = searches[c].iteration,
                                   !.unchecked = list, !.listed = known]]
    /\ UNCHANGED <<table, held, faults>>

\* With nothing to check the call ends, otherwise every relay is asked.
GoOnWith(c, list) ==
    LET all == searches[c].unchecked \o list IN
    IF all = <<>> THEN Return(c)
    ELSE searches' = [searches EXCEPT ![c].at = IF Relays = {} THEN "store" ELSE "query",
                                      ![c].todo = all, ![c].asking = Relays]

SelectChecked(c) ==
    /\ SearchAt(c, "selectChecked")
    /\ \E list \in GetCheckedTransactionsWithoutAnchor : GoOnWith(c, list)
    /\ UNCHANGED <<table, held, faults>>

-----------------------------------------------------------------------------
(* findAnchorEventsForTransactionsBatch: the relays answer in any order. *)

Later(e, f) == e.created > f.created \/ (e.created = f.created /\ e.id > f.id)

\* Mutant: "FIRST CLAIM WINS (older created_at wins)".
KeepFirst(found, answer) ==
    [t \in Txs |->
        LET claims == {e \in answer \union {found[t]} : e # NoAnchor /\ e.tx = t} IN
        IF claims = {} THEN NoAnchor
        ELSE CHOOSE e \in claims : \A f \in claims : e = f \/ Later(f, e)]

\* One answer merged under resultsMu: of the claims of a transaction the latest is
\* kept, of those that tie the one with the higher id.
Merge(found, answer) ==
    [t \in Txs |->
        LET claims == {e \in answer \union {found[t]} : e # NoAnchor /\ e.tx = t} IN
        IF claims = {} THEN NoAnchor
        ELSE CHOOSE e \in claims : \A f \in claims : e = f \/ Later(e, f)]

\* What the relay answers is merged; after the last of them (wg.Wait) the call goes on.
Heard(c, r, answer) ==
    LET results == Merge(searches[c].results, answer) IN
    searches' = [searches EXCEPT ![c].at = IF searches[c].asking = {r} THEN "store" ELSE @,
                                 ![c].asking = @ \ {r}, ![c].results = results,
                                 ![c].heard = @ \union answer]

\* A relay's query with or without the x filter: the matching is the same.
Answer(c, r) ==
    /\ r \in searches[c].asking
    /\ Heard(c, r, {e \in Anchors : <<r, e>> \in held /\ e.tx \in Range(searches[c].todo)})
    /\ UNCHANGED <<table, held, faults>>

\* No connection, or both queries failed.
NoAnswer(c, r) ==
    /\ r \in searches[c].asking \ Steady
    /\ Heard(c, r, {})
    /\ UNCHANGED <<table, held, faults>>

-----------------------------------------------------------------------------
(* What was found is stored, then the new ones are marked as checked. *)

FoundFor(c, i) == searches[c].results[searches[c].todo[i]]
AllStored(c) == \A i \in DOMAIN searches[c].todo : FoundFor(c, i) = NoAnchor

\* The next transaction that something was found for.  foundCount counts the event
\* before it is validated and stored.
Store(c) ==
    /\ SearchAt(c, "store")
    /\ \E i \in DOMAIN searches[c].todo :
        LET e == FoundFor(c, i) IN
        /\ e # NoAnchor /\ \A j \in 1..(i - 1) : FoundFor(c, j) = NoAnchor
        /\ IF e.valid THEN StoreAnchorEvent(e) ELSE UNCHANGED <<anchors, marked>>
        /\ searches' = [searches EXCEPT ![c].todo = SubSeq(@, i + 1, Len(@)), ![c].found = TRUE]
    /\ UNCHANGED <<known, checked, held, faults>>

\* Mutant: a batch in which nothing was found ends the call.
StopsWhenNothingFound(call) == ~call.found

\* "If this batch found no events and we're just rechecking".
Stops(call) == ~call.found /\ call.unchecked = <<>>

\* Mutant: the iterations are not counted.
AgainUncounted(c) ==
    searches' = [searches EXCEPT ![c] =
                [NoSearch EXCEPT !.at = "selectUnchecked", !.iteration = searches[c].iteration]]

\* maxIterations: "Safety limit to prevent infinite loops".
Again(c) ==
    IF searches[c].iteration = MaxIterations THEN Return(c)
    ELSE searches' = [searches EXCEPT ![c] =
            [NoSearch EXCEPT !.at = "selectUnchecked", !.iteration = searches[c].iteration + 1]]

EndIteration(c) == IF Stops(searches[c]) THEN Return(c) ELSE Again(c)

\* MarkTransactionsRelayChecked, one SQL transaction: whether a relay answered or not.
MarkChecked(c) ==
    /\ SearchAt(c, "store") /\ AllStored(c)
    /\ checked' = checked \union Range(searches[c].unchecked)
    /\ EndIteration(c)
    /\ UNCHANGED <<known, marked, anchors, held, faults>>

-----------------------------------------------------------------------------
(* SQL statements that fail. *)

\* The first SELECT ends the call; the second counts as an empty list; the UPDATE
\* is only logged.
FailedStatement(c) ==
    /\ faults < MaxFaults
    /\ faults' = faults + 1
    /\ \/ SearchAt(c, "selectUnchecked") /\ Return(c)
       \/ SearchAt(c, "selectChecked") /\ GoOnWith(c, <<>>)
       \/ SearchAt(c, "store") /\ AllStored(c) /\ EndIteration(c)
    /\ UNCHANGED <<table, held>>

-----------------------------------------------------------------------------

SearchStep(c) ==
    \/ SelectUnchecked(c)
    \/ SelectChecked(c)
    \/ \E r \in Relays : Answer(c, r) \/ NoAnswer(c, r)
    \/ Store(c)
    \/ MarkChecked(c)

PendingNext ==
    \/ \E t \in Txs : Discover(t)
    \/ \E r \in Relays, e \in Anchors : Publish(r, e)
    \/ \E e \in Anchors : Arrive(e)
    \/ \E c \in Callers : Begin(c) \/ SearchStep(c) \/ FailedStatement(c)

PendingSpec == PendingInit /\ [][PendingNext]_pendingVars

\* Goroutines run; the ticker of the sync loop goes on; a query ends (30 s).
PendingFairSpec ==
    /\ PendingSpec
    /\ \A c \in Callers : WF_pendingVars(SearchStep(c))
    /\ WF_pendingVars(Begin(SyncLoop))

-----------------------------------------------------------------------------
(* Properties. *)

\* The claims a call takes up do not depend on the order in which the relays
\* answered: for each transaction the latest of all it heard.
LatestHeardWins ==
    \A c \in Callers :
        \A e \in searches[c].heard :
            LET f == searches[c].results[e.tx] IN f = e \/ Later(f, e)

\* "This function loops until all pending transactions are processed": unless it
\* ran into maxIterations or a failed statement, a call that ends leaves none of
\* the rows it saw in its last iteration unasked, however many came since.
EndsWhenAllAsked ==
    [][\A c \in Callers :
        (/\ Running(c) /\ ~Running(c)' /\ faults' = faults
         /\ SearchAt(c, "store") => Stops(searches[c]))
        => searches[c].listed \subseteq checked' \union marked']_pendingVars

\* No call goes on for ever, even if an anchor it finds is refused each time.
SearchesEnd == \A c \in Callers : []<>~Running(c)

\* The claim of a transaction that every query hears and that can be stored.
Claim(e) ==
    /\ e.valid /\ ~Superseded(e)
    /\ \E r \in Steady : <<r, e>> \in held
    /\ \A h \in held : h[2].tx = e.tx => h[2] = e \/ Later(e, h[2])

\* As many transactions without an anchor as a batch holds come before this one.
Crowded(t) ==
    Cardinality({u \in CheckedWithoutAnchor \ {t} : ~Newer(u, t)}) >= BatchSize

Waiting(t) ==
    /\ t \in known \ marked /\ ~Crowded(t)
    /\ \E e \in Anchors : e.tx = t /\ Claim(e)

\* An anchor is found however late it is published, unless transactions that stay
\* without one fill the batches (each takes the oldest 200 again).
LateAnchorsFound == \A t \in Txs : []<>~Waiting(t)
=============================================================================
