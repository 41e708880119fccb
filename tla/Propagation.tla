------------------------------ MODULE Propagation ------------------------------
(***************************************************************************)
(* How events spread over nodes and relays (internal/sync/syncer.go).      *)
(*                                                                         *)
(* A node keeps a subscription to each configured relay, with filters that *)
(* it builds when it connects, and stores what arrives (handleEventUpdate).*)
(* What is fresh, and what a client publishes to the node's own relay      *)
(* while it is fresh, is published again to all relays the node knows,     *)
(* other nodes included, by a goroutine of its own (rebroadcastEvent).  A  *)
(* cache of the ids published lately keeps the nodes from sending an event *)
(* round and round; it lives in memory and its entries expire.             *)
(***************************************************************************)
EXTENDS Integers, FiniteSets

CONSTANTS
    Nodes,               \* the DNN nodes, each with a relay of its own
    Relays, Steady,      \* the configured relays; those that are always up
    Fragile,             \* the nodes that may restart, and lose a subscription
    Discovered(_),       \* the nodes whose relays a node found (module PeerHealth)
    Events,              \* [kind, by, created, addr]
    Offers,              \* <<x, e>>: others may publish e to x, a node or a relay
    Known,               \* <<n, e>>: the node n has the event e at first
    Recorded,            \* the nodes that have the transaction of the anchors
    Freshness, CacheTTL, \* 10 and 15 minutes
    MaxDelay,            \* how late a goroutine may start
    MaxTime, MaxTasks, MaxFaults,
                         \* bounds: the clock, goroutines of a node, restarts and disconnections
    NoTask, NoSub, Never

Kinds == {"anchor", "update", "discovery", "propagation"}
Times == 0..MaxTime
Slots == 1..MaxTasks
Targets == Relays \union Nodes

ASSUME NumbersAssumption ==
    /\ Freshness \in Nat /\ CacheTTL \in Nat /\ MaxDelay \in Nat
    /\ MaxTime \in Nat /\ MaxTasks \in Nat \ {0} /\ MaxFaults \in Nat
    /\ Freshness + MaxDelay < CacheTTL

ASSUME NamesAssumption ==
    /\ \A e \in Events : e.kind \in Kinds /\ e.created \in Int
    /\ Offers \subseteq Targets \X Events
    /\ \A k \in Known : k[1] \in Nodes /\ k[2] \in Events /\ k[2].kind = "anchor"
    /\ Nodes \intersect Relays = {} /\ Steady \subseteq Relays /\ Fragile \subseteq Nodes /\ Recorded \subseteq Nodes
    /\ \A n \in Nodes : Discovered(n) \subseteq Nodes \ {n}
    /\ Never \notin Nat
    /\ \A s \in SUBSET Events : s # NoSub

VARIABLES
    now,         \* the time
    held,        \* relay |-> the events it holds
    tables,      \* node |-> the events in its database
    subs,        \* node, relay |-> what the subscription's filters let through, or NoSub
    streams,     \* node, relay |-> the events on the way to it
    cache,       \* node |-> id |-> when it was published again last
    tasks,       \* node |-> its rebroadcast goroutines
    started,     \* history: node, event |-> how often it was published since the restart
    faults       \* restarts and disconnections so far

vars == <<now, held, tables, subs, streams, cache, tasks, started, faults>>

-----------------------------------------------------------------------------

\* QueryEvents and the database know no announcements of nodes and anchors.
Storable(e) == e.kind \in {"anchor", "update"}

Task == [event : Events, at : {"new", "publish"}, since : Times, left : SUBSET Targets]

TypeOK ==
    /\ now \in Times
    /\ held \in [Relays -> SUBSET Events]
    /\ tables \in [Nodes -> SUBSET {e \in Events : Storable(e)}]
    /\ subs \in [Nodes -> [Relays -> (SUBSET Events) \union {NoSub}]]
    /\ streams \in [Nodes -> [Relays -> SUBSET Events]]
    /\ \A n \in Nodes, r \in Relays : subs[n][r] = NoSub => streams[n][r] = {}
    /\ cache \in [Nodes -> [Events -> Times \union {Never}]]
    /\ tasks \in [Nodes -> [Slots -> Task \union {NoTask}]]
    /\ started \in [Nodes -> [Events -> 0..2]]
    /\ faults \in 0..MaxFaults

NoTasks == [k \in Slots |-> NoTask]
Empty == [e \in Events |-> Never]

Init ==
    /\ now = 0
    /\ held = [r \in Relays |-> {}]
    /\ tables = [n \in Nodes |-> {e \in Events : <<n, e>> \in Known}]
    /\ subs = [n \in Nodes |-> [r \in Relays |-> NoSub]]
    /\ streams = [n \in Nodes |-> [r \in Relays |-> {}]]
    /\ cache = [n \in Nodes |-> Empty]
    /\ tasks = [n \in Nodes |-> NoTasks]
    /\ started = [n \in Nodes |-> [e \in Events |-> 0]]
    /\ faults = 0

-----------------------------------------------------------------------------
(* Storing. *)

Newer(e, f) == e.kind = f.kind /\ e.addr = f.addr /\ e.created > f.created

\* The newest version of each address stays (AddressableStore, AnchorStore).
Newest(set) == {e \in set : ~\E f \in set : Newer(f, e)}
Kept(set, e) == Newest(set \union {e})
Has(set, e) == \E f \in set : f = e \/ Newer(f, e)

Stores(n, e) == e.kind = "update" \/ (e.kind = "anchor" /\ n \in Recorded)

-----------------------------------------------------------------------------
(* Subscriptions. *)

\* GetKnownDNNAuthors.
KnownAuthors(n) == {e.by : e \in {f \in tables[n] : f.kind = "anchor"}}

\* buildSubscriptionFilters, as what it lets through: anchors since it connects (the
\* minute before is less than a unit of time here), updates of the authors known then,
\* all announcements (of the last 48 hours).
Filters(n) ==
    {e \in Events :
        \/ e.kind = "anchor" /\ e.created >= now
        \/ e.kind = "update" /\ e.by \in KnownAuthors(n)
        \/ e.kind \in {"discovery", "propagation"}}

\* subscribeToRelay: the relay sends what it holds.
Subscribe(n, r) ==
    /\ subs[n][r] = NoSub
    /\ subs' = [subs EXCEPT ![n][r] = Filters(n)]
    /\ streams' = [streams EXCEPT ![n][r] = held[r] \intersect Filters(n)]
    /\ UNCHANGED <<now, held, tables, cache, tasks, started, faults>>

\* The subscription closes; the loop connects again.
Disconnect(n, r) ==
    /\ n \in Fragile /\ faults < MaxFaults
    /\ subs[n][r] # NoSub
    /\ subs' = [subs EXCEPT ![n][r] = NoSub]
    /\ streams' = [streams EXCEPT ![n][r] = {}]
    /\ faults' = faults + 1
    /\ UNCHANGED <<now, held, tables, cache, tasks, started>>

\* The relay r gets the event e: it keeps it, and sends it on if it is new.
Arrive(r, e) ==
    LET new == ~Has(held[r], e) IN
    /\ held' = [held EXCEPT ![r] = Kept(@, e)]
    /\ streams' = [n \in Nodes |-> [streams[n] EXCEPT ![r] =
            IF new /\ subs[n][r] # NoSub /\ e \in subs[n][r]
            THEN @ \union {e} ELSE @]]

\* Somebody else publishes there.
PublishElsewhere(r, e) ==
    /\ <<r, e>> \in Offers /\ ~Has(held[r], e)
    /\ Arrive(r, e)
    /\ UNCHANGED <<now, tables, subs, cache, tasks, started, faults>>

-----------------------------------------------------------------------------
(* Starting to publish again. *)

Age(e) == IF now > e.created THEN now - e.created ELSE 0

\* tasks with a goroutine more.
Spawn(n, e) ==
    LET free == {k \in Slots : tasks[n][k] = NoTask} IN
    /\ free # {}
    /\ tasks' = [tasks EXCEPT ![n][CHOOSE k \in free : \A l \in free : k <= l] =
                    [event |-> e, at |-> "new", since |-> now, left |-> {}]]

\* What the tables may hold after e is stored: with an anchor, the events it refers to
\* as far as a relay has them (fetchAndStoreReferencedEvents).
AfterStoring(n, e) ==
    LET offered == IF e.kind # "anchor" THEN {}
                   ELSE {u \in UNION {held[r] : r \in Relays} : u.kind = "update" /\ u.by = e.by}
    IN {Newest(tables[n] \union {e} \union fetched) : fetched \in SUBSET offered}

\* A client publishes to the node: handleEvent of its relay (module Subscriptions), up to
\* RebroadcastEvent, which starts a goroutine unless the event is older than Freshness.
Submit(n, e) ==
    /\ <<n, e>> \in Offers /\ Storable(e) /\ Stores(n, e)
    /\ \E t \in AfterStoring(n, e) : tables' = [tables EXCEPT ![n] = t]
    /\ IF Age(e) > Freshness THEN UNCHANGED tasks ELSE Spawn(n, e)
    /\ UNCHANGED <<now, held, subs, streams, cache, started, faults>>

\* handlePropagationEvent: the anchor of the same author, from the first relay that
\* answers with one.
Propagated(n, e) ==
    LET found == {a \in UNION {held[r] : r \in Relays} : a.kind = "anchor" /\ a.addr = e.addr} IN
    {tables[n]} \union
        IF n \in Recorded THEN {Kept(tables[n], a) : a \in {b \in found : b.by = e.by}} ELSE {}

\* handleEventUpdate: an event that is stored in this or a newer version is dropped, and
\* an anchor of an unknown transaction; the rest is stored, and published again if it is
\* fresh, announcements each time.
HandleEventUpdate(n, r, e) ==
    LET known == Storable(e) /\ Has(tables[n], e)
        dropped == known \/ (e.kind = "anchor" /\ n \notin Recorded)
    IN
    /\ e \in streams[n][r]
    /\ streams' = [streams EXCEPT ![n][r] = @ \ {e}]
    /\ IF dropped THEN UNCHANGED tables
       ELSE IF e.kind = "propagation"
       THEN \E t \in Propagated(n, e) : tables' = [tables EXCEPT ![n] = t]
       ELSE IF Storable(e)
       THEN \E t \in AfterStoring(n, e) : tables' = [tables EXCEPT ![n] = t]
       ELSE UNCHANGED tables
    /\ IF dropped \/ Age(e) >= Freshness THEN UNCHANGED tasks ELSE Spawn(n, e)
    /\ UNCHANGED <<now, held, subs, cache, started, faults>>

-----------------------------------------------------------------------------
(* rebroadcastEvent. *)

\* Mutant: the entries expire when the events stop being fresh.
RememberedWhileFresh(n, e) == cache[n][e] # Never /\ now - cache[n][e] < Freshness

\* Published within the last CacheTTL.
Remembered(n, e) == cache[n][e] # Never /\ now - cache[n][e] < CacheTTL

\* Mutant: the config relays are left out.
DiscoveredOnly(n) == Discovered(n)

\* Config relays and the relays of the nodes that were discovered.
Destinations(n) == Relays \union Discovered(n)

\* The check and the entry, under the lock.
Begin(n, k) ==
    LET e == tasks[n][k].event IN
    /\ tasks[n][k] # NoTask /\ tasks[n][k].at = "new"
    /\ IF Remembered(n, e)
       THEN /\ tasks' = [tasks EXCEPT ![n][k] = NoTask]
            /\ UNCHANGED <<cache, started>>
       ELSE /\ tasks' = [tasks EXCEPT ![n][k] =
                            [event |-> e, at |-> "publish", since |-> 0, left |-> Destinations(n)]]
            /\ cache' = [cache EXCEPT ![n][e] = now]
            /\ started' = [started EXCEPT ![n][e] =
                            IF now < e.created \/ @ = 2 THEN @ ELSE @ + 1]
    /\ UNCHANGED <<now, held, tables, subs, streams, faults>>

\* One goroutine for each destination.
PublishToRelay(n, k, r) ==
    /\ tasks[n][k] # NoTask /\ r \in tasks[n][k].left
    /\ \/ Arrive(r, tasks[n][k].event)
       \/ r \notin Steady /\ UNCHANGED <<held, streams>>
    /\ tasks' = [tasks EXCEPT ![n][k].left = @ \ {r}]
    /\ UNCHANGED <<now, tables, subs, cache, started, faults>>

\* The other node's relay takes the event (or refuses it, or cannot be reached).
PublishToNode(n, k, m) ==
    LET e == tasks[n][k].event
        mine == [tasks EXCEPT ![n][k].left = @ \ {m}]
        free == {j \in Slots : tasks[m][j] = NoTask}
        taken == Storable(e) /\ Stores(m, e)
    IN
    /\ tasks[n][k] # NoTask /\ m \in tasks[n][k].left
    /\ \/ /\ taken
          /\ \E t \in AfterStoring(m, e) : tables' = [tables EXCEPT ![m] = t]
          /\ IF Age(e) > Freshness THEN tasks' = mine
             ELSE /\ free # {}
                  /\ tasks' = [mine EXCEPT ![m][CHOOSE j \in free : \A l \in free : j <= l] =
                                [event |-> e, at |-> "new", since |-> now, left |-> {}]]
       \/ tasks' = mine /\ UNCHANGED tables
    /\ UNCHANGED <<now, held, subs, streams, cache, started, faults>>

\* cleanupRebroadcastCache, and the goroutine ends.
EndTask(n, k) ==
    /\ tasks[n][k] # NoTask /\ tasks[n][k].at = "publish" /\ tasks[n][k].left = {}
    /\ tasks' = [tasks EXCEPT ![n][k] = NoTask]
    /\ cache' = [cache EXCEPT ![n] =
                    [e \in Events |-> IF @[e] # Never /\ now - @[e] > CacheTTL THEN Never
                                      ELSE @[e]]]
    /\ UNCHANGED <<now, held, tables, subs, streams, started, faults>>

-----------------------------------------------------------------------------

\* Goroutines start within MaxDelay.
Tick ==
    /\ now < MaxTime
    /\ \A n \in Nodes, k \in Slots :
        tasks[n][k] # NoTask /\ tasks[n][k].at = "new" => now - tasks[n][k].since < MaxDelay
    /\ now' = now + 1
    /\ UNCHANGED <<held, tables, subs, streams, cache, tasks, started, faults>>

\* The process ends and starts again: the cache and the goroutines are gone.
Restart(n) ==
    /\ n \in Fragile /\ faults < MaxFaults
    /\ faults' = faults + 1
    /\ tasks' = [tasks EXCEPT ![n] = NoTasks]
    /\ cache' = [cache EXCEPT ![n] = Empty]
    /\ started' = [started EXCEPT ![n] = [e \in Events |-> 0]]
    /\ subs' = [subs EXCEPT ![n] = [r \in Relays |-> NoSub]]
    /\ streams' = [streams EXCEPT ![n] = [r \in Relays |-> {}]]
    /\ UNCHANGED <<now, held, tables>>

TaskStep(n, k) ==
    \/ Begin(n, k) \/ EndTask(n, k)
    \/ \E r \in Relays : PublishToRelay(n, k, r)
    \/ \E m \in Nodes : PublishToNode(n, k, m)

SubscriptionStep(n, r) == Subscribe(n, r) \/ \E e \in Events : HandleEventUpdate(n, r, e)

Next ==
    \/ Tick
    \/ \E n \in Nodes, e \in Events : Submit(n, e)
    \/ \E r \in Relays, e \in Events : PublishElsewhere(r, e)
    \/ \E n \in Nodes : Restart(n) \/ \E k \in Slots : TaskStep(n, k)
    \/ \E n \in Nodes, r \in Relays : SubscriptionStep(n, r) \/ Disconnect(n, r)

Spec == Init /\ [][Next]_vars

\* Goroutines run, publishing ends (15 s), and lost subscriptions are opened again.
FairSpec ==
    /\ Spec
    /\ \A n \in Nodes, k \in Slots : WF_vars(TaskStep(n, k))
    /\ \A n \in Nodes, r \in Steady : WF_vars(SubscriptionStep(n, r))

-----------------------------------------------------------------------------
(* Properties. *)

\* Until it restarts, a node publishes an event again at most once from the time on that
\* it is dated, however often and on whatever way the event comes back.
PublishedOnce == \A n \in Nodes, e \in Events : started[n][e] <= 1

Publishing(n, e) == \E k \in Slots : tasks[n][k] # NoTask /\ tasks[n][k].event = e
Subscribed(m, e) == \E r \in Steady : subs[m][r] # NoSub /\ e \in subs[m][r]

\* What a node publishes again and lives to send arrives at every other node that knew
\* the author when it subscribed, through a relay they share.
UpdatesSpread ==
    \A n \in Nodes \ Fragile : \A m \in Nodes \ {n}, e \in {u \in Events : u.kind = "update"} :
        Publishing(n, e) /\ Subscribed(m, e) ~> Has(tables[m], e)
=============================================================================
