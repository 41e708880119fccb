----------------------------- MODULE Subscriptions -----------------------------
(***************************************************************************)
(* The node as a Nostr relay (internal/relay/relay.go): clients subscribe  *)
(* with REQ and CLOSE and publish with EVENT.                              *)
(*                                                                         *)
(* Each connection has a goroutine that handles its messages one by one.   *)
(* REQ registers the subscription, then sends what is stored and matches;  *)
(* EVENT stores the event, then sends it to every subscription that        *)
(* matches.  The subscriptions of all clients are in one map, under the    *)
(* id the client chose, behind a read-write lock that a broadcast holds    *)
(* while it writes to the clients' sockets.  The library panics when two   *)
(* goroutines write to one connection at the same time.                    *)
(***************************************************************************)
EXTENDS Naturals, FiniteSets

CONSTANTS
    Clients,             \* the connections, each with its goroutine
    SubIds,              \* subscription ids
    Events, Newer(_, _), \* events; the first is a newer version of the second
    Queries,             \* what a REQ may ask for: sets of filters (sets of events)
    Guarded,             \* the events of kinds 62600 and 63600
    NoClient, NoSub, NoEvent, NoWrite

ASSUME NamesAssumption ==
    /\ NoClient \notin Clients /\ NoSub \notin SubIds /\ NoEvent \notin Events
    /\ NoWrite \notin Clients \X SubIds \X Events
    /\ Queries \subseteq SUBSET SUBSET Events /\ Guarded \subseteq Events

ASSUME NewerAssumption ==
    \A e, f, g \in Events : ~Newer(e, e) /\ (Newer(e, f) /\ Newer(f, g) => Newer(e, g))

VARIABLES
    subscriptions,  \* the map: id |-> [conn, filters], or NoEntry
    stored,         \* the event tables
    blocked,        \* events that isEventBlocked says belong to a blocked DNN ID
    readers,        \* who holds the lock for reading
    conn,           \* client |-> where its goroutine is, and its variables
    due             \* history: <<client, id>> |-> how far its subscription is, and the
                    \* events it must have been sent, less those that it was sent

vars == <<subscriptions, stored, blocked, readers, conn, due>>

-----------------------------------------------------------------------------

NoEntry == [conn |-> NoClient, filters |-> {}]
Idle == [at |-> "idle", sub |-> NoSub, filters |-> {}, event |-> NoEvent,
         todo |-> {}, write |-> NoWrite]
Pairs == Clients \X SubIds
Nothing == [at |-> "none", events |-> {}]

At(g, place) == conn[g].at = place
Open(c) == ~At(c, "gone")

\* "waiting": inside Lock(), for "register" and "delete"; "lock": inside RLock().
TypeOK ==
    /\ subscriptions \in [SubIds -> [conn : Clients \union {NoClient}, filters : SUBSET SUBSET Events]]
    /\ stored \subseteq Events
    /\ \A e, f \in stored : ~Newer(e, f)
    /\ blocked \subseteq Events
    /\ readers \subseteq Clients
    /\ conn \in [Clients -> [at : {"idle", "register", "query", "send", "delete", "lock",
                                   "broadcast", "panicked", "gone"},
                             sub : SubIds \union {NoSub}, filters : SUBSET SUBSET Events,
                             event : Events \union {NoEvent},
                             todo : SUBSET (Events \union SubIds),
                             write : (Clients \X SubIds \X Events) \union {NoWrite}]]
    /\ \A g \in Clients : At(g, "broadcast") => g \in readers
    /\ due \in [Pairs -> [at : {"none", "asked", "open"}, events : SUBSET Events]]

Init ==
    /\ subscriptions = [s \in SubIds |-> NoEntry]
    /\ stored = {}
    /\ blocked = {}
    /\ readers = {}
    /\ conn = [c \in Clients |-> Idle]
    /\ due = [p \in Pairs |-> Nothing]

-----------------------------------------------------------------------------
(* Helpers. *)

\* eventMatchesFilter, for any of the filters.
Matches(e, filters) == \E f \in filters : e \in f

\* One of the store functions (module AddressableStore takes them apart).
Store(e) ==
    IF \E f \in stored : Newer(f, e) THEN stored
    ELSE {f \in stored : ~Newer(e, f)} \union {e}

\* A use of the id s by the client c: the others cannot count on it any more.
Disturb(c, s, d) == [p \in Pairs |-> IF p[2] = s /\ p[1] # c THEN Nothing ELSE d[p]]

\* A goroutine has called Lock(), or a broadcast holds the lock.
WriterWaits == \E g \in Clients : At(g, "register") \/ At(g, "delete")

-----------------------------------------------------------------------------
(* Writing to a connection: sendEvent. *)

Silent(g) == conn[g].write = NoWrite
Writing(c) == \E h \in Clients : ~Silent(h) /\ conn[h].write[1] = c

\* A panic ends the goroutine, with its broadcast and the handling of its connection;
\* what is on the way to c may be garbled.
Panic(g, c) ==
    /\ conn' = [conn EXCEPT ![g] = [Idle EXCEPT !.at = "panicked"]]
    /\ due' = [p \in Pairs |->
                  IF p[1] \in {g, c} THEN Nothing
                  ELSE [due[p] EXCEPT !.events = @ \ {conn[g].event}]]

\* Mutant: the lock is not released by a defer.
BeginWriteKeepingLock(g, c, s, e, next) ==
    IF ~Writing(c)
    THEN /\ conn' = [conn EXCEPT ![g] = [next EXCEPT !.write = <<c, s, e>>]]
         /\ UNCHANGED <<readers, due>>
    ELSE /\ Panic(g, c)
         /\ UNCHANGED readers

\* g starts to send e to c.  next: what g has left to do.
BeginWrite(g, c, s, e, next) ==
    IF ~Writing(c)
    THEN /\ conn' = [conn EXCEPT ![g] = [next EXCEPT !.write = <<c, s, e>>]]
         /\ UNCHANGED <<readers, due>>
    ELSE /\ Panic(g, c)
         /\ readers' = readers \ {g}

\* WriteMessage returns once the client took the data, or is gone.
EndWrite(g) ==
    LET w == conn[g].write IN
    /\ ~Silent(g)
    /\ due' = [due EXCEPT ![<<w[1], w[2]>>].events = @ \ {w[3]}]
    /\ conn' = [conn EXCEPT ![g].write = NoWrite]
    /\ UNCHANGED <<subscriptions, stored, blocked, readers>>

-----------------------------------------------------------------------------
(* handleRequest. *)

\* The message is read, and the goroutine calls Lock().
Request(c, s, filters) ==
    /\ At(c, "idle")
    /\ conn' = [conn EXCEPT ![c] = [Idle EXCEPT !.at = "register", !.sub = s,
                                                !.filters = filters]]
    /\ UNCHANGED <<subscriptions, stored, blocked, readers, due>>

\* The map takes whatever a client asked last under this id.
Register(c) ==
    LET call == conn[c] IN
    /\ At(c, "register") /\ readers = {}
    /\ subscriptions' = [subscriptions EXCEPT ![call.sub] = [conn |-> c, filters |-> call.filters]]
    /\ conn' = [conn EXCEPT ![c].at = "query"]
    /\ due' = [Disturb(c, call.sub, due) EXCEPT ![<<c, call.sub>>] =
                    [at |-> "asked", events |-> {e \in stored : Matches(e, call.filters)}]]
    /\ UNCHANGED <<stored, blocked, readers>>

\* QueryEvents of the next filter.
Query(c) ==
    /\ At(c, "query")
    /\ \E f \in conn[c].filters :
        conn' = [conn EXCEPT ![c].at = "send", ![c].filters = @ \ {f},
                             ![c].todo = f \intersect stored]
    /\ UNCHANGED <<subscriptions, stored, blocked, readers, due>>

\* The next event read is sent, or left out when it is blocked.
SendStored(c) ==
    LET s == conn[c].sub IN
    /\ At(c, "send") /\ Silent(c)
    /\ \E e \in conn[c].todo :
        LET next == [conn[c] EXCEPT !.todo = @ \ {e}] IN
        IF e \in Guarded \intersect blocked
        THEN /\ conn' = [conn EXCEPT ![c] = next]
             /\ due' = [due EXCEPT ![<<c, s>>].events = @ \ {e}]
             /\ UNCHANGED readers
        ELSE BeginWrite(c, c, s, e, next)
    /\ UNCHANGED <<subscriptions, stored, blocked>>

EndFilter(c) ==
    /\ At(c, "send") /\ Silent(c) /\ conn[c].todo = {}
    /\ conn' = [conn EXCEPT ![c].at = "query"]
    /\ UNCHANGED <<subscriptions, stored, blocked, readers, due>>

\* EOSE: the client has what was stored.
EndOfStored(c) ==
    /\ At(c, "query") /\ conn[c].filters = {}
    /\ IF Writing(c)
       THEN Panic(c, c)
       ELSE /\ conn' = [conn EXCEPT ![c] = Idle]
            /\ due' = [due EXCEPT ![<<c, conn[c].sub>>].at = IF @ = "asked" THEN "open" ELSE @]
    /\ UNCHANGED <<subscriptions, stored, blocked, readers>>

-----------------------------------------------------------------------------
(* handleClose. *)

Close(c, s) ==
    /\ At(c, "idle")
    /\ conn' = [conn EXCEPT ![c] = [Idle EXCEPT !.at = "delete", !.sub = s]]
    /\ UNCHANGED <<subscriptions, stored, blocked, readers, due>>

\* The subscription under this id goes, whoever's it is.
Delete(c) ==
    LET s == conn[c].sub IN
    /\ At(c, "delete") /\ readers = {}
    /\ subscriptions' = [subscriptions EXCEPT ![s] = NoEntry]
    /\ conn' = [conn EXCEPT ![c] = Idle]
    /\ due' = [Disturb(c, s, due) EXCEPT ![<<c, s>>] = Nothing]
    /\ UNCHANGED <<stored, blocked, readers>>

-----------------------------------------------------------------------------
(* handleEvent.  An event that is refused changes nothing. *)

\* Stored, and OK sent; the goroutine calls RLock().
Publish(c, e) ==
    /\ At(c, "idle")
    /\ stored' = Store(e)
    /\ IF Writing(c)
       THEN Panic(c, c)
       ELSE /\ conn' = [conn EXCEPT ![c] = [Idle EXCEPT !.at = "lock", !.event = e]]
            /\ UNCHANGED due
    /\ UNCHANGED <<subscriptions, blocked, readers>>

\* Mutant: the first subscription that matches is the last.
FirstMatching(e) ==
    LET matching == {s \in SubIds : Matches(e, subscriptions[s].filters)}
    IN IF matching = {} THEN {} ELSE {CHOOSE s \in matching : TRUE}

\* The subscriptions that broadcastEvent sends to, in any order (a Go map).
Matching(e) == {s \in SubIds : Matches(e, subscriptions[s].filters)}

\* A waiting writer goes first.  Who is subscribed now will be sent the event.
BeginBroadcast(c) ==
    LET e == conn[c].event IN
    /\ At(c, "lock") /\ ~WriterWaits
    /\ readers' = readers \union {c}
    /\ conn' = [conn EXCEPT ![c].at = "broadcast", ![c].todo = Matching(e)]
    /\ due' = [p \in Pairs |->
                IF due[p].at # "none" /\ Matches(e, subscriptions[p[2]].filters)
                THEN [due[p] EXCEPT !.events = @ \union {e}] ELSE due[p]]
    /\ UNCHANGED <<subscriptions, stored, blocked>>

SendBroadcast(c) ==
    /\ At(c, "broadcast") /\ Silent(c)
    /\ \E s \in conn[c].todo :
        BeginWrite(c, subscriptions[s].conn, s, conn[c].event, [conn[c] EXCEPT !.todo = @ \ {s}])
    /\ UNCHANGED <<subscriptions, stored, blocked>>

\* The lock is released, and the event handed to the syncer (module Propagation).
EndBroadcast(c) ==
    /\ At(c, "broadcast") /\ Silent(c) /\ conn[c].todo = {}
    /\ readers' = readers \ {c}
    /\ conn' = [conn EXCEPT ![c] = Idle]
    /\ UNCHANGED <<subscriptions, stored, blocked, due>>

-----------------------------------------------------------------------------
(* Others. *)

\* The connection breaks while its goroutine reads.  Its subscriptions stay.
Leave(c) ==
    /\ At(c, "idle") \/ At(c, "panicked")
    /\ conn' = [conn EXCEPT ![c] = [Idle EXCEPT !.at = "gone"]]
    /\ due' = [p \in Pairs |-> IF p[1] = c THEN Nothing ELSE due[p]]
    /\ UNCHANGED <<subscriptions, stored, blocked, readers>>

\* The syncer or an HTTP handler stores an event: nobody broadcasts it.
StoreElsewhere(e) ==
    /\ Store(e) # stored
    /\ stored' = Store(e)
    /\ UNCHANGED <<subscriptions, blocked, readers, conn, due>>

SetBlocked(b) ==
    /\ b # blocked
    /\ blocked' = b
    /\ UNCHANGED <<subscriptions, stored, readers, conn, due>>

-----------------------------------------------------------------------------

Step(c) ==
    \/ Register(c) \/ Query(c) \/ SendStored(c) \/ EndFilter(c) \/ EndOfStored(c)
    \/ Delete(c) \/ BeginBroadcast(c) \/ SendBroadcast(c) \/ EndBroadcast(c) \/ EndWrite(c)

Message(c) ==
    \/ \E s \in SubIds, q \in Queries : Request(c, s, q)
    \/ \E s \in SubIds : Close(c, s)
    \/ \E e \in Events : Publish(c, e)

Next ==
    \/ \E c \in Clients : Message(c) \/ Step(c) \/ Leave(c)
    \/ \E e \in Events : StoreElsewhere(e)
    \/ \E b \in SUBSET Guarded : SetBlocked(b)

Spec == Init /\ [][Next]_vars

\* Goroutines run, clients read what is sent to them or go away, and the lock lets the
\* readers in that wait when a writer releases it.
FairSpec == Spec /\ \A c \in Clients : WF_vars(Step(c)) /\ SF_vars(BeginBroadcast(c))

-----------------------------------------------------------------------------
(* Properties. *)

\* After EOSE a client was sent every matching event that is stored and was when it
\* subscribed, or that was broadcast since; as long as no other client uses the same
\* subscription id and no write met another.
NothingMissed ==
    \A p \in Pairs : due[p].at = "open" =>
        \A e \in due[p].events \intersect stored :
            \E g \in Clients : At(g, "broadcast") /\ conn[g].event = e

\* No REQ, CLOSE or EVENT waits for ever, for the lock or a client, also after a panic.
HandlersReturn ==
    \A c \in Clients : []<>(conn[c].at \in {"idle", "panicked", "gone"})
=============================================================================
