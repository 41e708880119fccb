-------------------------- MODULE SubscriptionsProofs --------------------------
(***************************************************************************)
(* Proofs about Subscriptions, for any clients, ids, events and filters.   *)
(***************************************************************************)
EXTENDS Subscriptions, TLAPS

Entry == [conn : Clients \union {NoClient}, filters : SUBSET SUBSET Events]
Call == [at : {"idle", "register", "query", "send", "delete", "lock", "broadcast",
               "panicked", "gone"},
         sub : SubIds \union {NoSub}, filters : SUBSET SUBSET Events,
         event : Events \union {NoEvent}, todo : SUBSET (Events \union SubIds),
         write : (Clients \X SubIds \X Events) \union {NoWrite}]
Due == [at : {"none", "asked", "open"}, events : SUBSET Events]

\* What a goroutine knows where it is.
Fits(v) ==
    /\ v.at \in {"register", "query", "send", "delete"} => v.sub \in SubIds
    /\ v.at \in {"lock", "broadcast"} => v.event \in Events
    /\ v.at = "send" => v.todo \subseteq Events
    /\ v.at = "broadcast" => v.todo \subseteq SubIds
    /\ v.write # NoWrite => v.at \in {"send", "broadcast"}

\* A broadcast holds the lock, so those it has left to serve are still subscribed.
Serves(v) ==
    v.at = "broadcast" => \A s \in v.todo : Matches(v.event, subscriptions[s].filters)

TablesType ==
    /\ subscriptions \in [SubIds -> Entry]
    /\ \A s \in SubIds : subscriptions[s].conn = NoClient => subscriptions[s].filters = {}
    /\ stored \subseteq Events
    /\ \A e, f \in stored : ~Newer(e, f)
    /\ blocked \subseteq Events
    /\ readers \subseteq Clients

ConnType ==
    /\ conn \in [Clients -> Call]
    /\ \A c \in Clients : Fits(conn[c]) /\ Serves(conn[c])
    /\ \A c \in Clients : conn[c].at = "broadcast" => c \in readers

FullType == TablesType /\ ConnType /\ due \in [Pairs -> Due]

LEMMA FullTypeImplies == FullType => TypeOK
BY DEF FullType, TablesType, ConnType, TypeOK, Entry, Call, Due, At

\* A goroutine goes on.
Moves(c, v) == v \in Call /\ Fits(v) /\ conn' = [conn EXCEPT ![c] = v]

-----------------------------------------------------------------------------
(* Versions. *)

\* The event, or a newer version, is stored.
Known(e) == e \in stored \/ \E f \in stored : Newer(f, e)

\* Storing keeps the newest version, forgets no event for good, and brings none back.
LEMMA StoreKnown ==
    ASSUME stored \subseteq Events, \A e, f \in stored : ~Newer(e, f),
           NEW x \in Events, stored' = Store(x)
    PROVE  /\ stored' \subseteq Events
           /\ \A e, f \in stored' : ~Newer(e, f)
           /\ Known(x)'
           /\ \A e \in Events : Known(e) => Known(e)' /\ (e \in stored' => e \in stored)
<1> USE NewerAssumption
<1>1. CASE \E f \in stored : Newer(f, x)
  <2>1. stored' = stored
    BY <1>1 DEF Store
  <2> QED BY <1>1, <2>1 DEF Known
<1>2. CASE ~\E f \in stored : Newer(f, x)
  <2>1. stored' = {f \in stored : ~Newer(x, f)} \union {x}
    BY <1>2 DEF Store
  <2>2. stored' \subseteq Events /\ \A e, f \in stored' : ~Newer(e, f)
    BY <1>2, <2>1
  <2>3. ASSUME NEW e \in Events, e \in stored PROVE Known(e)'
    BY <2>1, <2>3 DEF Known
  <2>4. ASSUME NEW e \in Events, NEW f \in stored, Newer(f, e)
        PROVE  Known(e)' /\ (e \in stored' => e \in stored)
    <3>1. Known(e)'
      BY <2>1, <2>4 DEF Known
    <3>2. e # x
      BY <1>2, <2>4
    <3> QED BY <2>1, <3>1, <3>2
  <2>5. Known(x)'
    BY <2>1 DEF Known
  <2> QED BY <2>1, <2>2, <2>3, <2>4, <2>5 DEF Known
<1> QED BY <1>1, <1>2

-----------------------------------------------------------------------------
(* What the steps share. *)

LEMMA MovesType ==
    ASSUME FullType, NEW c \in Clients, NEW v, Moves(c, v),
           TablesType', due' \in [Pairs -> Due],
           UNCHANGED subscriptions \/ (readers = {} /\ v.at # "broadcast"),
           v.at = "broadcast" => c \in readers' /\ Serves(v),
           readers \ {c} \subseteq readers'
    PROVE  /\ FullType' /\ conn'[c] = v
           /\ \A g \in Clients : g # c => conn'[g] = conn[g]
<1>1. /\ conn' \in [Clients -> Call] /\ conn'[c] = v
      /\ \A g \in Clients : g # c => conn'[g] = conn[g]
  BY DEF FullType, ConnType, Moves
<1>2. \A g \in Clients : Fits(conn'[g])
  BY <1>1 DEF FullType, ConnType, Moves
<1>3. \A g \in Clients : conn'[g].at = "broadcast" => g \in readers'
  BY <1>1 DEF FullType, ConnType
<1>4. \A g \in Clients : Serves(conn[g])'
  <2> SUFFICES ASSUME NEW g \in Clients, conn'[g].at = "broadcast"
               PROVE  \A s \in conn'[g].todo : Matches(conn'[g].event, subscriptions'[s].filters)
    BY DEF Serves, Matches
  <2>1. CASE g = c
    <3>1. v.at = "broadcast" /\ Serves(v)
      BY <1>1, <2>1
    <3>2. UNCHANGED subscriptions
      BY <3>1
    <3> QED BY <1>1, <2>1, <3>1, <3>2 DEF Serves
  <2>2. CASE g # c
    <3>1. conn'[g] = conn[g] /\ g \in readers /\ Serves(conn[g])
      BY <1>1, <2>2 DEF FullType, ConnType
    <3> QED BY <3>1 DEF Serves
  <2> QED BY <2>1, <2>2
<1> QED BY <1>1, <1>2, <1>3, <1>4 DEF FullType, ConnType, Serves, Fits

LEMMA IdleFits ==
    /\ Idle \in Call /\ Fits(Idle) /\ Idle.at = "idle" /\ Idle.write = NoWrite
    /\ \A a \in {"panicked", "gone"} :
        [Idle EXCEPT !.at = a] \in Call /\ Fits([Idle EXCEPT !.at = a])
BY DEF Idle, Call, Fits

-----------------------------------------------------------------------------
(* Why nothing is missed.                                                  *)
(*                                                                         *)
(* What a subscription is due and is stored is on its way: a broadcast has *)
(* it left to send, or the REQ has it left to query or to send.            *)

\* A broadcast has e left to send to the subscription p.
Sending(p, e) ==
    \E g \in Clients :
        /\ conn[g].at = "broadcast" /\ conn[g].event = e
        /\ p[2] \in conn[g].todo \/ conn[g].write = <<p[1], p[2], e>>

\* The REQ of p has e left to query or to send.
Asking(p, e) ==
    LET call == conn[p[1]] IN
    \/ \E f \in call.filters : e \in f
    \/ /\ call.at = "send"
       /\ e \in call.todo \/ call.write = <<p[1], p[2], e>>

\* Whose subscription is due anything is the owner of the id.
OwnerInv == \A p \in Pairs : due[p].at # "none" => subscriptions[p[2]].conn = p[1]

\* A subscription that waits for EOSE is the one its client's goroutine is at.
AskedInv ==
    \A p \in Pairs : due[p].at = "asked" =>
        conn[p[1]].at \in {"query", "send"} /\ conn[p[1]].sub = p[2]

\* What is due, and what is being published, was stored.
KnownInv ==
    /\ \A p \in Pairs : \A e \in due[p].events : Known(e)
    /\ \A g \in Clients : conn[g].at \in {"lock", "broadcast"} => Known(conn[g].event)

CoverInv ==
    \A p \in Pairs : \A e \in due[p].events \intersect stored :
        due[p].at # "none" => Sending(p, e) \/ (due[p].at = "asked" /\ Asking(p, e))

MissInv == FullType /\ OwnerInv /\ AskedInv /\ KnownInv /\ CoverInv

LEMMA NothingType == Nothing \in Due /\ Nothing.at = "none" /\ Nothing.events = {}
BY DEF Nothing, Due

\* How a step may change what is due: subscriptions are given up, or events taken off.
LessDue(p) ==
    \/ due'[p] = Nothing
    \/ /\ due'[p].at = due[p].at
       /\ due'[p].events \subseteq due[p].events

\* A step that makes nothing new due, registers nothing and stores nothing.
LEMMA Relaxed ==
    ASSUME MissInv, FullType', UNCHANGED <<subscriptions, stored>>,
           \A p \in Pairs : LessDue(p),
           \A p \in Pairs : due'[p].at = "asked" =>
               conn'[p[1]].at \in {"query", "send"} /\ conn'[p[1]].sub = p[2],
           \A g \in Clients : conn'[g].at \in {"lock", "broadcast"} =>
               conn[g].at \in {"lock", "broadcast"} /\ conn'[g].event = conn[g].event,
           \A p \in Pairs : \A e \in due'[p].events \intersect stored :
               /\ Sending(p, e) => Sending(p, e)'
               /\ due'[p].at = "asked" /\ Asking(p, e) => Asking(p, e)' \/ Sending(p, e)'
    PROVE  MissInv'
<1>1. OwnerInv'
  BY NothingType DEF MissInv, OwnerInv, LessDue
<1>2. AskedInv'
  BY DEF AskedInv
<1>3. KnownInv'
  BY NothingType DEF MissInv, KnownInv, Known, LessDue
<1>4. CoverInv'
  <2> SUFFICES ASSUME NEW p \in Pairs, NEW e \in due'[p].events, e \in stored,
                      due'[p].at # "none"
               PROVE  Sending(p, e)' \/ (due'[p].at = "asked" /\ Asking(p, e)')
    BY DEF CoverInv
  <2>1. due'[p].at = due[p].at /\ e \in due[p].events
    BY NothingType DEF LessDue
  <2>2. Sending(p, e) \/ (due[p].at = "asked" /\ Asking(p, e))
    BY <2>1 DEF MissInv, CoverInv
  <2> QED BY <2>1, <2>2
<1> QED BY <1>1, <1>2, <1>3, <1>4 DEF MissInv

\* A panic takes what was due to both ends of the connection, and its own event.
LEMMA PanicMoves ==
    ASSUME MissInv, NEW g \in Clients, NEW c, Panic(g, c)
    PROVE  /\ due' \in [Pairs -> Due]
           /\ \A p \in Pairs : LessDue(p)
           /\ \A p \in Pairs : due'[p] = Nothing \/
                (p[1] # g /\ due'[p].events = due[p].events \ {conn[g].event})
           /\ \E v : Moves(g, v) /\ v.at = "panicked"
<1>1. Moves(g, [Idle EXCEPT !.at = "panicked"]) /\ [Idle EXCEPT !.at = "panicked"].at = "panicked"
  BY IdleFits DEF Panic, Moves, Idle
<1>2. \A p \in Pairs :
        \/ due'[p] = Nothing
        \/ p[1] # g /\ due'[p] = [due[p] EXCEPT !.events = @ \ {conn[g].event}]
  BY DEF Panic
<1>3. \A p \in Pairs : due[p] \in Due
  BY DEF MissInv, FullType
<1>4. \A p \in Pairs : [due[p] EXCEPT !.events = @ \ {conn[g].event}] \in Due
  BY <1>3 DEF Due
<1>5. due' \in [Pairs -> Due]
  <2>1. due' = [p \in Pairs |-> due'[p]]
    BY DEF Panic
  <2> QED BY <1>2, <1>4, <2>1, NothingType
<1>6. \A p \in Pairs : LessDue(p)
  <2> SUFFICES ASSUME NEW p \in Pairs, due'[p] # Nothing
               PROVE  due'[p].at = due[p].at /\ due'[p].events \subseteq due[p].events
    BY DEF LessDue
  <2>1. due[p] \in Due /\ due'[p] = [due[p] EXCEPT !.events = @ \ {conn[g].event}]
    BY <1>2, <1>3
  <2> QED BY <2>1 DEF Due
<1>7. \A p \in Pairs : due'[p] = Nothing \/
        (p[1] # g /\ due'[p].events = due[p].events \ {conn[g].event})
  BY <1>2, <1>3 DEF Due
<1> QED BY <1>1, <1>5, <1>6, <1>7

\* A goroutine that panics.
LEMMA PanicStep ==
    ASSUME MissInv, NEW g \in Clients, NEW c, Panic(g, c),
           UNCHANGED <<subscriptions, stored, blocked>>,
           readers' \subseteq readers, readers \ {g} \subseteq readers'
    PROVE  MissInv'
<1>1. PICK v : Moves(g, v) /\ v.at = "panicked"
  BY PanicMoves
<1>2. TablesType'
  BY DEF MissInv, FullType, TablesType
<1>3. /\ FullType' /\ conn'[g] = v /\ \A h \in Clients : h # g => conn'[h] = conn[h]
  BY <1>1, <1>2, PanicMoves, MovesType DEF MissInv
<1>4. ASSUME NEW p \in Pairs, due'[p].at = "asked"
      PROVE  conn'[p[1]].at \in {"query", "send"} /\ conn'[p[1]].sub = p[2]
  <2>1. p[1] # g /\ p[1] \in Clients /\ due[p].at = "asked"
    BY <1>4, PanicMoves, NothingType DEF LessDue, Pairs
  <2> QED BY <1>3, <2>1 DEF MissInv, AskedInv
<1>5. ASSUME NEW p \in Pairs, NEW e \in due'[p].events \intersect stored
      PROVE  /\ Sending(p, e) => Sending(p, e)'
             /\ due'[p].at = "asked" /\ Asking(p, e) => Asking(p, e)'
  <2>1. p[1] # g /\ e # conn[g].event /\ p[1] \in Clients
    BY PanicMoves, NothingType DEF Pairs
  <2> QED BY <1>3, <2>1 DEF Sending, Asking
<1>6. \A h \in Clients : conn'[h].at \in {"lock", "broadcast"} => conn'[h] = conn[h]
  BY <1>1, <1>3
<1> QED BY <1>3, <1>4, <1>5, <1>6, PanicMoves, Relaxed

-----------------------------------------------------------------------------
(* Each step. *)

LEMMA CallType ==
    ASSUME MissInv, NEW c \in Clients
    PROVE  /\ conn \in [Clients -> Call] /\ conn[c] \in Call /\ Fits(conn[c])
           /\ TablesType /\ due \in [Pairs -> Due]
BY DEF MissInv, FullType, ConnType

\* Steps of a goroutine between its messages: no REQ is at its query, no broadcast runs.
LEMMA IdleStep ==
    ASSUME MissInv, NEW c \in Clients, conn[c].at \notin {"query", "send", "broadcast"},
           NEW v, Moves(c, v), v.at \notin {"lock", "broadcast"},
           \A p \in Pairs : due'[p] \in Due /\ LessDue(p), due' \in [Pairs -> Due],
           UNCHANGED <<subscriptions, stored, blocked, readers>>
    PROVE  MissInv'
<1>1. TablesType'
  BY DEF MissInv, FullType, TablesType
<1>2. /\ FullType' /\ conn'[c] = v /\ \A h \in Clients : h # c => conn'[h] = conn[h]
  BY <1>1, MovesType DEF MissInv
<1>3. ASSUME NEW p \in Pairs, due'[p].at = "asked"
      PROVE  p[1] # c /\ conn'[p[1]] = conn[p[1]]
             /\ conn'[p[1]].at \in {"query", "send"} /\ conn'[p[1]].sub = p[2]
  <2>1. p[1] \in Clients /\ due[p].at = "asked"
    BY <1>3, NothingType DEF LessDue, Pairs
  <2> QED BY <1>2, <2>1 DEF MissInv, AskedInv
<1>4. ASSUME NEW p \in Pairs, NEW e
      PROVE  /\ Sending(p, e) => Sending(p, e)'
             /\ due'[p].at = "asked" /\ Asking(p, e) => Asking(p, e)'
  BY <1>2, <1>3 DEF Sending, Asking
<1>5. \A h \in Clients : conn'[h].at \in {"lock", "broadcast"} => conn'[h] = conn[h]
  BY <1>2
<1> QED BY <1>2, <1>3, <1>4, <1>5, Relaxed

LEMMA RequestStep ==
    ASSUME MissInv, NEW c \in Clients, NEW s \in SubIds, NEW q \in Queries, Request(c, s, q)
    PROVE  MissInv'
<1> DEFINE v == [Idle EXCEPT !.at = "register", !.sub = s, !.filters = q]
<1>1. v \in Call /\ Fits(v) /\ v.at = "register"
  BY NamesAssumption DEF Idle, Call, Fits
<1>2. Moves(c, v) /\ conn[c].at = "idle"
  BY <1>1 DEF Request, Moves, At
<1> HIDE DEF v
<1>3. \A p \in Pairs : due'[p] \in Due /\ LessDue(p)
  BY DEF Request, LessDue, MissInv, FullType
<1>4. due' \in [Pairs -> Due]
  BY DEF Request, MissInv, FullType
<1> QED BY <1>1, <1>2, <1>3, <1>4, IdleStep DEF Request

LEMMA CloseStep ==
    ASSUME MissInv, NEW c \in Clients, NEW s \in SubIds, Close(c, s)
    PROVE  MissInv'
<1> DEFINE v == [Idle EXCEPT !.at = "delete", !.sub = s]
<1>1. v \in Call /\ Fits(v) /\ v.at = "delete"
  BY DEF Idle, Call, Fits
<1>2. Moves(c, v) /\ conn[c].at = "idle"
  BY <1>1 DEF Close, Moves, At
<1> HIDE DEF v
<1>3. \A p \in Pairs : due'[p] \in Due /\ LessDue(p)
  BY DEF Close, LessDue, MissInv, FullType
<1>4. due' \in [Pairs -> Due]
  BY DEF Close, MissInv, FullType
<1> QED BY <1>1, <1>2, <1>3, <1>4, IdleStep DEF Close

LEMMA LeaveStep ==
    ASSUME MissInv, NEW c \in Clients, Leave(c)
    PROVE  MissInv'
<1> DEFINE v == [Idle EXCEPT !.at = "gone"]
<1>1. Moves(c, v) /\ v.at = "gone" /\ conn[c].at \in {"idle", "panicked"}
  BY IdleFits DEF Leave, Moves, At, Idle
<1> HIDE DEF v
<1>2. \A p \in Pairs : due'[p] \in {Nothing, due[p]}
  BY DEF Leave
<1>3. due' \in [Pairs -> Due] /\ \A p \in Pairs : due'[p] \in Due /\ LessDue(p)
  <2>1. \A p \in Pairs : due[p] \in Due /\ due'[p] \in Due
    BY <1>2, NothingType DEF MissInv, FullType
  <2>2. due' = [p \in Pairs |-> due'[p]]
    BY DEF Leave
  <2>3. \A p \in Pairs : LessDue(p)
    BY <1>2 DEF LessDue
  <2> QED BY <2>1, <2>2, <2>3
<1> QED BY <1>1, <1>3, IdleStep DEF Leave

\* A goroutine that stores an event, or the syncer, disturbs nothing that is due.
LEMMA StoreStep ==
    ASSUME MissInv, NEW e \in Events, stored' = Store(e),
           UNCHANGED <<subscriptions, blocked, readers, due>>,
           \/ UNCHANGED conn
           \/ \E c \in Clients :
                /\ conn[c].at = "idle"
                /\ \E v : Moves(c, v) /\ v.at = "lock" /\ v.event = e
    PROVE  MissInv'
<1>1. /\ stored' \subseteq Events /\ \A f, g \in stored' : ~Newer(f, g)
      /\ Known(e)' /\ \A f \in Events : Known(f) => Known(f)' /\ (f \in stored' => f \in stored)
  BY StoreKnown DEF MissInv, FullType, TablesType
<1>2. TablesType'
  BY <1>1 DEF MissInv, FullType, TablesType
<1>3. /\ FullType'
      /\ \A g \in Clients : conn'[g] = conn[g] \/ (conn[g].at = "idle" /\ conn'[g].at = "lock"
                                                   /\ conn'[g].event = e)
  <2>1. CASE UNCHANGED conn
    BY <1>2, <2>1 DEF MissInv, FullType, ConnType, Serves, Fits
  <2>2. ASSUME NEW c \in Clients, conn[c].at = "idle",
               NEW v, Moves(c, v), v.at = "lock", v.event = e
        PROVE  /\ FullType'
               /\ \A g \in Clients : conn'[g] = conn[g] \/ (conn[g].at = "idle" /\ conn'[g].at = "lock"
                                                            /\ conn'[g].event = e)
    BY <1>2, <2>2, MovesType DEF MissInv, FullType
  <2> QED BY <2>1, <2>2
<1>4. OwnerInv' /\ AskedInv'
  BY <1>3 DEF MissInv, OwnerInv, AskedInv, Pairs
<1>5. KnownInv'
  <2>1. \A p \in Pairs : due[p].events \subseteq Events
    BY DEF MissInv, FullType, Due
  <2>2. \A p \in Pairs : \A f \in due'[p].events : Known(f)'
    BY <1>1, <2>1 DEF MissInv, KnownInv
  <2>3. ASSUME NEW g \in Clients, conn'[g].at \in {"lock", "broadcast"} PROVE Known(conn[g].event)'
    <3>1. CASE conn'[g] = conn[g]
      <4>1. conn[g].event \in Events
        BY <2>3, <3>1 DEF MissInv, FullType, ConnType, Fits
      <4> QED BY <1>1, <2>3, <3>1, <4>1 DEF MissInv, KnownInv
    <3>2. CASE conn'[g].event = e
      <4>1. Known(e)'
        BY <1>1
      <4> QED BY <3>2, <4>1 DEF Known
    <3> QED BY <1>3, <2>3, <3>1, <3>2
  <2> QED BY <2>2, <2>3 DEF KnownInv
<1>6. CoverInv'
  <2> SUFFICES ASSUME NEW p \in Pairs, NEW f \in due[p].events, f \in stored', due[p].at # "none"
               PROVE  Sending(p, f)' \/ (due[p].at = "asked" /\ Asking(p, f)')
    BY DEF CoverInv
  <2>1. f \in stored
    BY <1>1 DEF MissInv, FullType, Due, KnownInv
  <2>2. Sending(p, f) \/ (due[p].at = "asked" /\ Asking(p, f))
    BY <2>1 DEF MissInv, CoverInv
  <2>3. Sending(p, f) => Sending(p, f)'
    BY <1>3 DEF Sending
  <2>4. due[p].at = "asked" => conn'[p[1]] = conn[p[1]]
    BY <1>3 DEF MissInv, AskedInv, Pairs
  <2> QED BY <2>2, <2>3, <2>4 DEF Asking
<1> QED BY <1>3, <1>4, <1>5, <1>6 DEF MissInv

\* The invariant does not depend on what is blocked.
LEMMA OthersUnchanged ==
    ASSUME MissInv, FullType', UNCHANGED <<subscriptions, stored, conn, due>>
    PROVE  MissInv'
<1>1. OwnerInv' /\ AskedInv' /\ KnownInv'
  BY DEF MissInv, OwnerInv, AskedInv, KnownInv, Known
<1>2. CoverInv'
  BY DEF MissInv, CoverInv, Sending, Asking
<1> QED BY <1>1, <1>2 DEF MissInv

LEMMA SetBlockedStep ==
    ASSUME MissInv, NEW b \in SUBSET Guarded, SetBlocked(b)
    PROVE  MissInv'
<1>1. b \subseteq Events
  BY NamesAssumption
<1>2. FullType'
  BY <1>1 DEF SetBlocked, MissInv, FullType, TablesType, ConnType, Serves, Fits
<1>3. UNCHANGED <<subscriptions, stored, conn, due>>
  BY DEF SetBlocked
<1> QED BY <1>2, <1>3, OthersUnchanged

\* Publish: stored and on to the lock, or a write of somebody else's broadcast is met.
LEMMA PublishStep ==
    ASSUME MissInv, NEW c \in Clients, NEW e \in Events, Publish(c, e)
    PROVE  MissInv'
<1>1. CASE ~Writing(c)
  <2> DEFINE v == [Idle EXCEPT !.at = "lock", !.event = e]
  <2>1. v \in Call /\ Fits(v) /\ v.at = "lock" /\ v.event = e
    BY DEF Idle, Call, Fits
  <2>2. Moves(c, v) /\ conn[c].at = "idle"
    BY <1>1, <2>1 DEF Publish, Moves, At
  <2> HIDE DEF v
  <2> QED BY <1>1, <2>1, <2>2, StoreStep DEF Publish
<1>2. CASE Writing(c)
  <2>1. Panic(c, c) /\ stored' = Store(e) /\ UNCHANGED <<subscriptions, blocked, readers>>
        /\ conn[c].at = "idle"
    BY <1>2 DEF Publish, At
  <2>2. PICK v : Moves(c, v) /\ v.at = "panicked"
    BY <2>1, PanicMoves
  <2>3. /\ stored' \subseteq Events /\ \A f, g \in stored' : ~Newer(f, g)
        /\ \A f \in Events : Known(f) => Known(f)' /\ (f \in stored' => f \in stored)
    BY <2>1, StoreKnown DEF MissInv, FullType, TablesType
  <2>4. TablesType'
    BY <2>1, <2>3 DEF MissInv, FullType, TablesType
  <2>5. /\ FullType' /\ conn'[c] = v /\ \A h \in Clients : h # c => conn'[h] = conn[h]
    BY <2>1, <2>2, <2>4, PanicMoves, MovesType DEF MissInv
  <2>6. OwnerInv'
    BY <2>1, PanicMoves, NothingType DEF MissInv, OwnerInv, LessDue
  <2>7. \A p \in Pairs : due'[p].events \subseteq due[p].events /\ due[p].events \subseteq Events
    BY <2>1, PanicMoves, NothingType DEF LessDue, MissInv, FullType, Due
  <2>8. \A p \in Pairs : due'[p] # Nothing =>
          p[1] # c /\ p[1] \in Clients /\ due'[p].at = due[p].at /\ conn'[p[1]] = conn[p[1]]
    BY <2>1, <2>5, PanicMoves DEF LessDue, Pairs
  <2>9. AskedInv'
    BY <2>8, NothingType DEF MissInv, AskedInv
  <2>10. KnownInv'
    <3>1. \A p \in Pairs : \A f \in due'[p].events : Known(f)'
      BY <2>3, <2>7 DEF MissInv, KnownInv
    <3>2. ASSUME NEW g \in Clients, conn'[g].at \in {"lock", "broadcast"}
          PROVE  Known(conn[g].event)'
      <4>1. conn'[g] = conn[g] /\ conn[g].event \in Events /\ Known(conn[g].event)
        BY <2>2, <2>5, <3>2 DEF MissInv, KnownInv, FullType, ConnType, Fits
      <4>2. Known(conn[g].event) => conn[g].event \in stored' \/ \E f \in stored' : Newer(f, conn[g].event)
        BY <2>3, <4>1 DEF Known
      <4> QED BY <4>1, <4>2 DEF Known
    <3> QED BY <3>1, <3>2 DEF KnownInv
  <2>11. CoverInv'
    <3> SUFFICES ASSUME NEW p \in Pairs, NEW f \in due'[p].events, f \in stored',
                        due'[p].at # "none"
                 PROVE  Sending(p, f)' \/ (due'[p].at = "asked" /\ Asking(p, f)')
      BY DEF CoverInv
    <3>1. f \in stored /\ f \in due[p].events
      BY <2>3, <2>7 DEF MissInv, KnownInv
    <3>2. due'[p] # Nothing /\ due'[p].at = due[p].at /\ conn'[p[1]] = conn[p[1]]
      BY <2>8, NothingType
    <3>3. Sending(p, f) \/ (due[p].at = "asked" /\ Asking(p, f))
      BY <3>1, <3>2 DEF MissInv, CoverInv
    <3>4. Sending(p, f) => Sending(p, f)'
      BY <2>1, <2>5 DEF Sending
    <3> QED BY <3>2, <3>3, <3>4 DEF Asking
  <2> QED BY <2>5, <2>6, <2>9, <2>10, <2>11 DEF MissInv
<1> QED BY <1>1, <1>2

\* The id's owner changes, and nothing is being broadcast.
LEMMA OwnerChange ==
    ASSUME MissInv, NEW c \in Clients, NEW s \in SubIds, readers = {},
           conn[c].at \notin {"query", "send"}, NEW v, Moves(c, v), v.at \notin {"lock", "broadcast"},
           NEW entry \in Entry, entry.conn = NoClient => entry.filters = {},
           subscriptions' = [subscriptions EXCEPT ![s] = entry],
           NEW d \in Due, \A e \in d.events : e \in stored,
           d.at # "none" => entry.conn = c,
           d.at = "asked" => v.at \in {"query", "send"} /\ v.sub = s,
           \A e \in d.events : d.at # "none" => d.at = "asked" /\ \E f \in v.filters : e \in f,
           due' = [Disturb(c, s, due) EXCEPT ![<<c, s>>] = d],
           UNCHANGED <<stored, blocked, readers>>
    PROVE  MissInv'
<1>1. \A p \in Pairs : /\ p[1] \in Clients /\ p[2] \in SubIds
                       /\ due'[p] = IF p = <<c, s>> THEN d
                                    ELSE IF p[2] = s /\ p[1] # c THEN Nothing ELSE due[p]
                       /\ p # <<c, s>> /\ p[1] = c => p[2] # s
  BY DEF Disturb, Pairs
<1>2. due' \in [Pairs -> Due]
  <2>1. Disturb(c, s, due) \in [Pairs -> Due]
    BY NothingType DEF Disturb, MissInv, FullType
  <2> QED BY <2>1
<1>3. TablesType'
  BY DEF MissInv, FullType, TablesType
<1>4. /\ FullType' /\ conn'[c] = v /\ \A h \in Clients : h # c => conn'[h] = conn[h]
  BY <1>2, <1>3, MovesType DEF MissInv
<1>5. subscriptions'[s] = entry /\ \A t \in SubIds : t # s => subscriptions'[t] = subscriptions[t]
  BY DEF MissInv, FullType, TablesType
<1>6. OwnerInv'
  <2> SUFFICES ASSUME NEW p \in Pairs, due'[p].at # "none" PROVE subscriptions'[p[2]].conn = p[1]
    BY DEF OwnerInv
  <2>1. CASE p = <<c, s>>
    BY <1>1, <1>5, <2>1
  <2>2. CASE p # <<c, s>>
    BY <1>1, <1>5, <2>2, NothingType DEF MissInv, OwnerInv
  <2> QED BY <2>1, <2>2
<1>7. AskedInv'
  <2> SUFFICES ASSUME NEW p \in Pairs, due'[p].at = "asked"
               PROVE  conn'[p[1]].at \in {"query", "send"} /\ conn'[p[1]].sub = p[2]
    BY DEF AskedInv
  <2>1. CASE p = <<c, s>>
    BY <1>1, <1>4, <2>1
  <2>2. CASE p # <<c, s>>
    BY <1>1, <1>4, <2>2, NothingType DEF MissInv, AskedInv
  <2> QED BY <2>1, <2>2
<1>8. KnownInv'
  <2>1. \A p \in Pairs : \A e \in due'[p].events : Known(e)
    BY <1>1, NothingType DEF MissInv, KnownInv, Known
  <2>2. \A g \in Clients : conn'[g].at \in {"lock", "broadcast"} => Known(conn'[g].event)
    BY <1>4 DEF MissInv, KnownInv
  <2> QED BY <2>1, <2>2 DEF KnownInv, Known
<1>9. CoverInv'
  <2> SUFFICES ASSUME NEW p \in Pairs, NEW e \in due'[p].events, e \in stored,
                      due'[p].at # "none"
               PROVE  due'[p].at = "asked" /\ Asking(p, e)'
    BY DEF CoverInv
  <2>1. CASE p = <<c, s>>
    BY <1>1, <1>4, <2>1 DEF Asking
  <2>2. CASE p # <<c, s>>
    <3>1. due'[p] = due[p]
      BY <1>1, <2>2, NothingType
    <3>2. ~Sending(p, e)
      BY DEF Sending, MissInv, FullType, ConnType
    <3>3. due[p].at = "asked" /\ Asking(p, e)
      BY <3>1, <3>2 DEF MissInv, CoverInv
    <3>4. p[1] # c /\ conn'[p[1]] = conn[p[1]]
      BY <1>1, <1>4, <3>3 DEF MissInv, AskedInv
    <3> QED BY <3>1, <3>3, <3>4 DEF Asking
  <2> QED BY <2>1, <2>2
<1> QED BY <1>4, <1>6, <1>7, <1>8, <1>9 DEF MissInv

LEMMA RegisterStep ==
    ASSUME MissInv, NEW c \in Clients, Register(c)
    PROVE  MissInv'
<1> DEFINE call == conn[c]
           v == [call EXCEPT !.at = "query"]
           entry == [conn |-> c, filters |-> call.filters]
           d == [at |-> "asked", events |-> {e \in stored : Matches(e, call.filters)}]
<1>1. /\ call \in Call /\ Fits(call) /\ call.at = "register" /\ call.sub \in SubIds
      /\ conn \in [Clients -> Call] /\ stored \subseteq Events
  BY CallType DEF Register, At, Fits, TablesType
<1>2. v \in Call /\ Fits(v) /\ v.at = "query" /\ v.sub = call.sub /\ v.filters = call.filters
  BY <1>1 DEF Call, Fits
<1>3. Moves(c, v)
  BY <1>1, <1>2 DEF Register, Moves, Call
<1>4. entry \in Entry /\ entry.conn = c /\ c # NoClient
  BY <1>1, NamesAssumption DEF Entry, Call
<1>5. /\ d \in Due /\ d.at = "asked" /\ \A e \in d.events : e \in stored
      /\ \A e \in d.events : \E f \in call.filters : e \in f
  BY <1>1 DEF Due, Matches
<1>6. /\ subscriptions' = [subscriptions EXCEPT ![call.sub] = entry]
      /\ due' = [Disturb(c, call.sub, due) EXCEPT ![<<c, call.sub>>] = d]
      /\ readers = {} /\ UNCHANGED <<stored, blocked, readers>>
  BY DEF Register
<1> HIDE DEF v, entry, d, call
<1> QED BY <1>1, <1>2, <1>3, <1>4, <1>5, <1>6, OwnerChange DEF call

LEMMA DeleteStep ==
    ASSUME MissInv, NEW c \in Clients, Delete(c)
    PROVE  MissInv'
<1> DEFINE s == conn[c].sub
<1>1. conn[c].at = "delete" /\ s \in SubIds
  BY CallType DEF Delete, At, Fits
<1>2. Moves(c, Idle) /\ Idle.at = "idle"
  BY IdleFits DEF Delete, Moves
<1>3. NoEntry \in Entry /\ NoEntry.filters = {}
  BY DEF NoEntry, Entry
<1>4. /\ subscriptions' = [subscriptions EXCEPT ![s] = NoEntry]
      /\ due' = [Disturb(c, s, due) EXCEPT ![<<c, s>>] = Nothing]
      /\ readers = {} /\ UNCHANGED <<stored, blocked, readers>>
  BY DEF Delete
<1> HIDE DEF s
<1> QED BY <1>1, <1>2, <1>3, <1>4, NothingType, OwnerChange

\* Steps of a REQ that registers nothing: what it has left covers what is due to it.
LEMMA AskStep ==
    ASSUME MissInv, NEW c \in Clients, conn[c].at \in {"query", "send"},
           NEW s, conn[c].sub = s,
           NEW v, Moves(c, v), v.at \in {"query", "send"}, v.sub = s,
           due' \in [Pairs -> Due], \A p \in Pairs : LessDue(p),
           UNCHANGED <<subscriptions, stored, blocked, readers>>,
           \A e \in due'[<<c, s>>].events \intersect stored :
               Asking(<<c, s>>, e) => Asking(<<c, s>>, e)'
    PROVE  MissInv'
<1>1. TablesType'
  BY DEF MissInv, FullType, TablesType
<1>2. /\ FullType' /\ conn'[c] = v /\ \A h \in Clients : h # c => conn'[h] = conn[h]
  BY <1>1, MovesType DEF MissInv
<1>3. ASSUME NEW p \in Pairs, due'[p].at = "asked"
      PROVE  /\ conn'[p[1]].at \in {"query", "send"} /\ conn'[p[1]].sub = p[2]
             /\ p[1] = c => p = <<c, s>>
             /\ p[1] # c => conn'[p[1]] = conn[p[1]]
  <2>1. /\ p[1] \in Clients /\ p = <<p[1], p[2]>> /\ due[p].at = "asked"
    BY <1>3, NothingType DEF LessDue, Pairs
  <2>2. conn[p[1]].at \in {"query", "send"} /\ conn[p[1]].sub = p[2]
    BY <2>1 DEF MissInv, AskedInv
  <2> QED BY <1>2, <2>1, <2>2
<1>4. ASSUME NEW p \in Pairs, NEW e \in due'[p].events \intersect stored
      PROVE  /\ Sending(p, e) => Sending(p, e)'
             /\ due'[p].at = "asked" /\ Asking(p, e) => Asking(p, e)'
  <2>1. Sending(p, e) => Sending(p, e)'
    BY <1>2 DEF Sending
  <2>2. CASE due'[p].at = "asked" /\ p[1] # c
    BY <1>3, <2>1, <2>2 DEF Asking
  <2>3. CASE due'[p].at = "asked" /\ p[1] = c
    BY <1>3, <2>1, <2>3
  <2> QED BY <2>1, <2>2, <2>3
<1>5. \A h \in Clients : conn'[h].at \in {"lock", "broadcast"} => conn'[h] = conn[h]
  BY <1>2
<1> QED BY <1>2, <1>3, <1>4, <1>5, Relaxed

\* A step that leaves what is due alone.
LEMMA SameDue ==
    ASSUME MissInv, UNCHANGED due
    PROVE  due' \in [Pairs -> Due] /\ \A p \in Pairs : LessDue(p)
BY DEF MissInv, FullType, LessDue

\* One event less is due to a subscription.
LEMMA OneLessDue ==
    ASSUME MissInv, NEW q \in Pairs, NEW e, due' = [due EXCEPT ![q].events = @ \ {e}]
    PROVE  /\ due' \in [Pairs -> Due] /\ \A p \in Pairs : LessDue(p)
           /\ due'[q].events = due[q].events \ {e}
<1> DEFINE less == [due[q] EXCEPT !.events = @ \ {e}]
<1>1. due[q] \in Due /\ due \in [Pairs -> Due]
  BY DEF MissInv, FullType
<1>2. less \in Due /\ less.at = due[q].at /\ less.events = due[q].events \ {e}
  BY <1>1 DEF Due
<1>3. due' = [due EXCEPT ![q] = less]
  BY <1>1
<1> HIDE DEF less
<1> QED BY <1>1, <1>2, <1>3 DEF LessDue

LEMMA QueryStep ==
    ASSUME MissInv, NEW c \in Clients, Query(c)
    PROVE  MissInv'
<1> DEFINE call == conn[c]
<1> PICK s : s = conn[c].sub
  OBVIOUS
<1>1. /\ call \in Call /\ Fits(call) /\ call.at = "query" /\ s \in SubIds
      /\ conn \in [Clients -> Call] /\ stored \subseteq Events /\ call.write = NoWrite
  BY CallType DEF Query, At, Fits, TablesType
<1>2. PICK f \in call.filters :
        conn' = [conn EXCEPT ![c].at = "send", ![c].filters = @ \ {f}, ![c].todo = f \intersect stored]
  BY DEF Query
<1> DEFINE v == [call EXCEPT !.at = "send", !.filters = @ \ {f}, !.todo = f \intersect stored]
<1>3. conn' = [conn EXCEPT ![c] = v]
  BY <1>1, <1>2 DEF Call
<1>4. /\ v \in Call /\ v.at = "send" /\ v.sub = s /\ v.filters = call.filters \ {f}
      /\ v.todo = f \intersect stored /\ v.write = NoWrite
  BY <1>1 DEF Call
<1> HIDE DEF v
<1>5. Moves(c, v)
  BY <1>1, <1>3, <1>4 DEF Moves, Fits
<1>6. conn'[c] = v
  BY <1>1, <1>3
<1>7. ASSUME NEW e \in stored, Asking(<<c, s>>, e)
      PROVE  Asking(<<c, s>>, e)'
  <2>1. PICK g \in call.filters : e \in g
    BY <1>1, <1>7 DEF Asking
  <2>2. \/ g \in v.filters /\ e \in g
        \/ v.at = "send" /\ e \in v.todo
    BY <1>4, <2>1
  <2> QED BY <1>6, <2>2 DEF Asking
<1>8. UNCHANGED <<subscriptions, stored, blocked, readers, due>>
  BY DEF Query
<1> QED BY <1>1, <1>4, <1>5, <1>7, <1>8, SameDue, AskStep

LEMMA EndFilterStep ==
    ASSUME MissInv, NEW c \in Clients, EndFilter(c)
    PROVE  MissInv'
<1> PICK s : s = conn[c].sub
  OBVIOUS
<1> DEFINE call == conn[c]
           v == [call EXCEPT !.at = "query"]
<1>1. /\ call \in Call /\ Fits(call) /\ call.at = "send" /\ s \in SubIds
      /\ conn \in [Clients -> Call] /\ call.write = NoWrite /\ call.todo = {}
      /\ conn' = [conn EXCEPT ![c].at = "query"]
  BY CallType DEF EndFilter, At, Fits, Silent
<1>2. conn' = [conn EXCEPT ![c] = v]
  BY <1>1
<1>3. v \in Call /\ v.at = "query" /\ v.sub = s /\ v.filters = call.filters
      /\ v.write = NoWrite
  BY <1>1 DEF Call
<1> HIDE DEF v
<1>4. Moves(c, v) /\ conn'[c] = v
  BY <1>1, <1>2, <1>3 DEF Moves, Fits
<1>5. ASSUME NEW e \in stored, Asking(<<c, s>>, e)
      PROVE  Asking(<<c, s>>, e)'
  <2>1. <<c, s, e>> # NoWrite
    BY <1>1, NamesAssumption DEF MissInv, FullType, TablesType
  <2>2. PICK g \in call.filters : e \in g
    BY <1>1, <1>5, <2>1 DEF Asking
  <2> QED BY <1>3, <1>4, <2>2 DEF Asking
<1>6. UNCHANGED <<subscriptions, stored, blocked, readers, due>>
  BY DEF EndFilter
<1> QED BY <1>1, <1>3, <1>4, <1>5, <1>6, SameDue, AskStep

\* The next stored event goes out, is held back because it is blocked, or meets a write.
LEMMA SendStoredStep ==
    ASSUME MissInv, NEW c \in Clients, SendStored(c)
    PROVE  MissInv'
<1> PICK s : s = conn[c].sub
  OBVIOUS
<1> DEFINE call == conn[c]
<1>1. /\ call \in Call /\ Fits(call) /\ call.at = "send" /\ s \in SubIds
      /\ call.todo \subseteq Events /\ conn \in [Clients -> Call] /\ call.write = NoWrite
      /\ UNCHANGED <<subscriptions, stored, blocked>>
  BY CallType DEF SendStored, At, Fits, Silent
<1>2. PICK e \in call.todo :
        LET next == [call EXCEPT !.todo = @ \ {e}] IN
        \/ /\ conn' = [conn EXCEPT ![c] = next]
           /\ due' = [due EXCEPT ![<<c, s>>].events = @ \ {e}]
           /\ UNCHANGED readers
        \/ BeginWrite(c, c, s, e, next)
  BY DEF SendStored
<1> DEFINE next == [call EXCEPT !.todo = @ \ {e}]
           write == [next EXCEPT !.write = <<c, s, e>>]
<1>3. /\ next \in Call /\ next.at = "send" /\ next.sub = s /\ next.filters = call.filters
      /\ next.todo = call.todo \ {e} /\ next.write = NoWrite
  BY <1>1 DEF Call
<1>4. /\ write \in Call /\ write.at = "send" /\ write.sub = s /\ write.filters = call.filters
      /\ write.todo = call.todo \ {e} /\ write.write = <<c, s, e>>
  BY <1>1, <1>2, <1>3 DEF Call
<1>5. <<c, s>> \in Pairs
  BY <1>1 DEF Pairs
<1>6. \A f \in stored : <<c, s, f>> # NoWrite
  BY <1>1, NamesAssumption DEF MissInv, FullType, TablesType
<1>7. CASE /\ conn' = [conn EXCEPT ![c] = next]
           /\ due' = [due EXCEPT ![<<c, s>>].events = @ \ {e}]
           /\ UNCHANGED readers
  <2> HIDE DEF next, write
  <2>1. Moves(c, next) /\ conn'[c] = next
    BY <1>1, <1>3, <1>7 DEF Moves, Fits
  <2>2. /\ due' \in [Pairs -> Due] /\ \A p \in Pairs : LessDue(p)
        /\ due'[<<c, s>>].events = due[<<c, s>>].events \ {e}
    BY <1>5, <1>7, OneLessDue
  <2>3. ASSUME NEW f \in due'[<<c, s>>].events \intersect stored, Asking(<<c, s>>, f)
        PROVE  Asking(<<c, s>>, f)'
    <3>1. f # e
      BY <2>2
    <3>2. (\E g \in call.filters : f \in g) \/ f \in call.todo
      BY <1>1, <1>6, <2>3 DEF Asking
    <3> QED BY <1>3, <2>1, <3>1, <3>2 DEF Asking
  <2> QED BY <1>1, <1>3, <1>7, <2>1, <2>2, <2>3, AskStep
<1>8. CASE BeginWrite(c, c, s, e, next) /\ ~Writing(c)
  <2>1. conn' = [conn EXCEPT ![c] = write] /\ UNCHANGED <<readers, due>>
    BY <1>8 DEF BeginWrite
  <2> HIDE DEF next, write
  <2>2. Moves(c, write) /\ conn'[c] = write
    BY <1>1, <1>2, <1>4, <2>1 DEF Moves, Fits
  <2>3. ASSUME NEW f \in stored, Asking(<<c, s>>, f)
        PROVE  Asking(<<c, s>>, f)'
    <3>1. (\E g \in call.filters : f \in g) \/ f \in call.todo
      BY <1>1, <1>6, <2>3 DEF Asking
    <3>2. CASE f = e
      BY <1>4, <2>2, <3>2 DEF Asking
    <3>3. CASE f # e
      BY <1>4, <2>2, <3>1, <3>3 DEF Asking
    <3> QED BY <3>2, <3>3
  <2> QED BY <1>1, <1>4, <2>1, <2>2, <2>3, SameDue, AskStep
<1>9. CASE BeginWrite(c, c, s, e, next) /\ Writing(c)
  <2>1. Panic(c, c) /\ readers' = readers \ {c}
    BY <1>9 DEF BeginWrite
  <2> QED BY <1>1, <2>1, PanicStep
<1> QED BY <1>2, <1>7, <1>8, <1>9

\* At EOSE nothing is left to query or to send: only broadcasts still owe anything.
LEMMA EndOfStoredStep ==
    ASSUME MissInv, NEW c \in Clients, EndOfStored(c)
    PROVE  MissInv'
<1> DEFINE s == conn[c].sub
<1>1. /\ conn[c].at = "query" /\ conn[c].filters = {} /\ s \in SubIds
      /\ conn \in [Clients -> Call] /\ UNCHANGED <<subscriptions, stored, blocked, readers>>
  BY CallType DEF EndOfStored, At, Fits
<1>2. CASE Writing(c)
  BY <1>1, <1>2, PanicStep DEF EndOfStored
<1>3. CASE ~Writing(c)
  <2> DEFINE new == [due[<<c, s>>] EXCEPT !.at = IF @ = "asked" THEN "open" ELSE @]
  <2>1. <<c, s>> \in Pairs /\ due \in [Pairs -> Due] /\ due[<<c, s>>] \in Due
    BY <1>1 DEF Pairs, MissInv, FullType
  <2>2. /\ new \in Due /\ new.events = due[<<c, s>>].events /\ new.at # "asked"
        /\ new.at = "none" <=> due[<<c, s>>].at = "none"
    BY <2>1 DEF Due
  <2>3. due' = [due EXCEPT ![<<c, s>>] = new]
    BY <1>3, <2>1 DEF EndOfStored
  <2> HIDE DEF new
  <2>4. Moves(c, Idle)
    BY <1>3, IdleFits DEF EndOfStored, Moves
  <2>5. TablesType' /\ due' \in [Pairs -> Due]
    BY <1>1, <2>1, <2>2, <2>3 DEF MissInv, FullType, TablesType
  <2>6. /\ FullType' /\ conn'[c] = Idle /\ Idle.at = "idle"
        /\ \A h \in Clients : h # c => conn'[h] = conn[h]
    BY <1>1, <2>4, <2>5, MovesType, IdleFits DEF MissInv
  <2>7. \A p \in Pairs : /\ due'[p].events = due[p].events
                         /\ due'[p].at = "none" <=> due[p].at = "none"
    BY <2>1, <2>2, <2>3
  <2>8. OwnerInv'
    BY <1>1, <2>7 DEF MissInv, OwnerInv
  <2>9. \A p \in Pairs : /\ due[p].at = "asked" => p = <<c, s>> \/ p[1] # c
                         /\ due'[p].at = "asked" => due[p].at = "asked" /\ p[1] # c
    <3> SUFFICES ASSUME NEW p \in Pairs
                 PROVE  /\ due[p].at = "asked" => p = <<c, s>> \/ p[1] # c
                        /\ due'[p].at = "asked" => due[p].at = "asked" /\ p[1] # c
      OBVIOUS
    <3>1. p = <<p[1], p[2]>>
      BY DEF Pairs
    <3>2. due[p].at = "asked" => p = <<c, s>> \/ p[1] # c
      BY <3>1 DEF MissInv, AskedInv
    <3>3. due'[p].at = "asked" => due[p].at = "asked" /\ p # <<c, s>>
      BY <2>1, <2>2, <2>3
    <3> QED BY <3>2, <3>3
  <2>10. AskedInv'
    BY <2>6, <2>9 DEF MissInv, AskedInv, Pairs
  <2>11. KnownInv'
    <3>1. \A g \in Clients : conn'[g].at \in {"lock", "broadcast"} => conn'[g] = conn[g]
      BY <2>6
    <3> QED BY <1>1, <2>7, <3>1 DEF MissInv, KnownInv, Known
  <2>12. CoverInv'
    <3> SUFFICES ASSUME NEW p \in Pairs, NEW e \in due[p].events, e \in stored,
                        due[p].at # "none"
                 PROVE  Sending(p, e)' \/ (due'[p].at = "asked" /\ Asking(p, e)')
      BY <1>1, <2>7 DEF CoverInv
    <3>1. CASE Sending(p, e)
      BY <1>1, <2>6, <3>1 DEF Sending
    <3>2. CASE due[p].at = "asked" /\ Asking(p, e)
      <4>1. p[1] # c
        BY <1>1, <2>9, <3>2 DEF Asking
      <4>2. due'[p] = due[p] /\ conn'[p[1]] = conn[p[1]]
        BY <2>1, <2>3, <2>6, <4>1 DEF Pairs
      <4> QED BY <3>2, <4>2 DEF Asking
    <3> QED BY <3>1, <3>2 DEF MissInv, CoverInv
  <2> QED BY <2>6, <2>8, <2>10, <2>11, <2>12 DEF MissInv
<1> QED BY <1>2, <1>3

\* Who is subscribed when a broadcast begins is due its event, and is left to serve.
LEMMA BeginBroadcastStep ==
    ASSUME MissInv, NEW c \in Clients, BeginBroadcast(c)
    PROVE  MissInv'
<1> PICK e : e = conn[c].event
  OBVIOUS
<1> DEFINE call == conn[c]
           v == [call EXCEPT !.at = "broadcast", !.todo = Matching(e)]
<1>1. /\ call \in Call /\ Fits(call) /\ call.at = "lock" /\ e \in Events
      /\ conn \in [Clients -> Call] /\ call.write = NoWrite
      /\ readers' = readers \union {c} /\ UNCHANGED <<subscriptions, stored, blocked>>
  BY CallType DEF BeginBroadcast, At, Fits
<1>2. conn' = [conn EXCEPT ![c] = v]
  BY <1>1 DEF BeginBroadcast, Call
<1>3. /\ v \in Call /\ v.at = "broadcast" /\ v.event = e /\ v.write = NoWrite
      /\ v.todo = Matching(e) /\ Matching(e) \subseteq SubIds
  BY <1>1 DEF Call, Matching
<1> HIDE DEF v
<1>4. Moves(c, v)
  BY <1>1, <1>2, <1>3 DEF Moves, Fits
<1>5. \A p \in Pairs :
        /\ due[p] \in Due /\ p[2] \in SubIds
        /\ \/ due'[p] = due[p]
           \/ /\ due[p].at # "none" /\ Matches(e, subscriptions[p[2]].filters)
              /\ due'[p] = [due[p] EXCEPT !.events = @ \union {e}]
  BY DEF BeginBroadcast, MissInv, FullType, Pairs
<1>6. \A p \in Pairs :
        /\ due'[p] \in Due /\ due'[p].at = due[p].at
        /\ \/ due'[p].events = due[p].events
           \/ due'[p].events = due[p].events \union {e} /\ p[2] \in Matching(e)
  <2> SUFFICES ASSUME NEW p \in Pairs
               PROVE  /\ due'[p] \in Due /\ due'[p].at = due[p].at
                      /\ \/ due'[p].events = due[p].events
                         \/ due'[p].events = due[p].events \union {e} /\ p[2] \in Matching(e)
    OBVIOUS
  <2>1. CASE due'[p] = due[p]
    BY <1>5, <2>1
  <2>2. CASE /\ Matches(e, subscriptions[p[2]].filters)
             /\ due'[p] = [due[p] EXCEPT !.events = @ \union {e}]
    BY <1>1, <1>5, <2>2 DEF Matching, Due
  <2> QED BY <1>5, <2>1, <2>2
<1>7. due' \in [Pairs -> Due]
  <2>1. due' = [p \in Pairs |-> due'[p]]
    BY DEF BeginBroadcast
  <2> QED BY <1>6, <2>1
<1>8. TablesType'
  BY <1>1 DEF MissInv, FullType, TablesType
<1>9. /\ FullType' /\ conn'[c] = v /\ \A h \in Clients : h # c => conn'[h] = conn[h]
  <2>1. Serves(v)
    BY <1>3 DEF Serves, Matching
  <2> QED BY <1>1, <1>4, <1>7, <1>8, <2>1, MovesType DEF MissInv
<1>10. OwnerInv'
  BY <1>1, <1>6 DEF MissInv, OwnerInv
<1>11. \A p \in Pairs : due'[p].at = "asked" => p[1] # c /\ conn'[p[1]] = conn[p[1]]
  BY <1>1, <1>6, <1>9 DEF MissInv, AskedInv, Pairs
<1>12. AskedInv'
  BY <1>6, <1>11 DEF MissInv, AskedInv
<1>13. KnownInv'
  <2>1. Known(e)
    BY <1>1 DEF MissInv, KnownInv
  <2>2. \A p \in Pairs : \A f \in due'[p].events : Known(f)
    BY <1>6, <2>1 DEF MissInv, KnownInv
  <2>3. \A g \in Clients : conn'[g].at \in {"lock", "broadcast"} => Known(conn'[g].event)
    BY <1>3, <1>9, <2>1 DEF MissInv, KnownInv
  <2> QED BY <1>1, <2>2, <2>3 DEF KnownInv, Known
<1>14. CoverInv'
  <2> SUFFICES ASSUME NEW p \in Pairs, NEW f \in due'[p].events, f \in stored, due'[p].at # "none"
               PROVE  Sending(p, f)' \/ (due'[p].at = "asked" /\ Asking(p, f)')
    BY <1>1 DEF CoverInv
  <2>1. CASE f \in due[p].events
    <3>1. Sending(p, f) \/ (due[p].at = "asked" /\ Asking(p, f))
      BY <1>6, <2>1 DEF MissInv, CoverInv
    <3>2. Sending(p, f) => Sending(p, f)'
      BY <1>1, <1>9 DEF Sending
    <3> QED BY <1>6, <1>11, <3>1, <3>2 DEF Asking
  <2>2. CASE f \notin due[p].events
    <3>1. f = e /\ p[2] \in Matching(e)
      BY <1>6, <2>2
    <3> QED BY <1>3, <1>9, <3>1 DEF Sending
  <2> QED BY <2>1, <2>2
<1> QED BY <1>9, <1>10, <1>12, <1>13, <1>14 DEF MissInv

\* What a goroutine in a broadcast does: it goes on with the same event, and what it no
\* longer sends is no longer due.
LEMMA ServeStep ==
    ASSUME MissInv, NEW c \in Clients, conn[c].at = "broadcast",
           NEW v, Moves(c, v), v.at = "broadcast", v.event = conn[c].event,
           v.todo \subseteq conn[c].todo,
           due' \in [Pairs -> Due], \A p \in Pairs : LessDue(p),
           UNCHANGED <<subscriptions, stored, blocked, readers>>,
           \A p \in Pairs : due'[p].at # "none" /\ v.event \in due'[p].events =>
               /\ p[2] \in conn[c].todo => p[2] \in v.todo \/ v.write = <<p[1], p[2], v.event>>
               /\ conn[c].write = <<p[1], p[2], v.event>> => v.write = <<p[1], p[2], v.event>>
    PROVE  MissInv'
<1>1. TablesType'
  BY DEF MissInv, FullType, TablesType
<1>2. Serves(v) /\ c \in readers
  BY DEF MissInv, FullType, ConnType, Serves
<1>3. /\ FullType' /\ conn'[c] = v /\ \A h \in Clients : h # c => conn'[h] = conn[h]
  BY <1>1, <1>2, MovesType DEF MissInv
<1>4. \A p \in Pairs : due'[p].at = "asked" =>
        /\ conn'[p[1]] = conn[p[1]]
        /\ conn'[p[1]].at \in {"query", "send"} /\ conn'[p[1]].sub = p[2]
  BY <1>3, NothingType DEF LessDue, Pairs, MissInv, AskedInv
<1>5. OwnerInv'
  BY NothingType DEF MissInv, OwnerInv, LessDue
<1>6. AskedInv'
  BY <1>4 DEF AskedInv
<1>7. KnownInv'
  <2>1. \A p \in Pairs : \A f \in due'[p].events : Known(f)
    BY NothingType DEF MissInv, KnownInv, LessDue
  <2>2. \A g \in Clients : conn'[g].at \in {"lock", "broadcast"} => Known(conn'[g].event)
    BY <1>3 DEF MissInv, KnownInv
  <2> QED BY <2>1, <2>2 DEF KnownInv, Known
<1>8. CoverInv'
  <2> SUFFICES ASSUME NEW p \in Pairs, NEW f \in due'[p].events, f \in stored, due'[p].at # "none"
               PROVE  Sending(p, f)' \/ (due'[p].at = "asked" /\ Asking(p, f)')
    BY DEF CoverInv
  <2>1. f \in due[p].events /\ due[p].at = due'[p].at
    BY NothingType DEF LessDue
  <2>2. Sending(p, f) \/ (due[p].at = "asked" /\ Asking(p, f))
    BY <2>1 DEF MissInv, CoverInv
  <2>3. ASSUME NEW g \in Clients, conn[g].at = "broadcast", conn[g].event = f,
               p[2] \in conn[g].todo \/ conn[g].write = <<p[1], p[2], f>>
        PROVE  Sending(p, f)'
    BY <1>3, <2>3 DEF Sending
  <2>4. Sending(p, f) => Sending(p, f)'
    BY <2>3 DEF Sending
  <2> QED BY <1>4, <2>1, <2>2, <2>4 DEF Asking
<1> QED BY <1>3, <1>5, <1>6, <1>7, <1>8 DEF MissInv

LEMMA SendBroadcastStep ==
    ASSUME MissInv, NEW c \in Clients, SendBroadcast(c)
    PROVE  MissInv'
<1> PICK e : e = conn[c].event
  OBVIOUS
<1> DEFINE call == conn[c]
<1>1. /\ call \in Call /\ Fits(call) /\ call.at = "broadcast" /\ e \in Events
      /\ conn \in [Clients -> Call] /\ call.write = NoWrite /\ call.todo \subseteq SubIds
      /\ UNCHANGED <<subscriptions, stored, blocked>>
  BY CallType DEF SendBroadcast, At, Fits, Silent
<1>2. PICK s \in call.todo :
        BeginWrite(c, subscriptions[s].conn, s, e, [call EXCEPT !.todo = @ \ {s}])
  BY DEF SendBroadcast
<1> PICK owner : owner = subscriptions[s].conn
  OBVIOUS
<1> DEFINE next == [call EXCEPT !.todo = @ \ {s}]
           v == [next EXCEPT !.write = <<owner, s, e>>]
<1>3. owner \in Clients
  <2>1. Matches(e, subscriptions[s].filters)
    BY <1>1 DEF MissInv, FullType, ConnType, Serves
  <2>2. subscriptions[s] \in Entry /\ subscriptions[s].filters # {}
    BY <1>1, <2>1 DEF Matches, MissInv, FullType, TablesType
  <2> QED BY <1>1, <2>2 DEF MissInv, FullType, TablesType, Entry
<1>4. next \in Call /\ next.todo = call.todo \ {s} /\ next.at = "broadcast" /\ next.event = e
  BY <1>1 DEF Call
<1>5. /\ v \in Call /\ v.at = "broadcast" /\ v.event = e /\ v.todo = call.todo \ {s}
      /\ v.write = <<owner, s, e>>
  BY <1>1, <1>3, <1>4 DEF Call
<1> HIDE DEF next
<1>6. CASE Writing(owner)
  <2>1. Panic(c, owner) /\ readers' = readers \ {c}
    BY <1>2, <1>6 DEF BeginWrite
  <2> QED BY <1>1, <2>1, PanicStep
<1>7. CASE ~Writing(owner)
  <2>1. conn' = [conn EXCEPT ![c] = v] /\ UNCHANGED <<readers, due>>
    BY <1>2, <1>7 DEF BeginWrite, next
  <2> HIDE DEF v
  <2>2. Moves(c, v)
    BY <1>1, <1>5, <2>1 DEF Moves, Fits
  <2>3. ASSUME NEW p \in Pairs, due'[p].at # "none"
        PROVE  /\ p[2] \in call.todo => p[2] \in v.todo \/ v.write = <<p[1], p[2], v.event>>
               /\ call.write # <<p[1], p[2], v.event>>
    <3>1. subscriptions[p[2]].conn = p[1]
      BY <2>1, <2>3 DEF MissInv, OwnerInv
    <3>2. <<p[1], p[2], v.event>> # NoWrite
      BY <1>1, <1>5, NamesAssumption DEF Pairs
    <3> QED BY <1>1, <1>5, <3>1, <3>2
  <2> QED BY <1>1, <1>5, <2>1, <2>2, <2>3, SameDue, ServeStep
<1> QED BY <1>6, <1>7

LEMMA EndBroadcastStep ==
    ASSUME MissInv, NEW c \in Clients, EndBroadcast(c)
    PROVE  MissInv'
<1>1. /\ Fits(conn[c]) /\ conn[c].at = "broadcast" /\ conn[c].event \in Events
      /\ conn[c].write = NoWrite /\ conn[c].todo = {}
      /\ readers' = readers \ {c} /\ UNCHANGED <<subscriptions, stored, blocked, due>>
  BY CallType DEF EndBroadcast, At, Fits, Silent
<1>2. Moves(c, Idle) /\ Idle.at = "idle"
  BY IdleFits DEF EndBroadcast, Moves
<1>3. TablesType' /\ due' \in [Pairs -> Due]
  BY <1>1 DEF MissInv, FullType, TablesType
<1>4. /\ FullType' /\ conn'[c] = Idle /\ \A h \in Clients : h # c => conn'[h] = conn[h]
  BY <1>1, <1>2, <1>3, MovesType DEF MissInv
<1>5. \A p \in Pairs : due'[p].at = "asked" => p[1] # c /\ conn'[p[1]] = conn[p[1]]
  BY <1>1, <1>4 DEF MissInv, AskedInv, Pairs
<1>6. ASSUME NEW p \in Pairs, NEW e, Sending(p, e) PROVE Sending(p, e)'
  <2>1. PICK g \in Clients :
          /\ conn[g].at = "broadcast" /\ conn[g].event = e
          /\ p[2] \in conn[g].todo \/ conn[g].write = <<p[1], p[2], e>>
    BY <1>6 DEF Sending
  <2>2. g # c
    <3>1. <<p[1], p[2], conn[c].event>> # NoWrite
      BY <1>1, NamesAssumption DEF Pairs
    <3> QED BY <1>1, <2>1, <3>1
  <2> QED BY <1>4, <2>1, <2>2 DEF Sending
<1>7. \A p \in Pairs : LessDue(p)
  BY <1>1, SameDue
<1>8. \A p \in Pairs, e \in Events : due'[p].at = "asked" /\ Asking(p, e) => Asking(p, e)'
  BY <1>5 DEF Asking
<1>9. \A p \in Pairs : due'[p].events \subseteq Events
  BY <1>3 DEF Due
<1>10. \A g \in Clients : conn'[g].at \in {"lock", "broadcast"} => conn'[g] = conn[g]
  BY <1>2, <1>4
<1>11. \A p \in Pairs : due'[p].at = "asked" =>
         conn'[p[1]].at \in {"query", "send"} /\ conn'[p[1]].sub = p[2]
  BY <1>1, <1>5 DEF MissInv, AskedInv
<1> QED BY <1>1, <1>4, <1>6, <1>7, <1>8, <1>9, <1>10, <1>11, Relaxed

\* A client has what was written to it.
LEMMA EndWriteStep ==
    ASSUME MissInv, NEW c \in Clients, EndWrite(c)
    PROVE  MissInv'
<1> PICK w : w = conn[c].write
  OBVIOUS
<1> DEFINE call == conn[c]
           v == [call EXCEPT !.write = NoWrite]
<1>1. /\ call \in Call /\ Fits(call) /\ w # NoWrite /\ call.at \in {"send", "broadcast"}
      /\ conn \in [Clients -> Call] /\ w \in Clients \X SubIds \X Events
      /\ UNCHANGED <<subscriptions, stored, blocked, readers>>
  BY CallType DEF EndWrite, Fits, Silent, Call
<1>2. conn' = [conn EXCEPT ![c] = v] /\ due' = [due EXCEPT ![<<w[1], w[2]>>].events = @ \ {w[3]}]
  BY <1>1 DEF EndWrite
<1>3. /\ v \in Call /\ v.at = call.at /\ v.sub = call.sub /\ v.filters = call.filters
      /\ v.event = call.event /\ v.todo = call.todo /\ v.write = NoWrite
  BY <1>1 DEF Call
<1> HIDE DEF v
<1>4. Moves(c, v) /\ conn'[c] = v
  BY <1>1, <1>2, <1>3 DEF Moves, Fits
<1>5. <<w[1], w[2]>> \in Pairs /\ w = <<w[1], w[2], w[3]>>
  BY <1>1 DEF Pairs
<1>6. /\ due' \in [Pairs -> Due] /\ \A p \in Pairs : LessDue(p)
      /\ due'[<<w[1], w[2]>>].events = due[<<w[1], w[2]>>].events \ {w[3]}
  BY <1>2, <1>5, OneLessDue
<1>7. \A p \in Pairs : \A e \in due'[p].events : w # <<p[1], p[2], e>>
  <2> SUFFICES ASSUME NEW p \in Pairs, NEW e \in due'[p].events, w = <<p[1], p[2], e>>
               PROVE  FALSE
    OBVIOUS
  <2>1. p = <<w[1], w[2]>> /\ e = w[3]
    BY DEF Pairs
  <2> QED BY <1>6, <2>1
<1>8. CASE call.at = "broadcast"
  BY <1>1, <1>3, <1>4, <1>6, <1>7, <1>8, ServeStep
<1>9. CASE call.at = "send"
  <2> PICK s : s = call.sub
    OBVIOUS
  <2>1. s \in SubIds /\ <<c, s>> \in Pairs
    BY <1>1, <1>9 DEF Fits, Pairs
  <2>2. ASSUME NEW e \in due'[<<c, s>>].events \intersect stored, Asking(<<c, s>>, e)
        PROVE  Asking(<<c, s>>, e)'
    <3>1. w # <<c, s, e>>
      BY <1>7, <2>1, <2>2
    <3>2. (\E f \in call.filters : e \in f) \/ e \in call.todo
      BY <2>2, <3>1 DEF Asking
    <3> QED BY <1>3, <1>4, <1>9, <3>2 DEF Asking
  <2> QED BY <1>1, <1>3, <1>4, <1>6, <1>9, <2>2, AskStep
<1> QED BY <1>1, <1>8, <1>9

-----------------------------------------------------------------------------

LEMMA MissInit == Init => MissInv
<1> SUFFICES ASSUME Init PROVE MissInv
  OBVIOUS
<1>1. FullType
  <2>1. NoEntry \in Entry /\ NoEntry.filters = {}
    BY DEF NoEntry, Entry
  <2>2. TablesType
    BY <2>1 DEF Init, TablesType
  <2>3. ConnType
    BY IdleFits DEF Init, ConnType, Serves
  <2> QED BY <2>2, <2>3, NothingType DEF Init, FullType
<1>2. \A p \in Pairs : due[p] = Nothing
  BY DEF Init
<1>3. \A g \in Clients : conn[g].at = "idle"
  BY IdleFits DEF Init
<1> QED BY <1>1, <1>2, <1>3, NothingType DEF MissInv, OwnerInv, AskedInv, KnownInv, CoverInv

LEMMA MissStep == MissInv /\ [Next]_vars => MissInv'
<1> SUFFICES ASSUME MissInv, [Next]_vars PROVE MissInv'
  OBVIOUS
<1>1. CASE UNCHANGED vars
  <2>1. UNCHANGED <<subscriptions, stored, blocked, readers, conn, due>>
    BY <1>1 DEF vars
  <2>2. FullType'
    BY <2>1 DEF MissInv, FullType, TablesType, ConnType, Serves, Fits
  <2> QED BY <2>1, <2>2, OthersUnchanged
<1>2. ASSUME NEW c \in Clients, Message(c) PROVE MissInv'
  BY <1>2, RequestStep, CloseStep, PublishStep DEF Message
<1>3. ASSUME NEW c \in Clients, Step(c) PROVE MissInv'
  BY <1>3, RegisterStep, QueryStep, SendStoredStep, EndFilterStep, EndOfStoredStep, DeleteStep,
     BeginBroadcastStep, SendBroadcastStep, EndBroadcastStep, EndWriteStep DEF Step
<1>4. ASSUME NEW c \in Clients, Leave(c) PROVE MissInv'
  BY <1>4, LeaveStep
<1>5. ASSUME NEW e \in Events, StoreElsewhere(e) PROVE MissInv'
  BY <1>5, StoreStep DEF StoreElsewhere
<1>6. ASSUME NEW b \in SUBSET Guarded, SetBlocked(b) PROVE MissInv'
  BY <1>6, SetBlockedStep
<1> QED BY <1>1, <1>2, <1>3, <1>4, <1>5, <1>6 DEF Next

LEMMA MissInvariant == Spec => []MissInv
<1>1. Init => MissInv
  BY MissInit
<1>2. MissInv /\ [Next]_vars => MissInv'
  BY MissStep
<1> QED BY <1>1, <1>2, PTL DEF Spec

\* Every variable keeps its type, no two stored versions compare, and a broadcast holds
\* the lock.
THEOREM TypeCorrect == Spec => []TypeOK
<1>1. MissInv => TypeOK
  BY FullTypeImplies DEF MissInv
<1> QED BY <1>1, MissInvariant, PTL

\* No interleaving of REQ, CLOSE, EVENT and panics, of any number of clients, lets an event
\* fall between the stored events a client is sent and the broadcasts it gets.
THEOREM NothingIsMissed == Spec => []NothingMissed
<1>1. MissInv => NothingMissed
  <2> SUFFICES ASSUME MissInv, NEW p \in Pairs, due[p].at = "open",
                      NEW e \in due[p].events \intersect stored
               PROVE  \E g \in Clients : At(g, "broadcast") /\ conn[g].event = e
    BY DEF NothingMissed
  <2>1. Sending(p, e)
    BY DEF MissInv, CoverInv
  <2> QED BY <2>1 DEF Sending, At
<1> QED BY <1>1, MissInvariant, PTL
=============================================================================
