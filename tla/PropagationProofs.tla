--------------------------- MODULE PropagationProofs ---------------------------
(***************************************************************************)
(* Proofs about Propagation, for any nodes, relays, events and times.      *)
(***************************************************************************)
EXTENDS Propagation, TLAPS

StorableEvents == {e \in Events : Storable(e)}

\* The parts of TypeOK.
StoresType ==
    /\ held \in [Relays -> SUBSET Events]
    /\ tables \in [Nodes -> SUBSET StorableEvents]

SubsType ==
    /\ subs \in [Nodes -> [Relays -> (SUBSET Events) \union {NoSub}]]
    /\ streams \in [Nodes -> [Relays -> SUBSET Events]]
    /\ \A n \in Nodes, r \in Relays : subs[n][r] = NoSub => streams[n][r] = {}

TasksType ==
    /\ cache \in [Nodes -> [Events -> Times \union {Never}]]
    /\ tasks \in [Nodes -> [Slots -> Task \union {NoTask}]]
    /\ started \in [Nodes -> [Events -> 0..2]]

LEMMA TypeParts ==
    TypeOK <=> now \in Times /\ StoresType /\ SubsType /\ TasksType /\ faults \in 0..MaxFaults
BY DEF TypeOK, StoresType, SubsType, TasksType, StorableEvents

NewTask(e) == [event |-> e, at |-> "new", since |-> now, left |-> {}]

-----------------------------------------------------------------------------
(* What the steps share. *)

\* What arrives at a relay stays in the types.
LEMMA ArriveType ==
    ASSUME TypeOK, NEW r \in Relays, NEW e \in Events, Arrive(r, e), UNCHANGED subs
    PROVE  held' \in [Relays -> SUBSET Events] /\ SubsType'
<1>1. held' \in [Relays -> SUBSET Events]
  BY DEF TypeOK, Arrive, Kept, Newest
<1>2. ASSUME NEW n \in Nodes
      PROVE  /\ streams'[n] \in [Relays -> SUBSET Events]
             /\ \A q \in Relays : subs'[n][q] = NoSub => streams'[n][q] = {}
  <2>1. PICK more \in {{}, {e}} : /\ streams'[n] = [streams[n] EXCEPT ![r] = @ \union more]
                                  /\ subs[n][r] = NoSub => more = {}
    BY <1>2 DEF TypeOK, Arrive
  <2>2. streams[n] \in [Relays -> SUBSET Events]
    BY DEF TypeOK
  <2> QED BY <2>1, <2>2 DEF TypeOK
<1>3. streams' \in [Nodes -> [Relays -> SUBSET Events]]
  <2>1. DOMAIN streams' = Nodes /\ streams' = [n \in Nodes |-> streams'[n]]
    BY DEF Arrive
  <2> QED BY <2>1, <1>2
<1> QED BY <1>1, <1>2, <1>3 DEF TypeOK, SubsType

\* What is stored with an event can be stored.
LEMMA AfterStoringType ==
    ASSUME TypeOK, NEW n \in Nodes, NEW e \in Events, Storable(e),
           NEW t \in AfterStoring(n, e)
    PROVE  t \in SUBSET StorableEvents
<1> DEFINE offered == IF e.kind # "anchor" THEN {}
                      ELSE {u \in UNION {held[r] : r \in Relays} : u.kind = "update" /\ u.by = e.by}
<1>1. offered \subseteq StorableEvents
  BY DEF TypeOK, StorableEvents, Storable
<1>2. PICK fetched \in SUBSET offered : t = Newest(tables[n] \union {e} \union fetched)
  BY DEF AfterStoring
<1>3. tables[n] \subseteq StorableEvents /\ e \in StorableEvents
  BY DEF TypeOK, StorableEvents
<1> QED BY <1>1, <1>2, <1>3 DEF Newest

LEMMA PropagatedType ==
    ASSUME TypeOK, NEW n \in Nodes, NEW e \in Events, NEW t \in Propagated(n, e)
    PROVE  t \in SUBSET StorableEvents
<1>1. ASSUME NEW a \in UNION {held[r] : r \in Relays}, a.kind = "anchor"
      PROVE  Kept(tables[n], a) \in SUBSET StorableEvents
  BY <1>1 DEF TypeOK, StorableEvents, Storable, Kept, Newest
<1> DEFINE found == {a \in UNION {held[r] : r \in Relays} :
                        a.kind = "anchor" /\ a.addr = e.addr}
<1>2. t = tables[n] \/ t \in {Kept(tables[n], a) : a \in {b \in found : b.by = e.by}}
  BY DEF Propagated
<1>3. tables[n] \in SUBSET StorableEvents
  BY DEF TypeOK, StorableEvents
<1>4. ASSUME t \in {Kept(tables[n], a) : a \in {b \in found : b.by = e.by}}
      PROVE  t \in SUBSET StorableEvents
  <2>1. PICK a \in found : t = Kept(tables[n], a)
    BY <1>4
  <2> QED BY <1>1, <2>1
<1> QED BY <1>2, <1>3, <1>4

\* A goroutine of the node m more, in whichever slot, leaves the others alone.
LEMMA AddTask ==
    ASSUME TypeOK, NEW m \in Nodes, NEW j, NEW e \in Events,
           NEW base \in [Nodes -> [Slots -> Task \union {NoTask}]],
           tasks' = [base EXCEPT ![m][j] = NewTask(e)]
    PROVE  /\ tasks' \in [Nodes -> [Slots -> Task \union {NoTask}]]
           /\ \A n \in Nodes, k \in Slots : tasks'[n][k] \in {base[n][k], NewTask(e)}
<1>1. NewTask(e) \in Task
  BY DEF TypeOK, NewTask, Task
<1> QED BY <1>1

LEMMA SpawnType ==
    ASSUME TypeOK, NEW n \in Nodes, NEW e \in Events, Spawn(n, e)
    PROVE  /\ tasks' \in [Nodes -> [Slots -> Task \union {NoTask}]]
           /\ \A m \in Nodes, k \in Slots : tasks'[m][k] \in {tasks[m][k], NewTask(e)}
<1> DEFINE free == {k \in Slots : tasks[n][k] = NoTask}
           j == CHOOSE k \in free : \A l \in free : k <= l
<1>1. tasks' = [tasks EXCEPT ![n][j] = NewTask(e)]
  BY DEF Spawn, NewTask
<1>2. tasks \in [Nodes -> [Slots -> Task \union {NoTask}]]
  BY DEF TypeOK
<1> HIDE DEF j
<1> QED BY <1>1, <1>2, AddTask

\* A goroutine loses a destination.
LEMMA LeftType ==
    ASSUME TypeOK, NEW n \in Nodes, NEW k \in Slots, tasks[n][k] # NoTask, NEW x
    PROVE  LET mine == [tasks EXCEPT ![n][k].left = @ \ {x}] IN
           /\ mine \in [Nodes -> [Slots -> Task \union {NoTask}]]
           /\ \A m \in Nodes, j \in Slots :
                \/ mine[m][j] = tasks[m][j]
                \/ /\ m = n /\ j = k
                   /\ mine[m][j].at = tasks[m][j].at
                   /\ mine[m][j].event = tasks[m][j].event
                   /\ mine[m][j].since = tasks[m][j].since
<1> DEFINE mine == [tasks EXCEPT ![n][k].left = @ \ {x}]
           new == [tasks[n][k] EXCEPT !.left = @ \ {x}]
<1>1. tasks[n][k] \in Task
  BY DEF TypeOK
<1>2. /\ new \in Task /\ new.at = tasks[n][k].at
      /\ new.event = tasks[n][k].event /\ new.since = tasks[n][k].since
  BY <1>1 DEF Task
<1>3. mine = [tasks EXCEPT ![n] = [tasks[n] EXCEPT ![k] = new]]
  BY DEF TypeOK
<1> HIDE DEF new
<1> QED BY <1>2, <1>3 DEF TypeOK

-----------------------------------------------------------------------------
(* Types. *)

LEMMA InitType == Init => TypeOK
<1> SUFFICES ASSUME Init PROVE TypeOK
  OBVIOUS
<1>1. tables \in [Nodes -> SUBSET {e \in Events : Storable(e)}]
  BY NamesAssumption DEF Init, Storable
<1> QED BY <1>1, NumbersAssumption, NamesAssumption
       DEF Init, TypeOK, Times, NoTasks, Empty

LEMMA TickType == ASSUME TypeOK, Tick PROVE TypeOK'
<1>1. now' \in Times
  BY NumbersAssumption DEF Tick, TypeOK, Times
<1> QED BY <1>1 DEF Tick, TypeOK

LEMMA SubmitType ==
    ASSUME TypeOK, NEW n \in Nodes, NEW e \in Events, Submit(n, e)
    PROVE  TypeOK'
<1>1. tables' \in [Nodes -> SUBSET StorableEvents]
  <2>1. PICK t \in AfterStoring(n, e) : tables' = [tables EXCEPT ![n] = t]
    BY DEF Submit
  <2>2. t \in SUBSET StorableEvents
    BY <2>1, AfterStoringType DEF Submit
  <2>3. tables \in [Nodes -> SUBSET StorableEvents]
    BY DEF TypeOK, StorableEvents
  <2> QED BY <2>1, <2>2, <2>3
<1>2. tasks' \in [Nodes -> [Slots -> Task \union {NoTask}]]
  <2>1. UNCHANGED tasks \/ Spawn(n, e)
    BY DEF Submit
  <2> QED BY <2>1, SpawnType DEF TypeOK
<1> QED BY <1>1, <1>2 DEF Submit, TypeOK, StorableEvents

LEMMA PublishElsewhereType ==
    ASSUME TypeOK, NEW r \in Relays, NEW e \in Events, PublishElsewhere(r, e)
    PROVE  TypeOK'
<1>1. held' \in [Relays -> SUBSET Events] /\ SubsType'
  BY ArriveType DEF PublishElsewhere
<1> QED BY <1>1 DEF PublishElsewhere, TypeOK, SubsType

LEMMA RestartType == ASSUME TypeOK, NEW n \in Nodes, Restart(n) PROVE TypeOK'
<1>1. SubsType'
  BY DEF Restart, TypeOK, SubsType
<1>2. TasksType'
  BY DEF Restart, TypeOK, TasksType, NoTasks, Empty
<1>3. faults' \in 0..MaxFaults
  BY NumbersAssumption DEF Restart, TypeOK
<1> QED BY <1>1, <1>2, <1>3 DEF Restart, TypeOK, SubsType, TasksType

LEMMA BeginType ==
    ASSUME TypeOK, NEW n \in Nodes, NEW k \in Slots, Begin(n, k)
    PROVE  TypeOK'
<1> DEFINE e == tasks[n][k].event
<1>1. e \in Events
  BY DEF Begin, TypeOK, Task
<1>2. Destinations(n) \in SUBSET Targets
  BY NamesAssumption DEF Destinations, Targets
<1>3. TasksType'
  <2>1. CASE Remembered(n, e)
    <3>1. tasks' = [tasks EXCEPT ![n][k] = NoTask] /\ UNCHANGED <<cache, started>>
      BY <2>1 DEF Begin
    <3> QED BY <3>1 DEF TypeOK, TasksType
  <2>2. CASE ~Remembered(n, e)
    <3> DEFINE new == [event |-> e, at |-> "publish", since |-> 0, left |-> Destinations(n)]
               count == IF now < e.created \/ started[n][e] = 2 THEN started[n][e]
                        ELSE started[n][e] + 1
    <3>1. new \in Task
      BY <1>1, <1>2, NumbersAssumption DEF Task, Times
    <3>2. count \in 0..2
      BY <1>1 DEF TypeOK
    <3>3. /\ tasks' = [tasks EXCEPT ![n][k] = new]
          /\ cache' = [cache EXCEPT ![n][e] = now]
          /\ started' = [started EXCEPT ![n][e] = count]
      BY <2>2, <1>1 DEF Begin, TypeOK
    <3> HIDE DEF new, count, e
    <3> QED BY <3>1, <3>2, <3>3, <1>1 DEF TypeOK, TasksType
  <2> QED BY <2>1, <2>2
<1> QED BY <1>3 DEF Begin, TypeOK, TasksType

LEMMA EndTaskType ==
    ASSUME TypeOK, NEW n \in Nodes, NEW k \in Slots, EndTask(n, k)
    PROVE  TypeOK'
<1>1. TasksType'
  BY DEF EndTask, TypeOK, TasksType
<1> QED BY <1>1 DEF EndTask, TypeOK, TasksType

LEMMA PublishToRelayType ==
    ASSUME TypeOK, NEW n \in Nodes, NEW k \in Slots, NEW r \in Relays,
           PublishToRelay(n, k, r)
    PROVE  TypeOK'
<1>1. tasks[n][k].event \in Events
  BY DEF PublishToRelay, TypeOK, Task
<1>2. held' \in [Relays -> SUBSET Events] /\ SubsType'
  BY <1>1, ArriveType DEF PublishToRelay, TypeOK, SubsType
<1>3. tasks' \in [Nodes -> [Slots -> Task \union {NoTask}]]
  BY LeftType DEF PublishToRelay
<1> QED BY <1>2, <1>3 DEF PublishToRelay, TypeOK, SubsType

\* The tasks after another node took what this one published.
LEMMA PublishToNodeTasks ==
    ASSUME TypeOK, NEW n \in Nodes, NEW k \in Slots, NEW m \in Nodes,
           PublishToNode(n, k, m)
    PROVE  /\ tasks' \in [Nodes -> [Slots -> Task \union {NoTask}]]
           /\ tasks[n][k].event \in Events
           /\ \A o \in Nodes, j \in Slots :
                \/ tasks'[o][j] = tasks[o][j]
                \/ /\ o = n /\ j = k
                   /\ tasks'[o][j].at = tasks[o][j].at
                   /\ tasks'[o][j].event = tasks[o][j].event
                   /\ tasks'[o][j].since = tasks[o][j].since
                \/ /\ tasks'[o][j] = NewTask(tasks[n][k].event)
                   /\ Age(tasks[n][k].event) <= Freshness
<1> DEFINE e == tasks[n][k].event
           mine == [tasks EXCEPT ![n][k].left = @ \ {m}]
           free == {j \in Slots : tasks[m][j] = NoTask}
           slot == CHOOSE j \in free : \A l \in free : j <= l
<1>1. e \in Events /\ tasks[n][k] # NoTask
  BY DEF PublishToNode, TypeOK, Task
<1>2. /\ mine \in [Nodes -> [Slots -> Task \union {NoTask}]]
      /\ \A o \in Nodes, j \in Slots :
           \/ mine[o][j] = tasks[o][j]
           \/ /\ o = n /\ j = k
              /\ mine[o][j].at = tasks[o][j].at
              /\ mine[o][j].event = tasks[o][j].event
              /\ mine[o][j].since = tasks[o][j].since
  BY <1>1, LeftType
<1>3. \/ tasks' = mine
      \/ tasks' = [mine EXCEPT ![m][slot] = NewTask(e)] /\ ~(Age(e) > Freshness)
  BY DEF PublishToNode, NewTask
<1> HIDE DEF mine, slot, e
<1>4. CASE tasks' = mine
  BY <1>1, <1>2, <1>4 DEF e
<1>5. CASE tasks' = [mine EXCEPT ![m][slot] = NewTask(e)] /\ ~(Age(e) > Freshness)
  <2>1. /\ tasks' \in [Nodes -> [Slots -> Task \union {NoTask}]]
        /\ \A o \in Nodes, j \in Slots : tasks'[o][j] \in {mine[o][j], NewTask(e)}
    BY <1>1, <1>2, <1>5, AddTask
  <2>2. Age(e) <= Freshness
    BY <1>1, <1>5, NumbersAssumption, NamesAssumption DEF Age, TypeOK, Times
  <2> QED BY <1>1, <1>2, <2>1, <2>2 DEF e
<1> QED BY <1>3, <1>4, <1>5

LEMMA PublishToNodeType ==
    ASSUME TypeOK, NEW n \in Nodes, NEW k \in Slots, NEW m \in Nodes,
           PublishToNode(n, k, m)
    PROVE  TypeOK'
<1> DEFINE e == tasks[n][k].event
<1>1. e \in Events /\ tasks' \in [Nodes -> [Slots -> Task \union {NoTask}]]
  BY PublishToNodeTasks
<1>2. tables' \in [Nodes -> SUBSET StorableEvents]
  <2>1. tables \in [Nodes -> SUBSET StorableEvents]
    BY DEF TypeOK, StorableEvents
  <2>2. \/ UNCHANGED tables
        \/ Storable(e) /\ \E t \in AfterStoring(m, e) : tables' = [tables EXCEPT ![m] = t]
    BY DEF PublishToNode
  <2> QED BY <1>1, <2>1, <2>2, AfterStoringType
<1> QED BY <1>1, <1>2 DEF PublishToNode, TypeOK, StorableEvents

LEMMA SubscribeType ==
    ASSUME TypeOK, NEW n \in Nodes, NEW r \in Relays, Subscribe(n, r)
    PROVE  TypeOK'
<1>1. Filters(n) \in SUBSET Events /\ Filters(n) # NoSub
  BY NamesAssumption DEF Filters
<1>2. SubsType'
  BY <1>1 DEF Subscribe, TypeOK, SubsType
<1> QED BY <1>2 DEF Subscribe, TypeOK, SubsType

LEMMA DisconnectType ==
    ASSUME TypeOK, NEW n \in Nodes, NEW r \in Relays, Disconnect(n, r)
    PROVE  TypeOK'
<1>1. SubsType'
  BY DEF Disconnect, TypeOK, SubsType
<1>2. faults' \in 0..MaxFaults
  BY NumbersAssumption DEF Disconnect, TypeOK
<1> QED BY <1>1, <1>2 DEF Disconnect, TypeOK, SubsType

LEMMA HandleEventUpdateType ==
    ASSUME TypeOK, NEW n \in Nodes, NEW r \in Relays, NEW e \in Events,
           HandleEventUpdate(n, r, e)
    PROVE  TypeOK'
<1>1. SubsType'
  BY DEF HandleEventUpdate, TypeOK, SubsType
<1>2. tables' \in [Nodes -> SUBSET StorableEvents]
  <2>1. tables \in [Nodes -> SUBSET StorableEvents]
    BY DEF TypeOK, StorableEvents
  <2>2. \/ UNCHANGED tables
        \/ \E t \in Propagated(n, e) : tables' = [tables EXCEPT ![n] = t]
        \/ Storable(e) /\ \E t \in AfterStoring(n, e) : tables' = [tables EXCEPT ![n] = t]
    BY DEF HandleEventUpdate
  <2> QED BY <2>1, <2>2, PropagatedType, AfterStoringType
<1>3. tasks' \in [Nodes -> [Slots -> Task \union {NoTask}]]
  <2>1. UNCHANGED tasks \/ Spawn(n, e)
    BY DEF HandleEventUpdate
  <2> QED BY <2>1, SpawnType DEF TypeOK
<1> QED BY <1>1, <1>2, <1>3 DEF HandleEventUpdate, TypeOK, SubsType, StorableEvents

LEMMA TypeStep == TypeOK /\ [Next]_vars => TypeOK'
<1> SUFFICES ASSUME TypeOK, [Next]_vars PROVE TypeOK'
  OBVIOUS
<1>1. CASE UNCHANGED vars
  BY <1>1 DEF vars, TypeOK
<1>2. CASE Tick
  BY <1>2, TickType
<1>3. ASSUME NEW n \in Nodes, NEW e \in Events, Submit(n, e) PROVE TypeOK'
  BY <1>3, SubmitType
<1>4. ASSUME NEW r \in Relays, NEW e \in Events, PublishElsewhere(r, e) PROVE TypeOK'
  BY <1>4, PublishElsewhereType
<1>5. ASSUME NEW n \in Nodes, Restart(n) PROVE TypeOK'
  BY <1>5, RestartType
<1>6. ASSUME NEW n \in Nodes, NEW k \in Slots, TaskStep(n, k) PROVE TypeOK'
  BY <1>6, BeginType, EndTaskType, PublishToRelayType, PublishToNodeType DEF TaskStep
<1>7. ASSUME NEW n \in Nodes, NEW r \in Relays, SubscriptionStep(n, r) \/ Disconnect(n, r)
      PROVE  TypeOK'
  BY <1>7, SubscribeType, HandleEventUpdateType, DisconnectType DEF SubscriptionStep
<1> QED BY <1>1, <1>2, <1>3, <1>4, <1>5, <1>6, <1>7 DEF Next

\* Every variable keeps its type: goroutines have an event and known destinations, and
\* nothing is on the way to a node that has no subscription there.
THEOREM TypeCorrect == Spec => []TypeOK
<1>1. Init => TypeOK
  BY InitType
<1>2. TypeOK /\ [Next]_vars => TypeOK'
  BY TypeStep
<1> QED BY <1>1, <1>2, PTL DEF Spec

-----------------------------------------------------------------------------
(* Each event is published once.                                           *)
(*                                                                         *)
(* A goroutine that is about to start was spawned while its event was      *)
(* fresh, at most MaxDelay ago.  Where an event was published already, the *)
(* entry in the cache is no older than the event, or has expired: then the *)
(* event is older than CacheTTL, and no goroutine for it is about to start.*)

\* The event was fresh when this goroutine was spawned.
Timely(t) ==
    t # NoTask /\ t.at = "new" =>
        t.since <= now /\ now - t.since <= MaxDelay /\ t.since - t.event.created <= Freshness

\* Its entry is there, or the event is too old to be published.
Covered(n, e) ==
    /\ e.created <= now
    /\ \/ cache[n][e] # Never /\ cache[n][e] >= e.created
       \/ now - e.created > CacheTTL

TasksTimely == \A n \in Nodes, k \in Slots : Timely(tasks[n][k])
StartedCovered == \A n \in Nodes, e \in Events : started[n][e] >= 1 => Covered(n, e)

OnceInv == TasksTimely /\ StartedCovered /\ PublishedOnce

LEMMA Numbers ==
    ASSUME TypeOK
    PROVE  /\ now \in Nat
           /\ \A n \in Nodes, e \in Events :
                /\ cache[n][e] \in Nat \union {Never} /\ started[n][e] \in 0..2
                /\ e.created \in Int
           /\ \A n \in Nodes, k \in Slots : tasks[n][k] # NoTask =>
                /\ tasks[n][k].since \in Nat /\ tasks[n][k].event \in Events
                /\ tasks[n][k].event.created \in Int
<1>1. Times \subseteq Nat
  BY DEF Times
<1>2. \A e \in Events : e.created \in Int
  BY NamesAssumption
<1>3. ASSUME NEW n \in Nodes, NEW k \in Slots, tasks[n][k] # NoTask
      PROVE  tasks[n][k].since \in Nat /\ tasks[n][k].event \in Events
  <2>1. tasks[n][k] \in Task
    BY <1>3 DEF TypeOK
  <2> QED BY <1>1, <2>1 DEF Task
<1>4. ASSUME NEW n \in Nodes, NEW e \in Events
      PROVE  cache[n][e] \in Nat \union {Never} /\ started[n][e] \in 0..2
  <2>1. cache[n] \in [Events -> Times \union {Never}] /\ started[n] \in [Events -> 0..2]
    BY DEF TypeOK
  <2> QED BY <1>1, <2>1
<1>5. now \in Nat
  BY <1>1 DEF TypeOK
<1>6. \A n \in Nodes, k \in Slots : tasks[n][k] # NoTask =>
        tasks[n][k].event.created \in Int
  BY <1>2, <1>3
<1> QED BY <1>2, <1>3, <1>4, <1>5, <1>6

\* A goroutine that is spawned for an event that is fresh is timely.
LEMMA NewIsTimely ==
    ASSUME TypeOK, NEW e \in Events, Age(e) <= Freshness
    PROVE  now - now <= MaxDelay /\ now <= now /\ now - e.created <= Freshness
BY Numbers, NumbersAssumption, NamesAssumption DEF Age

\* Steps that only add timely goroutines, or change what the invariant does not mention.
LEMMA OnceKept ==
    ASSUME TypeOK, OnceInv, UNCHANGED <<now, cache, started>>,
           \A n \in Nodes, k \in Slots :
               \/ tasks'[n][k] = tasks[n][k]
               \/ tasks[n][k] # NoTask /\ tasks'[n][k].at = tasks[n][k].at
                    /\ tasks'[n][k].event = tasks[n][k].event
                    /\ tasks'[n][k].since = tasks[n][k].since
               \/ \E e \in Events : tasks'[n][k] = NewTask(e) /\ Age(e) <= Freshness
    PROVE  OnceInv'
<1>1. TasksTimely'
  <2> SUFFICES ASSUME NEW n \in Nodes, NEW k \in Slots PROVE Timely(tasks[n][k])'
    BY DEF TasksTimely
  <2>1. Timely(tasks[n][k])
    BY DEF OnceInv, TasksTimely
  <2>2. CASE tasks'[n][k] = tasks[n][k]
    BY <2>1, <2>2 DEF Timely
  <2>3. CASE tasks[n][k] # NoTask /\ tasks'[n][k].at = tasks[n][k].at
               /\ tasks'[n][k].event = tasks[n][k].event
               /\ tasks'[n][k].since = tasks[n][k].since
    BY <2>1, <2>3 DEF Timely
  <2>4. ASSUME NEW e \in Events, tasks'[n][k] = NewTask(e), Age(e) <= Freshness
        PROVE  Timely(tasks[n][k])'
    BY <2>4, NewIsTimely DEF Timely, NewTask
  <2> QED BY <2>2, <2>3, <2>4
<1>2. StartedCovered'
  BY DEF OnceInv, StartedCovered, Covered
<1> QED BY <1>1, <1>2 DEF OnceInv, PublishedOnce

\* The guard of both spawning steps.
LEMMA FreshSpawn ==
    ASSUME TypeOK, NEW e \in Events, ~(Age(e) > Freshness) \/ ~(Age(e) >= Freshness)
    PROVE  Age(e) <= Freshness
BY Numbers, NumbersAssumption, NamesAssumption DEF Age

LEMMA SpawnOnce ==
    ASSUME TypeOK, OnceInv, NEW n \in Nodes, NEW e \in Events, UNCHANGED <<now, cache, started>>,
           UNCHANGED tasks \/ (Spawn(n, e) /\ Age(e) <= Freshness)
    PROVE  OnceInv'
<1>1. CASE UNCHANGED tasks
  BY <1>1, OnceKept
<1>2. CASE Spawn(n, e) /\ Age(e) <= Freshness
  BY <1>2, SpawnType, OnceKept
<1> QED BY <1>1, <1>2

LEMMA TickOnce == ASSUME TypeOK, OnceInv, Tick PROVE OnceInv'
<1> USE NumbersAssumption
<1>1. now \in Nat /\ now' = now + 1
  BY Numbers DEF Tick
<1>2. ASSUME NEW n \in Nodes, NEW k \in Slots PROVE Timely(tasks[n][k])'
  <2> DEFINE t == tasks[n][k]
  <2> SUFFICES ASSUME t # NoTask, t.at = "new"
               PROVE  /\ t.since <= now' /\ now' - t.since <= MaxDelay
                      /\ t.since - t.event.created <= Freshness
    BY DEF Timely, Tick
  <2>1. /\ t.since <= now /\ t.since - t.event.created <= Freshness
        /\ now - t.since < MaxDelay
    BY DEF OnceInv, TasksTimely, Timely, Tick
  <2>2. t.since \in Nat
    BY Numbers
  <2> QED BY <1>1, <2>1, <2>2
<1>3. ASSUME NEW n \in Nodes, NEW e \in Events, started'[n][e] >= 1 PROVE Covered(n, e)'
  <2>1. Covered(n, e) /\ e.created \in Int
    BY <1>3, Numbers DEF Tick, OnceInv, StartedCovered
  <2> QED BY <1>1, <2>1 DEF Covered, Tick
<1>4. PublishedOnce'
  BY DEF OnceInv, PublishedOnce, Tick
<1> QED BY <1>2, <1>3, <1>4 DEF OnceInv, TasksTimely, StartedCovered

LEMMA BeginOnce ==
    ASSUME TypeOK, OnceInv, NEW n \in Nodes, NEW k \in Slots, Begin(n, k)
    PROVE  OnceInv'
<1> USE NumbersAssumption
<1> DEFINE e == tasks[n][k].event
<1>1. /\ tasks[n][k] # NoTask /\ tasks[n][k].at = "new" /\ now \in Nat
      /\ e \in Events /\ e.created \in Int /\ UNCHANGED now
  BY Numbers DEF Begin
<1>2. now - e.created <= Freshness + MaxDelay
  <2>1. /\ tasks[n][k].since \in Nat
        /\ now - tasks[n][k].since <= MaxDelay
        /\ tasks[n][k].since - e.created <= Freshness
    BY <1>1, Numbers DEF OnceInv, TasksTimely, Timely
  <2> QED BY <1>1, <2>1
<1>3. CASE Remembered(n, e)
  <2>1. tasks' = [tasks EXCEPT ![n][k] = NoTask] /\ UNCHANGED <<cache, started>>
    BY <1>3 DEF Begin
  <2>2. TasksTimely'
    BY <1>1, <2>1 DEF TypeOK, OnceInv, TasksTimely, Timely
  <2>3. StartedCovered' /\ PublishedOnce'
    BY <1>1, <2>1 DEF OnceInv, StartedCovered, Covered, PublishedOnce
  <2> QED BY <2>2, <2>3 DEF OnceInv
<1>4. CASE ~Remembered(n, e)
  <2> DEFINE new == [event |-> e, at |-> "publish", since |-> 0, left |-> Destinations(n)]
             count == IF now < e.created \/ started[n][e] = 2 THEN started[n][e]
                      ELSE started[n][e] + 1
  <2>1. /\ tasks' = [tasks EXCEPT ![n][k] = new]
        /\ cache' = [cache EXCEPT ![n][e] = now]
        /\ started' = [started EXCEPT ![n][e] = count]
    BY <1>1, <1>4 DEF Begin, TypeOK
  <2>2. new.at = "publish"
    OBVIOUS
  <2>3. started[n][e] = 0
    <3>1. started[n][e] \in 0..2 /\ cache[n][e] \in Nat \union {Never}
      BY <1>1, Numbers
    <3>2. ASSUME started[n][e] >= 1 PROVE FALSE
      <4>1. Covered(n, e)
        BY <1>1, <3>2 DEF OnceInv, StartedCovered
      <4>2. cache[n][e] # Never /\ cache[n][e] >= e.created
        BY <1>1, <1>2, <4>1 DEF Covered
      <4> QED BY <1>1, <1>2, <1>4, <3>1, <4>2 DEF Remembered
    <3> QED BY <3>1, <3>2
  <2>4. count \in 0..1 /\ (count >= 1 => e.created <= now)
    BY <1>1, <2>3
  <2> HIDE DEF new, count, e
  <2>5. TasksTimely'
    <3>1. ASSUME NEW m \in Nodes, NEW j \in Slots
          PROVE  tasks'[m][j] \in {tasks[m][j], new}
      BY <2>1 DEF TypeOK
    <3> QED BY <1>1, <2>2, <3>1 DEF OnceInv, TasksTimely, Timely
  <2>6. ASSUME NEW m \in Nodes, NEW f \in Events, started'[m][f] >= 1
        PROVE  Covered(m, f)' /\ started'[m][f] <= 1
    <3>1. CASE m = n /\ f = e
      <4>1. cache'[m][f] = now /\ started'[m][f] = count
        BY <2>1, <3>1, <1>1 DEF TypeOK
      <4> QED BY <1>1, <2>4, <2>6, <3>1, <4>1, NamesAssumption DEF Covered
    <3>2. CASE ~(m = n /\ f = e)
      <4>1. cache'[m][f] = cache[m][f] /\ started'[m][f] = started[m][f]
        BY <2>1, <3>2, <1>1 DEF TypeOK
      <4> QED BY <1>1, <2>6, <4>1 DEF OnceInv, StartedCovered, Covered, PublishedOnce
    <3> QED BY <3>1, <3>2
  <2>7. StartedCovered'
    BY <2>6 DEF StartedCovered
  <2>8. PublishedOnce'
    <3> SUFFICES ASSUME NEW m \in Nodes, NEW f \in Events PROVE started'[m][f] <= 1
      BY DEF PublishedOnce
    <3>1. started'[m][f] \in 0..2
      BY BeginType, Numbers DEF TypeOK
    <3> QED BY <2>6, <3>1
  <2> QED BY <2>5, <2>7, <2>8 DEF OnceInv
<1> QED BY <1>3, <1>4

LEMMA EndTaskOnce ==
    ASSUME TypeOK, OnceInv, NEW n \in Nodes, NEW k \in Slots, EndTask(n, k)
    PROVE  OnceInv'
<1>1. now \in Nat /\ UNCHANGED <<now, started>> /\ tasks' = [tasks EXCEPT ![n][k] = NoTask]
  BY Numbers DEF EndTask
<1>2. TasksTimely'
  BY <1>1 DEF TypeOK, OnceInv, TasksTimely, Timely
<1>3. ASSUME NEW m \in Nodes, NEW e \in Events, started'[m][e] >= 1 PROVE Covered(m, e)'
  <2>1. Covered(m, e) /\ e.created \in Int /\ cache[m][e] \in Nat \union {Never}
    BY <1>1, <1>3, Numbers DEF OnceInv, StartedCovered
  <2>2. \/ cache'[m][e] = cache[m][e]
        \/ cache[m][e] # Never /\ now - cache[m][e] > CacheTTL
    BY DEF EndTask, TypeOK
  <2> QED BY <1>1, <2>1, <2>2, NumbersAssumption DEF Covered
<1>4. StartedCovered' /\ PublishedOnce'
  BY <1>1, <1>3 DEF StartedCovered, OnceInv, PublishedOnce
<1> QED BY <1>2, <1>4 DEF OnceInv

LEMMA RestartOnce == ASSUME TypeOK, OnceInv, NEW n \in Nodes, Restart(n) PROVE OnceInv'
<1>1. UNCHANGED now /\ cache' = [cache EXCEPT ![n] = Empty]
      /\ tasks' = [tasks EXCEPT ![n] = NoTasks]
      /\ started' = [started EXCEPT ![n] = [e \in Events |-> 0]]
  BY DEF Restart
<1>2. TasksTimely'
  BY <1>1 DEF TypeOK, NoTasks, OnceInv, TasksTimely, Timely
<1>3. StartedCovered' /\ PublishedOnce'
  <2> SUFFICES ASSUME NEW m \in Nodes, NEW e \in Events
               PROVE  /\ started'[m][e] >= 1 => Covered(m, e)'
                      /\ started'[m][e] <= 1
    BY DEF StartedCovered, PublishedOnce
  <2>1. CASE m = n
    BY <1>1, <2>1 DEF TypeOK
  <2>2. CASE m # n
    BY <1>1, <2>2 DEF TypeOK, OnceInv, StartedCovered, Covered, PublishedOnce
  <2> QED BY <2>1, <2>2
<1> QED BY <1>2, <1>3 DEF OnceInv

LEMMA OnceStep == TypeOK /\ OnceInv /\ [Next]_vars => OnceInv'
<1> SUFFICES ASSUME TypeOK, OnceInv, [Next]_vars PROVE OnceInv'
  OBVIOUS
<1>1. CASE UNCHANGED vars
  BY <1>1, OnceKept DEF vars
<1>2. CASE Tick
  BY <1>2, TickOnce
<1>3. ASSUME NEW n \in Nodes, NEW e \in Events, Submit(n, e) PROVE OnceInv'
  BY <1>3, SpawnOnce, FreshSpawn DEF Submit
<1>4. ASSUME NEW r \in Relays, NEW e \in Events, PublishElsewhere(r, e) PROVE OnceInv'
  BY <1>4, OnceKept DEF PublishElsewhere
<1>5. ASSUME NEW n \in Nodes, Restart(n) PROVE OnceInv'
  BY <1>5, RestartOnce
<1>6. ASSUME NEW n \in Nodes, NEW k \in Slots, TaskStep(n, k) PROVE OnceInv'
  <2>1. ASSUME NEW r \in Relays, PublishToRelay(n, k, r) PROVE OnceInv'
    <3>1. /\ tasks' = [tasks EXCEPT ![n][k].left = @ \ {r}] /\ tasks[n][k] # NoTask
          /\ UNCHANGED <<now, cache, started>>
      BY <2>1 DEF PublishToRelay
    <3>2. \A m \in Nodes, j \in Slots :
            \/ tasks'[m][j] = tasks[m][j]
            \/ /\ m = n /\ j = k
               /\ tasks'[m][j].at = tasks[m][j].at
               /\ tasks'[m][j].event = tasks[m][j].event
               /\ tasks'[m][j].since = tasks[m][j].since
      BY <3>1, LeftType
    <3> QED BY <3>1, <3>2, OnceKept
  <2>2. ASSUME NEW m \in Nodes, PublishToNode(n, k, m) PROVE OnceInv'
    <3>1. UNCHANGED <<now, cache, started>> /\ tasks[n][k] # NoTask
      BY <2>2 DEF PublishToNode
    <3> QED BY <2>2, <3>1, PublishToNodeTasks, OnceKept
  <2> QED BY <1>6, <2>1, <2>2, BeginOnce, EndTaskOnce DEF TaskStep
<1>7. ASSUME NEW n \in Nodes, NEW r \in Relays, SubscriptionStep(n, r) \/ Disconnect(n, r)
      PROVE  OnceInv'
  <2>1. ASSUME NEW e \in Events, HandleEventUpdate(n, r, e) PROVE OnceInv'
    BY <2>1, SpawnOnce, FreshSpawn DEF HandleEventUpdate
  <2>2. CASE Subscribe(n, r) \/ Disconnect(n, r)
    BY <2>2, OnceKept DEF Subscribe, Disconnect
  <2> QED BY <1>7, <2>1, <2>2 DEF SubscriptionStep
<1> QED BY <1>1, <1>2, <1>3, <1>4, <1>5, <1>6, <1>7 DEF Next

LEMMA InitOnce == Init => OnceInv
BY DEF Init, NoTasks, OnceInv, TasksTimely, Timely, StartedCovered, PublishedOnce

\* A node publishes each event at most once until it restarts: for any number of nodes and
\* relays that pass it on in circles, as long as goroutines start soon enough for the
\* cache to remember what was fresh.
THEOREM EachEventOnce == Spec => []PublishedOnce
<1>1. Init => TypeOK /\ OnceInv
  BY InitType, InitOnce
<1>2. TypeOK /\ OnceInv /\ [Next]_vars => TypeOK' /\ OnceInv'
  BY TypeStep, OnceStep
<1>3. OnceInv => PublishedOnce
  BY DEF OnceInv
<1> QED BY <1>1, <1>2, <1>3, PTL DEF Spec
=============================================================================
