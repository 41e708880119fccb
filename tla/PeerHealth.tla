------------------------------ MODULE PeerHealth ------------------------------
(***************************************************************************)
(* The table peer_nodes: how other nodes get into it and out of it, and    *)
(* discovered_relays (handleNodeDiscoveryEvent and runPeerHealthChecks of  *)
(* internal/sync/syncer.go, queries of internal/database/queries.go).      *)
(*                                                                         *)
(* A discovery event (kind 64600) lists addresses.  Each one that is not   *)
(* in the table is asked for its identity, which takes up to Attempts      *)
(* tries, then for a transaction we know (the spot check, tried once), and *)
(* is stored if both answers fit.  The subscriptions and an HTTP handler   *)
(* work on such events at the same time.  Every six hours the health check *)
(* reads the table, goes through the same two questions for each address,  *)
(* counts the failures and at the end of the round deletes the addresses   *)
(* with MaxFails of them.  Nothing is locked while a question is answered. *)
(***************************************************************************)
EXTENDS Naturals, Sequences, FiniteSets, SequencesExt

CONSTANTS
    Discoverers,       \* goroutines that handle a discovery event
    HealthCheck,       \* the goroutine of the health checks
    Addresses, Own,    \* those of other nodes; those this node announces itself
    Keys,              \* identities: what node_npub, node_pubkey, admin_pubkey say
    Urls, Configured,  \* relays that events name; those of our configuration
    Announcements,     \* the contents of the events: addresses and relays
    Requested,         \* the sets of relays that API clients add
    NoRow, NoKey,
    MaxFails, Attempts,    \* 4 and 3
    MaxFaults          \* bound on failed SQL statements

ASSUME NamesAssumption ==
    /\ HealthCheck \notin Discoverers
    /\ Own \intersect Addresses = {} /\ IsFiniteSet(Addresses)
    /\ Configured \subseteq Urls /\ Requested \subseteq SUBSET Urls
    /\ Announcements \subseteq [addresses : SUBSET (Addresses \union Own), urls : SUBSET Urls]
    /\ NoKey \notin Keys /\ NoRow # "peer" /\ NoRow \notin [key : Keys, fails : Nat]

ASSUME NumbersAssumption ==
    MaxFails \in Nat \ {0} /\ Attempts \in Nat \ {0} /\ MaxFaults \in Nat

VARIABLES
    peers,       \* address |-> its row in peer_nodes
    relays,      \* url |-> the source of its row in discovered_relays
    serves,      \* address |-> what answers there
    visits,      \* goroutine |-> where it is, and its variables
    streak,      \* history: an address's failed health checks since a success, counted up
                 \* to MaxFails, of those whose result was written
    shown,       \* history: the identities an address has answered with
    faults       \* number of faults so far

vars == <<peers, relays, serves, visits, streak, shown, faults>>

-----------------------------------------------------------------------------

Actors == Discoverers \union {HealthCheck}

\* Nothing answers; a node of another chain, or with other data; one of ours.
Answers == {"down", "foreign"} \union Keys

NoVisit == [at |-> "idle", todo |-> <<>>, urls |-> {}, tries |-> 0, key |-> NoKey]

Present == {a \in Addresses : peers[a] # NoRow}
At(x, place) == visits[x].at = place
Address(x) == Head(visits[x].todo)

TypeOK ==
    /\ \A a \in Addresses :
        \/ peers[a] = NoRow
        \/ peers[a] \in [key : Keys, fails : 0..(MaxFails + MaxFaults)]
    /\ relays \in [Urls -> {"peer", "nip65", NoRow}]
    /\ \A u \in Configured : relays[u] # "peer"
    /\ serves \in [Addresses -> Answers]
    /\ \A x \in Actors :
        /\ visits[x].at \in {"idle", "next", "identity", "spotCheck", "save"}
        /\ At(x, "identity") \/ At(x, "spotCheck") \/ At(x, "save") =>
            visits[x].todo # <<>> /\ visits[x].tries \in 1..Attempts
        /\ visits[x].key \in Keys \union {NoKey}
        /\ At(x, "spotCheck") => visits[x].key \in Keys
    /\ streak \in [Addresses -> 0..MaxFails]
    /\ shown \in [Addresses -> SUBSET Keys]
    /\ faults \in 0..MaxFaults

Init ==
    /\ peers = [a \in Addresses |-> NoRow]
    /\ relays = [u \in Urls |-> NoRow]
    /\ serves \in [Addresses -> Answers]
    /\ visits = [x \in Actors |-> NoVisit]
    /\ streak = [a \in Addresses |-> 0]
    /\ shown = [a \in Addresses |-> {}]
    /\ faults = 0

-----------------------------------------------------------------------------
(* What answers at an address changes. *)

Change(a, answer) ==
    /\ serves[a] # answer
    /\ serves' = [serves EXCEPT ![a] = answer]
    /\ UNCHANGED <<peers, relays, visits, streak, shown, faults>>

-----------------------------------------------------------------------------
(* Which addresses are visited. *)

\* A discovery event with at least one address; our own are passed over.
HandleDiscovery(d, content) ==
    /\ At(d, "idle")
    /\ content.addresses # {}
    /\ \E list \in SetToSeqs(content.addresses \ Own) :
        visits' = [visits EXCEPT ![d] =
                    [NoVisit EXCEPT !.at = "next", !.todo = list, !.urls = content.urls]]
    /\ UNCHANGED <<peers, relays, serves, streak, shown, faults>>

\* GetAllPeerAddresses; with no peers the round is over.
StartRound ==
    /\ At(HealthCheck, "idle")
    /\ Present # {}
    /\ \E list \in SetToSeqs(Present) :
        visits' = [visits EXCEPT ![HealthCheck] = [NoVisit EXCEPT !.at = "next", !.todo = list]]
    /\ UNCHANGED <<peers, relays, serves, streak, shown, faults>>

Skip(x) ==
    visits' = [visits EXCEPT ![x].at = "next", ![x].todo = Tail(@), ![x].tries = 0,
                             ![x].key = NoKey]

Ask(x) == visits' = [visits EXCEPT ![x].at = "identity", ![x].tries = 1]

\* PeerAddressExists for a discovered address.
NextAddress(x) ==
    /\ At(x, "next") /\ visits[x].todo # <<>>
    /\ IF x \in Discoverers /\ Address(x) \in Present THEN Skip(x) ELSE Ask(x)
    /\ UNCHANGED <<peers, relays, serves, streak, shown, faults>>

-----------------------------------------------------------------------------
(* verifyNodeEndpoint and spotCheckPeerData. *)

Verified(x) == visits[x].key # NoKey

Unverified(x) == visits' = [visits EXCEPT ![x].at = "save", ![x].key = NoKey]

\* No answer: tried again, Attempts times in all.  A wrong chain: given up at once.
AskIdentity(x) ==
    LET answer == serves[Address(x)] IN
    /\ At(x, "identity")
    /\ CASE answer \in Keys ->
                visits' = [visits EXCEPT ![x].at = "spotCheck", ![x].key = answer]
         [] answer = "down" /\ visits[x].tries < Attempts ->
                visits' = [visits EXCEPT ![x].tries = @ + 1]
         [] OTHER -> Unverified(x)
    /\ UNCHANGED <<peers, relays, serves, streak, shown, faults>>

\* Mutant: an answer that does not fit is only logged.
SpotCheckLenient(x) ==
    /\ At(x, "spotCheck")
    /\ visits' = [visits EXCEPT ![x].at = "save"]
    /\ shown' = IF serves[Address(x)] \in Keys
                THEN [shown EXCEPT ![Address(x)] = @ \union {visits[x].key}] ELSE shown
    /\ UNCHANGED <<peers, relays, serves, streak, faults>>

\* One question that is not repeated.  (A node that is still syncing, or we without
\* any transaction: passed.)
SpotCheck(x) ==
    /\ At(x, "spotCheck")
    /\ IF serves[Address(x)] \in Keys
       THEN /\ visits' = [visits EXCEPT ![x].at = "save"]
            /\ shown' = [shown EXCEPT ![Address(x)] = @ \union {visits[x].key}]
       ELSE Unverified(x) /\ UNCHANGED shown
    /\ UNCHANGED <<peers, relays, serves, streak, faults>>

-----------------------------------------------------------------------------
(* What becomes of the answer. *)

\* INSERT OR REPLACE: whatever row there is by now starts again with no failures.
StorePeerNode(a, key) == peers' = [peers EXCEPT ![a] = [key |-> key, fails |-> 0]]

SaveDiscovered(d) ==
    /\ At(d, "save") /\ d \in Discoverers
    /\ IF Verified(d) THEN StorePeerNode(Address(d), visits[d].key) ELSE UNCHANGED peers
    /\ Skip(d)
    /\ UNCHANGED <<relays, serves, streak, shown, faults>>

\* fail_count + 1.  A count above MaxFails comes only of DELETEs that failed, and is
\* not told apart beyond their number.
OneMore(fails) == IF fails = MaxFails + MaxFaults THEN fails ELSE fails + 1

\* Mutant: a success leaves the count as it is.
UpdateKeepingFails(a, key) ==
    peers' = [peers EXCEPT ![a].key = IF key = NoKey THEN @ ELSE key,
                           ![a].fails = IF key = NoKey THEN OneMore(@) ELSE @]

\* UPDATE of a row that is there.
UpdatePeerHealthCheck(a, key) ==
    peers' = [peers EXCEPT ![a].key = IF key = NoKey THEN @ ELSE key,
                           ![a].fails = IF key = NoKey THEN OneMore(@) ELSE 0]

Count(a, verified) ==
    streak' = [streak EXCEPT ![a] = IF verified THEN 0 ELSE IF @ = MaxFails THEN @ ELSE @ + 1]

SaveHealth ==
    LET a == Address(HealthCheck) IN
    /\ At(HealthCheck, "save")
    /\ UpdatePeerHealthCheck(a, visits[HealthCheck].key)
    /\ Count(a, Verified(HealthCheck))
    /\ Skip(HealthCheck)
    /\ UNCHANGED <<relays, serves, shown, faults>>

\* In one SQL transaction; a row that is there keeps its source.
StoreDiscoveredRelays(urls, source) ==
    relays' = [u \in Urls |-> IF u \in urls /\ relays[u] = NoRow THEN source ELSE relays[u]]

\* handleAddDiscoveredRelays: what the operator's client found elsewhere.
AddDiscoveredRelays(urls) ==
    /\ urls # {}
    /\ StoreDiscoveredRelays(urls, "nip65")
    /\ UNCHANGED <<peers, serves, visits, streak, shown, faults>>

\* Mutant: the configured relays are stored with the others.
EndDiscoveryStoringAll(d) ==
    /\ At(d, "next") /\ visits[d].todo = <<>> /\ d \in Discoverers
    /\ StoreDiscoveredRelays(visits[d].urls, "peer")
    /\ visits' = [visits EXCEPT ![d] = NoVisit]
    /\ UNCHANGED <<peers, serves, streak, shown, faults>>

\* The event's relays are stored after its addresses.
EndDiscovery(d) ==
    /\ At(d, "next") /\ visits[d].todo = <<>> /\ d \in Discoverers
    /\ StoreDiscoveredRelays(visits[d].urls \ Configured, "peer")
    /\ visits' = [visits EXCEPT ![d] = NoVisit]
    /\ UNCHANGED <<peers, serves, streak, shown, faults>>

\* Mutant: fail_count = 4.
DeadExactly == {a \in Present : peers[a].fails = MaxFails}

Dead == {a \in Present : peers[a].fails >= MaxFails}

\* RemoveDeadPeers ends the round.
EndRound ==
    /\ At(HealthCheck, "next") /\ visits[HealthCheck].todo = <<>>
    /\ peers' = [a \in Addresses |-> IF a \in Dead THEN NoRow ELSE peers[a]]
    /\ streak' = [a \in Addresses |-> IF a \in Dead THEN 0 ELSE streak[a]]
    /\ visits' = [visits EXCEPT ![HealthCheck] = NoVisit]
    /\ UNCHANGED <<relays, serves, shown, faults>>

-----------------------------------------------------------------------------
(* SQL statements that fail are logged and passed over. *)

FailedStatement(x) ==
    /\ faults < MaxFaults
    /\ faults' = faults + 1
    /\ \/ At(x, "next") /\ visits[x].todo # <<>> /\ x \in Discoverers /\ Skip(x)
       \/ At(x, "save") /\ Skip(x)
       \/ At(x, "next") /\ visits[x].todo = <<>> /\ visits' = [visits EXCEPT ![x] = NoVisit]
    /\ UNCHANGED <<peers, relays, serves, streak, shown>>

-----------------------------------------------------------------------------

VisitStep(x) ==
    \/ NextAddress(x)
    \/ AskIdentity(x)
    \/ SpotCheck(x)

HealthStep == StartRound \/ VisitStep(HealthCheck) \/ SaveHealth \/ EndRound

DiscoveryStep(d) == VisitStep(d) \/ SaveDiscovered(d) \/ EndDiscovery(d)

Next ==
    \/ \E a \in Addresses, answer \in Answers : Change(a, answer)
    \/ \E d \in Discoverers, content \in Announcements : HandleDiscovery(d, content)
    \/ \E d \in Discoverers : DiscoveryStep(d)
    \/ \E urls \in Requested : AddDiscoveredRelays(urls)
    \/ HealthStep
    \/ \E x \in Actors : FailedStatement(x)

Spec == Init /\ [][Next]_vars

\* The ticker of the health checks goes on, and each question has a timeout.
FairSpec == Spec /\ WF_vars(HealthStep)

-----------------------------------------------------------------------------
(* Properties. *)

\* "After 4 consecutive failures (24h), removes the peer": not sooner, whatever
\* discoveries of the same address do meanwhile.  (A success whose UPDATE fails is
\* none: three failures before it and one after it remove the peer.)
RemovedAfterFailures ==
    [][\A a \in Present : peers'[a] = NoRow => streak[a] >= MaxFails]_vars

\* An identity in the table is one its own address answered with, and whose spot
\* check it passed.
StoredIdentityWasShown == \A a \in Present : peers[a].key \in shown[a]

\* An address where no node of this network answers any more goes, even if the
\* DELETE of the round in which it was due fails.
DeadPeersGo == \A a \in Addresses : []<>(a \notin Present \/ serves[a] \in Keys)
=============================================================================
