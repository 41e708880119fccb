------------------------------- MODULE PeersProofs -------------------------------
(***************************************************************************)
(* Proofs about what the node takes from others: their addresses and       *)
(* identities (PeerHealth), for any discoverers, addresses and identities, *)
(* and their marks (Awareness), for any handlers, peers, relays and lists. *)
(***************************************************************************)
EXTENDS PeerHealth, Awareness, FiniteSetTheorems, SequenceTheorems, TLAPS

-----------------------------------------------------------------------------
(* PeerHealth. *)

Row == [key : Keys, fails : 0..(MaxFails + MaxFaults)]
Visit == [at : {"idle", "next", "identity", "spotCheck", "save"}, todo : Seq(Addresses),
          urls : SUBSET Urls, tries : 0..Attempts, key : Keys \union {NoKey}]

\* What a goroutine knows where it is.
Fits(v) ==
    /\ v.at \in {"identity", "spotCheck", "save"} => v.todo # <<>> /\ v.tries \in 1..Attempts
    /\ v.at = "spotCheck" => v.key \in Keys

PeersType ==
    /\ peers \in [Addresses -> Row \union {NoRow}]
    /\ streak \in [Addresses -> 0..MaxFails]
    /\ shown \in [Addresses -> SUBSET Keys]
    /\ serves \in [Addresses -> Answers]

RelaysType ==
    /\ relays \in [Urls -> {"peer", "nip65", NoRow}]
    /\ \A u \in Configured : relays[u] # "peer"

VisitsType ==
    /\ visits \in [Actors -> Visit]
    /\ \A x \in Actors : Fits(visits[x])

\* The health check only visits addresses that are in the table: only it removes any.
RoundInv == visits[HealthCheck].todo \in Seq(Present)

FullType == PeersType /\ RelaysType /\ VisitsType /\ RoundInv /\ faults \in 0..MaxFaults

LEMMA FullTypeImplies == FullType => TypeOK
BY DEF FullType, PeersType, RelaysType, VisitsType, TypeOK, Row, Visit, Fits, At

\* A goroutine goes on.
Moves(x, v) == v \in Visit /\ Fits(v) /\ visits' = [visits EXCEPT ![x] = v]

-----------------------------------------------------------------------------
(* What the steps share. *)

LEMMA SeqMonotone ==
    ASSUME NEW S, NEW T, S \subseteq T, NEW s \in Seq(S)
    PROVE  s \in Seq(T)
<1>1. Len(s) \in Nat /\ s \in [1..Len(s) -> S]
  BY LenProperties
<1>2. s \in [1..Len(s) -> T]
  BY <1>1
<1> QED BY <1>1, <1>2, SeqDef

LEMMA ListOf ==
    ASSUME NEW S \in SUBSET Addresses, NEW list \in SetToSeqs(S)
    PROVE  list \in Seq(S)
<1>1. Cardinality(S) \in Nat
  BY NamesAssumption, FS_Subset, FS_CardinalityType
<1>2. list \in [1..Cardinality(S) -> S]
  BY DEF SetToSeqs
<1> QED BY <1>1, <1>2, SeqDef

LEMMA MovesType ==
    ASSUME FullType, NEW x \in Actors, NEW v, Moves(x, v), Present \subseteq Present',
           x = HealthCheck => v.todo \in Seq(Present)
    PROVE  /\ VisitsType' /\ RoundInv'
           /\ visits'[x] = v /\ \A y \in Actors : y # x => visits'[y] = visits[y]
<1>1. /\ visits' \in [Actors -> Visit] /\ visits'[x] = v
      /\ \A y \in Actors : y # x => visits'[y] = visits[y]
  BY DEF FullType, VisitsType, Moves
<1>2. VisitsType'
  <2>1. \A y \in Actors : Fits(visits'[y])
    BY <1>1 DEF FullType, VisitsType, Moves
  <2> QED BY <1>1, <2>1 DEF VisitsType
<1>3. visits'[HealthCheck].todo \in Seq(Present)
  BY <1>1 DEF FullType, RoundInv, Actors
<1>4. RoundInv'
  BY <1>3, SeqMonotone DEF RoundInv
<1> QED BY <1>1, <1>2, <1>4

\* A goroutine on an address.
LEMMA OnAddress ==
    ASSUME FullType, NEW x \in Actors, visits[x].todo # <<>>
    PROVE  /\ Address(x) \in Addresses /\ Tail(visits[x].todo) \in Seq(Addresses)
           /\ x = HealthCheck => Address(x) \in Present /\ Tail(visits[x].todo) \in Seq(Present)
<1>1. visits[x].todo \in Seq(Addresses)
  BY DEF FullType, VisitsType, Visit
<1> QED BY <1>1, HeadTailProperties DEF Address, FullType, RoundInv

LEMMA SkipMoves ==
    ASSUME FullType, NEW x \in Actors, visits[x].todo # <<>>, Skip(x)
    PROVE  \E v : /\ Moves(x, v) /\ v.at = "next"
                  /\ x = HealthCheck => v.todo \in Seq(Present)
<1> DEFINE v == [visits[x] EXCEPT !.at = "next", !.todo = Tail(@), !.tries = 0, !.key = NoKey]
<1>1. visits[x] \in Visit /\ visits \in [Actors -> Visit]
  BY DEF FullType, VisitsType
<1>2. visits' = [visits EXCEPT ![x] = v]
  BY <1>1 DEF Skip, Visit
<1>3. v \in Visit /\ v.at = "next" /\ v.todo = Tail(visits[x].todo)
  <2>1. Tail(visits[x].todo) \in Seq(Addresses) /\ 0 \in 0..Attempts
    BY OnAddress, NumbersAssumption
  <2> QED BY <1>1, <2>1 DEF Visit
<1> HIDE DEF v
<1> QED BY <1>2, <1>3, OnAddress DEF Moves, Fits

LEMMA AskMoves ==
    ASSUME FullType, NEW x \in Actors, visits[x].todo # <<>>, Ask(x)
    PROVE  \E v : Moves(x, v) /\ v.at = "identity" /\ v.todo = visits[x].todo
<1> DEFINE v == [visits[x] EXCEPT !.at = "identity", !.tries = 1]
<1>1. visits[x] \in Visit /\ visits \in [Actors -> Visit]
  BY DEF FullType, VisitsType
<1>2. visits' = [visits EXCEPT ![x] = v]
  BY <1>1 DEF Ask, Visit
<1>3. /\ v \in Visit /\ v.at = "identity" /\ v.todo = visits[x].todo
      /\ v.tries \in 1..Attempts
  <2>1. 1 \in 0..Attempts /\ 1 \in 1..Attempts
    BY NumbersAssumption
  <2> QED BY <1>1, <2>1 DEF Visit
<1> HIDE DEF v
<1> QED BY <1>2, <1>3 DEF Moves, Fits

LEMMA UnverifiedMoves ==
    ASSUME FullType, NEW x \in Actors, visits[x].todo # <<>>, visits[x].tries \in 1..Attempts,
           Unverified(x)
    PROVE  \E v : Moves(x, v) /\ v.at = "save" /\ v.key = NoKey /\ v.todo = visits[x].todo
<1> DEFINE v == [visits[x] EXCEPT !.at = "save", !.key = NoKey]
<1>1. visits[x] \in Visit /\ visits \in [Actors -> Visit]
  BY DEF FullType, VisitsType
<1>2. visits' = [visits EXCEPT ![x] = v]
  BY <1>1 DEF Unverified, Visit
<1>3. /\ v \in Visit /\ v.at = "save" /\ v.key = NoKey /\ v.todo = visits[x].todo
      /\ v.tries = visits[x].tries
  BY <1>1 DEF Visit
<1> HIDE DEF v
<1> QED BY <1>2, <1>3 DEF Moves, Fits

LEMMA NoVisitMoves ==
    ASSUME NEW x \in Actors, visits' = [visits EXCEPT ![x] = NoVisit]
    PROVE  Moves(x, NoVisit) /\ NoVisit.at = "idle" /\ NoVisit.todo \in Seq(Present)
<1>1. NoVisit.todo \in Seq(Addresses) /\ NoVisit.todo \in Seq(Present)
  BY EmptySeq DEF NoVisit
<1> QED BY <1>1, NumbersAssumption DEF Moves, Fits, NoVisit, Visit

-----------------------------------------------------------------------------
(* Where the goroutines are and what they know. *)

LEMMA InitFull == Init => FullType
<1> SUFFICES ASSUME Init PROVE FullType
  OBVIOUS
<1>1. NoVisit \in Visit /\ Fits(NoVisit) /\ NoVisit.todo \in Seq(Present)
  BY EmptySeq, NumbersAssumption DEF NoVisit, Visit, Fits
<1>2. VisitsType /\ RoundInv
  BY <1>1 DEF Init, VisitsType, RoundInv, Actors
<1>3. PeersType
  BY NumbersAssumption DEF Init, PeersType
<1>4. RelaysType
  BY NamesAssumption DEF Init, RelaysType
<1> QED BY <1>2, <1>3, <1>4, NumbersAssumption DEF Init, FullType

\* A step that writes no table keeps the types when the goroutine's move does.
LEMMA QuietMove ==
    ASSUME FullType, NEW x \in Actors, NEW v, Moves(x, v),
           UNCHANGED <<peers, relays, serves, streak>>,
           shown' \in [Addresses -> SUBSET Keys], faults' \in 0..MaxFaults,
           x = HealthCheck => v.todo \in Seq(Present)
    PROVE  FullType'
<1>1. Present' = Present
  BY DEF Present
<1>2. VisitsType' /\ RoundInv'
  BY <1>1, MovesType
<1> QED BY <1>2 DEF FullType, PeersType, RelaysType

LEMMA ChangeFull ==
    ASSUME FullType, NEW a \in Addresses, NEW answer \in Answers, Change(a, answer)
    PROVE  FullType'
BY DEF Change, FullType, PeersType, RelaysType, VisitsType, RoundInv, Present

LEMMA HandleDiscoveryFull ==
    ASSUME FullType, NEW d \in Discoverers, NEW content \in Announcements,
           HandleDiscovery(d, content)
    PROVE  \E v : Moves(d, v) /\ v.at = "next" /\ FullType'
<1>1. PICK list \in SetToSeqs(content.addresses \ Own) :
        visits' = [visits EXCEPT ![d] =
                    [NoVisit EXCEPT !.at = "next", !.todo = list, !.urls = content.urls]]
  BY DEF HandleDiscovery
<1> DEFINE v == [NoVisit EXCEPT !.at = "next", !.todo = list, !.urls = content.urls]
<1>2. content \in [addresses : SUBSET (Addresses \union Own), urls : SUBSET Urls]
  BY NamesAssumption
<1>3. content.urls \in SUBSET Urls /\ content.addresses \ Own \in SUBSET Addresses
  BY <1>2
<1>4. list \in Seq(Addresses)
  BY <1>3, ListOf, SeqMonotone
<1>5. v \in Visit /\ v.at = "next"
  <2>1. 0 \in 0..Attempts
    BY NumbersAssumption
  <2> QED BY <1>3, <1>4, <2>1 DEF NoVisit, Visit
<1> HIDE DEF v
<1>6. Moves(d, v)
  BY <1>1, <1>5 DEF Moves, Fits, v
<1>7. d # HealthCheck /\ d \in Actors
  BY NamesAssumption DEF Actors
<1>8. FullType'
  BY <1>6, <1>7, QuietMove DEF HandleDiscovery, FullType, PeersType
<1> QED BY <1>5, <1>6, <1>8

LEMMA StartRoundFull ==
    ASSUME FullType, StartRound
    PROVE  \E v : Moves(HealthCheck, v) /\ v.at = "next" /\ FullType'
<1>1. PICK list \in SetToSeqs(Present) :
        visits' = [visits EXCEPT ![HealthCheck] = [NoVisit EXCEPT !.at = "next", !.todo = list]]
  BY DEF StartRound
<1> DEFINE v == [NoVisit EXCEPT !.at = "next", !.todo = list]
<1>2. Present \in SUBSET Addresses
  BY DEF Present
<1>3. list \in Seq(Present) /\ list \in Seq(Addresses)
  BY <1>2, ListOf, SeqMonotone
<1>4. v \in Visit /\ v.at = "next" /\ v.todo = list
  <2>1. 0 \in 0..Attempts
    BY NumbersAssumption
  <2> QED BY <1>3, <2>1 DEF NoVisit, Visit
<1> HIDE DEF v
<1>5. Moves(HealthCheck, v)
  BY <1>1, <1>4 DEF Moves, Fits, v
<1>6. FullType'
  BY <1>3, <1>4, <1>5, QuietMove DEF StartRound, FullType, PeersType, Actors
<1> QED BY <1>4, <1>5, <1>6

LEMMA NextAddressFull ==
    ASSUME FullType, NEW x \in Actors, NextAddress(x)
    PROVE  \E v : Moves(x, v) /\ v.at # "save" /\ FullType'
<1>1. /\ visits[x].todo # <<>> /\ (Skip(x) \/ Ask(x))
      /\ UNCHANGED <<peers, relays, serves, streak, shown, faults>>
  BY DEF NextAddress
<1>2. PICK v : Moves(x, v) /\ v.at # "save" /\ (x = HealthCheck => v.todo \in Seq(Present))
  <2>1. x = HealthCheck => visits[x].todo \in Seq(Present)
    BY DEF FullType, RoundInv
  <2> QED BY <1>1, <2>1, SkipMoves, AskMoves
<1>3. FullType'
  BY <1>1, <1>2, QuietMove DEF FullType, PeersType
<1> QED BY <1>2, <1>3

\* Where a question ends: in the spot check, in another try, or in no answer.
LEMMA AskIdentityFull ==
    ASSUME FullType, NEW x \in Actors, AskIdentity(x)
    PROVE  \E v : Moves(x, v) /\ (v.at = "save" => v.key = NoKey) /\ FullType'
<1> DEFINE answer == serves[Address(x)]
           asked == [visits[x] EXCEPT !.at = "spotCheck", !.key = answer]
           again == [visits[x] EXCEPT !.tries = @ + 1]
<1>1. /\ visits[x].at = "identity" /\ visits[x].todo # <<>> /\ visits[x].tries \in 1..Attempts
      /\ visits[x] \in Visit /\ visits \in [Actors -> Visit]
      /\ UNCHANGED <<peers, relays, serves, streak, shown, faults>>
  BY DEF AskIdentity, At, FullType, VisitsType, Fits
<1>2. \/ answer \in Keys /\ visits' = [visits EXCEPT ![x] = asked]
      \/ visits[x].tries < Attempts /\ visits' = [visits EXCEPT ![x] = again]
      \/ Unverified(x)
  BY <1>1 DEF AskIdentity, Visit
<1>3. x = HealthCheck => visits[x].todo \in Seq(Present)
  BY DEF FullType, RoundInv
<1>4. CASE answer \in Keys /\ visits' = [visits EXCEPT ![x] = asked]
  <2> HIDE DEF answer
  <2>1. /\ asked \in Visit /\ asked.at = "spotCheck" /\ asked.todo = visits[x].todo
        /\ asked.tries = visits[x].tries /\ asked.key = answer
    BY <1>1, <1>4 DEF Visit
  <2>2. Moves(x, asked)
    BY <1>1, <1>4, <2>1 DEF Moves, Fits
  <2>3. FullType'
    BY <1>1, <1>3, <2>1, <2>2, QuietMove DEF FullType, PeersType
  <2> QED BY <2>1, <2>2, <2>3
<1>5. CASE visits[x].tries < Attempts /\ visits' = [visits EXCEPT ![x] = again]
  <2>1. visits[x].tries + 1 \in 1..Attempts /\ visits[x].tries + 1 \in 0..Attempts
    BY <1>1, <1>5, NumbersAssumption
  <2>2. /\ again \in Visit /\ again.at = "identity" /\ again.todo = visits[x].todo
        /\ again.tries = visits[x].tries + 1
    BY <1>1, <2>1 DEF Visit
  <2>3. Moves(x, again)
    BY <1>1, <1>5, <2>1, <2>2 DEF Moves, Fits
  <2>4. FullType'
    BY <1>1, <1>3, <2>2, <2>3, QuietMove DEF FullType, PeersType
  <2> QED BY <2>2, <2>3, <2>4
<1>6. CASE Unverified(x)
  <2>1. PICK v : Moves(x, v) /\ v.at = "save" /\ v.key = NoKey /\ v.todo = visits[x].todo
    BY <1>1, <1>6, UnverifiedMoves
  <2>2. FullType'
    BY <1>1, <1>3, <2>1, QuietMove DEF FullType, PeersType
  <2> QED BY <2>1, <2>2
<1> QED BY <1>2, <1>4, <1>5, <1>6

\* What the spot check hands over was shown at the address.
LEMMA SpotCheckFull ==
    ASSUME FullType, NEW x \in Actors, SpotCheck(x)
    PROVE  /\ \E v : /\ Moves(x, v) /\ v.at = "save" /\ v.todo = visits[x].todo
                     /\ v.key = NoKey \/ v.key \in shown'[Head(v.todo)]
           /\ \A a \in Addresses : shown[a] \subseteq shown'[a]
           /\ FullType'
<1>1. /\ visits[x].at = "spotCheck" /\ visits[x].todo # <<>> /\ visits[x].tries \in 1..Attempts
      /\ visits[x].key \in Keys /\ visits[x] \in Visit /\ visits \in [Actors -> Visit]
      /\ UNCHANGED <<peers, relays, serves, streak, faults>>
  BY DEF SpotCheck, At, FullType, VisitsType, Fits
<1>2. Address(x) \in Addresses
  BY <1>1, OnAddress
<1>3. x = HealthCheck => visits[x].todo \in Seq(Present)
  BY DEF FullType, RoundInv
<1>4. CASE serves[Address(x)] \in Keys
  <2> DEFINE v == [visits[x] EXCEPT !.at = "save"]
  <2>1. /\ visits' = [visits EXCEPT ![x] = v]
        /\ shown' = [shown EXCEPT ![Address(x)] = @ \union {visits[x].key}]
    BY <1>1, <1>4 DEF SpotCheck, Visit
  <2>2. /\ v \in Visit /\ v.at = "save" /\ v.todo = visits[x].todo
        /\ v.tries = visits[x].tries /\ v.key = visits[x].key
    BY <1>1 DEF Visit
  <2> HIDE DEF v
  <2>3. Moves(x, v)
    BY <1>1, <2>1, <2>2 DEF Moves, Fits
  <2>4. /\ shown' \in [Addresses -> SUBSET Keys] /\ v.key \in shown'[Address(x)]
        /\ \A a \in Addresses : shown[a] \subseteq shown'[a]
    BY <1>1, <1>2, <2>1, <2>2 DEF FullType, PeersType
  <2>5. FullType'
    BY <1>1, <1>3, <2>2, <2>3, <2>4, QuietMove DEF FullType
  <2> QED BY <2>2, <2>3, <2>4, <2>5 DEF Address
<1>5. CASE serves[Address(x)] \notin Keys
  <2>1. Unverified(x) /\ UNCHANGED shown
    BY <1>5 DEF SpotCheck
  <2>2. PICK v : Moves(x, v) /\ v.at = "save" /\ v.key = NoKey /\ v.todo = visits[x].todo
    BY <1>1, <2>1, UnverifiedMoves
  <2>3. FullType'
    BY <1>1, <1>3, <2>1, <2>2, QuietMove DEF FullType, PeersType
  <2> QED BY <2>1, <2>2, <2>3
<1> QED BY <1>4, <1>5

-----------------------------------------------------------------------------
(* What becomes of the table. *)

\* The count of failures does not run ahead of the failures.
FailInv ==
    \A a \in Addresses : peers[a] # NoRow => peers[a].fails <= streak[a] \/ streak[a] = MaxFails

\* What is stored, and what is about to be, was shown at the address.
ShownInv ==
    /\ \A a \in Addresses : peers[a] # NoRow => peers[a].key \in shown[a]
    /\ \A x \in Actors :
        visits[x].at = "save" /\ visits[x].key # NoKey => visits[x].key \in shown[Address(x)]

PeersInv == FullType /\ FailInv /\ ShownInv

LEMMA RowsAreNotEmpty == \A row \in Row : row # NoRow
<1>1. 0..(MaxFails + MaxFaults) \subseteq Nat
  BY NumbersAssumption
<1>2. Row \subseteq [key : Keys, fails : Nat]
  BY <1>1 DEF Row
<1> QED BY <1>2, NamesAssumption

\* A goroutine goes on and writes no row.
LEMMA NoRowWritten ==
    ASSUME PeersInv, FullType', NEW x \in Actors, NEW v, Moves(x, v),
           UNCHANGED <<peers, streak>>,
           \A a \in Addresses : shown[a] \subseteq shown'[a],
           v.at = "save" => v.key = NoKey \/ v.key \in shown'[Head(v.todo)]
    PROVE  PeersInv'
<1>1. FailInv'
  BY DEF PeersInv, FailInv
<1>2. /\ visits'[x] = v /\ \A y \in Actors : y # x => visits'[y] = visits[y]
  BY DEF PeersInv, FullType, VisitsType, Moves
<1>3. ASSUME NEW y \in Actors, visits'[y].at = "save", visits'[y].key # NoKey
      PROVE  visits'[y].key \in shown'[Address(y)']
  <2>1. CASE y = x
    BY <1>2, <1>3, <2>1 DEF Address
  <2>2. CASE y # x
    <3>1. visits[y].key \in shown[Address(y)] /\ visits'[y] = visits[y]
      BY <1>2, <1>3, <2>2 DEF PeersInv, ShownInv
    <3>2. Address(y) \in Addresses
      BY <1>3, <3>1, OnAddress DEF PeersInv, FullType, VisitsType, Fits
    <3> QED BY <3>1, <3>2 DEF Address
  <2> QED BY <2>1, <2>2
<1>4. ShownInv'
  BY <1>3 DEF PeersInv, ShownInv
<1> QED BY <1>1, <1>4 DEF PeersInv

\* The row of one address is written, by a goroutine that is done with it.
LEMMA RowWritten ==
    ASSUME PeersInv, NEW x \in Actors, visits[x].todo # <<>>, Skip(x),
           NEW a \in Addresses, NEW row \in Row, peers' = [peers EXCEPT ![a] = row],
           NEW count \in 0..MaxFails, streak' = [streak EXCEPT ![a] = count],
           row.fails <= count \/ count = MaxFails, row.key \in shown[a],
           UNCHANGED <<relays, serves, shown, faults>>
    PROVE  PeersInv'
<1>1. PICK v : Moves(x, v) /\ v.at = "next" /\ (x = HealthCheck => v.todo \in Seq(Present))
  BY SkipMoves DEF PeersInv
<1>2. PeersType'
  BY DEF PeersInv, FullType, PeersType
<1>3. /\ peers'[a] = row /\ streak'[a] = count
      /\ \A b \in Addresses : b # a => peers'[b] = peers[b] /\ streak'[b] = streak[b]
  BY DEF PeersInv, FullType, PeersType
<1>4. Present \subseteq Present'
  BY <1>3, RowsAreNotEmpty DEF Present
<1>5. /\ VisitsType' /\ RoundInv' /\ visits'[x] = v
      /\ \A y \in Actors : y # x => visits'[y] = visits[y]
  BY <1>1, <1>4, MovesType DEF PeersInv
<1>6. FullType'
  BY <1>2, <1>5 DEF PeersInv, FullType, RelaysType
<1>7. FailInv'
  BY <1>3 DEF PeersInv, FailInv
<1>8. ShownInv'
  BY <1>1, <1>3, <1>5 DEF PeersInv, ShownInv, Address
<1> QED BY <1>6, <1>7, <1>8 DEF PeersInv

LEMMA SaveDiscoveredStep ==
    ASSUME PeersInv, NEW d \in Discoverers, SaveDiscovered(d)
    PROVE  PeersInv'
<1> USE NumbersAssumption
<1> DEFINE a == Address(d)
<1>1. /\ d \in Actors /\ d # HealthCheck
      /\ visits[d].at = "save" /\ visits[d].todo # <<>> /\ visits[d].key \in Keys \union {NoKey}
      /\ Skip(d) /\ UNCHANGED <<relays, serves, streak, shown, faults>>
  BY NamesAssumption DEF SaveDiscovered, At, Actors, PeersInv, FullType, VisitsType, Visit, Fits
<1>2. a \in Addresses
  BY <1>1, OnAddress DEF PeersInv
<1>3. CASE Verified(d)
  <2> DEFINE row == [key |-> visits[d].key, fails |-> 0]
  <2>1. /\ peers' = [peers EXCEPT ![a] = row] /\ visits[d].key \in Keys
        /\ visits[d].key \in shown[a]
    BY <1>1, <1>3 DEF SaveDiscovered, Verified, StorePeerNode, PeersInv, ShownInv
  <2>2. row \in Row /\ row.fails = 0 /\ row.key = visits[d].key
    BY <2>1 DEF Row
  <2>3. /\ streak[a] \in 0..MaxFails /\ 0 <= streak[a]
        /\ streak' = [streak EXCEPT ![a] = streak[a]]
    BY <1>1, <1>2 DEF PeersInv, FullType, PeersType
  <2> HIDE DEF row, a
  <2> QED BY <1>1, <1>2, <2>1, <2>2, <2>3, RowWritten
<1>4. CASE ~Verified(d)
  <2>1. UNCHANGED peers
    BY <1>4 DEF SaveDiscovered
  <2>2. PICK v : Moves(d, v) /\ v.at = "next"
    BY <1>1, SkipMoves DEF PeersInv
  <2>3. FullType'
    BY <1>1, <2>1, <2>2, QuietMove DEF PeersInv, FullType, PeersType
  <2> QED BY <1>1, <2>1, <2>2, <2>3, NoRowWritten
<1> QED BY <1>3, <1>4

LEMMA SaveHealthStep ==
    ASSUME PeersInv, SaveHealth
    PROVE  PeersInv'
<1> DEFINE x == HealthCheck
           a == Address(x)
           key == visits[x].key
           row == [key |-> IF key = NoKey THEN peers[a].key ELSE key,
                   fails |-> IF key = NoKey THEN OneMore(peers[a].fails) ELSE 0]
           count == IF key # NoKey THEN 0
                    ELSE IF streak[a] = MaxFails THEN MaxFails ELSE streak[a] + 1
<1>1. /\ x \in Actors /\ visits[x].at = "save" /\ visits[x].todo # <<>>
      /\ key \in Keys \union {NoKey} /\ Skip(x) /\ UNCHANGED <<relays, serves, shown, faults>>
  BY DEF SaveHealth, At, Actors, PeersInv, FullType, VisitsType, Visit, Fits
<1>2. a \in Addresses /\ a \in Present
  BY <1>1, OnAddress DEF PeersInv
<1>3. /\ peers[a] \in Row /\ peers[a].fails \in 0..(MaxFails + MaxFaults)
      /\ peers[a].key \in Keys
      /\ peers[a] = [key |-> peers[a].key, fails |-> peers[a].fails]
      /\ streak[a] \in 0..MaxFails
      /\ peers \in [Addresses -> Row \union {NoRow}]
      /\ streak \in [Addresses -> 0..MaxFails]
  BY <1>2 DEF PeersInv, FullType, PeersType, Present, Row
<1>4. OneMore(peers[a].fails) \in 0..(MaxFails + MaxFaults)
      /\ OneMore(peers[a].fails) <= peers[a].fails + 1
  BY <1>3, NumbersAssumption DEF OneMore
<1>5. peers' = [peers EXCEPT ![a] = row]
  <2>1. UpdatePeerHealthCheck(a, key)
    BY DEF SaveHealth
  <2> DEFINE first == [peers EXCEPT ![a].key = IF key = NoKey THEN @ ELSE key]
  <2>2. first[a] = [key |-> row.key, fails |-> peers[a].fails]
    BY <1>2, <1>3
  <2>3. first = [peers EXCEPT ![a] = first[a]]
    BY <1>2, <1>3
  <2>4. peers' = [first EXCEPT ![a].fails = IF key = NoKey THEN OneMore(@) ELSE 0]
    BY <2>1 DEF UpdatePeerHealthCheck
  <2>5. peers' = [first EXCEPT ![a] = row]
    <3>1. [first[a] EXCEPT !.fails = IF key = NoKey THEN OneMore(@) ELSE 0] = row
      BY <2>2
    <3>2. peers' = [first EXCEPT ![a] =
                      [first[a] EXCEPT !.fails = IF key = NoKey THEN OneMore(@) ELSE 0]]
      BY <2>4
    <3> QED BY <3>1, <3>2
  <2> HIDE DEF first, row, a, x
  <2> QED BY <2>3, <2>5, <1>2, <1>3
<1>6. streak' = [streak EXCEPT ![a] = count]
  <2>1. Count(a, key # NoKey)
    BY DEF SaveHealth, Verified
  <2> QED BY <1>2, <1>3, <2>1 DEF Count
<1>7. row \in Row /\ row.key \in shown[a]
  <2>1. 0 \in 0..(MaxFails + MaxFaults)
    BY NumbersAssumption
  <2>2. row \in Row
    BY <1>1, <1>3, <1>4, <2>1 DEF Row
  <2>3. row.key \in shown[a]
    BY <1>1, <1>2 DEF PeersInv, ShownInv, Present
  <2> QED BY <2>2, <2>3
<1>8. count \in 0..MaxFails /\ (row.fails <= count \/ count = MaxFails)
  <2>1. peers[a].fails <= streak[a] \/ streak[a] = MaxFails
    BY <1>2 DEF PeersInv, FailInv, Present
  <2>2. CASE key = NoKey
    BY <1>3, <1>4, <2>1, <2>2, NumbersAssumption
  <2>3. CASE key # NoKey
    BY <2>3, NumbersAssumption
  <2> QED BY <2>2, <2>3
<1> HIDE DEF row, count, a, x
<1> QED BY <1>1, <1>2, <1>5, <1>6, <1>7, <1>8, RowWritten

\* Storing relays never replaces a source, and never names a configured relay.
LEMMA RelaysStored ==
    ASSUME RelaysType, NEW urls, NEW source \in {"peer", "nip65"},
           source = "peer" => urls \intersect Configured = {},
           StoreDiscoveredRelays(urls, source)
    PROVE  RelaysType'
<1>1. Configured \subseteq Urls
  BY NamesAssumption
<1> QED BY <1>1 DEF RelaysType, StoreDiscoveredRelays

LEMMA EndDiscoveryStep ==
    ASSUME PeersInv, NEW d \in Discoverers, EndDiscovery(d)
    PROVE  PeersInv'
<1>1. /\ d \in Actors /\ d # HealthCheck
      /\ visits' = [visits EXCEPT ![d] = NoVisit]
      /\ StoreDiscoveredRelays(visits[d].urls \ Configured, "peer")
      /\ UNCHANGED <<peers, serves, streak, shown, faults>>
  BY NamesAssumption DEF EndDiscovery, Actors
<1>2. Moves(d, NoVisit) /\ NoVisit.at = "idle"
  BY <1>1, NoVisitMoves
<1>3. RelaysType'
  BY <1>1, RelaysStored DEF PeersInv, FullType
<1>4. Present' = Present
  BY <1>1 DEF Present
<1>5. VisitsType' /\ RoundInv'
  BY <1>1, <1>2, <1>4, MovesType DEF PeersInv
<1>6. FullType'
  BY <1>1, <1>3, <1>5 DEF PeersInv, FullType, PeersType
<1> QED BY <1>1, <1>2, <1>6, NoRowWritten

LEMMA AddDiscoveredRelaysStep ==
    ASSUME PeersInv, NEW urls, AddDiscoveredRelays(urls)
    PROVE  PeersInv'
<1>1. RelaysType'
  BY RelaysStored DEF AddDiscoveredRelays, PeersInv, FullType
<1>2. FullType'
  BY <1>1 DEF AddDiscoveredRelays, PeersInv, FullType, PeersType, VisitsType, RoundInv, Present
<1> QED BY <1>2 DEF AddDiscoveredRelays, PeersInv, FailInv, ShownInv, Address

\* Only rows with enough failures go, and the round has nobody left to visit.
LEMMA EndRoundStep ==
    ASSUME PeersInv, EndRound
    PROVE  PeersInv'
<1>1. /\ visits' = [visits EXCEPT ![HealthCheck] = NoVisit] /\ HealthCheck \in Actors
      /\ UNCHANGED <<relays, serves, shown, faults>>
  BY DEF EndRound, Actors
<1>2. Moves(HealthCheck, NoVisit) /\ NoVisit.at = "idle" /\ NoVisit.todo = <<>>
  BY <1>1, NoVisitMoves DEF NoVisit
<1>3. PeersType'
  BY <1>1, NumbersAssumption DEF EndRound, PeersInv, FullType, PeersType
<1>4. /\ visits' \in [Actors -> Visit] /\ visits'[HealthCheck] = NoVisit
      /\ \A y \in Actors : y # HealthCheck => visits'[y] = visits[y]
  BY <1>1, <1>2 DEF Moves, PeersInv, FullType, VisitsType
<1>5. VisitsType'
  <2>1. \A y \in Actors : Fits(visits'[y])
    BY <1>2, <1>4 DEF Moves, PeersInv, FullType, VisitsType
  <2> QED BY <1>4, <2>1 DEF VisitsType
<1>6. RoundInv'
  BY <1>2, <1>4, EmptySeq DEF RoundInv
<1>7. \A a \in Addresses : peers'[a] # NoRow => peers'[a] = peers[a] /\ streak'[a] = streak[a]
  BY DEF EndRound
<1>8. FailInv'
  BY <1>7 DEF PeersInv, FailInv
<1>9. ShownInv'
  BY <1>1, <1>2, <1>4, <1>7 DEF PeersInv, ShownInv, Address
<1> QED BY <1>1, <1>3, <1>5, <1>6, <1>8, <1>9 DEF PeersInv, FullType, RelaysType

LEMMA FailedStatementStep ==
    ASSUME PeersInv, NEW x \in Actors, FailedStatement(x)
    PROVE  PeersInv'
<1>1. /\ UNCHANGED <<peers, relays, serves, streak, shown>> /\ faults' \in 0..MaxFaults
  BY NumbersAssumption DEF FailedStatement, PeersInv, FullType
<1>2. \/ visits[x].todo # <<>> /\ Skip(x)
      \/ visits' = [visits EXCEPT ![x] = NoVisit]
  BY DEF FailedStatement, At, PeersInv, FullType, VisitsType, Fits
<1>3. PICK v : Moves(x, v) /\ v.at # "save" /\ (x = HealthCheck => v.todo \in Seq(Present))
  BY <1>2, SkipMoves, NoVisitMoves DEF PeersInv
<1>4. FullType'
  BY <1>1, <1>3, QuietMove DEF PeersInv, FullType, PeersType
<1> QED BY <1>1, <1>3, <1>4, NoRowWritten

-----------------------------------------------------------------------------

LEMMA PeersStep == PeersInv /\ [Next]_vars => PeersInv'
<1> SUFFICES ASSUME PeersInv, [Next]_vars PROVE PeersInv'
  OBVIOUS
<1>1. CASE UNCHANGED vars
  BY <1>1 DEF vars, PeersInv, FullType, PeersType, RelaysType, VisitsType, RoundInv, Present,
              FailInv, ShownInv, Address
<1>2. ASSUME NEW a \in Addresses, NEW answer \in Answers, Change(a, answer) PROVE PeersInv'
  BY <1>2, ChangeFull DEF Change, PeersInv, FailInv, ShownInv, Address
<1>3. ASSUME NEW d \in Discoverers, NEW content \in Announcements, HandleDiscovery(d, content)
      PROVE  PeersInv'
  BY <1>3, HandleDiscoveryFull, NoRowWritten DEF HandleDiscovery, PeersInv, Actors
<1>4. ASSUME NEW x \in Actors, VisitStep(x) PROVE PeersInv'
  <2>1. CASE NextAddress(x)
    BY <2>1, NextAddressFull, NoRowWritten DEF NextAddress, PeersInv
  <2>2. CASE AskIdentity(x)
    BY <2>2, AskIdentityFull, NoRowWritten DEF AskIdentity, PeersInv
  <2>3. CASE SpotCheck(x)
    BY <2>3, SpotCheckFull, NoRowWritten DEF SpotCheck, PeersInv
  <2> QED BY <1>4, <2>1, <2>2, <2>3 DEF VisitStep
<1>5. ASSUME NEW d \in Discoverers, DiscoveryStep(d) PROVE PeersInv'
  BY <1>4, <1>5, SaveDiscoveredStep, EndDiscoveryStep DEF DiscoveryStep, Actors
<1>6. ASSUME NEW urls, AddDiscoveredRelays(urls) PROVE PeersInv'
  BY <1>6, AddDiscoveredRelaysStep
<1>7. CASE StartRound
  BY <1>7, StartRoundFull, NoRowWritten DEF StartRound, PeersInv, Actors
<1>8. CASE HealthStep
  BY <1>4, <1>7, <1>8, SaveHealthStep, EndRoundStep DEF HealthStep, Actors
<1>9. ASSUME NEW x \in Actors, FailedStatement(x) PROVE PeersInv'
  BY <1>9, FailedStatementStep
<1> QED BY <1>1, <1>2, <1>3, <1>5, <1>6, <1>8, <1>9 DEF Next

LEMMA PeersInit == Init => PeersInv
<1> SUFFICES ASSUME Init PROVE PeersInv
  OBVIOUS
<1>1. FullType
  BY InitFull
<1>2. FailInv /\ ShownInv
  BY DEF Init, FailInv, ShownInv, NoVisit, Actors
<1> QED BY <1>1, <1>2 DEF PeersInv

LEMMA PeersInvariant == Spec => []PeersInv
<1>1. Init => PeersInv
  BY PeersInit
<1>2. PeersInv /\ [Next]_vars => PeersInv'
  BY PeersStep
<1> QED BY <1>1, <1>2, PTL DEF Spec

\* Every variable keeps its type: who asks has an address to ask and tries left, and no
\* configured relay is recorded as found at a peer.
THEOREM TypeCorrect == Spec => []TypeOK
<1>1. PeersInv => TypeOK
  BY FullTypeImplies DEF PeersInv
<1> QED BY <1>1, PeersInvariant, PTL

\* Whatever a node answered in between, and whoever wrote the row, the identity stored for
\* an address is one that passed the spot check there.
THEOREM IdentityShown == Spec => []StoredIdentityWasShown
<1>1. PeersInv => StoredIdentityWasShown
  BY DEF PeersInv, ShownInv, StoredIdentityWasShown, Present
<1> QED BY <1>1, PeersInvariant, PTL

\* A peer is only removed after MaxFails rounds in a row that it failed, although
\* discoveries write the same row between any two statements of the health check.
THEOREM RemovalsAreDue == Spec => RemovedAfterFailures
<1> DEFINE A == \A a \in Present : peers'[a] = NoRow => streak[a] >= MaxFails
<1>1. PeersInv /\ [Next]_vars => [A]_vars
  <2> SUFFICES ASSUME PeersInv, Next, NEW a \in Addresses, peers[a] # NoRow, peers'[a] = NoRow
               PROVE  streak[a] >= MaxFails
    BY DEF Present
  <2>1. ASSUME NEW d \in Discoverers, SaveDiscovered(d) PROVE FALSE
    <3>1. /\ d \in Actors /\ visits[d].todo # <<>> /\ visits[d].key \in Keys \union {NoKey}
      BY <2>1 DEF SaveDiscovered, At, Actors, PeersInv, FullType, VisitsType, Visit, Fits
    <3>2. \/ UNCHANGED peers
          \/ visits[d].key \in Keys
             /\ peers' = [peers EXCEPT ![Address(d)] = [key |-> visits[d].key, fails |-> 0]]
      BY <2>1, <3>1 DEF SaveDiscovered, Verified, StorePeerNode
    <3>3. \A k \in Keys : [key |-> k, fails |-> 0] # NoRow
      BY NamesAssumption
    <3>4. peers \in [Addresses -> Row \union {NoRow}]
      BY DEF PeersInv, FullType, PeersType
    <3> QED BY <3>2, <3>3, <3>4
  <2>2. CASE SaveHealth
    <3>1. PeersInv'
      BY <2>2, SaveHealthStep
    <3>2. HealthCheck \in Actors /\ visits[HealthCheck].todo # <<>>
      BY <2>2 DEF SaveHealth, At, Actors, PeersInv, FullType, VisitsType, Fits
    <3> DEFINE b == Address(HealthCheck)
    <3>3. b \in Addresses /\ b \in Present
      BY <3>2, OnAddress DEF PeersInv
    <3>4. peers[b] \in Row /\ peers \in [Addresses -> Row \union {NoRow}]
      BY <3>3 DEF PeersInv, FullType, PeersType, Present
    <3>5. CASE a # b
      BY <2>2, <3>4, <3>5 DEF SaveHealth, UpdatePeerHealthCheck
    <3>6. CASE a = b
      <4> DEFINE key == visits[HealthCheck].key
                 row == [key |-> IF key = NoKey THEN peers[b].key ELSE key,
                         fails |-> IF key = NoKey THEN OneMore(peers[b].fails) ELSE 0]
      <4>1. peers'[b] = row
        BY <2>2, <3>3, <3>4 DEF SaveHealth, UpdatePeerHealthCheck, Row
      <4>2. key \in Keys \union {NoKey} /\ peers[b].key \in Keys
            /\ OneMore(peers[b].fails) \in Nat
        BY <3>2, <3>4, NumbersAssumption
           DEF PeersInv, FullType, VisitsType, Visit, Row, OneMore
      <4>3. row \in [key : Keys, fails : Nat]
        BY <4>2
      <4> QED BY <3>6, <4>1, <4>3, NamesAssumption
    <3> QED BY <3>5, <3>6
  <2>3. CASE EndRound
    <3>1. a \in Dead
      BY <2>3 DEF EndRound
    <3>2. /\ peers[a].fails >= MaxFails /\ peers[a].fails \in 0..(MaxFails + MaxFaults)
          /\ streak[a] \in 0..MaxFails
      BY <3>1 DEF Dead, PeersInv, FullType, PeersType, Row
    <3>3. peers[a].fails <= streak[a] \/ streak[a] = MaxFails
      BY DEF PeersInv, FailInv
    <3> QED BY <3>2, <3>3, NumbersAssumption
  <2>4. CASE UNCHANGED peers
    BY <2>4
  <2> QED BY <2>1, <2>2, <2>3, <2>4
     DEF Next, DiscoveryStep, HealthStep, VisitStep, Change, HandleDiscovery, StartRound,
         NextAddress, AskIdentity, SpotCheck, EndDiscovery, AddDiscoveredRelays, FailedStatement
<1> QED BY <1>1, PeersInvariant, PTL DEF Spec, RemovedAfterFailures

-----------------------------------------------------------------------------
(* Awareness. *)

Tag == Ids \X (Marks \union {"other"})
MarkTable == [Ids -> Marks \union {NoMark}]
Import == [at : {"idle", "ask", "clear", "add"}, authors : SUBSET Authors,
           next : 0..(Len(Relays) + 1), best : [Authors -> Lists \union {NoList}],
           tags : Seq(Tag), author : Authors, heard : SUBSET Lists, disturbed : BOOLEAN]

\* best has the newest of the lists that were heard, and a list of whoever was heard of.
KeepsNewest(best, heard) ==
    \A a \in Authors :
        \/ best[a] = NoList /\ \A e \in heard : e.by # a
        \/ /\ best[a] \in heard /\ best[a].by = a
           /\ \A e \in heard : e.by = a => e.created <= best[a].created

\* What an import knows where it is: of the list it has chosen, the last tags are left.
ImportFits(x, v) ==
    /\ v.at = "ask" => v.next \in 1..Len(Relays)
    /\ x \in AdminSyncs => v.authors \subseteq {Admin} /\ v.author = Admin
    /\ x = SyncLoop => v.authors \subseteq Peers
    /\ KeepsNewest(v.best, v.heard)
    /\ v.at \in {"clear", "add"} =>
        LET all == v.best[v.author].tags IN
        /\ v.best[v.author] # NoList
        /\ x = SyncLoop => v.author \in Peers
        /\ v.at = "clear" => v.tags = all
        /\ Len(v.tags) <= Len(all)
        /\ \A i \in 1..Len(v.tags) : v.tags[i] = all[(Len(all) - Len(v.tags)) + i]

TablesType == local \in MarkTable /\ byPeer \in [Peers -> MarkTable]

WorldType ==
    /\ active \subseteq Peers
    /\ held \subseteq Holds
    /\ \A g, h \in held : g[1] = h[1] /\ g[2].by = h[2].by => g = h
    /\ failures \in 0..MaxFailures

ImportsType ==
    /\ syncs \in [Importers -> Import]
    /\ \A x \in Importers : ImportFits(x, syncs[x])

\* The tags that are not left are in the table, if nobody else wrote to it.
TableInv ==
    \A x \in Importers :
        ImportAt(x, "add") /\ ~syncs[x].disturbed =>
            LET all == syncs[x].best[syncs[x].author].tags IN
            CopyUpTo(Table(x), all, Len(all) - Len(syncs[x].tags))

AwarenessInv == TablesType /\ WorldType /\ ImportsType /\ TableInv

LEMMA AwarenessInvImplies == AwarenessInv => AwarenessTypeOK
<1> SUFFICES ASSUME AwarenessInv PROVE AwarenessTypeOK
  OBVIOUS
<1>1. ASSUME NEW x \in Importers, NEW a \in Authors, syncs[x].best[a] # NoList
      PROVE  syncs[x].best[a].by = a
  BY <1>1 DEF AwarenessInv, ImportsType, ImportFits, KeepsNewest
<1>2. ASSUME NEW x \in Importers
      PROVE  /\ syncs[x].at \in {"idle", "ask", "clear", "add"}
             /\ syncs[x].next \in 0..(Len(Relays) + 1)
             /\ x \in AdminSyncs => syncs[x].author = Admin
             /\ x = SyncLoop /\ ImportAt(x, "add") => syncs[x].author \in Peers
  BY <1>2 DEF AwarenessInv, ImportsType, ImportFits, Import, ImportAt
<1> QED BY <1>1, <1>2 DEF AwarenessInv, TablesType, WorldType, AwarenessTypeOK, MarkTable

-----------------------------------------------------------------------------
(* The marks of a list, and the newest list. *)

LEMMA CopyNothing ==
    ASSUME NEW tags
    PROVE  CopyUpTo(Unmarked, tags, 0)
BY DEF CopyUpTo, Unmarked

LEMMA CopyExtends ==
    ASSUME NEW table \in MarkTable, NEW tags \in Seq(Tag), NEW n \in Nat, n < Len(tags),
           CopyUpTo(table, tags, n)
    PROVE  CopyUpTo(Put(table, tags[n + 1][1], tags[n + 1][2]), tags, n + 1)
<1> DEFINE new == Put(table, tags[n + 1][1], tags[n + 1][2])
           marking(id, m) == {k \in 1..m : tags[k][1] = id /\ tags[k][2] \in Marks}
<1>1. tags[n + 1] \in Tag
  BY LenProperties
<1>2. new = IF tags[n + 1][2] \in Marks
            THEN [table EXCEPT ![tags[n + 1][1]] = tags[n + 1][2]] ELSE table
  BY DEF Put
<1> SUFFICES ASSUME NEW id \in Ids
             PROVE  \/ marking(id, n + 1) = {} /\ new[id] = NoMark
                    \/ \E k \in marking(id, n + 1) : (\A m \in marking(id, n + 1) : m <= k)
                                                     /\ new[id] = tags[k][2]
  BY DEF CopyUpTo
<1>3. \/ marking(id, n) = {} /\ table[id] = NoMark
      \/ \E k \in marking(id, n) : (\A m \in marking(id, n) : m <= k) /\ table[id] = tags[k][2]
  BY DEF CopyUpTo
<1>4. CASE tags[n + 1][1] = id /\ tags[n + 1][2] \in Marks
  <2>1. n + 1 \in marking(id, n + 1) /\ \A m \in marking(id, n + 1) : m <= n + 1
    BY <1>4
  <2>2. new[id] = tags[n + 1][2]
    BY <1>4, <1>2 DEF MarkTable
  <2> QED BY <2>1, <2>2
<1>5. CASE ~(tags[n + 1][1] = id /\ tags[n + 1][2] \in Marks)
  <2>1. marking(id, n + 1) = marking(id, n)
    BY <1>5
  <2>2. new[id] = table[id]
    BY <1>5, <1>2 DEF MarkTable
  <2> QED BY <1>3, <2>1, <2>2
<1> QED BY <1>4, <1>5

LEMMA MergeKeepsNewest ==
    ASSUME NEW best \in [Authors -> Lists \union {NoList}], NEW heard \in SUBSET Lists,
           NEW answer \in SUBSET Lists,
           \A e, f \in answer : e.by = f.by => e = f,
           KeepsNewest(best, heard)
    PROVE  /\ Newest(best, answer) \in [Authors -> Lists \union {NoList}]
           /\ KeepsNewest(Newest(best, answer), heard \union answer)
<1> DEFINE newer(a) == {e \in answer : e.by = a /\ (best[a] = NoList \/ e.created > best[a].created)}
           merged == Newest(best, answer)
<1>1. \A a \in Authors : merged[a] = IF newer(a) = {} THEN best[a] ELSE CHOOSE e \in newer(a) : TRUE
  BY DEF Newest
<1>2. ASSUME NEW a \in Authors, newer(a) # {}
      PROVE  /\ merged[a] \in answer /\ merged[a].by = a
             /\ best[a] = NoList \/ merged[a].created > best[a].created
  BY <1>1, <1>2
<1>3. merged \in [Authors -> Lists \union {NoList}]
  <2>1. \A a \in Authors : merged[a] \in Lists \union {NoList}
    BY <1>1, <1>2
  <2> QED BY <2>1 DEF Newest
<1>4. ASSUME NEW e \in Lists PROVE e.created \in Nat
  BY ListsAssumption
<1>5. ASSUME NEW a \in Authors
      PROVE  \/ merged[a] = NoList /\ \A e \in heard \union answer : e.by # a
             \/ /\ merged[a] \in heard \union answer /\ merged[a].by = a
                /\ \A e \in heard \union answer : e.by = a => e.created <= merged[a].created
  <2>1. \/ best[a] = NoList /\ \A e \in heard : e.by # a
        \/ /\ best[a] \in heard /\ best[a].by = a
           /\ \A e \in heard : e.by = a => e.created <= best[a].created
    BY DEF KeepsNewest
  <2>2. CASE newer(a) = {}
    <3>1. merged[a] = best[a]
      BY <2>2, <1>1
    <3>2. \A e \in answer : e.by = a => best[a] # NoList /\ ~(e.created > best[a].created)
      BY <2>2
    <3>3. best[a] = NoList => \A e \in answer : e.by # a
      BY <3>2
    <3>4. ASSUME best[a] \in heard, NEW e \in answer, e.by = a
          PROVE  e.created <= best[a].created
      BY <3>2, <3>4, <1>4
    <3> QED BY <2>1, <3>1, <3>3, <3>4
  <2>3. CASE newer(a) # {}
    <3>1. merged[a] \in answer /\ merged[a].by = a
      BY <1>2, <2>3
    <3>2. \A e \in answer : e.by = a => e = merged[a]
      BY <3>1
    <3>3. ASSUME NEW e \in heard, e.by = a
          PROVE  e.created <= merged[a].created
      BY <2>1, <1>2, <2>3, <3>1, <3>3, <1>4, ImportersAssumption
    <3> QED BY <3>1, <3>2, <3>3, <1>4
  <2> QED BY <2>2, <2>3
<1> QED BY <1>3, <1>5 DEF KeepsNewest

-----------------------------------------------------------------------------
(* Steps. *)

\* The import x goes on with v; a write of x is seen by the others on the same table.
Goes(x, v, others) ==
    syncs' = [y \in Importers |->
                IF y = x THEN v
                ELSE IF y \in others THEN [syncs[y] EXCEPT !.disturbed = ImportAt(y, "add")]
                ELSE syncs[y]]

LEMMA GoesKeepsType ==
    ASSUME ImportsType, NEW x \in Importers, NEW v \in Import, ImportFits(x, v), NEW others,
           Goes(x, v, others)
    PROVE  ImportsType'
<1>1. ASSUME NEW y \in Importers
      PROVE  syncs'[y] \in Import /\ ImportFits(y, syncs'[y])
  <2>1. syncs[y] \in Import /\ ImportFits(y, syncs[y])
    BY DEF ImportsType
  <2>2. CASE y = x
    BY <2>2 DEF Goes
  <2>3. CASE y # x /\ y \in others
    <3> DEFINE w == [syncs[y] EXCEPT !.disturbed = ImportAt(y, "add")]
    <3>1. syncs'[y] = w
      BY <2>3 DEF Goes
    <3>2. w \in Import
      BY <2>1 DEF Import, ImportAt
    <3>3. /\ w.at = syncs[y].at /\ w.authors = syncs[y].authors /\ w.next = syncs[y].next
          /\ w.best = syncs[y].best /\ w.tags = syncs[y].tags /\ w.author = syncs[y].author
          /\ w.heard = syncs[y].heard
      BY <2>1 DEF Import
    <3>4. ImportFits(y, w)
      BY <2>1, <3>3 DEF ImportFits
    <3> QED BY <3>1, <3>2, <3>4
  <2>4. CASE y # x /\ y \notin others
    BY <2>1, <2>4 DEF Goes
  <2> QED BY <2>2, <2>3, <2>4
<1>2. syncs' \in [Importers -> Import]
  BY <1>1 DEF Goes
<1> QED BY <1>1, <1>2 DEF ImportsType

\* The table that y works on stays as it is.
TableStays(y) ==
    IF y = SyncLoop THEN byPeer'[syncs[y].author] = byPeer[syncs[y].author] ELSE local' = local

LEMMA GoesKeepsTables ==
    ASSUME AwarenessInv, NEW x \in Importers, NEW v, NEW others, Goes(x, v, others),
           \A y \in Importers : y # x /\ y \notin others => TableStays(y),
           v.at = "add" /\ ~v.disturbed =>
               CopyUpTo(IF x = SyncLoop THEN byPeer'[v.author] ELSE local',
                        v.best[v.author].tags, Len(v.best[v.author].tags) - Len(v.tags))
    PROVE  TableInv'
<1> SUFFICES ASSUME NEW y \in Importers, syncs'[y].at = "add", ~syncs'[y].disturbed
             PROVE  CopyUpTo(IF y = SyncLoop THEN byPeer'[syncs'[y].author] ELSE local',
                             syncs'[y].best[syncs'[y].author].tags,
                             Len(syncs'[y].best[syncs'[y].author].tags) - Len(syncs'[y].tags))
  BY DEF TableInv, ImportAt, Table
<1>1. syncs[y] \in Import
  BY DEF AwarenessInv, ImportsType
<1>2. CASE y = x
  BY <1>2 DEF Goes
<1>3. CASE y # x /\ y \in others
  <2>1. syncs'[y].at = syncs[y].at /\ syncs'[y].disturbed = (syncs[y].at = "add")
    BY <1>1, <1>3 DEF Goes, Import, ImportAt
  <2> QED BY <2>1
<1>4. CASE y # x /\ y \notin others
  <2>1. syncs'[y] = syncs[y] /\ TableStays(y)
    BY <1>4 DEF Goes
  <2>2. CopyUpTo(Table(y), syncs[y].best[syncs[y].author].tags,
                 Len(syncs[y].best[syncs[y].author].tags) - Len(syncs[y].tags))
    BY <2>1 DEF AwarenessInv, TableInv, ImportAt
  <2> QED BY <2>1, <2>2 DEF Table, TableStays
<1> QED BY <1>2, <1>3, <1>4

LEMMA ListsTyped ==
    ASSUME NEW e \in Lists
    PROVE  e.by \in Authors /\ e.created \in Nat /\ e.tags \in Seq(Tag)
BY ListsAssumption DEF Authors, Tag

LEMMA NoSyncFits ==
    ASSUME NEW x \in Importers
    PROVE  NoSync \in Import /\ ImportFits(x, NoSync)
<1>1. Len(Relays) \in Nat
  BY ImportersAssumption, LenProperties
<1>2. NoSync \in Import
  BY <1>1 DEF NoSync, Import, NothingFound, Authors, Tag
<1>3. KeepsNewest(NoSync.best, NoSync.heard)
  BY DEF KeepsNewest, NoSync, NothingFound
<1>4. NoSync.at = "idle" /\ NoSync.authors = {} /\ NoSync.author = Admin
  BY DEF NoSync
<1> QED BY <1>2, <1>3, <1>4 DEF ImportFits

\* To the next list that was found, or the end.
LEMMA NextListKeeps ==
    ASSUME AwarenessInv, NEW x \in Importers, NEW call \in Import, NextList(x, call),
           KeepsNewest(call.best, call.heard),
           x \in AdminSyncs => call.authors \subseteq {Admin},
           x = SyncLoop => call.authors \subseteq Peers,
           UNCHANGED <<local, byPeer>>
    PROVE  ImportsType' /\ TableInv'
<1>1. ImportsType /\ syncs \in [Importers -> Import]
  BY DEF AwarenessInv, ImportsType
<1>2. \A y \in Importers : TableStays(y)
  BY DEF TableStays
<1>3. CASE ListsLeft(call) = {}
  <2>1. Goes(x, NoSync, {})
    BY <1>1, <1>3 DEF NextList, Goes
  <2>2. NoSync.at # "add"
    BY DEF NoSync
  <2> QED BY <1>1, <1>2, <2>1, <2>2, NoSyncFits, GoesKeepsType, GoesKeepsTables
<1>4. CASE ListsLeft(call) # {}
  <2>1. PICK a \in ListsLeft(call) :
            syncs' = [syncs EXCEPT ![x] = [call EXCEPT !.at = "clear", !.author = a,
                            !.tags = call.best[a].tags, !.authors = @ \ {a}, !.disturbed = FALSE]]
    BY <1>4 DEF NextList
  <2> DEFINE v == [call EXCEPT !.at = "clear", !.author = a, !.tags = call.best[a].tags,
                               !.authors = @ \ {a}, !.disturbed = FALSE]
  <2>2. a \in call.authors /\ a \in Authors /\ call.best[a] # NoList /\ call.best[a] \in Lists
    BY DEF ListsLeft, Import
  <2>3. call.best[a].tags \in Seq(Tag) /\ Len(call.best[a].tags) \in Nat
    BY <2>2, ListsTyped, LenProperties
  <2>4. v \in Import
    BY <2>2, <2>3 DEF Import
  <2>5. /\ v.at = "clear" /\ v.author = a /\ v.tags = call.best[a].tags /\ v.best = call.best
        /\ v.authors = call.authors \ {a} /\ v.heard = call.heard
    BY DEF Import
  <2>6. ImportFits(x, v)
    <3>1. x \in AdminSyncs => v.authors \subseteq {Admin} /\ v.author = Admin
      BY <2>2, <2>5
    <3>2. x = SyncLoop => v.authors \subseteq Peers /\ v.author \in Peers
      BY <2>2, <2>5
    <3>3. \A i \in 1..Len(v.tags) : v.tags[i] = v.tags[(Len(v.tags) - Len(v.tags)) + i]
      BY <2>3, <2>5
    <3> QED BY <2>2, <2>3, <2>5, <3>1, <3>2, <3>3 DEF ImportFits
  <2>7. Goes(x, v, {})
    BY <1>1, <2>1 DEF Goes
  <2>8. v.at # "add"
    BY <2>5
  <2> HIDE DEF v
  <2> QED BY <1>1, <1>2, <2>4, <2>6, <2>7, <2>8, GoesKeepsType, GoesKeepsTables
<1> QED BY <1>3, <1>4

LEMMA InitAwareness == AwarenessInit => AwarenessInv
<1> SUFFICES ASSUME AwarenessInit PROVE AwarenessInv
  OBVIOUS
<1>1. Unmarked \in MarkTable
  BY DEF Unmarked, MarkTable
<1>2. TablesType /\ WorldType
  BY <1>1, ImportersAssumption DEF AwarenessInit, TablesType, WorldType
<1>3. ImportsType
  BY NoSyncFits DEF AwarenessInit, ImportsType
<1>4. TableInv
  BY DEF AwarenessInit, TableInv, ImportAt, NoSync
<1> QED BY <1>2, <1>3, <1>4 DEF AwarenessInv

LEMMA PutTyped ==
    ASSUME NEW table \in MarkTable, NEW id \in Ids, NEW mark
    PROVE  Put(table, id, mark) \in MarkTable
BY DEF Put, MarkTable

LEMMA StutterKeeps ==
    ASSUME AwarenessInv, UNCHANGED <<local, byPeer, syncs>>
    PROVE  TablesType' /\ ImportsType' /\ TableInv'
BY DEF AwarenessInv, TablesType, ImportsType, TableInv, ImportAt, Table

LEMMA SetActiveKeeps ==
    ASSUME AwarenessInv, NEW a \in SUBSET Peers, SetActive(a)
    PROVE  AwarenessInv'
<1>1. WorldType'
  BY DEF AwarenessInv, WorldType, SetActive
<1> QED BY <1>1, StutterKeeps DEF AwarenessInv, SetActive

LEMMA PublishKeeps ==
    ASSUME AwarenessInv, NEW r \in RelaySet, NEW e \in Lists, Publish(r, e)
    PROVE  AwarenessInv'
<1> DEFINE old == {h \in held : h[1] = r /\ h[2].by = e.by}
<1>1. held' = (held \ old) \union {<<r, e>>} /\ <<r, e>> \in Holds
  BY DEF Publish
<1>2. \A g, h \in held' : g[1] = h[1] /\ g[2].by = h[2].by => g = h
  <2> SUFFICES ASSUME NEW g \in held', NEW h \in held', g[1] = h[1], g[2].by = h[2].by
               PROVE  g = h
    OBVIOUS
  <2>1. CASE g = <<r, e>> \/ h = <<r, e>>
    BY <1>1, <2>1
  <2>2. CASE g # <<r, e>> /\ h # <<r, e>>
    BY <1>1, <2>2 DEF AwarenessInv, WorldType
  <2> QED BY <2>1, <2>2
<1>3. WorldType'
  BY <1>1, <1>2 DEF AwarenessInv, WorldType, Publish
<1> QED BY <1>3, StutterKeeps DEF AwarenessInv, Publish

\* An edit of the operator.
LEMMA EditKeeps ==
    ASSUME AwarenessInv, local' \in MarkTable, syncs' = Disturb(AdminSyncs),
           UNCHANGED <<byPeer, active, held, failures>>
    PROVE  AwarenessInv'
<1> DEFINE v == syncs[SyncLoop]
<1>1. SyncLoop \in Importers /\ SyncLoop \notin AdminSyncs
  BY ImportersAssumption DEF Importers
<1>2. v \in Import /\ ImportFits(SyncLoop, v)
  BY <1>1 DEF AwarenessInv, ImportsType
<1>3. Goes(SyncLoop, v, AdminSyncs)
  BY <1>1 DEF Disturb, Goes
<1>4. \A y \in Importers : y # SyncLoop => y \in AdminSyncs
  BY DEF Importers
<1>5. v.at = "add" /\ ~v.disturbed =>
        CopyUpTo(byPeer'[v.author], v.best[v.author].tags,
                 Len(v.best[v.author].tags) - Len(v.tags))
  BY <1>1 DEF AwarenessInv, TableInv, ImportAt, Table
<1>6. ImportsType' /\ TableInv'
  BY <1>1, <1>2, <1>3, <1>4, <1>5, GoesKeepsType, GoesKeepsTables DEF AwarenessInv
<1>7. TablesType' /\ WorldType'
  BY DEF AwarenessInv, TablesType, WorldType
<1> QED BY <1>6, <1>7 DEF AwarenessInv

LEMMA BeginSyncKeeps ==
    ASSUME AwarenessInv, NEW x \in Importers, BeginSync(x)
    PROVE  AwarenessInv'
<1> DEFINE wanted == IF x = SyncLoop THEN active ELSE {Admin}
           v == [NoSync EXCEPT !.at = "ask", !.authors = wanted, !.next = 1]
<1>1. Len(Relays) \in Nat /\ Len(Relays) # 0
  BY ImportersAssumption, LenProperties, EmptySeq DEF BeginSync
<1>2. wanted \subseteq Authors /\ (x \in AdminSyncs => wanted = {Admin})
      /\ (x = SyncLoop => wanted \subseteq Peers)
  BY ImportersAssumption DEF AwarenessInv, WorldType, Authors, Importers
<1>3. NoSync \in Import /\ ImportFits(x, NoSync)
  BY NoSyncFits
<1>4. /\ v.at = "ask" /\ v.authors = wanted /\ v.next = 1 /\ v.best = NoSync.best
      /\ v.author = Admin /\ v.heard = NoSync.heard
  BY DEF NoSync
<1>5. v \in Import
  <2>1. 1 \in 0..(Len(Relays) + 1)
    BY <1>1
  <2>2. NoSync.next = 0 /\ NoSync.tags = <<>> /\ NoSync.disturbed = FALSE
    BY DEF NoSync
  <2> HIDE DEF wanted
  <2> QED BY <1>2, <1>3, <2>1 DEF Import
<1>6. ImportFits(x, v)
  BY <1>1, <1>2, <1>3, <1>4 DEF ImportFits
<1>7. Goes(x, v, {})
  BY DEF BeginSync, Goes, AwarenessInv, ImportsType
<1>8. \A y \in Importers : TableStays(y)
  BY DEF TableStays, BeginSync
<1> HIDE DEF v
<1>9. ImportsType' /\ TableInv'
  BY <1>4, <1>5, <1>6, <1>7, <1>8, GoesKeepsType, GoesKeepsTables DEF AwarenessInv
<1> QED BY <1>9 DEF AwarenessInv, TablesType, WorldType, BeginSync

LEMMA AskRelayKeeps ==
    ASSUME AwarenessInv, NEW x \in Importers, AskRelay(x)
    PROVE  AwarenessInv'
<1> DEFINE r == Relays[syncs[x].next]
           answer == {h[2] : h \in {g \in held : g[1] = r /\ g[2].by \in syncs[x].authors}}
           after(heard) == [syncs[x] EXCEPT !.next = @ + 1, !.best = Newest(@, heard),
                                            !.heard = @ \union heard]
<1>1. PICK heard \in {answer} \union (IF r \in Steady THEN {} ELSE {{}}) :
        IF syncs[x].next < Len(Relays)
        THEN syncs' = [syncs EXCEPT ![x] = after(heard)]
        ELSE NextList(x, after(heard))
  BY DEF AskRelay
<1> DEFINE v == after(heard)
<1>2. syncs[x] \in Import /\ ImportFits(x, syncs[x]) /\ syncs[x].at = "ask"
  BY DEF AwarenessInv, ImportsType, AskRelay, ImportAt
<1>3. heard \in SUBSET Lists /\ \A e, f \in heard : e.by = f.by => e = f
  <2>1. \A g \in held : g[2] \in Lists
    BY ImportersAssumption DEF AwarenessInv, WorldType
  <2>2. answer \in SUBSET Lists
    BY <2>1
  <2>3. \A e, f \in answer : e.by = f.by => e = f
    BY DEF AwarenessInv, WorldType
  <2> QED BY <1>1, <2>2, <2>3
<1>4. /\ Newest(syncs[x].best, heard) \in [Authors -> Lists \union {NoList}]
      /\ KeepsNewest(Newest(syncs[x].best, heard), syncs[x].heard \union heard)
  BY <1>2, <1>3, MergeKeepsNewest DEF Import, ImportFits
<1>5. syncs[x].next \in 1..Len(Relays) /\ Len(Relays) \in Nat
  BY <1>2, ImportersAssumption, LenProperties DEF ImportFits
<1>6. v \in Import
  <2>1. syncs[x].next + 1 \in 0..(Len(Relays) + 1)
    BY <1>5
  <2>2. syncs[x].heard \union heard \in SUBSET Lists
    BY <1>2, <1>3 DEF Import
  <2> QED BY <1>2, <1>4, <2>1, <2>2 DEF Import
<1>7. /\ v.at = "ask" /\ v.authors = syncs[x].authors /\ v.next = syncs[x].next + 1
      /\ v.best = Newest(syncs[x].best, heard) /\ v.heard = syncs[x].heard \union heard
      /\ v.author = syncs[x].author
  BY <1>2 DEF Import
<1>8. UNCHANGED <<local, byPeer, active, held, failures>>
  BY DEF AskRelay
<1>9. ImportsType' /\ TableInv'
  <2>1. CASE syncs[x].next < Len(Relays)
    <3>1. Goes(x, v, {})
      BY <1>1, <2>1 DEF Goes, AwarenessInv, ImportsType
    <3>2. v.next \in 1..Len(Relays)
      BY <1>5, <1>7, <2>1
    <3>3. ImportFits(x, v)
      BY <1>2, <1>4, <1>7, <3>2 DEF ImportFits
    <3>4. \A y \in Importers : TableStays(y)
      BY <1>8 DEF TableStays
    <3> HIDE DEF v
    <3> QED BY <1>6, <1>7, <3>1, <3>3, <3>4, GoesKeepsType, GoesKeepsTables DEF AwarenessInv
  <2>2. CASE ~(syncs[x].next < Len(Relays))
    <3>1. NextList(x, v)
      BY <1>1, <2>2
    <3>2. /\ KeepsNewest(v.best, v.heard)
          /\ x \in AdminSyncs => v.authors \subseteq {Admin}
          /\ x = SyncLoop => v.authors \subseteq Peers
      BY <1>2, <1>4, <1>7 DEF ImportFits
    <3> HIDE DEF v
    <3> QED BY <1>6, <1>8, <3>1, <3>2, NextListKeeps
  <2> QED BY <2>1, <2>2
<1> QED BY <1>8, <1>9 DEF AwarenessInv, TablesType, WorldType

\* x writes its table: the tables of those that it does not disturb stay.
LEMMA WriteStays ==
    ASSUME AwarenessInv, NEW x \in Importers, NEW table \in MarkTable, Write(x, table),
           x = SyncLoop => syncs[x].author \in Peers
    PROVE  /\ TablesType'
           /\ (IF x = SyncLoop THEN byPeer'[syncs[x].author] ELSE local') = table
           /\ \A y \in Importers : y # x /\ y \notin Others(x) => TableStays(y)
<1>1. CASE x = SyncLoop
  <2>1. byPeer' = [byPeer EXCEPT ![syncs[x].author] = table] /\ local' = local
    BY <1>1 DEF Write
  <2>2. byPeer' \in [Peers -> MarkTable] /\ byPeer'[syncs[x].author] = table
    BY <1>1, <2>1 DEF AwarenessInv, TablesType
  <2> QED BY <1>1, <2>1, <2>2 DEF AwarenessInv, TablesType, TableStays
<1>2. CASE x # SyncLoop
  <2>1. local' = table /\ byPeer' = byPeer
    BY <1>2 DEF Write
  <2>2. \A y \in Importers : y # x /\ y \notin Others(x) => y = SyncLoop
    BY <1>2 DEF Others, Importers
  <2> QED BY <1>2, <2>1, <2>2 DEF AwarenessInv, TablesType, TableStays
<1> QED BY <1>1, <1>2

\* What x knows of the list it is at.
LEMMA ListKnown ==
    ASSUME AwarenessInv, NEW x \in Importers, syncs[x].at \in {"clear", "add"}
    PROVE  LET all == syncs[x].best[syncs[x].author].tags IN
           /\ syncs[x] \in Import
           /\ all \in Seq(Tag) /\ Len(all) \in Nat
           /\ syncs[x].tags \in Seq(Tag) /\ Len(syncs[x].tags) \in 0..Len(all)
           /\ \A i \in 1..Len(syncs[x].tags) :
                syncs[x].tags[i] = all[(Len(all) - Len(syncs[x].tags)) + i]
           /\ x = SyncLoop => syncs[x].author \in Peers
<1>1. syncs[x] \in Import /\ ImportFits(x, syncs[x])
  BY DEF AwarenessInv, ImportsType
<1>2. syncs[x].best[syncs[x].author] \in Lists
  BY <1>1 DEF Import, ImportFits
<1>3. syncs[x].best[syncs[x].author].tags \in Seq(Tag)
  BY <1>2, ListsTyped
<1>4. syncs[x].tags \in Seq(Tag)
  BY <1>1 DEF Import
<1>5. Len(syncs[x].best[syncs[x].author].tags) \in Nat /\ Len(syncs[x].tags) \in Nat
  BY <1>3, <1>4, LenProperties
<1>6. Len(syncs[x].tags) \in 0..Len(syncs[x].best[syncs[x].author].tags)
  <2>1. Len(syncs[x].tags) <= Len(syncs[x].best[syncs[x].author].tags)
    BY <1>1 DEF ImportFits
  <2> QED BY <1>5, <2>1
<1> QED BY <1>1, <1>3, <1>4, <1>5, <1>6 DEF ImportFits

LEMMA ClearKeeps ==
    ASSUME AwarenessInv, NEW x \in Importers, Clear(x)
    PROVE  AwarenessInv'
<1> DEFINE v == [syncs[x] EXCEPT !.at = "add"]
           all == syncs[x].best[syncs[x].author].tags
<1>1. syncs[x].at = "clear" /\ syncs[x] \in Import /\ ImportFits(x, syncs[x])
  BY DEF AwarenessInv, ImportsType, Clear, ImportAt
<1>2. /\ v \in Import /\ v.at = "add" /\ v.authors = syncs[x].authors /\ v.next = syncs[x].next
      /\ v.best = syncs[x].best /\ v.tags = syncs[x].tags /\ v.author = syncs[x].author
      /\ v.heard = syncs[x].heard /\ v.disturbed = syncs[x].disturbed
  BY <1>1 DEF Import
<1>3. ImportFits(x, v)
  BY <1>1, <1>2 DEF ImportFits
<1>4. Goes(x, v, Others(x))
  BY DEF Clear, Goes, Disturb, Others
<1>5. /\ TablesType'
      /\ (IF x = SyncLoop THEN byPeer'[syncs[x].author] ELSE local') = Unmarked
      /\ \A y \in Importers : y # x /\ y \notin Others(x) => TableStays(y)
  <2>1. Unmarked \in MarkTable
    BY DEF Unmarked, MarkTable
  <2> QED BY <1>1, <2>1, WriteStays DEF Clear, ImportFits
<1>6. Len(all) - Len(v.tags) = 0
  <2>1. v.tags = all /\ Len(all) \in Nat
    BY <1>1, <1>2, ListKnown DEF ImportFits
  <2> QED BY <2>1
<1>7. CopyUpTo(Unmarked, all, 0)
  BY CopyNothing
<1> HIDE DEF v
<1>8. ImportsType' /\ TableInv'
  BY <1>2, <1>3, <1>4, <1>5, <1>6, <1>7, GoesKeepsType, GoesKeepsTables DEF AwarenessInv
<1> QED BY <1>5, <1>8 DEF AwarenessInv, WorldType, Clear

LEMMA Positions ==
    ASSUME NEW n \in Nat, NEW m \in 0..n, NEW k, k = m - 1
    PROVE  /\ (n - m) + 1 = n - k
           /\ \A i \in 1..k : (n - m) + (i + 1) = (n - k) + i
           /\ m # 0 => n - m \in Nat /\ n - m < n
OBVIOUS

\* An entry of the list is behind x: whether it was added, or its INSERT failed.
LEMMA TailFits ==
    ASSUME AwarenessInv, NEW x \in Importers, syncs[x].at = "add", syncs[x].tags # <<>>,
           NEW b \in BOOLEAN
    PROVE  LET v == [syncs[x] EXCEPT !.tags = Tail(@), !.disturbed = b] IN
           v \in Import /\ ImportFits(x, v) /\ Len(v.tags) = Len(syncs[x].tags) - 1
<1> DEFINE v == [syncs[x] EXCEPT !.tags = Tail(@), !.disturbed = b]
           all == syncs[x].best[syncs[x].author].tags
           tags == syncs[x].tags
<1>1. /\ syncs[x] \in Import /\ ImportFits(x, syncs[x]) /\ all \in Seq(Tag) /\ Len(all) \in Nat
      /\ tags \in Seq(Tag) /\ Len(tags) \in 0..Len(all)
      /\ \A i \in 1..Len(tags) : tags[i] = all[(Len(all) - Len(tags)) + i]
  BY ListKnown DEF AwarenessInv, ImportsType
<1>2. /\ Tail(tags) \in Seq(Tag) /\ Len(Tail(tags)) = Len(tags) - 1 /\ Len(tags) # 0
      /\ \A i \in 1..Len(Tail(tags)) : Tail(tags)[i] = tags[i + 1]
  BY <1>1, HeadTailProperties, EmptySeq
<1>3. /\ v \in Import /\ v.at = "add" /\ v.authors = syncs[x].authors /\ v.next = syncs[x].next
      /\ v.best = syncs[x].best /\ v.tags = Tail(tags) /\ v.author = syncs[x].author
      /\ v.heard = syncs[x].heard
  BY <1>1, <1>2 DEF Import
<1> HIDE DEF v
<1>4. \A i \in 1..Len(v.tags) : v.tags[i] = all[(Len(all) - Len(v.tags)) + i]
  <2> SUFFICES ASSUME NEW i \in 1..Len(v.tags)
               PROVE  v.tags[i] = all[(Len(all) - Len(v.tags)) + i]
    OBVIOUS
  <2>1. v.tags[i] = tags[i + 1] /\ i + 1 \in 1..Len(tags)
    BY <1>1, <1>2, <1>3
  <2>2. (Len(all) - Len(tags)) + (i + 1) = (Len(all) - Len(v.tags)) + i
    <3>1. Len(v.tags) = Len(tags) - 1
      BY <1>2, <1>3
    <3> HIDE DEF all, tags
    <3> QED BY <1>1, <3>1, Positions
  <2> HIDE DEF all, tags
  <2> QED BY <1>1, <2>1, <2>2
<1>5. Len(v.tags) <= Len(all) /\ Len(v.tags) = Len(tags) - 1
  BY <1>1, <1>2, <1>3
<1>6. ImportFits(x, v)
  BY <1>1, <1>3, <1>4, <1>5 DEF ImportFits
<1> QED BY <1>3, <1>5, <1>6 DEF v

LEMMA AddMarkKeeps ==
    ASSUME AwarenessInv, NEW x \in Importers, AddMark(x)
    PROVE  AwarenessInv'
<1> DEFINE b == syncs[x].disturbed
           v == [syncs[x] EXCEPT !.tags = Tail(@), !.disturbed = b]
           all == syncs[x].best[syncs[x].author].tags
           tag == Head(syncs[x].tags)
           n == Len(all) - Len(syncs[x].tags)
           table == Put(Table(x), tag[1], tag[2])
<1>1. syncs[x].at = "add" /\ syncs[x].tags # <<>>
  BY DEF AddMark, ImportAt
<1>2. /\ syncs[x] \in Import /\ all \in Seq(Tag) /\ Len(all) \in Nat
      /\ syncs[x].tags \in Seq(Tag) /\ Len(syncs[x].tags) \in 0..Len(all)
      /\ \A i \in 1..Len(syncs[x].tags) : syncs[x].tags[i] = all[n + i]
      /\ x = SyncLoop => syncs[x].author \in Peers
  BY <1>1, ListKnown
<1>3. b \in BOOLEAN
  BY <1>2 DEF Import
<1>4. v \in Import /\ ImportFits(x, v) /\ Len(v.tags) = Len(syncs[x].tags) - 1
  BY <1>1, <1>3, TailFits
<1>5. v.at = "add" /\ v.best = syncs[x].best /\ v.author = syncs[x].author /\ v.disturbed = b
  BY <1>1, <1>2 DEF Import
<1>6. tag = all[n + 1] /\ tag \in Tag /\ n \in Nat /\ n < Len(all)
  <2>1. Len(syncs[x].tags) # 0 /\ tag = syncs[x].tags[1] /\ tag \in Tag
    BY <1>1, <1>2, HeadTailProperties, EmptySeq
  <2>2. n + 1 = (Len(all) - Len(syncs[x].tags)) + 1 /\ 1 \in 1..Len(syncs[x].tags)
    BY <1>2, <2>1
  <2>3. n \in Nat /\ n < Len(all)
    <3> HIDE DEF all
    <3> QED BY <1>2, <2>1
  <2> HIDE DEF all, n, tag
  <2> QED BY <1>2, <2>1, <2>2, <2>3
<1>7. Table(x) \in MarkTable
  BY <1>2 DEF Table, AwarenessInv, TablesType
<1>8. table \in MarkTable
  BY <1>6, <1>7, PutTyped DEF Tag
<1>9. /\ TablesType'
      /\ (IF x = SyncLoop THEN byPeer'[syncs[x].author] ELSE local') = table
      /\ \A y \in Importers : y # x /\ y \notin Others(x) => TableStays(y)
  BY <1>2, <1>8, WriteStays DEF AddMark
<1>10. Goes(x, v, Others(x))
  <2>1. v = [syncs[x] EXCEPT !.tags = Tail(@)]
    BY <1>2 DEF Import
  <2> HIDE DEF v
  <2> QED BY <2>1 DEF AddMark, Goes, Disturb, Others
<1>11. ~b => CopyUpTo(table, all, n + 1)
  <2>1. ~b => CopyUpTo(Table(x), all, n)
    BY <1>1 DEF AwarenessInv, TableInv, ImportAt
  <2> HIDE DEF all, n, b
  <2> QED BY <1>2, <1>6, <1>7, <2>1, CopyExtends
<1>12. n + 1 = Len(all) - Len(v.tags)
  <2> HIDE DEF all, v
  <2> QED BY <1>2, <1>4, Positions
<1> HIDE DEF v
<1>13. ImportsType' /\ TableInv'
  BY <1>4, <1>5, <1>9, <1>10, <1>11, <1>12, GoesKeepsType, GoesKeepsTables DEF AwarenessInv
<1> QED BY <1>9, <1>13 DEF AwarenessInv, WorldType, AddMark

LEMMA EndListKeeps ==
    ASSUME AwarenessInv, NEW x \in Importers, EndList(x)
    PROVE  AwarenessInv'
<1>1. syncs[x] \in Import /\ ImportFits(x, syncs[x])
  BY DEF AwarenessInv, ImportsType
<1>2. ImportsType' /\ TableInv'
  BY <1>1, NextListKeeps DEF EndList, ImportFits
<1> QED BY <1>2 DEF AwarenessInv, TablesType, WorldType, EndList

LEMMA FailedWriteKeeps ==
    ASSUME AwarenessInv, NEW x \in Importers, FailedWrite(x)
    PROVE  AwarenessInv'
<1>1. UNCHANGED <<local, byPeer, active, held>>
  BY DEF FailedWrite
<1>2. WorldType' /\ TablesType'
  BY <1>1, ImportersAssumption DEF AwarenessInv, WorldType, TablesType, FailedWrite
<1>3. \A y \in Importers : TableStays(y)
  BY <1>1 DEF TableStays
<1>4. syncs \in [Importers -> Import] /\ syncs[x] \in Import /\ ImportFits(x, syncs[x])
  BY DEF AwarenessInv, ImportsType
<1>5. CASE ImportAt(x, "clear") /\ syncs' = [syncs EXCEPT ![x].at = "add", ![x].disturbed = TRUE]
  <2> DEFINE v == [syncs[x] EXCEPT !.at = "add", !.disturbed = TRUE]
  <2>1. /\ v \in Import /\ v.at = "add" /\ v.authors = syncs[x].authors /\ v.next = syncs[x].next
        /\ v.best = syncs[x].best /\ v.tags = syncs[x].tags /\ v.author = syncs[x].author
        /\ v.heard = syncs[x].heard /\ v.disturbed
    BY <1>4 DEF Import
  <2>2. ImportFits(x, v)
    BY <1>4, <1>5, <2>1 DEF ImportFits, ImportAt
  <2>3. Goes(x, v, {})
    BY <1>4, <1>5 DEF Goes
  <2> HIDE DEF v
  <2>4. ImportsType' /\ TableInv'
    BY <1>3, <2>1, <2>2, <2>3, GoesKeepsType, GoesKeepsTables DEF AwarenessInv
  <2> QED BY <1>2, <2>4 DEF AwarenessInv
<1>6. CASE /\ ImportAt(x, "add") /\ syncs[x].tags # <<>>
           /\ syncs' = [syncs EXCEPT ![x].tags = Tail(@), ![x].disturbed = TRUE]
  <2> DEFINE v == [syncs[x] EXCEPT !.tags = Tail(@), !.disturbed = TRUE]
  <2>1. v \in Import /\ ImportFits(x, v)
    BY <1>6, TailFits DEF ImportAt
  <2>2. v.disturbed
    BY <1>4 DEF Import
  <2>3. Goes(x, v, {})
    BY <1>4, <1>6 DEF Goes
  <2> HIDE DEF v
  <2>4. ImportsType' /\ TableInv'
    BY <1>3, <2>1, <2>2, <2>3, GoesKeepsType, GoesKeepsTables DEF AwarenessInv
  <2> QED BY <1>2, <2>4 DEF AwarenessInv
<1> QED BY <1>5, <1>6 DEF FailedWrite

-----------------------------------------------------------------------------
(* The theorems. *)

LEMMA AwarenessStep == AwarenessInv /\ [AwarenessNext]_awarenessVars => AwarenessInv'
<1> SUFFICES ASSUME AwarenessInv, [AwarenessNext]_awarenessVars
             PROVE  AwarenessInv'
  OBVIOUS
<1>1. CASE \E a \in SUBSET Peers : SetActive(a)
  BY <1>1, SetActiveKeeps
<1>2. CASE \E r \in RelaySet, e \in Lists : Publish(r, e)
  BY <1>2, PublishKeeps
<1>3. CASE \E edit \in Edits : AddLocalMark(edit[1], edit[2]) \/ DeleteLocalMark(edit[1])
  <2>1. PICK edit \in Edits : AddLocalMark(edit[1], edit[2]) \/ DeleteLocalMark(edit[1])
    BY <1>3
  <2>2. edit[1] \in Ids /\ local \in MarkTable
    BY ImportersAssumption DEF AwarenessInv, TablesType
  <2>3. local' \in MarkTable
    <3>1. Put(local, edit[1], edit[2]) \in MarkTable
      BY <2>2, PutTyped
    <3>2. [local EXCEPT ![edit[1]] = NoMark] \in MarkTable
      BY <2>2 DEF MarkTable
    <3> QED BY <2>1, <3>1, <3>2 DEF AddLocalMark, DeleteLocalMark
  <2> QED BY <2>1, <2>3, EditKeeps DEF AddLocalMark, DeleteLocalMark
<1>4. CASE \E x \in Importers : BeginSync(x)
  BY <1>4, BeginSyncKeeps
<1>5. CASE \E x \in Importers : SyncStep(x)
  BY <1>5, AskRelayKeeps, ClearKeeps, AddMarkKeeps, EndListKeeps DEF SyncStep
<1>6. CASE \E x \in Importers : FailedWrite(x)
  BY <1>6, FailedWriteKeeps
<1>7. CASE UNCHANGED awarenessVars
  BY <1>7, StutterKeeps DEF AwarenessInv, WorldType, awarenessVars
<1> QED BY <1>1, <1>2, <1>3, <1>4, <1>5, <1>6, <1>7 DEF AwarenessNext

\* The invariant holds between any two statements of the imports and of the handlers.
THEOREM AwarenessIsInvariant == AwarenessSpec => []AwarenessInv
BY InitAwareness, AwarenessStep, PTL DEF AwarenessSpec

\* Every variable of the imports keeps its type, however many handlers and peers there are.
THEOREM AwarenessTypeCorrect == AwarenessSpec => []AwarenessTypeOK
BY AwarenessIsInvariant, AwarenessInvImplies, PTL

\* An import beside which nobody writes to its table leaves the newest list it heard, mark
\* for mark (handleAwarenessSync, parseDNNAwarenessEvent).
LEMMA ImportedIsNewest == AwarenessInv => SyncReplacesMarks
<1> SUFFICES ASSUME AwarenessInv, NEW x \in Importers, syncs[x].at = "add",
                    syncs[x].tags = <<>>, ~syncs[x].disturbed
             PROVE  \E e \in NewestHeard(x) : CopyOf(Table(x), e.tags)
  BY DEF SyncReplacesMarks, ImportAt
<1> DEFINE e == syncs[x].best[syncs[x].author]
<1>1. syncs[x] \in Import /\ ImportFits(x, syncs[x])
  BY DEF AwarenessInv, ImportsType
<1>2. e # NoList /\ syncs[x].author \in Authors
  BY <1>1 DEF ImportFits, Import
<1>3. e \in syncs[x].heard /\ e.by = syncs[x].author
      /\ \A f \in syncs[x].heard : f.by = syncs[x].author => f.created <= e.created
  BY <1>1, <1>2 DEF ImportFits, KeepsNewest
<1>4. e \in NewestHeard(x)
  BY <1>3 DEF NewestHeard
<1>5. CopyUpTo(Table(x), e.tags, Len(e.tags) - Len(syncs[x].tags))
  BY DEF AwarenessInv, TableInv, ImportAt
<1>6. Len(syncs[x].tags) = 0 /\ Len(e.tags) \in Nat
  BY ListKnown
<1>7. CopyOf(Table(x), e.tags)
  BY <1>5, <1>6 DEF CopyOf
<1> QED BY <1>4, <1>7

\* What an undisturbed import leaves is the newest list it was answered with, mark for mark:
\* nothing of the table as it was, of an older list or of a list of someone else.
THEOREM ImportsLeaveNewest == AwarenessSpec => []SyncReplacesMarks
BY AwarenessIsInvariant, ImportedIsNewest, PTL
=============================================================================
