------------------------- MODULE EventLimitsProofs -------------------------
(***************************************************************************)
(* Proofs about EventLimits, for any handlers, events, limits and number   *)
(* of faults.                                                              *)
(***************************************************************************)
EXTENDS EventLimits, FiniteSetTheorems, TLAPS

CallType == [at : Statements, ev : Events \union {NoEvent},
             version : Events \union {NoEvent}, dtag : DTags \union {NoDTag}]
CleanerType == [at : CleanerSteps, protected : SUBSET DTags, excess : [DTags -> Nat],
                quota : Nat, queue : Seq(DTags)]

-----------------------------------------------------------------------------
(* Counting. *)

\* The rows and the d tags of the pubkey are finitely many.
LEMMA Finite ==
    ASSUME rows \subseteq Events
    PROVE  /\ IsFiniteSet(rows) /\ Cardinality(rows) \in Nat
           /\ \A d \in DTags : IsFiniteSet(Versions(d)) /\ Cardinality(Versions(d)) \in Nat
           /\ StoredDTags \subseteq DTags
           /\ IsFiniteSet(StoredDTags) /\ Cardinality(StoredDTags) \in Nat
<1> USE EventsAssumption
<1>1. IsFiniteSet(rows) /\ Cardinality(rows) \in Nat
  BY FS_Subset, FS_CardinalityType
<1>2. ASSUME NEW d \in DTags
      PROVE  IsFiniteSet(Versions(d)) /\ Cardinality(Versions(d)) \in Nat
  <2>1. Versions(d) \in SUBSET rows
    BY DEF Versions
  <2> QED BY <1>1, <2>1, FS_Subset, FS_CardinalityType
<1>3. StoredDTags \subseteq DTags
  BY DEF StoredDTags
<1> QED BY <1>1, <1>2, <1>3, FS_Subset, FS_CardinalityType

\* The excess over a limit is a natural number.
LEMMA ExcessType ==
    ASSUME NEW n \in Nat, NEW max \in Nat
    PROVE  Excess(n, max) \in Nat
BY DEF Excess

-----------------------------------------------------------------------------

\* A call that goes on keeps the type of its record.
LEMMA ChosenType ==
    ASSUME TypeOK, NEW p \in Handlers, calls[p].ev \in Events,
           NEW v \in Events \union {NoEvent}, NEW d \in DTags \union {NoDTag},
           Chosen(p, v, d)
    PROVE  /\ calls' \in [Handlers -> CallType]
           /\ \A o \in Handlers : calls'[o].at = "idle" <=> calls'[o].ev = NoEvent
<1> USE NamesAssumption
<1> DEFINE next == IF v # NoEvent THEN "deleteVersion"
                   ELSE IF d # NoDTag THEN "deleteDTag" ELSE "store"
           new == [calls[p] EXCEPT !.version = v, !.dtag = d, !.at = next]
<1>1. calls' = [calls EXCEPT ![p] = new]
  BY DEF Chosen, TypeOK
<1>2. new \in CallType /\ new.at # "idle" /\ new.ev = calls[p].ev
  BY DEF TypeOK, CallType, Statements, Reads
<1> QED BY <1>1, <1>2 DEF TypeOK, CallType, At

\* A call that gives up keeps its event, and forgets what it would delete.
LEMMA NoCallType ==
    ASSUME TypeOK, NEW p \in Handlers, NEW s \in Statements,
           NEW e \in Events \union {NoEvent}, s = "idle" <=> e = NoEvent,
           calls' = [calls EXCEPT ![p] = [NoCall EXCEPT !.at = s, !.ev = e]]
    PROVE  /\ calls' \in [Handlers -> CallType]
           /\ \A o \in Handlers : calls'[o].at = "idle" <=> calls'[o].ev = NoEvent
<1> DEFINE new == [NoCall EXCEPT !.at = s, !.ev = e]
<1>1. new \in CallType /\ new.at = s /\ new.ev = e
  BY DEF NoCall, CallType
<1> QED BY <1>1 DEF TypeOK, CallType, At

LEMMA ReturnType ==
    ASSUME TypeOK, NEW p \in Handlers, Return(p)
    PROVE  /\ calls' \in [Handlers -> CallType]
           /\ \A o \in Handlers : calls'[o].at = "idle" <=> calls'[o].ev = NoEvent
<1>1. NoCall \in CallType /\ NoCall.at = "idle" /\ NoCall.ev = NoEvent
  BY DEF NoCall, CallType, Statements
<1> QED BY <1>1 DEF TypeOK, CallType, At, Return

LEMMA GoToType ==
    ASSUME TypeOK, NEW p \in Handlers, NEW s \in Statements \ {"idle"},
           ~At(p, "idle"), GoTo(p, s)
    PROVE  /\ calls' \in [Handlers -> CallType]
           /\ \A o \in Handlers : calls'[o].at = "idle" <=> calls'[o].ev = NoEvent
BY DEF TypeOK, CallType, At, GoTo

\* What a restart or an error leaves of the cleanup's state.
LEMMA CleanerToType ==
    ASSUME NEW step \in CleanerSteps
    PROVE  [CleanupStart EXCEPT !.at = step] \in CleanerType /\ CleanupStart \in CleanerType
<1>1. <<>> \in Seq(DTags)
  OBVIOUS
<1> QED BY <1>1 DEF CleanupStart, CleanerType, CleanerSteps

\* Storing an event leaves events.
LEMMA AfterStoreType ==
    ASSUME rows \subseteq Events, NEW e \in Events
    PROVE  AfterStore(e) \subseteq Events
BY DEF AfterStore

\* What an action that leaves a variable alone need not show again.
CallsOK == /\ calls \in [Handlers -> CallType]
           /\ \A o \in Handlers : calls[o].at = "idle" <=> calls[o].ev = NoEvent
CleanerOK == cleaner \in CleanerType
RestOK == /\ rows \subseteq Events /\ refs \subseteq Referable /\ paid \in BOOLEAN
          /\ stable \subseteq refs /\ quiet \in BOOLEAN /\ strained \in BOOLEAN
          /\ faults \in 0..MaxFaults

LEMMA TypeParts == TypeOK => CallsOK /\ CleanerOK /\ RestOK
BY DEF TypeOK, CallsOK, CleanerOK, RestOK, CallType, CleanerType, At

LEMMA TypePartsNext == CallsOK' /\ CleanerOK' /\ RestOK' => TypeOK'
BY DEF TypeOK, CallsOK, CleanerOK, RestOK, CallType, CleanerType, At

\* A step of a handler.
LEMMA HandlerStepType ==
    ASSUME TypeOK, NEW p \in Handlers, HandlerStep(p)
    PROVE  TypeOK'
<1> DEFINE c == calls[p]
<1> USE NamesAssumption DEF At
<1>0. /\ CallsOK /\ CleanerOK /\ RestOK
      /\ c \in CallType /\ (c.at # "idle" => c.ev \in Events)
  BY TypeParts DEF CallsOK, CallType
<1>1. ASSUME GiveUp(p), c.at # "idle" PROVE CallsOK'
  <2>1. "store" \in Statements /\ "store" # "idle"
    BY DEF Statements
  <2> QED BY <1>0, <1>1, <2>1, NoCallType DEF GiveUp, CallsOK, CallType
<1>2. ASSUME NEW v \in Events \union {NoEvent}, NEW d \in DTags \union {NoDTag},
             c.at # "idle", Chosen(p, v, d)
      PROVE  CallsOK'
  BY <1>0, <1>2, ChosenType DEF CallsOK
<1>3. ASSUME NEW x \in Statements \ {"idle"}, c.at # "idle", GoTo(p, x) PROVE CallsOK'
  BY <1>0, <1>3, GoToType DEF CallsOK
<1>4. ASSUME CountVersions(p) PROVE CallsOK'
  BY <1>0, <1>3, <1>4 DEF CountVersions, Statements, Reads
<1>5. ASSUME OldestVersion(p) PROVE CallsOK'
  <2>1. ASSUME GiveUp(p) PROVE CallsOK'
    BY <1>1, <1>5, <2>1 DEF OldestVersion
  <2>2. ASSUME NEW v \in Oldest(Versions(c.ev.d)),
               calls' = [calls EXCEPT ![p].at = "recount", ![p].version = v]
        PROVE  CallsOK'
    <3>1. v \in Events
      BY <1>0 DEF Oldest, Versions, RestOK
    <3> QED BY <1>0, <1>5, <2>2, <3>1 DEF OldestVersion, CallsOK, CallType, Statements, Reads
  <2> QED BY <1>5, <2>1, <2>2 DEF OldestVersion
<1>6. ASSUME Recount(p) PROVE CallsOK'
  BY <1>0, <1>2, <1>3, <1>6 DEF Recount, Statements, Reads, CallType
<1>7. ASSUME CountDTags(p) PROVE CallsOK'
  BY <1>0, <1>2, <1>3, <1>7 DEF CountDTags, Statements, Reads, CallType
<1>8. ASSUME OldestDTag(p) PROVE CallsOK'
  <2>1. ASSUME GiveUp(p) PROVE CallsOK'
    BY <1>1, <1>8, <2>1 DEF OldestDTag
  <2>2. ASSUME NEW d \in Stalest,
               calls' = [calls EXCEPT ![p].at = "checkReference", ![p].dtag = d]
        PROVE  CallsOK'
    <3>1. d \in DTags
      BY <1>0, Finite DEF Stalest, RestOK
    <3> QED BY <1>0, <1>8, <2>2, <3>1 DEF OldestDTag, CallsOK, CallType, Statements, Reads
  <2> QED BY <1>8, <2>1, <2>2 DEF OldestDTag
<1>9. ASSUME CheckReference(p) PROVE CallsOK'
  BY <1>0, <1>2, <1>9 DEF CheckReference, CallType
<1>10. ASSUME DeleteVersion(p) PROVE CallsOK'
  BY <1>0, <1>2, <1>10 DEF DeleteVersion, CallType
<1>11. ASSUME DeleteDTag(p) PROVE CallsOK'
  BY <1>0, <1>2, <1>11 DEF DeleteDTag
<1>12. ASSUME Store(p) PROVE CallsOK'
  BY <1>0, <1>12, ReturnType DEF Store, CallsOK
<1>13. CallsOK'
  BY <1>4, <1>5, <1>6, <1>7, <1>8, <1>9, <1>10, <1>11, <1>12 DEF HandlerStep
<1>14. rows' \subseteq Events
  BY <1>0, AfterStoreType DEF HandlerStep, DeleteVersion, DeleteDTag, Store, RestOK
<1>15. strained' \in BOOLEAN /\ quiet' \in BOOLEAN
  BY <1>0
  DEF HandlerStep, CountVersions, OldestVersion, Recount, CountDTags, OldestDTag,
      CheckReference, GiveUp, RestOK
<1>16. UNCHANGED <<refs, paid, cleaner, stable, faults>>
  BY DEF HandlerStep
<1> QED
  BY <1>0, <1>13, <1>14, <1>15, <1>16, TypePartsNext DEF CleanerOK, RestOK

\* A statement of a handler that fails.
LEMMA HandlerFaultType ==
    ASSUME TypeOK, NEW p \in Handlers, ReadFails(p) \/ WriteFails(p)
    PROVE  TypeOK'
<1> DEFINE c == calls[p]
<1> USE NamesAssumption DEF At
<1>0. /\ CallsOK /\ CleanerOK /\ RestOK
      /\ c \in CallType /\ (c.at # "idle" => c.ev \in Events)
  BY TypeParts DEF CallsOK, CallType
<1>1. ASSUME ReadFails(p) PROVE CallsOK'
  <2>1. CASE GoTo(p, "countDTags")
    BY <1>0, <1>1, <2>1, GoToType DEF ReadFails, CallsOK, Statements, Reads
  <2>2. CASE GiveUp(p)
    <3>1. "store" \in Statements /\ "store" # "idle" /\ c.at # "idle"
      BY <1>1 DEF ReadFails, Statements, Reads
    <3> QED BY <1>0, <2>2, <3>1, NoCallType DEF GiveUp, CallsOK, CallType
  <2> QED BY <1>1, <2>1, <2>2 DEF ReadFails
<1>2. ASSUME WriteFails(p) PROVE CallsOK'
  <2>1. ASSUME NEW d \in DTags \union {NoDTag}, c.at # "idle", Chosen(p, NoEvent, d)
        PROVE  CallsOK'
    BY <1>0, <2>1, ChosenType DEF CallsOK
  <2>2. CASE Return(p)
    BY <1>0, <2>2, ReturnType DEF CallsOK
  <2> QED BY <1>0, <1>2, <2>1, <2>2 DEF WriteFails, CallType
<1>3. faults' \in 0..MaxFaults
  BY <1>0, NumbersAssumption DEF ReadFails, WriteFails, Fault, RestOK
<1>4. /\ quiet' = FALSE /\ strained' = TRUE
      /\ UNCHANGED <<rows, refs, paid, cleaner, stable>>
  BY DEF ReadFails, WriteFails, Fault
<1> QED
  BY <1>0, <1>1, <1>2, <1>3, <1>4, TypePartsNext DEF CleanerOK, RestOK

\* A step of the cleanup.
LEMMA CleanerStepType ==
    ASSUME TypeOK, CleanerStep
    PROVE  TypeOK'
<1> USE NamesAssumption, NumbersAssumption DEF CleanerAt
<1>0. CallsOK /\ CleanerOK /\ RestOK
  BY TypeParts
<1>1. cleaner \in CleanerType /\ rows \subseteq Events
  BY <1>0 DEF CleanerOK, RestOK
<1>2. AnchorReferencedDTags \in SUBSET DTags
  BY <1>0 DEF AnchorReferencedDTags, RestOK
<1>3. ASSUME NEW x \in CleanerSteps, CleanerTo(x) PROVE cleaner' \in CleanerType
  BY <1>3, CleanerToType DEF CleanerTo
<1>4. ASSUME CheckPubkey PROVE cleaner' \in CleanerType
  BY <1>3, <1>4 DEF CheckPubkey, CleanerSteps
<1>5. ASSUME ProtectInvalid PROVE cleaner' \in CleanerType
  BY <1>1, <1>2, <1>5 DEF ProtectInvalid, CleanerType, CleanerSteps
<1>6. ASSUME DeleteInvalid PROVE cleaner' \in CleanerType
  BY <1>3, <1>6 DEF DeleteInvalid, CleanerSteps
<1>7. ASSUME CountAllVersions PROVE cleaner' \in CleanerType
  <2> DEFINE f == [d \in DTags |-> Excess(Cardinality(Versions(d)), MaxVersions)]
  <2>1. f \in [DTags -> Nat]
    BY <1>1, Finite, ExcessType
  <2>2. cleaner' = [cleaner EXCEPT !.at = "pruneVersions", !.excess = f]
    BY <1>7 DEF CountAllVersions
  <2> HIDE DEF f
  <2> QED BY <1>1, <2>1, <2>2 DEF CleanerType, CleanerSteps
<1>8. ASSUME PruneVersions PROVE cleaner' \in CleanerType
  <2>1. CASE CleanerTo("countDTags")
    BY <1>3, <2>1 DEF CleanerSteps
  <2>2. ASSUME NEW d \in DTags, cleaner' = [cleaner EXCEPT !.excess[d] = 0]
        PROVE  cleaner' \in CleanerType
    BY <1>1, <2>2 DEF CleanerType
  <2> QED BY <1>8, <2>1, <2>2 DEF PruneVersions
<1>9. ASSUME CountAllDTags PROVE cleaner' \in CleanerType
  <2> DEFINE excess == Excess(Cardinality(StoredDTags), MaxDTags)
  <2>1. excess \in Nat
    BY <1>1, Finite, ExcessType
  <2>2. cleaner' = [cleaner EXCEPT !.at = IF excess > 0 THEN "protectDTags" ELSE "done",
                                   !.quota = excess]
    BY <1>9 DEF CountAllDTags
  <2> HIDE DEF excess
  <2> QED BY <1>1, <2>1, <2>2 DEF CleanerType, CleanerSteps
<1>10. ASSUME ProtectDTags PROVE cleaner' \in CleanerType
  BY <1>1, <1>2, <1>10 DEF ProtectDTags, CleanerType, CleanerSteps
<1>11. ASSUME OrderDTags PROVE cleaner' \in CleanerType
  <2> DEFINE free == StoredDTags \ cleaner.protected
  <2>1. free \in SUBSET StoredDTags
    OBVIOUS
  <2>2. Cardinality(free) \in Nat /\ free \subseteq DTags
    <3>1. IsFiniteSet(free) /\ free \subseteq DTags
      BY <1>1, <2>1, Finite, FS_Subset
    <3> HIDE DEF free
    <3> QED BY <3>1, FS_CardinalityType
  <2>3. PICK order \in SetToSeqs(free) :
            cleaner' = [cleaner EXCEPT !.at = "pruneDTags", !.queue = order]
    BY <1>11 DEF OrderDTags
  <2>4. order \in Seq(DTags)
    <3> HIDE DEF free
    <3>1. order \in [1..Cardinality(free) -> free]
      BY <2>3 DEF SetToSeqs
    <3> QED BY <2>2, <3>1
  <2> QED BY <1>1, <2>3, <2>4 DEF CleanerType, CleanerSteps
<1>12. ASSUME PruneDTag PROVE cleaner' \in CleanerType
  <2>1. CASE CleanerTo("done")
    BY <1>3, <2>1 DEF CleanerSteps
  <2>2. CASE /\ cleaner.quota # 0 /\ cleaner.queue # <<>>
             /\ cleaner' = [cleaner EXCEPT !.queue = Tail(@), !.quota = @ - 1]
    <3>1. cleaner.queue \in Seq(DTags) /\ cleaner.quota \in Nat
      BY <1>1 DEF CleanerType
    <3>2. Tail(cleaner.queue) \in Seq(DTags) /\ cleaner.quota - 1 \in Nat
      BY <2>2, <3>1
    <3>3. cleaner' = [cleaner EXCEPT !.queue = Tail(cleaner.queue),
                                     !.quota = cleaner.quota - 1]
      BY <2>2
    <3> QED BY <1>1, <3>2, <3>3 DEF CleanerType
  <2> QED BY <1>12, <2>1, <2>2 DEF PruneDTag
<1>13. CleanerOK'
  BY <1>4, <1>5, <1>6, <1>7, <1>8, <1>9, <1>10, <1>11, <1>12 DEF CleanerStep, CleanerOK
<1>14. rows' \subseteq rows
  BY DEF CleanerStep, CheckPubkey, ProtectInvalid, DeleteInvalid, CountAllVersions,
         PruneVersions, CountAllDTags, ProtectDTags, OrderDTags, PruneDTag
<1>15. UNCHANGED <<refs, paid, calls, stable, quiet, strained, faults>>
  BY DEF CleanerStep, history
<1> QED
  BY <1>0, <1>13, <1>14, <1>15, TypePartsNext DEF CallsOK, RestOK

\* A statement of the cleanup that fails.
LEMMA CleanerFaultType ==
    ASSUME TypeOK, CleanupFails
    PROVE  TypeOK'
<1> USE NamesAssumption, NumbersAssumption DEF CleanerAt
<1>0. CallsOK /\ CleanerOK /\ RestOK
  BY TypeParts
<1>1. cleaner \in CleanerType
  BY <1>0 DEF CleanerOK
<1>2. ASSUME NEW x \in CleanerSteps, CleanerTo(x) PROVE cleaner' \in CleanerType
  BY <1>2, CleanerToType DEF CleanerTo
<1>3. ASSUME NEW x \in {"deleteInvalid", "orderDTags"},
             cleaner' = [cleaner EXCEPT !.protected = {}, !.at = x]
      PROVE  cleaner' \in CleanerType
  BY <1>1, <1>3 DEF CleanerType, CleanerSteps
<1>4. ASSUME NEW d \in DTags, cleaner' = [cleaner EXCEPT !.excess[d] = 0]
      PROVE  cleaner' \in CleanerType
  BY <1>1, <1>4 DEF CleanerType
<1>5. ASSUME cleaner.queue # <<>>, cleaner' = [cleaner EXCEPT !.queue = Tail(@)]
      PROVE  cleaner' \in CleanerType
  <2>1. Tail(cleaner.queue) \in Seq(DTags)
    BY <1>1, <1>5 DEF CleanerType
  <2>2. cleaner' = [cleaner EXCEPT !.queue = Tail(cleaner.queue)]
    BY <1>5
  <2> QED BY <1>1, <2>1, <2>2 DEF CleanerType
<1>6. CleanerOK'
  BY <1>2, <1>3, <1>4, <1>5 DEF CleanupFails, CleanerOK, CleanerSteps
<1>7. faults' \in 0..MaxFaults /\ quiet' = FALSE /\ strained' = TRUE
  BY <1>0 DEF CleanupFails, Fault, RestOK
<1>8. UNCHANGED <<rows, refs, paid, calls>> /\ stable' \subseteq stable
  BY DEF CleanupFails
<1> QED
  BY <1>0, <1>6, <1>7, <1>8, TypePartsNext DEF CallsOK, RestOK
-----------------------------------------------------------------------------

\* What the table, the references and the calls hold stays of its type: a handler
\* always works on an event, and never deletes what is not an event or a d tag.
THEOREM TypeCorrect == Spec => []TypeOK
<1>1. Init => TypeOK
  <2> SUFFICES ASSUME Init PROVE TypeOK
    OBVIOUS
  <2>1. CallsOK
    BY DEF Init, NoCall, CallsOK, CallType, Statements
  <2>2. cleaner \in CleanerType
    BY CleanerToType DEF Init, CleanerSteps
  <2>3. RestOK
    <3>1. 0 \in 0..MaxFaults
      BY NumbersAssumption
    <3>2. rows = {} /\ refs = {} /\ stable = {} /\ faults = 0
      BY DEF Init
    <3>3. paid \in BOOLEAN /\ quiet \in BOOLEAN /\ strained \in BOOLEAN
      BY Zenon DEF Init
    <3> QED BY <3>1, <3>2, <3>3, Zenon DEF RestOK
  <2> QED BY <2>1, <2>2, <2>3 DEF TypeOK, CallsOK, RestOK, CallType, CleanerType, At
<1>2. TypeOK /\ [Next]_vars => TypeOK'
  <2> SUFFICES ASSUME TypeOK, [Next]_vars PROVE TypeOK'
    OBVIOUS
  <2>0. CallsOK /\ CleanerOK /\ RestOK
    BY TypeParts
  <2> DEFINE kept == UNCHANGED <<calls, cleaner>>
  <2>1. ASSUME kept, RestOK' PROVE TypeOK'
    BY <2>0, <2>1, TypePartsNext DEF CallsOK, CleanerOK
  <2>2. CASE RecordTransaction
    BY <2>0, <2>1, <2>2 DEF RecordTransaction, RestOK, history
  <2>3. ASSUME NEW d \in Referable, Anchor(d) \/ ReplaceAnchor(d) PROVE TypeOK'
    BY <2>0, <2>1, <2>3 DEF Anchor, ReplaceAnchor, RestOK
  <2>4. ASSUME NEW e \in Events, StoreUnlimited(e) PROVE TypeOK'
    BY <2>0, <2>1, <2>4, AfterStoreType DEF StoreUnlimited, RestOK
  <2>5. ASSUME NEW p \in Handlers, NEW e \in Events, StoreLocalEvent(p, e) PROVE TypeOK'
    <3>1. CallsOK'
      <4>1. "countVersions" \in Statements /\ "countVersions" # "idle" /\ e # NoEvent
        BY NamesAssumption DEF Statements, Reads
      <4> QED BY <2>5, <4>1, NoCallType DEF StoreLocalEvent, CallsOK
    <3>2. strained' \in BOOLEAN
      BY <2>0, <2>5 DEF StoreLocalEvent, RestOK
    <3>3. RestOK' /\ CleanerOK'
      BY <2>0, <2>5, <3>2 DEF StoreLocalEvent, RestOK, CleanerOK
    <3> QED BY <3>1, <3>3, TypePartsNext
  <2>6. ASSUME NEW p \in Handlers, HandlerStep(p) PROVE TypeOK'
    BY <2>6, HandlerStepType
  <2>7. ASSUME NEW p \in Handlers, ReadFails(p) \/ WriteFails(p) PROVE TypeOK'
    BY <2>7, HandlerFaultType
  <2>8. CASE CleanerStep
    BY <2>8, CleanerStepType
  <2>9. CASE CleanupFails
    BY <2>9, CleanerFaultType
  <2>10. CASE Restart
    <3>1. CallsOK'
      BY <2>10 DEF Restart, NoCall, CallsOK, CallType, Statements
    <3>2. CleanerOK'
      BY <2>10, CleanerToType DEF Restart, CleanerOK, CleanerSteps
    <3>3. RestOK'
      BY <2>0, <2>10 DEF Restart, RestOK
    <3> QED BY <3>1, <3>2, <3>3, TypePartsNext
  <2>11. CASE UNCHANGED vars
    BY <2>0, <2>1, <2>11 DEF vars, history, RestOK
  <2> QED
    BY <2>2, <2>3, <2>4, <2>5, <2>6, <2>7, <2>8, <2>9, <2>10, <2>11 DEF Next
<1> QED BY <1>1, <1>2, PTL DEF Spec

-----------------------------------------------------------------------------
(* What the cleanup spares. *)

\* The references the cleanup has read may be old by the time it deletes.  It still
\* spares all that has been referenced since it began: what it means to protect
\* holds them before the queue is made, and the queue has none of them after.
SpareInv ==
    /\ cleaner.at \in {"deleteInvalid", "orderDTags"} => stable \subseteq cleaner.protected
    /\ cleaner.at = "pruneDTags" =>
        \A i \in DOMAIN cleaner.queue : cleaner.queue[i] \notin stable

LEMMA SpareSteps ==
    ASSUME TypeOK, SpareInv, Next
    PROVE  SpareInv'
<1> USE DEF CleanerAt
<1>0. /\ cleaner \in CleanerType /\ stable \subseteq refs
      /\ SpareInv
  BY DEF TypeOK, CleanerType
<1>1. ASSUME UNCHANGED cleaner, stable' \subseteq stable PROVE SpareInv'
  BY <1>0, <1>1 DEF SpareInv
<1>2. ASSUME NEW x \in CleanerSteps \ {"deleteInvalid", "orderDTags", "pruneDTags"},
             cleaner'.at = x
      PROVE  SpareInv'
  BY <1>2 DEF SpareInv
<1>3. ASSUME NEW x \in CleanerSteps \ {"deleteInvalid", "orderDTags", "pruneDTags"},
             CleanerTo(x)
      PROVE  SpareInv'
  <2>1. cleaner'.at = x
    BY <1>3 DEF CleanerTo, CleanupStart
  <2> QED BY <1>2, <2>1
<1>4. ASSUME NEW x \in {"deleteInvalid", "orderDTags"}, NEW S, stable' \subseteq S,
             cleaner' = [cleaner EXCEPT !.at = x, !.protected = S]
      PROVE  SpareInv'
  BY <1>0, <1>4 DEF SpareInv, CleanerType
<1>5. ASSUME CleanerAt("pruneDTags"), cleaner.queue # <<>>, stable' = stable,
             cleaner'.at = "pruneDTags", cleaner'.queue = Tail(cleaner.queue)
      PROVE  SpareInv'
  <2>1. cleaner.queue \in Seq(DTags)
    BY <1>0 DEF CleanerType
  <2>2. \A i \in DOMAIN Tail(cleaner.queue) :
            i + 1 \in DOMAIN cleaner.queue /\ Tail(cleaner.queue)[i] = cleaner.queue[i + 1]
    BY <1>5, <2>1
  <2> QED BY <1>0, <1>5, <2>2 DEF SpareInv
<1>6. ASSUME OrderDTags, stable' = stable PROVE SpareInv'
  <2> DEFINE free == StoredDTags \ cleaner.protected
  <2>1. PICK order \in SetToSeqs(free) :
            cleaner' = [cleaner EXCEPT !.at = "pruneDTags", !.queue = order]
    BY <1>6 DEF OrderDTags
  <2>2. \A i \in DOMAIN order : order[i] \in free
    <3> HIDE DEF free
    <3> QED BY <2>1 DEF SetToSeqs
  <2>3. stable \subseteq cleaner.protected
    BY <1>0, <1>6 DEF OrderDTags, SpareInv
  <2>4. cleaner'.at = "pruneDTags" /\ cleaner'.queue = order
    BY <1>0, <2>1 DEF CleanerType
  <2> QED BY <1>6, <2>2, <2>3, <2>4 DEF SpareInv
<1>7. CASE CleanerStep
  <2>0. stable' = stable
    BY <1>7 DEF CleanerStep, history
  <2>1. CASE CheckPubkey
    BY <1>3, <2>1 DEF CheckPubkey, CleanerSteps
  <2>2. CASE ProtectInvalid \/ ProtectDTags
    BY <1>0, <1>4, <2>0, <2>2 DEF ProtectInvalid, ProtectDTags, AnchorReferencedDTags
  <2>3. CASE DeleteInvalid
    BY <1>3, <2>3 DEF DeleteInvalid, CleanerSteps
  <2>4. CASE CountAllVersions
    BY <1>0, <1>2, <2>4 DEF CountAllVersions, CleanerType, CleanerSteps
  <2>5. CASE PruneVersions
    <3>1. CASE CleanerTo("countDTags")
      BY <1>3, <3>1 DEF CleanerSteps
    <3>2. ASSUME NEW d \in DTags, cleaner' = [cleaner EXCEPT !.excess[d] = 0]
          PROVE  SpareInv'
      BY <1>0, <1>2, <2>5, <3>2 DEF PruneVersions, CleanerType, CleanerSteps
    <3> QED BY <2>5, <3>1, <3>2 DEF PruneVersions
  <2>6. CASE CountAllDTags
    BY <1>0, <1>2, <2>6 DEF CountAllDTags, CleanerType, CleanerSteps
  <2>7. CASE OrderDTags
    BY <1>6, <2>0, <2>7
  <2>8. CASE PruneDTag
    <3>1. CASE CleanerTo("done")
      BY <1>3, <3>1 DEF CleanerSteps
    <3>2. CASE /\ cleaner.quota # 0 /\ cleaner.queue # <<>>
               /\ cleaner' = [cleaner EXCEPT !.queue = Tail(@), !.quota = @ - 1]
      <4>1. cleaner'.at = "pruneDTags" /\ cleaner'.queue = Tail(cleaner.queue)
        BY <1>0, <2>8, <3>2 DEF PruneDTag, CleanerType
      <4> QED BY <1>5, <2>0, <2>8, <3>2, <4>1 DEF PruneDTag
    <3> QED BY <2>8, <3>1, <3>2 DEF PruneDTag
  <2> QED BY <1>7, <2>1, <2>2, <2>3, <2>4, <2>5, <2>6, <2>7, <2>8 DEF CleanerStep
<1>8. CASE CleanupFails
  <2>1. ASSUME NEW x \in {"countVersions", "countDTags", "done"}, CleanerTo(x)
        PROVE  SpareInv'
    BY <1>3, <2>1 DEF CleanerSteps
  <2>2. ASSUME NEW x \in {"deleteInvalid", "orderDTags"}, stable' = {},
               cleaner' = [cleaner EXCEPT !.protected = {}, !.at = x]
        PROVE  SpareInv'
    BY <1>0, <2>2 DEF SpareInv, CleanerType
  <2>3. ASSUME NEW d \in DTags, CleanerAt("pruneVersions"),
               cleaner' = [cleaner EXCEPT !.excess[d] = 0]
        PROVE  SpareInv'
    BY <1>0, <1>2, <2>3 DEF CleanerType, CleanerSteps
  <2>4. ASSUME CleanerAt("pruneDTags"), cleaner.queue # <<>>, stable' = stable,
               cleaner' = [cleaner EXCEPT !.queue = Tail(@)]
        PROVE  SpareInv'
    <3>1. cleaner'.at = "pruneDTags" /\ cleaner'.queue = Tail(cleaner.queue)
      BY <1>0, <2>4 DEF CleanerType
    <3> QED BY <1>5, <2>4, <3>1
  <2> QED BY <1>8, <2>1, <2>2, <2>3, <2>4 DEF CleanupFails
<1>9. CASE Restart
  BY <1>2, <1>9 DEF Restart, CleanupStart, CleanerSteps
<1>10. ASSUME NEW p \in Handlers, HandlerStep(p) \/ ReadFails(p) \/ WriteFails(p)
       PROVE  SpareInv'
  BY <1>1, <1>10 DEF HandlerStep, ReadFails, WriteFails
<1>11. ASSUME NEW p \in Handlers, NEW e \in Events, StoreLocalEvent(p, e) PROVE SpareInv'
  BY <1>1, <1>11 DEF StoreLocalEvent
<1>12. ASSUME NEW d \in Referable, Anchor(d) \/ ReplaceAnchor(d) PROVE SpareInv'
  BY <1>1, <1>12 DEF Anchor, ReplaceAnchor
<1>13. ASSUME NEW e \in Events, StoreUnlimited(e) PROVE SpareInv'
  BY <1>1, <1>13 DEF StoreUnlimited
<1>14. CASE RecordTransaction
  BY <1>1, <1>14 DEF RecordTransaction, history
<1> QED
  BY <1>7, <1>8, <1>9, <1>10, <1>11, <1>12, <1>13, <1>14 DEF Next

\* A statement of the cleanup deletes no event of a d tag that was referenced all the
\* time since the cleanup began.
LEMMA SpareDeletes ==
    ASSUME TypeOK, SpareInv, Next, cleaner' # cleaner,
           cleaner.at \in {"deleteInvalid", "pruneDTags"},
           NEW r \in rows, r.d \in stable
    PROVE  r \in rows'
<1> USE DEF CleanerAt
<1>1. CASE DeleteInvalid
  BY <1>1 DEF DeleteInvalid, SpareInv
<1>2. CASE PruneDTag
  <2>1. CASE cleaner.quota # 0 /\ cleaner.queue # <<>>
    <3>1. cleaner.queue \in Seq(DTags)
      BY DEF TypeOK
    <3>2. 1 \in DOMAIN cleaner.queue /\ Head(cleaner.queue) = cleaner.queue[1]
      BY <2>1, <3>1
    <3>3. Head(cleaner.queue) \notin stable
      BY <1>2, <3>2 DEF PruneDTag, SpareInv
    <3> QED BY <1>2, <2>1, <3>3 DEF PruneDTag, Versions
  <2> QED BY <1>2, <2>1 DEF PruneDTag
<1>3. CASE CleanerStep
  BY <1>1, <1>2, <1>3
  DEF CleanerStep, CheckPubkey, ProtectInvalid, CountAllVersions, PruneVersions,
      CountAllDTags, ProtectDTags, OrderDTags
<1>4. CASE CleanupFails \/ Restart
  BY <1>4 DEF CleanupFails, Restart
<1> QED
  BY <1>3, <1>4
  DEF Next, RecordTransaction, Anchor, ReplaceAnchor, StoreUnlimited, StoreLocalEvent,
      HandlerStep, ReadFails, WriteFails

\* Whatever is stored, anchored and restarted beside it, the cleanup never takes all the
\* events of a d tag that was referenced all the time since it began.
THEOREM CleanupSpares == Spec => CleanupSparesReferenced
<1>1. Init => SpareInv
  BY DEF Init, CleanupStart, SpareInv
<1>2. TypeOK /\ SpareInv /\ [Next]_vars => SpareInv'
  <2>1. ASSUME SpareInv, UNCHANGED vars PROVE SpareInv'
    BY <2>1 DEF SpareInv, vars, history
  <2> QED BY <2>1, SpareSteps
<1>3. TypeOK /\ SpareInv /\ [Next]_vars =>
        [cleaner' # cleaner /\ cleaner.at \in {"deleteInvalid", "pruneDTags"} =>
            \A r \in rows : r.d \in stable => r \in rows']_vars
  BY SpareDeletes
<1> QED BY <1>1, <1>2, <1>3, TypeCorrect, PTL DEF Spec, CleanupSparesReferenced

-----------------------------------------------------------------------------
(* The limits, kept by handlers that run alone. *)

\* The same of what a step leaves.
LEMMA FiniteNext ==
    ASSUME rows' \subseteq Events
    PROVE  /\ \A d \in DTags : Cardinality(Versions(d)') \in Nat
           /\ Cardinality(StoredDTags') \in Nat
<1> USE EventsAssumption
<1>1. ASSUME NEW d \in DTags PROVE Cardinality(Versions(d)') \in Nat
  <2>1. Versions(d)' \in SUBSET Events
    BY DEF Versions
  <2> QED BY <2>1, FS_Subset, FS_CardinalityType
<1>2. StoredDTags' \in SUBSET DTags
  BY DEF StoredDTags
<1>3. Cardinality(StoredDTags') \in Nat
  BY <1>2, FS_Subset, FS_CardinalityType
<1> QED BY <1>1, <1>3

\* Deletions raise no count.
LEMMA Shrunk ==
    ASSUME rows \subseteq Events, rows' \subseteq rows
    PROVE  /\ \A d \in DTags : Cardinality(Versions(d)') <= Cardinality(Versions(d))
           /\ Cardinality(StoredDTags') <= Cardinality(StoredDTags)
<1>1. ASSUME NEW d \in DTags
      PROVE  Cardinality(Versions(d)') <= Cardinality(Versions(d))
  <2>1. Versions(d)' \in SUBSET Versions(d)
    BY DEF Versions
  <2> QED BY <2>1, Finite, FS_Subset
<1>2. StoredDTags' \in SUBSET StoredDTags
  BY DEF StoredDTags
<1>3. Cardinality(StoredDTags') <= Cardinality(StoredDTags)
  BY <1>2, Finite, FS_Subset
<1> QED BY <1>1, <1>3

Within == WithinVersions /\ Cardinality(StoredDTags) <= MaxDTags

LEMMA ShrunkWithin ==
    ASSUME rows \subseteq Events, rows' \subseteq rows, Within
    PROVE  Within'
<1>1. rows' \subseteq Events
  OBVIOUS
<1>2. /\ \A d \in DTags : Cardinality(Versions(d)') \in Nat
      /\ Cardinality(StoredDTags') \in Nat
  BY <1>1, FiniteNext
<1> QED BY <1>2, Finite, Shrunk, NumbersAssumption DEF Within, WithinVersions

\* There is room for one more version of d, and for its d tag if that is a new one.
Room(d) ==
    /\ Cardinality(Versions(d)) < MaxVersions
    /\ d \notin StoredDTags => Cardinality(StoredDTags) < MaxDTags

\* A store where there is room keeps the limits.
LEMMA StoreWithin ==
    ASSUME rows \subseteq Events, NEW e \in Events, Room(e.d), Within, rows' = AfterStore(e)
    PROVE  Within'
<1> USE EventsAssumption, NumbersAssumption
<1>1. rows' \subseteq rows \union {e} /\ rows' \subseteq Events /\ e.d \in DTags
  BY AfterStoreType DEF AfterStore
<1>2. /\ \A d \in DTags : Cardinality(Versions(d)') \in Nat
      /\ Cardinality(StoredDTags') \in Nat
  BY <1>1, FiniteNext
<1>3. ASSUME NEW d \in DTags PROVE Cardinality(Versions(d)') <= MaxVersions
  <2>1. CASE d = e.d
    <3>1. Versions(d)' \in SUBSET (Versions(d) \union {e})
      BY <1>1 DEF Versions
    <3>2. /\ IsFiniteSet(Versions(d) \union {e})
          /\ Cardinality(Versions(d) \union {e}) =
               IF e \in Versions(d) THEN Cardinality(Versions(d)) ELSE Cardinality(Versions(d)) + 1
      BY Finite, FS_AddElement
    <3>3. Cardinality(Versions(d)') <= Cardinality(Versions(d) \union {e})
      BY <3>1, <3>2, FS_Subset
    <3>4. Cardinality(Versions(d)) \in Nat /\ Cardinality(Versions(d)) < MaxVersions
      BY <2>1, Finite DEF Room
    <3> QED BY <1>2, <3>2, <3>3, <3>4
  <2>2. CASE d # e.d
    <3>1. Versions(d)' \in SUBSET Versions(d)
      BY <1>1, <2>2 DEF Versions
    <3>2. Cardinality(Versions(d)') <= Cardinality(Versions(d))
      BY <3>1, Finite, FS_Subset
    <3> QED BY <1>2, <3>2, Finite DEF Within, WithinVersions
  <2> QED BY <2>1, <2>2
<1>4. Cardinality(StoredDTags') <= MaxDTags
  <2>1. StoredDTags' \in SUBSET (StoredDTags \union {e.d})
    BY <1>1 DEF StoredDTags
  <2>2. /\ IsFiniteSet(StoredDTags \union {e.d})
        /\ Cardinality(StoredDTags \union {e.d}) =
             IF e.d \in StoredDTags THEN Cardinality(StoredDTags) ELSE Cardinality(StoredDTags) + 1
    BY Finite, FS_AddElement
  <2>3. Cardinality(StoredDTags') <= Cardinality(StoredDTags \union {e.d})
    BY <2>1, <2>2, FS_Subset
  <2>4. Cardinality(StoredDTags) \in Nat /\ Cardinality(StoredDTags) <= MaxDTags
    BY Finite DEF Within
  <2> QED BY <1>2, <2>2, <2>3, <2>4 DEF Room
<1> QED BY <1>3, <1>4 DEF Within, WithinVersions

\* What an undisturbed handler has learned, and what it will delete, makes room.
Planned(p) ==
    LET c == calls[p]
        d == calls[p].ev.d
    IN  /\ c.at \in {"countVersions", "oldestVersion"} => c.version = NoEvent
        /\ c.at = "recount" =>
            \/ c.version \in Versions(d)
            \/ c.version = NoEvent /\ Cardinality(Versions(d)) < MaxVersions
        /\ c.at \in {"countDTags", "oldestDTag", "checkReference", "deleteDTag"} =>
            Versions(d) = {} /\ 0 < MaxVersions /\ c.version = NoEvent
        /\ c.at \in {"checkReference", "deleteDTag"} => c.dtag \in StoredDTags
        /\ c.at = "deleteVersion" => c.version \in Versions(d) /\ c.dtag = NoDTag
        /\ c.at = "store" => Room(d)

Busy(p) == ~At(p, "idle")

\* One handler at a time, after the cleanup, with a plan that keeps the limits.
SerialInv ==
    ~strained =>
        /\ Within
        /\ \A p, o \in Handlers : Busy(p) /\ Busy(o) => p = o
        /\ \A p \in Handlers : Busy(p) => CleanerAt("done") /\ Planned(p)

\* What Chosen leaves, for each thing there is to delete.
LEMMA ChosenGoes ==
    ASSUME TypeOK, NEW p \in Handlers, NEW v, NEW d, Chosen(p, v, d)
    PROVE  /\ calls'[p].ev = calls[p].ev /\ calls'[p].version = v /\ calls'[p].dtag = d
           /\ calls'[p].at = IF v # NoEvent THEN "deleteVersion"
                             ELSE IF d # NoDTag THEN "deleteDTag" ELSE "store"
           /\ \A o \in Handlers : o # p => calls'[o] = calls[o]
BY DEF Chosen, TypeOK

\* A read of the one handler that runs.
LEMMA ReadPlans ==
    ASSUME TypeOK, NEW p \in Handlers, Within, Planned(p), ~strained', UNCHANGED rows,
           \/ CountVersions(p) \/ OldestVersion(p) \/ Recount(p)
           \/ CountDTags(p) \/ OldestDTag(p) \/ CheckReference(p)
    PROVE  Planned(p)' /\ \A o \in Handlers : o # p => calls'[o] = calls[o]
<1> USE EventsAssumption, NamesAssumption, NumbersAssumption
<1> DEFINE c == calls[p]
           d == calls[p].ev.d
<1>1. Busy(p) /\ c.ev \in Events /\ d \in DTags /\ rows \subseteq Events /\ ~GiveUp(p)
  BY DEF CountVersions, OldestVersion, Recount, CountDTags, OldestDTag, CheckReference,
         GiveUp, Busy, At, TypeOK
<1>2. Cardinality(Versions(d)) \in Nat /\ Cardinality(StoredDTags) \in Nat
  BY <1>1, Finite
<1>3. \A S : Versions(S)' = Versions(S) /\ StoredDTags' = StoredDTags
  BY DEF Versions, StoredDTags
<1>4. CASE CountVersions(p)
  <2>1. /\ c.at = "countVersions" /\ c.version = NoEvent
        /\ calls' = [calls EXCEPT ![p].at =
               IF Reaches(Cardinality(Versions(d)), MaxVersions) THEN "oldestVersion" ELSE "recount"]
    BY <1>4 DEF CountVersions, GoTo, At, Planned
  <2>2. /\ calls'[p].ev = c.ev /\ calls'[p].version = NoEvent
        /\ \/ calls'[p].at = "oldestVersion"
           \/ calls'[p].at = "recount" /\ Cardinality(Versions(d)) < MaxVersions
        /\ \A o \in Handlers : o # p => calls'[o] = calls[o]
    BY <1>2, <2>1 DEF TypeOK, Reaches
  <2> QED BY <1>3, <2>2 DEF Planned
<1>5. CASE OldestVersion(p)
  <2>1. PICK v \in Oldest(Versions(d)) :
            calls' = [calls EXCEPT ![p].at = "recount", ![p].version = v]
    BY <1>1, <1>5 DEF OldestVersion
  <2>2. /\ calls'[p].ev = c.ev /\ calls'[p].version \in Versions(d) /\ calls'[p].at = "recount"
        /\ \A o \in Handlers : o # p => calls'[o] = calls[o]
    BY <2>1 DEF TypeOK, Oldest
  <2> QED BY <1>3, <2>2 DEF Planned
<1>6. CASE Recount(p)
  <2>1. c.version \in Versions(d) \/ (c.version = NoEvent /\ Cardinality(Versions(d)) < MaxVersions)
    BY <1>6 DEF Recount, At, Planned
  <2>2. CASE Versions(d) = {}
    <3>1. calls' = [calls EXCEPT ![p].at = "countDTags"]
      BY <1>6, <2>2 DEF Recount, GoTo
    <3>2. /\ calls'[p].ev = c.ev /\ calls'[p].version = c.version /\ calls'[p].at = "countDTags"
          /\ \A o \in Handlers : o # p => calls'[o] = calls[o]
      BY <3>1 DEF TypeOK
    <3>3. c.version = NoEvent /\ 0 < MaxVersions
      BY <2>1, <2>2, FS_EmptySet
    <3> QED BY <1>3, <2>2, <3>2, <3>3 DEF Planned
  <2>3. CASE Versions(d) # {}
    <3>1. Chosen(p, c.version, NoDTag)
      BY <1>6, <2>3 DEF Recount
    <3>2. d \in StoredDTags
      BY <2>3 DEF Versions, StoredDTags
    <3>3. CASE c.version \in Versions(d)
      <4>1. c.version # NoEvent
        BY <1>1, <3>3 DEF Versions
      <4> QED BY <1>3, <3>1, <3>3, <4>1, ChosenGoes DEF Planned
    <3>4. CASE c.version = NoEvent /\ Cardinality(Versions(d)) < MaxVersions
      BY <1>3, <3>1, <3>2, <3>4, ChosenGoes DEF Planned, Room
    <3> QED BY <2>1, <3>3, <3>4
  <2> QED BY <2>2, <2>3
<1>7. CASE CountDTags(p)
  <2>1. c.at = "countDTags" /\ Versions(d) = {} /\ 0 < MaxVersions /\ c.version = NoEvent
    BY <1>7 DEF CountDTags, At, Planned
  <2>2. CASE Cardinality(StoredDTags) >= MaxDTags
    <3>1. calls' = [calls EXCEPT ![p].at = "oldestDTag"]
      BY <1>7, <2>2 DEF CountDTags, GoTo, Reaches
    <3>2. /\ calls'[p].ev = c.ev /\ calls'[p].version = c.version /\ calls'[p].at = "oldestDTag"
          /\ \A o \in Handlers : o # p => calls'[o] = calls[o]
      BY <3>1 DEF TypeOK
    <3> QED BY <1>3, <2>1, <3>2 DEF Planned
  <2>3. CASE ~(Cardinality(StoredDTags) >= MaxDTags)
    <3>1. Chosen(p, NoEvent, NoDTag)
      BY <1>7, <2>1, <2>3 DEF CountDTags, Reaches
    <3>2. Room(d)
      BY <1>2, <2>1, <2>3, FS_EmptySet DEF Room
    <3>3. Room(d)'
      BY <1>3, <3>1, <3>2, ChosenGoes DEF Room
    <3> QED BY <3>1, <3>3, ChosenGoes DEF Planned
  <2> QED BY <2>2, <2>3
<1>8. CASE OldestDTag(p)
  <2>1. PICK t \in Stalest :
            calls' = [calls EXCEPT ![p].at = "checkReference", ![p].dtag = t]
    BY <1>1, <1>8 DEF OldestDTag
  <2>2. /\ calls'[p].ev = c.ev /\ calls'[p].version = c.version
        /\ calls'[p].dtag \in StoredDTags /\ calls'[p].at = "checkReference"
        /\ \A o \in Handlers : o # p => calls'[o] = calls[o]
    BY <2>1 DEF TypeOK, Stalest
  <2>3. Versions(d) = {} /\ 0 < MaxVersions /\ c.version = NoEvent
    BY <1>8 DEF OldestDTag, At, Planned
  <2> QED BY <1>3, <2>2, <2>3 DEF Planned
<1>9. CASE CheckReference(p)
  <2>1. Chosen(p, c.version, c.dtag)
    BY <1>9 DEF CheckReference
  <2>2. Versions(d) = {} /\ 0 < MaxVersions /\ c.version = NoEvent /\ c.dtag \in StoredDTags
    BY <1>9 DEF CheckReference, At, Planned
  <2>3. c.dtag # NoDTag
    BY <1>1, <2>2, Finite
  <2> QED BY <1>3, <2>1, <2>2, <2>3, ChosenGoes DEF Planned
<1> QED BY <1>4, <1>5, <1>6, <1>7, <1>8, <1>9

\* A finite set without one of its elements.
LEMMA OneLess ==
    ASSUME NEW S, NEW x \in S, IsFiniteSet(S)
    PROVE  IsFiniteSet(S \ {x}) /\ Cardinality(S \ {x}) = Cardinality(S) - 1
BY FS_RemoveElement

\* A write of the one handler that runs: the deletions make room, the store uses it.
LEMMA WritePlans ==
    ASSUME TypeOK, NEW p \in Handlers, Within, Planned(p),
           DeleteVersion(p) \/ DeleteDTag(p) \/ Store(p)
    PROVE  /\ Within' /\ (Busy(p)' => Planned(p)')
           /\ \A o \in Handlers : o # p => calls'[o] = calls[o]
<1> USE EventsAssumption, NamesAssumption, NumbersAssumption
<1> DEFINE c == calls[p]
           d == calls[p].ev.d
<1>1. c.ev \in Events /\ d \in DTags /\ rows \subseteq Events
  BY DEF DeleteVersion, DeleteDTag, Store, At, TypeOK
<1>2. /\ Cardinality(Versions(d)) \in Nat /\ IsFiniteSet(Versions(d))
      /\ Cardinality(StoredDTags) \in Nat /\ IsFiniteSet(StoredDTags)
      /\ Cardinality(Versions(d)) <= MaxVersions /\ Cardinality(StoredDTags) <= MaxDTags
  BY <1>1, Finite DEF Within, WithinVersions
<1>3. CASE DeleteVersion(p)
  <2>1. /\ c.version \in Versions(d) /\ c.dtag = NoDTag
        /\ rows' = rows \ {c.version} /\ Chosen(p, NoEvent, NoDTag)
    BY <1>3 DEF DeleteVersion, At, Planned
  <2>2. Within'
    BY <1>1, <2>1, ShrunkWithin
  <2>3. Versions(d)' = Versions(d) \ {c.version}
    <3>1. \A r : r \in rows' <=> r \in rows /\ r # c.version
      BY <2>1
    <3>2. calls'[p].ev = c.ev
      BY <2>1, ChosenGoes
    <3> QED BY <3>1, <3>2 DEF Versions
  <2>4. Cardinality(Versions(d)') < MaxVersions
    <3>1. Cardinality(Versions(d) \ {c.version}) = Cardinality(Versions(d)) - 1
      BY <1>2, <2>1, OneLess
    <3>2. Cardinality(Versions(d)') = Cardinality(Versions(d)) - 1
      BY <2>3, <3>1
    <3> QED BY <1>2, <3>2
  <2>5. calls'[p].at = "store" /\ calls'[p].ev = c.ev /\ \A o \in Handlers : o # p => calls'[o] = calls[o]
    BY <2>1, ChosenGoes
  <2>6. ASSUME d \notin StoredDTags' PROVE Cardinality(StoredDTags') < MaxDTags
    <3>1. d \in StoredDTags
      BY <2>1 DEF Versions, StoredDTags
    <3>2. StoredDTags' \in SUBSET (StoredDTags \ {d})
      BY <2>1, <2>6 DEF StoredDTags
    <3>3. /\ IsFiniteSet(StoredDTags \ {d})
          /\ Cardinality(StoredDTags \ {d}) = Cardinality(StoredDTags) - 1
      BY <1>2, <3>1, OneLess
    <3>4. Cardinality(StoredDTags') <= Cardinality(StoredDTags \ {d})
      BY <3>2, <3>3, FS_Subset
    <3>5. Cardinality(StoredDTags') \in Nat
      <4>1. rows' \subseteq Events
        BY <1>1, <2>1
      <4> QED BY <4>1, FiniteNext
    <3> QED BY <1>2, <3>3, <3>4, <3>5
  <2>7. Room(calls[p].ev.d)'
    BY <2>4, <2>5, <2>6 DEF Room
  <2> QED BY <2>2, <2>5, <2>7 DEF Planned
<1>4. CASE DeleteDTag(p)
  <2>1. /\ Versions(d) = {} /\ 0 < MaxVersions /\ c.dtag \in StoredDTags
        /\ rows' = rows \ Versions(c.dtag) /\ Chosen(p, NoEvent, NoDTag)
    BY <1>4 DEF DeleteDTag, At, Planned
  <2>2. Within'
    BY <1>1, <2>1, ShrunkWithin
  <2>3. calls'[p].at = "store" /\ calls'[p].ev = c.ev /\ \A o \in Handlers : o # p => calls'[o] = calls[o]
    BY <2>1, ChosenGoes
  <2>4. Versions(calls[p].ev.d)' = {}
    BY <2>1, <2>3 DEF Versions
  <2>5. StoredDTags' \in SUBSET (StoredDTags \ {c.dtag})
    BY <2>1 DEF StoredDTags, Versions
  <2>6. /\ IsFiniteSet(StoredDTags \ {c.dtag})
        /\ Cardinality(StoredDTags \ {c.dtag}) = Cardinality(StoredDTags) - 1
    BY <1>2, <2>1, OneLess
  <2>7. Cardinality(StoredDTags') <= Cardinality(StoredDTags \ {c.dtag})
    BY <2>5, <2>6, FS_Subset
  <2>8. Cardinality(StoredDTags') \in Nat
    <3>1. rows' \subseteq Events
      BY <1>1, <2>1
    <3> QED BY <3>1, FiniteNext
  <2>9. Room(calls[p].ev.d)'
    BY <1>2, <2>1, <2>4, <2>6, <2>7, <2>8, FS_EmptySet DEF Room
  <2> QED BY <2>2, <2>3, <2>9 DEF Planned
<1>5. CASE Store(p)
  <2>1. Room(d) /\ rows' = AfterStore(c.ev) /\ calls' = [calls EXCEPT ![p] = NoCall]
    BY <1>5 DEF Store, At, Planned, Return
  <2>2. Within'
    BY <1>1, <2>1, StoreWithin
  <2>3. calls'[p].at = "idle" /\ \A o \in Handlers : o # p => calls'[o] = calls[o]
    BY <2>1 DEF TypeOK, NoCall
  <2> QED BY <2>2, <2>3 DEF Busy, At
<1> QED BY <1>3, <1>4, <1>5

\* A plan stays what it is while its handler and the table do not change.
LEMMA PlanKept ==
    ASSUME NEW p \in Handlers, calls'[p] = calls[p], rows' = rows, Planned(p)
    PROVE  Planned(p)'
BY DEF Planned, Versions, StoredDTags, Room

LEMMA SerialSteps ==
    ASSUME TypeOK, SerialInv, Next
    PROVE  SerialInv'
<1>1. ASSUME strained' PROVE SerialInv'
  BY <1>1 DEF SerialInv
<1>2. ASSUME UNCHANGED <<rows, calls, cleaner>>, strained' = strained PROVE SerialInv'
  <2> USE <1>2
  <2>1. \A p \in Handlers : calls'[p] = calls[p]
    OBVIOUS
  <2>2. (Within' <=> Within) /\ (CleanerAt("done")' <=> CleanerAt("done"))
    BY DEF Within, WithinVersions, Versions, StoredDTags, CleanerAt
  <2>3. \A p \in Handlers : Busy(p)' <=> Busy(p)
    BY DEF Busy, At
  <2> QED BY <2>1, <2>2, <2>3, PlanKept DEF SerialInv
<1>3. CASE RecordTransaction \/ \E d \in Referable : Anchor(d) \/ ReplaceAnchor(d)
  BY <1>2, <1>3 DEF RecordTransaction, Anchor, ReplaceAnchor, history
<1>4. ASSUME NEW e \in Events, StoreUnlimited(e) PROVE SerialInv'
  BY <1>1, <1>4 DEF StoreUnlimited
<1>5. ASSUME NEW p \in Handlers, ReadFails(p) \/ WriteFails(p) PROVE SerialInv'
  BY <1>1, <1>5 DEF ReadFails, WriteFails, Fault
<1>6. CASE CleanupFails
  BY <1>1, <1>6 DEF CleanupFails, Fault
<1>7. ASSUME NEW p \in Handlers, NEW e \in Events, StoreLocalEvent(p, e) PROVE SerialInv'
  <2>1. SUFFICES ASSUME ~strained' PROVE SerialInv'
    BY <1>1
  <2>2. /\ ~strained /\ CleanerAt("done") /\ \A o \in Handlers : At(o, "idle")
        /\ UNCHANGED <<rows, cleaner>>
    BY <1>7, <2>1 DEF StoreLocalEvent
  <2>3. /\ calls'[p].at = "countVersions" /\ calls'[p].version = NoEvent
        /\ \A o \in Handlers : o # p => calls'[o] = calls[o]
    BY <1>7 DEF StoreLocalEvent, TypeOK, NoCall
  <2>4. Within' /\ CleanerAt("done")'
    BY <2>2 DEF SerialInv, Within, WithinVersions, Versions, StoredDTags, CleanerAt
  <2>5. \A o \in Handlers : Busy(o)' => o = p
    BY <2>2, <2>3 DEF Busy, At
  <2>6. Planned(p)'
    BY <2>3 DEF Planned
  <2> QED BY <2>4, <2>5, <2>6 DEF SerialInv
<1>8. ASSUME NEW p \in Handlers, HandlerStep(p) PROVE SerialInv'
  <2>1. SUFFICES ASSUME ~strained' PROVE SerialInv'
    BY <1>1
  <2>2. ~strained /\ Busy(p) /\ cleaner' = cleaner
    BY <1>8, <2>1
    DEF HandlerStep, CountVersions, OldestVersion, Recount, CountDTags, OldestDTag,
        CheckReference, GiveUp, DeleteVersion, DeleteDTag, Store, Busy, At
  <2>3. /\ Within /\ CleanerAt("done") /\ Planned(p)
        /\ \A o \in Handlers : o # p => ~Busy(o)
    BY <2>2 DEF SerialInv
  <2>4. CASE /\ \/ CountVersions(p) \/ OldestVersion(p) \/ Recount(p)
                \/ CountDTags(p) \/ OldestDTag(p) \/ CheckReference(p)
             /\ rows' = rows
    <3>1. Planned(p)' /\ \A o \in Handlers : o # p => calls'[o] = calls[o]
      BY <2>1, <2>3, <2>4, ReadPlans
    <3>2. Within'
      BY <2>3, <2>4 DEF Within, WithinVersions, Versions, StoredDTags
    <3>3. \A o \in Handlers : Busy(o)' => o = p
      BY <2>3, <3>1 DEF Busy, At
    <3> QED BY <2>2, <2>3, <3>1, <3>2, <3>3 DEF SerialInv, CleanerAt
  <2>5. CASE DeleteVersion(p) \/ DeleteDTag(p) \/ Store(p)
    <3>1. /\ Within' /\ (Busy(p)' => Planned(p)')
          /\ \A o \in Handlers : o # p => calls'[o] = calls[o]
      BY <2>3, <2>5, WritePlans
    <3>2. \A o \in Handlers : Busy(o)' => o = p
      BY <2>3, <3>1 DEF Busy, At
    <3> QED BY <2>2, <2>3, <3>1, <3>2 DEF SerialInv, CleanerAt
  <2> QED BY <1>8, <2>4, <2>5 DEF HandlerStep
<1>9. CASE CleanerStep
  <2>1. SUFFICES ASSUME ~strained' PROVE SerialInv'
    BY <1>1
  <2>2. ~strained /\ calls' = calls /\ rows' \subseteq rows /\ ~CleanerAt("done")
    BY <1>9, <2>1
    DEF CleanerStep, history, CheckPubkey, ProtectInvalid, DeleteInvalid, CountAllVersions,
        PruneVersions, CountAllDTags, ProtectDTags, OrderDTags, PruneDTag, CleanerAt
  <2>3. \A o \in Handlers : ~Busy(o) /\ ~Busy(o)'
    BY <2>2 DEF SerialInv, Busy, At
  <2>4. Within'
    BY <2>2, ShrunkWithin DEF SerialInv, TypeOK
  <2> QED BY <2>3, <2>4 DEF SerialInv
<1>10. CASE Restart
  <2>1. strained' = strained /\ rows' = rows /\ \A p \in Handlers : calls'[p].at = "idle"
    BY <1>10 DEF Restart, NoCall
  <2>2. \A o \in Handlers : ~Busy(o)'
    BY <2>1 DEF Busy, At
  <2>3. Within' <=> Within
    BY <2>1 DEF Within, WithinVersions, Versions, StoredDTags
  <2> QED BY <2>1, <2>2, <2>3 DEF SerialInv
<1> QED
  BY <1>3, <1>4, <1>5, <1>6, <1>7, <1>8, <1>9, <1>10 DEF Next

\* Handlers that store one at a time, after the cleanup and undisturbed, keep the limits
\* after each statement, whatever the events, the limits and the restarts.
THEOREM SerialHandlers == Spec => []SerialHandlersKeepLimits
<1>1. Init => SerialInv
  <2> SUFFICES ASSUME Init PROVE SerialInv
    OBVIOUS
  <2>1. rows = {} /\ \A p \in Handlers : ~Busy(p)
    BY DEF Init, NoCall, Busy, At
  <2>2. StoredDTags = {} /\ \A d \in DTags : Versions(d) = {}
    BY <2>1 DEF StoredDTags, Versions
  <2>3. Within
    BY <2>2, FS_EmptySet, NumbersAssumption DEF Within, WithinVersions
  <2> QED BY <2>1, <2>3 DEF SerialInv
<1>2. TypeOK /\ SerialInv /\ [Next]_vars => SerialInv'
  <2>1. ASSUME SerialInv, UNCHANGED vars PROVE SerialInv'
    <3>1. UNCHANGED <<rows, calls, cleaner, strained>>
      BY <2>1 DEF vars, history
    <3>2. (Within' <=> Within) /\ (CleanerAt("done")' <=> CleanerAt("done"))
      BY <3>1 DEF Within, WithinVersions, Versions, StoredDTags, CleanerAt
    <3>3. \A p \in Handlers : Busy(p)' <=> Busy(p)
      BY <3>1 DEF Busy, At
    <3>4. \A p \in Handlers : calls'[p] = calls[p]
      BY <3>1
    <3> QED BY <2>1, <3>1, <3>2, <3>3, <3>4, PlanKept DEF SerialInv
  <2> QED BY <2>1, SerialSteps
<1>3. SerialInv => SerialHandlersKeepLimits
  BY DEF SerialInv, Within, SerialHandlersKeepLimits
<1> QED BY <1>1, <1>2, <1>3, TypeCorrect, PTL DEF Spec

-----------------------------------------------------------------------------
(* The limits, enforced by a cleanup that nothing disturbs. *)

\* The d tags in the queue are stored, each once, and all others are referenced.
Queued(queue) ==
    /\ \A i \in DOMAIN queue : queue[i] \in StoredDTags
    /\ \A i, j \in DOMAIN queue : i # j => queue[i] # queue[j]
    /\ \A d \in StoredDTags : d \in refs \/ \E i \in DOMAIN queue : queue[i] = d

\* While nothing disturbs the cleanup, what it has read is what there is, less what
\* it has deleted since.
QuietInv ==
    quiet =>
        /\ cleaner.at = "pruneVersions" =>
            \A d \in DTags : Cardinality(Versions(d)) <= MaxVersions + cleaner.excess[d]
        /\ cleaner.at \in {"countDTags", "protectDTags", "orderDTags", "pruneDTags", "done"} =>
            WithinVersions
        /\ cleaner.at \in {"protectDTags", "orderDTags", "pruneDTags"} =>
            Cardinality(StoredDTags) <= MaxDTags + cleaner.quota
        /\ cleaner.at = "orderDTags" => cleaner.protected = refs
        /\ cleaner.at = "pruneDTags" => Queued(cleaner.queue)
        /\ cleaner.at = "done" =>
            Cardinality(StoredDTags) <= MaxDTags \/ StoredDTags \subseteq refs

\* The first steps, and the counts.
LEMMA CountSteps ==
    ASSUME TypeOK, QuietInv, quiet, CleanerStep,
           CheckPubkey \/ ProtectInvalid \/ DeleteInvalid \/ CountAllVersions \/ CountAllDTags
    PROVE  QuietInv'
<1> USE EventsAssumption, NumbersAssumption DEF CleanerAt
<1>0. cleaner \in CleanerType /\ rows \subseteq Events /\ quiet' = quiet /\ refs' = refs
  BY DEF TypeOK, CleanerType, CleanerStep, history
<1>1. CASE CheckPubkey \/ ProtectInvalid \/ DeleteInvalid
  <2>1. cleaner'.at \in {"countVersions", "protectInvalid", "deleteInvalid"}
    BY <1>0, <1>1 DEF CheckPubkey, ProtectInvalid, DeleteInvalid, CleanerTo, CleanupStart, CleanerType
  <2> QED BY <2>1 DEF QuietInv
<1>2. CASE CountAllVersions
  <2> DEFINE f == [d \in DTags |-> Excess(Cardinality(Versions(d)), MaxVersions)]
  <2>1. cleaner'.at = "pruneVersions" /\ cleaner'.excess = f /\ rows' = rows
    BY <1>0, <1>2 DEF CountAllVersions, CleanerType
  <2>2. ASSUME NEW d \in DTags PROVE Cardinality(Versions(d)) <= MaxVersions + f[d]
    <3>1. Cardinality(Versions(d)) \in Nat
      BY <1>0, Finite
    <3> QED BY <3>1 DEF Excess
  <2> HIDE DEF f
  <2>3. \A d \in DTags : Cardinality(Versions(d)') <= MaxVersions + cleaner'.excess[d]
    BY <2>1, <2>2 DEF Versions
  <2> QED BY <2>1, <2>3 DEF QuietInv
<1>3. CASE CountAllDTags
  <2> DEFINE excess == Excess(Cardinality(StoredDTags), MaxDTags)
  <2>1. /\ rows' = rows /\ cleaner.at = "countDTags" /\ cleaner'.quota = excess
        /\ cleaner'.at = IF excess > 0 THEN "protectDTags" ELSE "done"
    BY <1>0, <1>3 DEF CountAllDTags, CleanerType
  <2>2. WithinVersions'
    BY <2>1 DEF QuietInv, WithinVersions, Versions
  <2>3. Cardinality(StoredDTags) \in Nat
    BY <1>0, Finite
  <2>4. /\ Cardinality(StoredDTags) <= MaxDTags + excess
        /\ ~(excess > 0) => Cardinality(StoredDTags) <= MaxDTags
    BY <2>3 DEF Excess
  <2> HIDE DEF excess
  <2>5. StoredDTags' = StoredDTags
    BY <2>1 DEF StoredDTags
  <2> QED BY <2>1, <2>2, <2>4, <2>5 DEF QuietInv
<1> QED BY <1>1, <1>2, <1>3

\* Pruning the versions of a d tag leaves as many as may stay.
LEMMA PruneSteps ==
    ASSUME TypeOK, QuietInv, quiet, CleanerStep, PruneVersions
    PROVE  QuietInv'
<1> USE EventsAssumption, NumbersAssumption DEF CleanerAt
<1>0. /\ cleaner \in CleanerType /\ rows \subseteq Events /\ quiet' = quiet /\ refs' = refs
      /\ cleaner.at = "pruneVersions" /\ cleaner.excess \in [DTags -> Nat]
      /\ \A d \in DTags : Cardinality(Versions(d)) <= MaxVersions + cleaner.excess[d]
      /\ \A d \in DTags : Cardinality(Versions(d)) \in Nat
  BY Finite DEF TypeOK, CleanerType, CleanerStep, history, QuietInv, PruneVersions
<1>1. CASE /\ \A d \in DTags : cleaner.excess[d] = 0
           /\ CleanerTo("countDTags") /\ UNCHANGED rows
  <2>1. cleaner'.at = "countDTags" /\ rows' = rows
    BY <1>1 DEF CleanerTo, CleanupStart
  <2>2. WithinVersions
    BY <1>0, <1>1 DEF WithinVersions
  <2>3. WithinVersions'
    BY <2>1, <2>2 DEF WithinVersions, Versions
  <2> QED BY <2>1, <2>3 DEF QuietInv
<1>2. ASSUME NEW d \in DTags, cleaner.excess[d] > 0,
             NEW T \in OldestOf(Versions(d), cleaner.excess[d]), rows' = rows \ T,
             cleaner' = [cleaner EXCEPT !.excess[d] = 0]
      PROVE  QuietInv'
  <2> DEFINE V == Versions(d)
             k == cleaner.excess[d]
  <2>1. cleaner'.at = "pruneVersions" /\ cleaner'.excess = [cleaner.excess EXCEPT ![d] = 0]
    BY <1>0, <1>2 DEF CleanerType
  <2>2. T \subseteq V /\ Cardinality(T) = IF k < Cardinality(V) THEN k ELSE Cardinality(V)
    BY <1>2 DEF OldestOf
  <2>3. Cardinality(V \ T) = Cardinality(V) - Cardinality(T)
    <3>1. IsFiniteSet(V) /\ V \cap T = T
      BY <1>0, <2>2, Finite
    <3> HIDE DEF V
    <3>2. Cardinality(V \ T) = Cardinality(V) - Cardinality(V \cap T)
      BY <3>1, FS_Difference
    <3> QED BY <3>1, <3>2
  <2>4. Cardinality(V \ T) <= MaxVersions
    BY <1>0, <2>2, <2>3
  <2>5. Versions(d)' = V \ T
    BY <1>2 DEF Versions
  <2>6. ASSUME NEW c \in DTags, c # d PROVE Versions(c)' = Versions(c)
    BY <1>2, <2>2, <2>6 DEF Versions
  <2>7. ASSUME NEW c \in DTags
        PROVE  Cardinality(Versions(c)') <= MaxVersions + cleaner'.excess[c]
    <3>1. CASE c = d
      <4>1. MaxVersions + cleaner'.excess[c] = MaxVersions
        BY <1>0, <2>1, <3>1
      <4>2. Versions(c)' = V \ T
        BY <2>5, <3>1
      <4> HIDE DEF V
      <4> QED BY <2>4, <4>1, <4>2
    <3>2. CASE c # d
      BY <1>0, <2>1, <2>6, <3>2
    <3> QED BY <3>1, <3>2
  <2> QED BY <2>1, <2>7 DEF QuietInv
<1> QED BY <1>1, <1>2 DEF PruneVersions

\* The d tags: the protected ones are the referenced ones, all others get in the queue.
LEMMA QueueSteps ==
    ASSUME TypeOK, QuietInv, quiet, CleanerStep, ProtectDTags \/ OrderDTags
    PROVE  QuietInv'
<1> USE EventsAssumption, NumbersAssumption DEF CleanerAt
<1>0. /\ cleaner \in CleanerType /\ rows \subseteq Events /\ quiet' = quiet /\ refs' = refs
      /\ rows' = rows /\ WithinVersions
      /\ Cardinality(StoredDTags) <= MaxDTags + cleaner.quota
  BY DEF TypeOK, CleanerType, CleanerStep, history, QuietInv, ProtectDTags, OrderDTags
<1>1. WithinVersions' /\ StoredDTags' = StoredDTags
  BY <1>0 DEF WithinVersions, Versions, StoredDTags
<1>2. CASE ProtectDTags
  <2>1. /\ cleaner'.at = "orderDTags" /\ cleaner'.protected = refs
        /\ cleaner'.quota = cleaner.quota
    BY <1>0, <1>2 DEF ProtectDTags, CleanerType, AnchorReferencedDTags
  <2> QED BY <1>0, <1>1, <2>1 DEF QuietInv
<1>3. CASE OrderDTags
  <2> DEFINE free == StoredDTags \ cleaner.protected
  <2>1. PICK order \in SetToSeqs(free) :
            cleaner' = [cleaner EXCEPT !.at = "pruneDTags", !.queue = order]
    BY <1>3 DEF OrderDTags
  <2>2. /\ cleaner'.at = "pruneDTags" /\ cleaner'.queue = order
        /\ cleaner'.quota = cleaner.quota
    BY <1>0, <2>1 DEF CleanerType
  <2>3. IsFiniteSet(free)
    <3>1. free \in SUBSET StoredDTags
      OBVIOUS
    <3> QED BY <1>0, <3>1, Finite, FS_Subset
  <2>4. /\ \A i \in DOMAIN order : order[i] \in free
        /\ \A i, j \in DOMAIN order : i # j => order[i] # order[j]
        /\ \A d \in free : \E i \in DOMAIN order : order[i] = d
    <3> HIDE DEF free
    <3> DEFINE n == Cardinality(free)
    <3>1. /\ order \in [1..n -> free]
          /\ \A i, j \in 1..n : i # j => order[i] # order[j]
      BY <2>1 DEF SetToSeqs
    <3>2. n \in Nat
      BY <2>3, FS_CardinalityType
    <3> HIDE DEF n
    <3>3. IsFiniteSet(1..n) /\ Cardinality(1..n) = n
      BY <3>2, FS_Interval
    <3>4. order \in Injection(1..n, free)
      BY <3>1 DEF Injection, IsInjective
    <3>5. order \in Surjection(1..n, free)
      BY <2>3, <3>3, <3>4, FS_Injection DEF n
    <3> QED BY <3>1, <3>5 DEF Surjection
  <2>5. cleaner.protected = refs
    BY <1>3 DEF OrderDTags, QuietInv
  <2>6. Queued(order)'
    BY <1>0, <1>1, <2>4, <2>5 DEF Queued
  <2> QED BY <1>0, <1>1, <2>2, <2>6 DEF QuietInv
<1> QED BY <1>2, <1>3

\* Each d tag deleted is one fewer, until there are few enough or no others to delete.
LEMMA DTagSteps ==
    ASSUME TypeOK, QuietInv, quiet, CleanerStep, PruneDTag
    PROVE  QuietInv'
<1> USE EventsAssumption, NumbersAssumption DEF CleanerAt
<1> DEFINE q == cleaner.queue
<1>0. /\ cleaner \in CleanerType /\ rows \subseteq Events /\ quiet' = quiet /\ refs' = refs
      /\ cleaner.at = "pruneDTags" /\ WithinVersions /\ Queued(q)
      /\ Cardinality(StoredDTags) <= MaxDTags + cleaner.quota
      /\ cleaner.quota \in Nat /\ q \in Seq(DTags)
      /\ Cardinality(StoredDTags) \in Nat /\ IsFiniteSet(StoredDTags)
  BY Finite DEF TypeOK, CleanerType, CleanerStep, history, QuietInv, PruneDTag
<1>1. CASE cleaner.quota = 0 \/ q = <<>>
  <2>1. cleaner'.at = "done" /\ rows' = rows
    BY <1>1 DEF PruneDTag, CleanerTo, CleanupStart
  <2>2. WithinVersions' /\ StoredDTags' = StoredDTags
    BY <1>0, <2>1 DEF WithinVersions, Versions, StoredDTags
  <2>3. Cardinality(StoredDTags) <= MaxDTags \/ StoredDTags \subseteq refs
    BY <1>0, <1>1 DEF Queued
  <2> QED BY <1>0, <2>1, <2>2, <2>3 DEF QuietInv
<1>2. CASE cleaner.quota # 0 /\ q # <<>>
  <2>1. /\ rows' = rows \ Versions(Head(q))
        /\ cleaner'.at = "pruneDTags" /\ cleaner'.queue = Tail(q)
        /\ cleaner'.quota = cleaner.quota - 1
    BY <1>0, <1>2 DEF PruneDTag, CleanerType
  <2>2. /\ 1 \in DOMAIN q /\ Head(q) = q[1]
        /\ \A i \in DOMAIN Tail(q) : i + 1 \in DOMAIN q /\ i + 1 # 1 /\ Tail(q)[i] = q[i + 1]
        /\ \A i \in DOMAIN q : i # 1 => i - 1 \in DOMAIN Tail(q) /\ Tail(q)[i - 1] = q[i]
    BY <1>0, <1>2
  <2>3. Head(q) \in StoredDTags
    BY <1>0, <2>2 DEF Queued
  <2>4. StoredDTags' = StoredDTags \ {Head(q)}
    BY <2>1 DEF StoredDTags, Versions
  <2>5. Cardinality(StoredDTags') = Cardinality(StoredDTags) - 1
    BY <1>0, <2>3, <2>4, OneLess
  <2>6. Cardinality(StoredDTags') <= MaxDTags + cleaner'.quota
    BY <1>0, <2>1, <2>5
  <2>7. WithinVersions'
    <3>1. rows' \subseteq rows /\ rows' \subseteq Events
      BY <1>0, <2>1
    <3>2. \A d \in DTags : /\ Cardinality(Versions(d)') <= Cardinality(Versions(d))
                           /\ Cardinality(Versions(d)') \in Nat
                           /\ Cardinality(Versions(d)) \in Nat
      BY <1>0, <3>1, Shrunk, Finite, FiniteNext
    <3> QED BY <1>0, <3>2 DEF WithinVersions
  <2>8. Queued(cleaner.queue)'
    <3>1. \A i \in DOMAIN Tail(q) : Tail(q)[i] \in StoredDTags'
      BY <1>0, <2>2, <2>4 DEF Queued
    <3>2. \A i, j \in DOMAIN Tail(q) : i # j => Tail(q)[i] # Tail(q)[j]
      <4> SUFFICES ASSUME NEW i \in DOMAIN Tail(q), NEW j \in DOMAIN Tail(q), i # j
                   PROVE  Tail(q)[i] # Tail(q)[j]
        OBVIOUS
      <4>1. i \in Nat /\ j \in Nat
        BY <1>0, <1>2
      <4>2. i + 1 # j + 1
        BY <4>1
      <4> QED BY <1>0, <2>2, <4>2 DEF Queued
    <3>3. ASSUME NEW d \in StoredDTags', d \notin refs
          PROVE  \E i \in DOMAIN Tail(q) : Tail(q)[i] = d
      <4>1. PICK i \in DOMAIN q : q[i] = d
        BY <1>0, <2>4, <3>3 DEF Queued
      <4>2. i # 1
        BY <2>2, <2>4, <3>3, <4>1
      <4> QED BY <2>2, <4>1, <4>2
    <3> QED BY <1>0, <2>1, <3>1, <3>2, <3>3 DEF Queued
  <2> QED BY <1>0, <2>1, <2>6, <2>7, <2>8 DEF QuietInv
<1> QED BY <1>1, <1>2

\* A step beside the cleanup that leaves it quiet does not matter to it.
LEMMA QuietKept ==
    ASSUME QuietInv, UNCHANGED <<rows, refs, cleaner, quiet>>
    PROVE  QuietInv'
<1>1. /\ \A d : Versions(d)' = Versions(d) /\ StoredDTags' = StoredDTags
      /\ WithinVersions' <=> WithinVersions
  BY DEF Versions, StoredDTags, WithinVersions
<1>2. Queued(cleaner.queue)' <=> Queued(cleaner.queue)
  BY <1>1 DEF Queued
<1> QED BY <1>1, <1>2 DEF QuietInv

\* A cleanup beside which nothing is stored or anchored, and nothing fails, enforces the
\* limits, for any table it finds, or leaves referenced d tags only.
THEOREM QuietCleanups == Spec => []QuietCleanupEnforces
<1>1. Init => QuietInv
  BY DEF Init, CleanupStart, QuietInv
<1>2. TypeOK /\ QuietInv /\ [Next]_vars => QuietInv'
  <2> SUFFICES ASSUME TypeOK, QuietInv, [Next]_vars, quiet' PROVE QuietInv'
    BY DEF QuietInv
  <2>1. CASE UNCHANGED vars \/ RecordTransaction
    BY <2>1, QuietKept DEF vars, history, RecordTransaction
  <2>2. ASSUME NEW d \in Referable, Anchor(d) \/ ReplaceAnchor(d) PROVE FALSE
    BY <2>2 DEF Anchor, ReplaceAnchor
  <2>3. ASSUME NEW e \in Events, StoreUnlimited(e) PROVE FALSE
    BY <2>3 DEF StoreUnlimited
  <2>4. ASSUME NEW p \in Handlers, NEW e \in Events, StoreLocalEvent(p, e) PROVE QuietInv'
    BY <2>4, QuietKept DEF StoreLocalEvent
  <2>5. ASSUME NEW p \in Handlers, HandlerStep(p) PROVE QuietInv'
    BY <2>5, QuietKept DEF HandlerStep
  <2>6. ASSUME NEW p \in Handlers, ReadFails(p) \/ WriteFails(p) PROVE FALSE
    BY <2>6 DEF ReadFails, WriteFails, Fault
  <2>7. CASE CleanerStep
    <3>1. quiet
      BY <2>7 DEF CleanerStep, history
    <3> QED BY <2>7, <3>1, CountSteps, PruneSteps, QueueSteps, DTagSteps DEF CleanerStep
  <2>8. CASE CleanupFails
    BY <2>8 DEF CleanupFails, Fault
  <2>9. CASE Restart
    BY <2>9 DEF Restart, CleanupStart, QuietInv
  <2> QED BY <2>1, <2>2, <2>3, <2>4, <2>5, <2>6, <2>7, <2>8, <2>9 DEF Next
<1>3. QuietInv => QuietCleanupEnforces
  BY DEF QuietInv, QuietCleanupEnforces, CleanerAt
<1> QED BY <1>1, <1>2, <1>3, TypeCorrect, PTL DEF Spec
=============================================================================
