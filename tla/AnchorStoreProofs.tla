------------------------- MODULE AnchorStoreProofs -------------------------
(***************************************************************************)
(* Proofs about AnchorStore, for any callers, anchors, transactions and    *)
(* number of faults.                                                       *)
(***************************************************************************)
EXTENDS AnchorStore, TLAPS

\* A transaction has an anchor, is about to get one, or lost it to a fault.
Covered(t) ==
    \/ \E r \in anchors : r.tx = t
    \/ \E c \in Callers : At(c, "insert") /\ calls[c].ev.tx = t
    \/ \E x \in cutOff : x.tx = t

\* MarkedIsAnchored is not inductive: Mark needs to know that the row the call
\* inserted is still covered, DeleteConflict that it deletes of its own transaction.
MarkInv ==
    /\ \A t \in Txs : link[t] # NoAnchor => Covered(t)
    /\ \A c \in Callers : At(c, "mark") => Covered(calls[c].ev.tx)
    /\ \A c \in Callers : At(c, "deleteConflict") => calls[c].loser.tx = calls[c].ev.tx

-----------------------------------------------------------------------------

\* The step of a call on c leaves the records of the other callers alone.
Others(c) == \A o \in Callers : o # c => calls'[o] = calls[o]

LEMMA StepIsOfOne ==
    ASSUME TypeOK, NEW c \in Callers, NEW x,
           \/ calls' = [calls EXCEPT ![c] = x]
           \/ calls' = [calls EXCEPT ![c].at = x]
    PROVE  Others(c)
BY DEF TypeOK, Others

\* A call that is not at its insert and deletes nothing uncovers no transaction.
LEMMA CoverKept ==
    ASSUME NEW c \in Callers, ~At(c, "insert"), Others(c),
           anchors \subseteq anchors', cutOff \subseteq cutOff', NEW t, Covered(t)
    PROVE  Covered(t)'
<1>1. CASE \E o \in Callers : At(o, "insert") /\ calls[o].ev.tx = t
  <2>1. PICK o \in Callers : At(o, "insert") /\ calls[o].ev.tx = t
    BY <1>1
  <2>2. calls'[o] = calls[o]
    BY <2>1 DEF Others
  <2> QED BY <2>1, <2>2 DEF Covered, At
<1>2. CASE (\E r \in anchors : r.tx = t) \/ (\E x \in cutOff : x.tx = t)
  BY <1>2 DEF Covered
<1> QED BY <1>1, <1>2 DEF Covered

\* A call that marks nothing keeps MarkInv if it uncovers nothing and enters
\* neither its mark nor an unsound delete.
LEMMA MarkInvKept ==
    ASSUME MarkInv, NEW c \in Callers, Others(c), link' = link,
           \A t : Covered(t) => Covered(t)',
           calls'[c].at # "mark",
           calls'[c].at = "deleteConflict" => calls'[c].loser.tx = calls'[c].ev.tx
    PROVE  MarkInv'
<1>1. ASSUME NEW o \in Callers, At(o, "mark")' PROVE Covered(calls[o].ev.tx)'
  BY <1>1 DEF MarkInv, At, Others
<1>2. ASSUME NEW o \in Callers, At(o, "deleteConflict")'
      PROVE  calls'[o].loser.tx = calls'[o].ev.tx
  BY <1>2 DEF MarkInv, At, Others
<1> QED BY <1>1, <1>2 DEF MarkInv

\* The variables keep their types.
THEOREM TypeCorrect == Spec => []TypeOK
<1> USE AnchorsAssumption, NoAnchorAssumption, FaultsAssumption
<1>1. Init => TypeOK
  BY DEF Init, TypeOK, NoCall, Running, At, Statements
<1>2. TypeOK /\ [Next]_vars => TypeOK'
  <2> SUFFICES ASSUME TypeOK, [Next]_vars PROVE TypeOK'
    OBVIOUS
  <2> USE DEF TypeOK, Running, At, Statements
  <2>1. CASE UNCHANGED vars
    BY <2>1 DEF vars
  <2>2. CASE Crash
    BY <2>2 DEF Crash, Fault, NoCall, Scope
  <2>3. ASSUME NEW c \in Callers, NEW e \in Anchors, Begin(c, e) PROVE TypeOK'
    <3>1. raced' \subseteq raced \union Scope(e)
      BY <2>3 DEF Begin
    <3>2. Scope(e) \subseteq Txs \union Pubkeys
      BY DEF Scope
    <3> QED BY <2>3, <3>1, <3>2 DEF Begin
  <2>4. ASSUME NEW c \in Callers, SelectExisting(c) PROVE TypeOK'
    <3>1. /\ calls[c].at = "selectExisting" /\ UNCHANGED <<anchors, link, cutOff, raced, faults>>
          /\ GoTo(c, "selectConflict") \/ Return(c)
      BY <2>4 DEF SelectExisting
    <3>2. CASE GoTo(c, "selectConflict")
      BY <3>1, <3>2 DEF GoTo
    <3>3. CASE Return(c)
      BY <3>1, <3>3 DEF Return, NoCall
    <3> QED BY <3>1, <3>2, <3>3
  <2>5. ASSUME NEW c \in Callers, SelectConflict(c) PROVE TypeOK'
    BY <2>5 DEF SelectConflict, Conflicts, GoTo, Return, NoCall
  <2>6. ASSUME NEW c \in Callers, DeleteConflict(c) PROVE TypeOK'
    BY <2>6 DEF DeleteConflict, GoTo
  <2>7. ASSUME NEW c \in Callers, Insert(c) PROVE TypeOK'
    BY <2>7 DEF Insert, GoTo
  <2>8. ASSUME NEW c \in Callers, Mark(c) PROVE TypeOK'
    BY <2>8 DEF Mark, Return, NoCall
  <2>9. ASSUME NEW c \in Callers, IgnoredFailure(c) PROVE TypeOK'
    <3>1. /\ calls[c].at \in {"selectExisting", "selectConflict", "deleteConflict"}
          /\ GoTo(c, "selectConflict") \/ GoTo(c, "insert")
          /\ UNCHANGED <<anchors, link, cutOff>> /\ Fault(Scope(calls[c].ev))
      BY <2>9 DEF IgnoredFailure
    <3>2. raced' \subseteq Txs \union Pubkeys /\ faults' \in 0..MaxFaults
      BY <3>1 DEF Fault, Scope
    <3>3. CASE GoTo(c, "selectConflict")
      BY <3>1, <3>2, <3>3 DEF GoTo
    <3>4. CASE GoTo(c, "insert")
      BY <3>1, <3>2, <3>4 DEF GoTo
    <3> QED BY <3>1, <3>3, <3>4
  <2>10. ASSUME NEW c \in Callers, ReportedFailure(c) PROVE TypeOK'
    BY <2>10 DEF ReportedFailure, Fault, Scope, Return, NoCall
  <2> QED
    BY <2>1, <2>2, <2>3, <2>4, <2>5, <2>6, <2>7, <2>8, <2>9, <2>10
    DEF Next, Statement, StoreForTransaction, StoreLocalEvent
<1> QED BY <1>1, <1>2, PTL DEF Spec

\* Marks, and calls about to mark, are covered; calls delete of their own transaction.
LEMMA MarkInvariant == Spec => []MarkInv
<1> USE AnchorsAssumption, NoAnchorAssumption
<1>1. Init => MarkInv
  BY DEF Init, MarkInv, NoCall, At
<1>2. TypeOK /\ MarkInv /\ [Next]_vars => MarkInv'
  <2> SUFFICES ASSUME TypeOK, MarkInv, [Next]_vars PROVE MarkInv'
    OBVIOUS
  <2>1. CASE UNCHANGED vars
    BY <2>1 DEF vars, MarkInv, Covered, At
  <2>2. CASE Crash
    <3>1. /\ calls' = [c \in Callers |-> NoCall] /\ UNCHANGED <<anchors, link>>
          /\ \A c \in Callers : At(c, "insert") => calls[c].ev \in cutOff'
          /\ cutOff \subseteq cutOff'
      BY <2>2 DEF Crash, Running, At
    <3>2. ASSUME NEW t, Covered(t) PROVE Covered(t)'
      BY <3>1, <3>2 DEF Covered
    <3>3. \A c \in Callers : calls'[c].at = "idle"
      BY <3>1 DEF NoCall
    <3> QED BY <3>1, <3>2, <3>3 DEF MarkInv, At
  <2>3. ASSUME NEW c \in Callers, NEW e \in Anchors, Begin(c, e) PROVE MarkInv'
    <3> DEFINE call == [at |-> "selectExisting", ev |-> e, loser |-> NoAnchor]
    <3>1. /\ ~At(c, "insert") /\ calls' = [calls EXCEPT ![c] = call]
          /\ UNCHANGED <<anchors, link, cutOff>>
      BY <2>3 DEF Begin, Running, At
    <3>2. calls'[c].at = "selectExisting"
      BY <3>1 DEF TypeOK
    <3>3. Others(c)
      BY <3>1 DEF TypeOK, Others
    <3> QED BY <3>1, <3>2, <3>3, CoverKept, MarkInvKept
  <2>4. ASSUME NEW c \in Callers, SelectExisting(c) \/ SelectConflict(c) PROVE MarkInv'
    <3>1. ~At(c, "insert") /\ UNCHANGED <<anchors, link, cutOff>>
      BY <2>4 DEF SelectExisting, SelectConflict, At
    <3>2. PICK x : \/ calls' = [calls EXCEPT ![c] = x]
                   \/ calls' = [calls EXCEPT ![c].at = x]
      BY <2>4 DEF SelectExisting, SelectConflict, GoTo, Return
    <3>3. Others(c)
      BY <3>2, StepIsOfOne
    <3>4. /\ calls'[c].at # "mark"
          /\ calls'[c].at = "deleteConflict" => calls'[c].loser.tx = calls'[c].ev.tx
      <4>1. CASE \E s \in {"selectConflict", "insert"} : GoTo(c, s)
        BY <4>1 DEF GoTo, TypeOK
      <4>2. CASE Return(c)
        BY <4>2 DEF Return, NoCall, TypeOK
      <4>3. ASSUME NEW r \in Conflicts(calls[c].ev),
                   calls' = [calls EXCEPT ![c] =
                                [at |-> "deleteConflict", ev |-> calls[c].ev, loser |-> r]]
            PROVE  calls'[c].at # "mark" /\ calls'[c].loser.tx = calls'[c].ev.tx
        BY <4>3 DEF Conflicts, TypeOK
      <4> QED BY <2>4, <4>1, <4>2, <4>3 DEF SelectExisting, SelectConflict
    <3> QED BY <3>1, <3>3, <3>4, CoverKept, MarkInvKept
  <2>5. ASSUME NEW c \in Callers, DeleteConflict(c) PROVE MarkInv'
    <3> DEFINE e == calls[c].ev
    <3>1. /\ calls' = [calls EXCEPT ![c].at = "insert"] /\ At(c, "deleteConflict")
          /\ UNCHANGED <<link, cutOff>> /\ anchors' = anchors \ {calls[c].loser}
      BY <2>5 DEF DeleteConflict, GoTo
    <3>2. /\ Others(c) /\ calls'[c].at = "insert" /\ calls'[c].ev = e
          /\ calls[c].loser.tx = e.tx
      BY <3>1 DEF TypeOK, MarkInv, Others
    <3>3. ASSUME NEW t, Covered(t) PROVE Covered(t)'
      <4>1. CASE t = e.tx
        BY <3>2, <4>1 DEF Covered, At
      <4>2. CASE \E r \in anchors : r.tx = t /\ t # e.tx
        BY <3>1, <3>2, <4>2 DEF Covered
      <4>3. CASE \E o \in Callers : At(o, "insert") /\ calls[o].ev.tx = t
        <5>1. PICK o \in Callers : At(o, "insert") /\ calls[o].ev.tx = t
          BY <4>3
        <5>2. calls'[o] = calls[o]
          BY <3>1, <3>2, <5>1 DEF Others, At
        <5> QED BY <5>1, <5>2 DEF Covered, At
      <4>4. CASE \E x \in cutOff : x.tx = t
        BY <3>1, <4>4 DEF Covered
      <4> QED BY <3>3, <4>1, <4>2, <4>3, <4>4 DEF Covered
    <3> QED BY <3>1, <3>2, <3>3, MarkInvKept
  <2>6. ASSUME NEW c \in Callers, Insert(c) PROVE MarkInv'
    BY <2>6 DEF Insert, GoTo, TypeOK, MarkInv, Covered, At, Running
  <2>7. ASSUME NEW c \in Callers, Mark(c) PROVE MarkInv'
    <3>1. /\ At(c, "mark") /\ calls' = [calls EXCEPT ![c] = NoCall]
          /\ UNCHANGED <<anchors, cutOff>>
          /\ link' = [link EXCEPT ![calls[c].ev.tx] = calls[c].ev]
      BY <2>7 DEF Mark, Return
    <3>2. Others(c) /\ calls'[c].at = "idle" /\ ~At(c, "insert")
      BY <3>1 DEF TypeOK, Others, NoCall, At
    <3>3. \A t : Covered(t) => Covered(t)'
      BY <3>1, <3>2, CoverKept
    <3>4. ASSUME NEW t \in Txs, link'[t] # NoAnchor PROVE Covered(t)'
      BY <3>1, <3>3, <3>4 DEF MarkInv, TypeOK
    <3>5. ASSUME NEW o \in Callers, At(o, "mark")' PROVE Covered(calls[o].ev.tx)'
      BY <3>2, <3>3, <3>5 DEF MarkInv, At, Others
    <3>6. ASSUME NEW o \in Callers, At(o, "deleteConflict")'
          PROVE  calls'[o].loser.tx = calls'[o].ev.tx
      BY <3>2, <3>6 DEF MarkInv, At, Others
    <3> QED BY <3>4, <3>5, <3>6 DEF MarkInv
  <2>8. ASSUME NEW c \in Callers, IgnoredFailure(c) PROVE MarkInv'
    <3>1. PICK s \in {"selectConflict", "insert"} : calls' = [calls EXCEPT ![c].at = s]
      BY <2>8 DEF IgnoredFailure, GoTo
    <3>2. ~At(c, "insert") /\ UNCHANGED <<anchors, link, cutOff>>
      BY <2>8 DEF IgnoredFailure, At
    <3>3. Others(c) /\ calls'[c].at = s
      BY <3>1 DEF TypeOK, Others
    <3> QED BY <3>1, <3>2, <3>3, CoverKept, MarkInvKept
  <2>9. ASSUME NEW c \in Callers, ReportedFailure(c) PROVE MarkInv'
    <3>1. /\ calls' = [calls EXCEPT ![c] = NoCall] /\ UNCHANGED <<anchors, link>>
          /\ At(c, "insert") => calls[c].ev \in cutOff'
          /\ cutOff \subseteq cutOff'
      BY <2>9 DEF ReportedFailure, Return
    <3>2. Others(c) /\ calls'[c].at = "idle"
      BY <3>1 DEF TypeOK, Others, NoCall
    <3>3. ASSUME NEW t, Covered(t) PROVE Covered(t)'
      <4>1. CASE At(c, "insert") /\ calls[c].ev.tx = t
        BY <3>1, <4>1 DEF Covered
      <4>2. CASE \E o \in Callers : o # c /\ At(o, "insert") /\ calls[o].ev.tx = t
        <5>1. PICK o \in Callers : o # c /\ At(o, "insert") /\ calls[o].ev.tx = t
          BY <4>2
        <5>2. calls'[o] = calls[o]
          BY <3>2, <5>1 DEF Others
        <5> QED BY <5>1, <5>2 DEF Covered, At
      <4>3. CASE (\E r \in anchors : r.tx = t) \/ (\E x \in cutOff : x.tx = t)
        BY <3>1, <4>3 DEF Covered
      <4> QED BY <3>3, <4>1, <4>2, <4>3 DEF Covered
    <3> QED BY <3>1, <3>2, <3>3, MarkInvKept
  <2> QED
    BY <2>1, <2>2, <2>3, <2>4, <2>5, <2>6, <2>7, <2>8, <2>9
    DEF Next, Statement, StoreForTransaction, StoreLocalEvent
<1> QED BY <1>1, <1>2, TypeCorrect, PTL DEF Spec

\* A transaction marked as anchored keeps an anchor, save for a fault between the
\* DELETE of the old one and the INSERT of the new.
THEOREM MarksAreSound == Spec => []MarkedIsAnchored
<1>1. MarkInv => MarkedIsAnchored
  BY DEF MarkInv, MarkedIsAnchored, Covered
<1> QED BY <1>1, MarkInvariant, PTL

-----------------------------------------------------------------------------
(* Calls that neither overlap nor fail. *)

On(c, t) == Running(c) /\ calls[c].ev.tx = t
RowsOf(t) == {r \in anchors : r.tx = t}
Reading(c) == At(c, "selectExisting") \/ At(c, "selectConflict") \/ At(c, "deleteConflict")

\* The mark of t agrees with its row except from the DELETE of the one call on t to its
\* UPDATE; after its INSERT the row is its own.
AgreesOn(t) ==
    /\ \A c, o \in Callers : On(c, t) /\ On(o, t) => c = o
    /\ (\A c \in Callers : On(c, t) => Reading(c)) => RowsOf(t) = {link[t]} \ {NoAnchor}
    /\ \A c \in Callers : On(c, t) /\ At(c, "mark") => RowsOf(t) = {calls[c].ev}

AgreeInv == \A t \in Txs \ raced : AgreesOn(t)

\* A step on another transaction does not matter to t.
LEMMA Elsewhere ==
    ASSUME NEW t, AgreesOn(t), NEW c \in Callers, Others(c),
           ~On(c, t), ~On(c, t)', RowsOf(t)' = RowsOf(t), link'[t] = link[t]
    PROVE  AgreesOn(t)'
<1>1. \A o \in Callers : (On(o, t)' <=> On(o, t)) /\ (On(o, t) => calls'[o] = calls[o])
  BY DEF On, Running, Others
<1>2. \A o \in Callers : On(o, t) => (Reading(o)' <=> Reading(o)) /\ (At(o, "mark")' <=> At(o, "mark"))
  BY <1>1 DEF Reading, At
<1> QED BY <1>1, <1>2 DEF AgreesOn

\* A call on t that only goes on reading, or returns from there.
LEMMA ReadsOn ==
    ASSUME NEW t, AgreesOn(t), NEW c \in Callers, Others(c), On(c, t), Reading(c),
           On(c, t)' => calls'[c].at # "mark",
           RowsOf(t)' = RowsOf(t), link'[t] = link[t]
    PROVE  AgreesOn(t)'
<1>1. \A o \in Callers : o # c => ~On(o, t) /\ ~On(o, t)'
  BY DEF AgreesOn, On, Running, Others
<1>2. RowsOf(t)' = {link'[t]} \ {NoAnchor}
  BY <1>1 DEF AgreesOn
<1> QED BY <1>1, <1>2 DEF AgreesOn, At

\* A call without faults keeps AgreeInv: the reading statements, the INSERT, the UPDATE.
LEMMA StatementAgrees ==
    ASSUME TypeOK, MarkInv, AgreeInv, NEW c \in Callers, Statement(c)
    PROVE  AgreeInv'
<1> USE AnchorsAssumption, NoAnchorAssumption
<1> DEFINE e == calls[c].ev
<1>1. e \in Anchors /\ e.tx \in Txs /\ raced' = raced /\ Running(c)
  BY DEF TypeOK, Statement, SelectExisting, SelectConflict, DeleteConflict, Insert, Mark, At, Running
<1>2. Others(c)
  <2>1. PICK x : \/ calls' = [calls EXCEPT ![c] = x]
                 \/ calls' = [calls EXCEPT ![c].at = x]
    BY DEF Statement, SelectExisting, SelectConflict, DeleteConflict, Insert, Mark, GoTo, Return
  <2> QED BY <2>1, StepIsOfOne
<1>3. calls'[c].at # "idle" => calls'[c].ev = e
  BY DEF Statement, SelectExisting, SelectConflict, DeleteConflict, Insert, Mark, GoTo, Return,
         NoCall, TypeOK
<1>4. anchors \subseteq Anchors /\ anchors' \subseteq Anchors
  BY <1>1 DEF TypeOK, Statement, SelectExisting, SelectConflict, DeleteConflict, Insert, Mark
<1>5. \A r : r \in anchors /\ r.tx # e.tx <=> r \in anchors' /\ r.tx # e.tx
  BY DEF Statement, SelectExisting, SelectConflict, DeleteConflict, Insert, Mark, MarkInv, At
<1>6. \A t \in Txs : t # e.tx => link'[t] = link[t]
  BY DEF TypeOK, Statement, SelectExisting, SelectConflict, DeleteConflict, Insert, Mark
<1> SUFFICES ASSUME NEW t \in Txs \ raced PROVE AgreesOn(t)'
  BY <1>1 DEF AgreeInv
<1>7. AgreesOn(t)
  BY DEF AgreeInv
<1>8. CASE t # e.tx
  <2>1. RowsOf(t)' = RowsOf(t) /\ ~On(c, t) /\ ~On(c, t)' /\ link'[t] = link[t]
    BY <1>3, <1>5, <1>6, <1>8 DEF RowsOf, On, Running
  <2> QED BY <1>2, <1>7, <2>1, Elsewhere
<1>9. CASE t = e.tx
  <2>1. On(c, t) /\ \A o \in Callers : o # c => ~On(o, t) /\ ~On(o, t)'
    BY <1>1, <1>2, <1>7, <1>9 DEF AgreesOn, On, Running, Others
  <2>2. CASE SelectExisting(c) \/ SelectConflict(c)
    <3>1. Reading(c) /\ UNCHANGED <<anchors, link>>
      BY <2>2 DEF SelectExisting, SelectConflict, Reading
    <3>2. calls'[c].at # "mark"
      BY <2>2 DEF SelectExisting, SelectConflict, GoTo, Return, NoCall, TypeOK
    <3> QED BY <1>2, <1>7, <2>1, <3>1, <3>2, ReadsOn DEF RowsOf
  <2>3. CASE DeleteConflict(c)
    <3>1. calls'[c].at = "insert" /\ calls'[c].ev = e
      BY <2>3 DEF DeleteConflict, GoTo, TypeOK
    <3>2. On(c, t)' /\ ~Reading(c)' /\ ~At(c, "mark")'
      BY <1>9, <3>1 DEF On, Running, Reading, At
    <3> QED BY <2>1, <3>2 DEF AgreesOn
  <2>4. CASE Insert(c)
    <3>1. calls'[c].at = "mark" /\ calls'[c].ev = e /\ anchors' = {r \in anchors : r.tx # e.tx} \union {e}
      BY <2>4 DEF Insert, GoTo, TypeOK
    <3>2. On(c, t)' /\ ~Reading(c)' /\ RowsOf(t)' = {calls'[c].ev}
      BY <1>9, <3>1 DEF On, Running, Reading, At, RowsOf
    <3> QED BY <2>1, <3>2 DEF AgreesOn
  <2>5. CASE Mark(c)
    <3>1. calls'[c].at = "idle" /\ link'[t] = e /\ anchors' = anchors /\ At(c, "mark")
      BY <1>9, <2>5 DEF Mark, Return, NoCall, TypeOK
    <3>2. ~On(c, t)' /\ RowsOf(t)' = {link'[t]} \ {NoAnchor}
      BY <1>1, <1>7, <2>1, <3>1 DEF AgreesOn, On, Running, RowsOf
    <3> QED BY <2>1, <3>2 DEF AgreesOn
  <2> QED BY <2>2, <2>3, <2>4, <2>5 DEF Statement
<1> QED BY <1>8, <1>9

\* A call that begins beside another one on its transaction ends what is said of it.
LEMMA BeginAgrees ==
    ASSUME TypeOK, AgreeInv, NEW c \in Callers, NEW e \in Anchors, Begin(c, e)
    PROVE  AgreeInv'
<1>1. /\ ~Running(c) /\ UNCHANGED <<anchors, link>> /\ Others(c)
      /\ calls'[c].at = "selectExisting" /\ calls'[c].ev = e
  BY DEF Begin, TypeOK, Others
<1>2. raced \subseteq raced'
  BY DEF Begin
<1> SUFFICES ASSUME NEW t \in Txs \ raced' PROVE AgreesOn(t)'
  BY DEF AgreeInv
<1>3. AgreesOn(t)
  BY <1>2 DEF AgreeInv
<1>4. CASE e.tx # t
  BY <1>1, <1>3, <1>4, Elsewhere DEF On, Running, RowsOf
<1>5. CASE e.tx = t
  <2>1. ASSUME NEW o \in Callers, On(o, t) PROVE FALSE
    <3>1. o # c /\ t \in Scope(e) \intersect Scope(calls[o].ev) /\ Running(o)
      BY <1>1, <1>5, <2>1 DEF On, Scope
    <3>2. t \in raced'
      BY <3>1 DEF Begin
    <3> QED BY <3>2
  <2>2. \A o \in Callers : o # c => ~On(o, t)'
    BY <1>1, <2>1 DEF On, Running, Others
  <2>3. RowsOf(t)' = {link'[t]} \ {NoAnchor}
    BY <1>1, <1>3, <2>1 DEF AgreesOn, RowsOf
  <2>4. ~At(c, "mark")'
    BY <1>1 DEF At
  <2> QED BY <2>2, <2>3, <2>4 DEF AgreesOn
<1> QED BY <1>4, <1>5

\* A fault ends what is said of the transactions of the calls it hits.
LEMMA FaultAgrees ==
    ASSUME TypeOK, AgreeInv,
           Crash \/ \E c \in Callers : IgnoredFailure(c) \/ ReportedFailure(c)
    PROVE  AgreeInv'
<1>1. UNCHANGED <<anchors, link>> /\ raced \subseteq raced'
  BY DEF Crash, IgnoredFailure, ReportedFailure, Fault
<1> SUFFICES ASSUME NEW t \in Txs \ raced' PROVE AgreesOn(t)'
  BY DEF AgreeInv
<1>2. AgreesOn(t)
  BY <1>1 DEF AgreeInv
<1>3. CASE Crash
  <2>1. \A c \in Callers : ~On(c, t)
    BY <1>3 DEF Crash, Fault, On, Scope
  <2>2. \A c \in Callers : ~On(c, t)'
    BY <1>3 DEF Crash, NoCall, On, Running
  <2> QED BY <1>1, <1>2, <2>1, <2>2 DEF AgreesOn, RowsOf
<1>4. ASSUME NEW c \in Callers, IgnoredFailure(c) \/ ReportedFailure(c) PROVE AgreesOn(t)'
  <2>1. ~On(c, t)
    BY <1>4 DEF IgnoredFailure, ReportedFailure, Fault, On, Scope
  <2>2. Running(c)
    BY <1>4 DEF IgnoredFailure, ReportedFailure, At, Running
  <2>3. PICK x : \/ calls' = [calls EXCEPT ![c] = x]
                 \/ calls' = [calls EXCEPT ![c].at = x]
    BY <1>4 DEF IgnoredFailure, ReportedFailure, GoTo, Return
  <2>4. Others(c)
    BY <2>3, StepIsOfOne
  <2>5. calls'[c].at # "idle" => calls'[c].ev = calls[c].ev
    BY <1>4 DEF IgnoredFailure, ReportedFailure, GoTo, Return, NoCall, TypeOK
  <2>6. ~On(c, t)'
    BY <2>1, <2>2, <2>5 DEF On, Running
  <2> QED BY <1>1, <1>2, <2>1, <2>4, <2>6, Elsewhere DEF RowsOf
<1> QED BY <1>3, <1>4

\* Calls on a transaction that neither overlap nor fail leave its mark and its row in
\* agreement, whoever signed the rows that INSERT OR REPLACE displaces.
THEOREM MarksAgree == Spec => []SerialMarkAgrees
<1>1. Init => AgreeInv
  BY DEF Init, AgreeInv, AgreesOn, On, Running, NoCall, RowsOf
<1>2. TypeOK /\ MarkInv /\ AgreeInv /\ [Next]_vars => AgreeInv'
  <2> SUFFICES ASSUME TypeOK, MarkInv, AgreeInv, [Next]_vars PROVE AgreeInv'
    OBVIOUS
  <2>1. CASE UNCHANGED vars
    BY <2>1 DEF vars, AgreeInv, AgreesOn, On, Running, Reading, At, RowsOf
  <2>2. CASE Next
    BY <2>2, StatementAgrees, BeginAgrees, FaultAgrees
    DEF Next, StoreForTransaction, StoreLocalEvent
  <2> QED BY <2>1, <2>2
<1>3. AgreeInv => SerialMarkAgrees
  BY DEF AgreeInv, AgreesOn, SerialMarkAgrees, On, RowsOf
<1> QED BY <1>1, <1>2, <1>3, TypeCorrect, MarkInvariant, PTL DEF Spec

-----------------------------------------------------------------------------
(* What a call may displace. *)

OneRowPerTx == \A r, s \in anchors : r.tx = s.tx => r = s

Signs(c, p) == Running(c) /\ calls[c].ev.pk = p
Compared(c) == At(c, "selectConflict") \/ At(c, "deleteConflict") \/ At(c, "insert")

\* The row a call will delete lost to its event.
LosersLost ==
    \A c \in Callers : At(c, "deleteConflict") =>
        /\ calls[c].loser.tx = calls[c].ev.tx
        /\ calls[c].loser.d # calls[c].ev.d
        /\ ~Wins(calls[c].loser, calls[c].ev)

\* While the one call of p runs, no row of p comes: what its SELECTs said stays true.
Knows(p) ==
    /\ \A c, o \in Callers : Signs(c, p) /\ Signs(o, p) => c = o
    /\ \A c \in Callers, r \in anchors : Signs(c, p) /\ r.pk = p =>
        /\ Compared(c) /\ r.d = calls[c].ev.d => r.updated <= calls[c].ev.updated
        /\ At(c, "deleteConflict") /\ r \in Conflicts(calls[c].ev) => r = calls[c].loser
        /\ At(c, "insert") => r \notin Conflicts(calls[c].ev)

KnownInv == OneRowPerTx /\ LosersLost /\ \A p \in Pubkeys \ raced : Knows(p)

\* A step adds no row of p, and is none of a call of p.
LEMMA KnowsKept ==
    ASSUME NEW p, Knows(p), NEW c \in Callers, Others(c), ~Signs(c, p), ~Signs(c, p)',
           \A r \in anchors' : r.pk = p => r \in anchors
    PROVE  Knows(p)'
<1>1. \A o \in Callers : (Signs(o, p)' <=> Signs(o, p)) /\ (Signs(o, p) => calls'[o] = calls[o])
  BY DEF Signs, Running, Others
<1>2. \A o \in Callers, r \in anchors' : Signs(o, p)' /\ r.pk = p =>
          /\ Compared(o)' => Compared(o)
          /\ r \in Conflicts(calls[o].ev)' => r \in Conflicts(calls[o].ev)
          /\ (At(o, "deleteConflict")' => At(o, "deleteConflict"))
          /\ (At(o, "insert")' => At(o, "insert"))
  BY <1>1 DEF Compared, At, Conflicts
<1> QED BY <1>1, <1>2 DEF Knows

\* A statement keeps KnownInv: each SELECT learns what the next statements need.
LEMMA StatementKnows ==
    ASSUME TypeOK, KnownInv, NEW c \in Callers, Statement(c)
    PROVE  KnownInv'
<1> USE AnchorsAssumption, NoAnchorAssumption
<1> DEFINE e == calls[c].ev
<1>1. e \in Anchors /\ e.pk \in Pubkeys /\ raced' = raced /\ Running(c)
  BY DEF TypeOK, Statement, SelectExisting, SelectConflict, DeleteConflict, Insert, Mark, At, Running
<1>2. Others(c)
  <2>1. PICK x : \/ calls' = [calls EXCEPT ![c] = x]
                 \/ calls' = [calls EXCEPT ![c].at = x]
    BY DEF Statement, SelectExisting, SelectConflict, DeleteConflict, Insert, Mark, GoTo, Return
  <2> QED BY <2>1, StepIsOfOne
<1>3. calls'[c].at # "idle" => calls'[c].ev = e
  BY DEF Statement, SelectExisting, SelectConflict, DeleteConflict, Insert, Mark, GoTo, Return,
         NoCall, TypeOK
<1>4. anchors \subseteq Anchors /\ anchors' \subseteq Anchors
  BY <1>1 DEF TypeOK, Statement, SelectExisting, SelectConflict, DeleteConflict, Insert, Mark
<1>5. anchors' \subseteq anchors \/ (Insert(c) /\ anchors' = {r \in anchors : r.tx # e.tx} \union {e})
  BY DEF Statement, SelectExisting, SelectConflict, DeleteConflict, Insert, Mark
<1>6. OneRowPerTx'
  BY <1>5 DEF OneRowPerTx, KnownInv
<1>7. LosersLost'
  <2>1. CASE \E r \in Conflicts(e) : ~Wins(r, e) /\ calls' = [calls EXCEPT ![c] =
                                [at |-> "deleteConflict", ev |-> e, loser |-> r]]
    BY <1>2, <2>1 DEF Conflicts, TypeOK, KnownInv, LosersLost, At, Others
  <2>2. CASE calls'[c].at # "deleteConflict"
    BY <1>2, <2>2 DEF KnownInv, LosersLost, At, Others
  <2>3. \/ \E r \in Conflicts(e) : ~Wins(r, e) /\ calls' = [calls EXCEPT ![c] =
                                [at |-> "deleteConflict", ev |-> e, loser |-> r]]
        \/ calls'[c].at # "deleteConflict"
    BY DEF Statement, SelectExisting, SelectConflict, DeleteConflict, Insert, Mark, GoTo, Return,
           NoCall, TypeOK
  <2> QED BY <2>1, <2>2, <2>3
<1>8. ASSUME NEW p \in Pubkeys \ raced PROVE Knows(p)'
  <2>1. Knows(p)
    BY <1>8 DEF KnownInv
  <2>2. CASE p # e.pk
    <3>1. ~Signs(c, p) /\ ~Signs(c, p)'
      BY <1>3, <2>2 DEF Signs, Running
    <3>2. \A r \in anchors' : r.pk = p => r \in anchors
      BY <1>5, <2>2
    <3> QED BY <1>2, <2>1, <3>1, <3>2, KnowsKept
  <2>3. CASE p = e.pk
    <3>1. Signs(c, p) /\ \A o \in Callers : o # c => ~Signs(o, p) /\ ~Signs(o, p)'
      BY <1>1, <1>2, <2>1, <2>3 DEF Knows, Signs, Running, Others
    <3> SUFFICES ASSUME NEW r \in anchors', Signs(c, p)', r.pk = p
                 PROVE  /\ Compared(c)' /\ r.d = e.d => r.updated <= e.updated
                        /\ At(c, "deleteConflict")' /\ r \in Conflicts(e)' => r = calls'[c].loser
                        /\ At(c, "insert")' => r \notin Conflicts(e)'
      BY <1>3, <3>1 DEF Knows, Signs, Running
    <3>e. calls'[c].ev = e
      BY <1>3 DEF Signs, Running
    <3>2. CASE SelectExisting(c)
      <4>1. anchors' = anchors /\ calls'[c].at = "selectConflict"
        BY <2>3, <3>2, <3>1 DEF SelectExisting, GoTo, Return, NoCall, TypeOK, Signs, Running
      <4>2. r.d = e.d => r.updated <= e.updated
        <5>1. CASE \A s \in anchors : ~SameAddress(s, e)
          BY <2>3, <4>1, <5>1 DEF SameAddress
        <5>2. ASSUME NEW s \in Latest(e), s.updated <= e.updated PROVE r.d = e.d => r.updated <= e.updated
          BY <1>4, <1>1, <2>3, <4>1, <5>2 DEF Latest, SameAddress
        <5>3. \/ \A s \in anchors : ~SameAddress(s, e)
              \/ \E s \in Latest(e) : s.updated <= e.updated
          <6>1. CASE Return(c)
            BY <4>1, <6>1 DEF Return, NoCall, TypeOK
          <6>2. Latest(e) \subseteq Anchors
            BY <1>4 DEF Latest
          <6> QED BY <1>1, <3>2, <6>1, <6>2 DEF SelectExisting
        <5> QED BY <5>1, <5>2, <5>3
      <4> QED BY <4>1, <4>2 DEF At
    <3>3. CASE SelectConflict(c)
      <4>1. anchors' = anchors /\ Compared(c) /\ calls'[c].at \in {"insert", "deleteConflict"}
        BY <3>3, <3>1 DEF SelectConflict, GoTo, Return, NoCall, TypeOK, Signs, Running, Compared
      <4>2. CASE calls'[c].at = "insert"
        <5>1. Conflicts(e) = {}
          BY <3>3, <4>2 DEF SelectConflict, GoTo, Return, NoCall, TypeOK
        <5> QED BY <2>1, <3>1, <3>e, <4>1, <4>2, <5>1 DEF Knows, At, Conflicts
      <4>3. CASE calls'[c].at = "deleteConflict"
        <5>1. calls'[c].loser \in Conflicts(e)
          BY <3>3, <4>3 DEF SelectConflict, GoTo, Return, NoCall, TypeOK
        <5>2. r \in Conflicts(e) => r = calls'[c].loser
          BY <5>1 DEF Conflicts, KnownInv, OneRowPerTx
        <5> QED BY <2>1, <3>1, <3>e, <4>1, <4>3, <5>2 DEF Knows, At, Conflicts
      <4> QED BY <4>1, <4>2, <4>3
    <3>4. CASE DeleteConflict(c)
      <4>1. anchors' = anchors \ {calls[c].loser} /\ At(c, "deleteConflict") /\ calls'[c].at = "insert"
        BY <3>4 DEF DeleteConflict, GoTo, TypeOK
      <4> QED BY <2>1, <3>1, <3>e, <4>1 DEF Knows, At, Conflicts, Compared
    <3>5. CASE Insert(c)
      <4>1. calls'[c].at = "mark"
        BY <3>5 DEF Insert, GoTo, TypeOK
      <4> QED BY <4>1 DEF At, Compared
    <3>6. CASE Mark(c)
      <4>1. calls'[c].at = "idle"
        BY <3>6 DEF Mark, Return, NoCall, TypeOK
      <4> QED BY <4>1 DEF At, Compared
    <3> QED BY <3>2, <3>3, <3>4, <3>5, <3>6 DEF Statement
  <2> QED BY <2>2, <2>3
<1> QED BY <1>1, <1>6, <1>7, <1>8 DEF KnownInv

\* A call that begins beside another one of its pubkey ends what is said of it.
LEMMA BeginKnows ==
    ASSUME TypeOK, KnownInv, NEW c \in Callers, NEW e \in Anchors, Begin(c, e)
    PROVE  KnownInv'
<1>1. /\ ~Running(c) /\ anchors' = anchors /\ Others(c) /\ raced \subseteq raced'
      /\ calls'[c].at = "selectExisting" /\ calls'[c].ev = e
  BY DEF Begin, TypeOK, Others
<1>2. OneRowPerTx' /\ LosersLost'
  BY <1>1 DEF KnownInv, OneRowPerTx, LosersLost, At, Others
<1>3. ASSUME NEW p \in Pubkeys \ raced' PROVE Knows(p)'
  <2>1. Knows(p)
    BY <1>1, <1>3 DEF KnownInv
  <2>2. CASE e.pk # p
    BY <1>1, <2>1, <2>2, KnowsKept DEF Signs, Running
  <2>3. CASE e.pk = p
    <3>1. ASSUME NEW o \in Callers, Signs(o, p) PROVE FALSE
      <4>1. o # c /\ p \in Scope(e) \intersect Scope(calls[o].ev) /\ Running(o)
        BY <1>1, <2>3, <3>1 DEF Signs, Scope
      <4> QED BY <1>3, <4>1 DEF Begin
    <3>2. \A o \in Callers : o # c => ~Signs(o, p)'
      BY <1>1, <3>1 DEF Signs, Running, Others
    <3>3. ~Compared(c)' /\ ~At(c, "deleteConflict")' /\ ~At(c, "insert")'
      BY <1>1 DEF Compared, At
    <3> QED BY <3>2, <3>3 DEF Knows
  <2> QED BY <2>2, <2>3
<1> QED BY <1>2, <1>3 DEF KnownInv

\* A fault ends what is said of the pubkeys of the calls it hits.
LEMMA FaultKnows ==
    ASSUME TypeOK, KnownInv,
           Crash \/ \E c \in Callers : IgnoredFailure(c) \/ ReportedFailure(c)
    PROVE  KnownInv'
<1>1. anchors' = anchors /\ raced \subseteq raced'
  BY DEF Crash, IgnoredFailure, ReportedFailure, Fault
<1>2. OneRowPerTx'
  BY <1>1 DEF KnownInv, OneRowPerTx
<1>3. CASE Crash
  <2>1. \A c \in Callers : calls'[c].at = "idle"
    BY <1>3 DEF Crash, NoCall
  <2>2. LosersLost' /\ \A p : Knows(p)'
    BY <2>1 DEF LosersLost, Knows, Signs, Running, At
  <2> QED BY <1>2, <2>2 DEF KnownInv
<1>4. ASSUME NEW c \in Callers, IgnoredFailure(c) \/ ReportedFailure(c) PROVE KnownInv'
  <2>1. PICK x : \/ calls' = [calls EXCEPT ![c] = x]
                 \/ calls' = [calls EXCEPT ![c].at = x]
    BY <1>4 DEF IgnoredFailure, ReportedFailure, GoTo, Return
  <2>2. Others(c)
    BY <2>1, StepIsOfOne
  <2>3. /\ calls'[c].at # "idle" => calls'[c].ev = calls[c].ev
        /\ calls'[c].at # "deleteConflict" /\ Running(c)
    BY <1>4 DEF IgnoredFailure, ReportedFailure, GoTo, Return, NoCall, TypeOK, At, Running
  <2>4. LosersLost'
    BY <2>2, <2>3 DEF KnownInv, LosersLost, At, Others
  <2>5. ASSUME NEW p \in Pubkeys \ raced' PROVE Knows(p)'
    <3>1. Knows(p)
      BY <1>1, <2>5 DEF KnownInv
    <3>2. ~Signs(c, p)
      BY <1>4, <2>5 DEF IgnoredFailure, ReportedFailure, Fault, Signs, Scope
    <3>3. ~Signs(c, p)'
      BY <2>3, <3>2 DEF Signs, Running
    <3> QED BY <1>1, <2>2, <3>1, <3>2, <3>3, KnowsKept
  <2> QED BY <1>2, <2>4, <2>5 DEF KnownInv
<1> QED BY <1>3, <1>4

\* A call that neither overlaps nor fails on its pubkey displaces no anchor of that pubkey
\* that its own does not displace by the code's rules.
THEOREM LatestWins == Spec => SerialLatestWins
<1> USE AnchorsAssumption, NoAnchorAssumption
<1>1. Init => KnownInv
  BY DEF Init, KnownInv, OneRowPerTx, LosersLost, Knows, Signs, Running, NoCall, At
<1>2. TypeOK /\ KnownInv /\ [Next]_vars => KnownInv'
  <2> SUFFICES ASSUME TypeOK, KnownInv, [Next]_vars PROVE KnownInv'
    OBVIOUS
  <2>1. CASE UNCHANGED vars
    BY <2>1 DEF vars, KnownInv, OneRowPerTx, LosersLost, Knows, Signs, Running, Compared, At, Conflicts
  <2>2. CASE Next
    BY <2>2, StatementKnows, BeginKnows, FaultKnows
    DEF Next, StoreForTransaction, StoreLocalEvent
  <2> QED BY <2>1, <2>2
<1>3. TypeOK /\ KnownInv /\ [Next]_vars =>
          [\A r \in anchors \ anchors', c \in Callers :
              calls'[c] # calls[c] /\ r.pk = calls[c].ev.pk /\ r.pk \notin raced
                  => ~Beats(r, calls[c].ev)]_vars
  <2> SUFFICES ASSUME TypeOK, KnownInv, Next,
                      NEW r \in anchors \ anchors', NEW c \in Callers,
                      calls'[c] # calls[c], r.pk = calls[c].ev.pk, r.pk \notin raced
               PROVE  ~Beats(r, calls[c].ev)
    OBVIOUS
  <2>1. PICK k \in Callers : DeleteConflict(k) \/ Insert(k)
    BY DEF Next, StoreForTransaction, StoreLocalEvent, Begin, Crash, Statement,
           SelectExisting, SelectConflict, Mark, IgnoredFailure, ReportedFailure
  <2>2. k = c
    BY <2>1 DEF DeleteConflict, Insert, GoTo, TypeOK
  <2>3. CASE DeleteConflict(c)
    <3>1. At(c, "deleteConflict") /\ r = calls[c].loser
      BY <2>3 DEF DeleteConflict
    <3> QED BY <3>1 DEF KnownInv, LosersLost, Beats
  <2>4. CASE Insert(c)
    <3>1. At(c, "insert") /\ r.tx = calls[c].ev.tx /\ r \in Anchors /\ calls[c].ev \in Anchors
      BY <2>4 DEF Insert, TypeOK, Running, At
    <3>2. Knows(r.pk) /\ Signs(c, r.pk) /\ Compared(c)
      BY <3>1 DEF KnownInv, Signs, Running, At, Compared
    <3>3. CASE r.d = calls[c].ev.d
      <4>1. r.updated <= calls[c].ev.updated
        BY <3>1, <3>2, <3>3 DEF Knows
      <4> QED BY <3>1, <3>3, <4>1 DEF Beats
    <3>4. CASE r.d # calls[c].ev.d
      BY <3>1, <3>2, <3>4 DEF Knows, Conflicts
    <3> QED BY <3>3, <3>4
  <2> QED BY <2>1, <2>2, <2>3, <2>4
<1> QED BY <1>1, <1>2, <1>3, TypeCorrect, PTL DEF Spec, SerialLatestWins

-----------------------------------------------------------------------------

\* The steps of StoreAnchorEvent, interleaved with those of any other calls and cut off
\* anywhere, map to Publish or a stutter: also the DELETE of the conflict, which another
\* call's INSERT OR REPLACE may precede, takes no transaction's last claim away.
THEOREM Refinement == Spec => ImplementsVersionSet
<1> USE AnchorsAssumption, NoAnchorAssumption DEF Inserting, At
<1> DEFINE store == anchors \union Inserting \union cutOff
<1>1. Init => Versions!Init
  BY DEF Init, NoCall, Versions!Init
<1>2. TypeOK /\ MarkInv /\ [Next]_vars => [Versions!Next]_store
  <2> SUFFICES ASSUME TypeOK, MarkInv, [Next]_vars
               PROVE  Versions!Next \/ store' = store
    OBVIOUS
  <2> USE DEF TypeOK
  <2>1. CASE UNCHANGED vars
    BY <2>1 DEF vars
  <2>2. CASE Crash
    <3>1. Inserting' = {} /\ cutOff' = cutOff \union Inserting /\ anchors' = anchors
      BY <2>2 DEF Crash, NoCall, Running
    <3> QED BY <3>1
  <2>3. ASSUME NEW c \in Callers, NEW e \in Anchors, Begin(c, e) PROVE store' = store
    BY <2>3 DEF Begin, Running
  \* A call comes to its insert, and the row it has deleted, if any, is of its transaction.
  <2>4. ASSUME NEW c \in Callers,
               calls' = [calls EXCEPT ![c].at = "insert"], calls[c].at # "insert",
               NEW old \in SUBSET anchors, \A r \in old : r.tx = calls[c].ev.tx,
               calls[c].ev \in Anchors, anchors' = anchors \ old, cutOff' = cutOff
        PROVE  Versions!Next
    <3> DEFINE new == calls[c].ev
               gone == old \ (Inserting \union cutOff \union {new})
    <3>1. Inserting' = Inserting \union {new}
      BY <2>4
    <3>2. gone \in SUBSET {f \in store : SameTransaction(new, f)}
      BY <2>4 DEF SameTransaction
    <3>3. store' = (store \ gone) \union {new}
      BY <2>4, <3>1
    <3>4. PICK e \in Anchors : e = new
      BY <2>4
    <3>5. Versions!Publish(e)
      BY <3>2, <3>3, <3>4 DEF Versions!Publish
    <3> QED BY <3>5 DEF Versions!Next
  <2>5. ASSUME NEW c \in Callers, SelectExisting(c) PROVE store' = store
    BY <2>5 DEF SelectExisting, GoTo, Return, NoCall
  <2>6. ASSUME NEW c \in Callers, SelectConflict(c) PROVE Versions!Next \/ store' = store
    <3>1. CASE GoTo(c, "insert")
      <4>1. /\ calls' = [calls EXCEPT ![c].at = "insert"] /\ calls[c].at # "insert"
            /\ calls[c].ev \in Anchors /\ anchors' = anchors \ {} /\ cutOff' = cutOff
        BY <2>6, <3>1 DEF SelectConflict, GoTo, Running
      <4>2. {} \in SUBSET anchors /\ \A r \in {} : r.tx = calls[c].ev.tx
        OBVIOUS
      <4> QED BY <4>1, <4>2, <2>4
    <3>2. CASE Return(c)
      BY <2>6, <3>2 DEF SelectConflict, Return, NoCall
    <3>3. ASSUME NEW r, calls' = [calls EXCEPT ![c] =
                            [at |-> "deleteConflict", ev |-> calls[c].ev, loser |-> r]]
          PROVE  store' = store
      BY <2>6, <3>3 DEF SelectConflict
    <3> QED BY <2>6, <3>1, <3>2, <3>3 DEF SelectConflict
  <2>7. ASSUME NEW c \in Callers, DeleteConflict(c) PROVE Versions!Next
    <3> DEFINE old == {calls[c].loser} \intersect anchors
    <3>1. /\ calls' = [calls EXCEPT ![c].at = "insert"] /\ calls[c].at # "insert"
          /\ calls[c].ev \in Anchors /\ cutOff' = cutOff
          /\ anchors' = anchors \ old
      BY <2>7 DEF DeleteConflict, GoTo, Running
    <3>2. \A r \in old : r.tx = calls[c].ev.tx
      BY <2>7 DEF DeleteConflict, MarkInv
    <3>3. old \in SUBSET anchors
      OBVIOUS
    <3> HIDE DEF old
    <3> QED BY <3>1, <3>2, <3>3, <2>4
  <2>8. ASSUME NEW c \in Callers, Insert(c) PROVE Versions!Next
    <3> DEFINE new == calls[c].ev
               gone == {r \in anchors : r.tx = new.tx} \ (Inserting' \union cutOff \union {new})
    <3>1. /\ calls[c].at = "insert" /\ calls' = [calls EXCEPT ![c].at = "mark"]
          /\ anchors' = {r \in anchors : r.tx # new.tx} \union {new} /\ cutOff' = cutOff
          /\ new \in Anchors
      BY <2>8 DEF Insert, GoTo, Running
    <3>2. /\ Inserting' \subseteq Inserting /\ Inserting \subseteq Inserting' \union {new}
          /\ new \in Inserting
      BY <3>1
    <3>3. gone \in SUBSET {f \in store : SameTransaction(new, f)}
      BY DEF SameTransaction
    <3> HIDE DEF Inserting
    <3>4. store' = (store \ gone) \union {new}
      BY <3>1, <3>2
    <3>5. PICK e \in Anchors : e = new
      BY <3>1
    <3>6. Versions!Publish(e)
      BY <3>3, <3>4, <3>5 DEF Versions!Publish
    <3> QED BY <3>6 DEF Versions!Next
  <2>9. ASSUME NEW c \in Callers, Mark(c) PROVE store' = store
    BY <2>9 DEF Mark, Return, NoCall
  <2>10. ASSUME NEW c \in Callers, IgnoredFailure(c) PROVE Versions!Next \/ store' = store
    <3>1. CASE GoTo(c, "insert")
      <4>1. /\ calls' = [calls EXCEPT ![c].at = "insert"] /\ calls[c].at # "insert"
            /\ calls[c].ev \in Anchors /\ anchors' = anchors \ {} /\ cutOff' = cutOff
        BY <2>10, <3>1 DEF IgnoredFailure, GoTo, Running
      <4>2. {} \in SUBSET anchors /\ \A r \in {} : r.tx = calls[c].ev.tx
        OBVIOUS
      <4> QED BY <4>1, <4>2, <2>4
    <3>2. CASE At(c, "selectExisting") /\ GoTo(c, "selectConflict")
      BY <2>10, <3>2 DEF IgnoredFailure, GoTo
    <3> QED BY <2>10, <3>1, <3>2 DEF IgnoredFailure
  <2>11. ASSUME NEW c \in Callers, ReportedFailure(c) PROVE store' = store
    <3>1. CASE At(c, "insert")
      <4>1. /\ calls' = [calls EXCEPT ![c] = NoCall] /\ anchors' = anchors
            /\ cutOff' = cutOff \union {calls[c].ev} /\ calls[c].at = "insert"
        BY <2>11, <3>1 DEF ReportedFailure, Return
      <4>2. /\ Inserting' \subseteq Inserting
            /\ Inserting \subseteq Inserting' \union {calls[c].ev} /\ calls[c].ev \in Inserting
        BY <4>1 DEF NoCall
      <4> HIDE DEF Inserting
      <4> QED BY <4>1, <4>2
    <3>2. CASE At(c, "mark")
      BY <2>11, <3>2 DEF ReportedFailure, Return, NoCall
    <3> QED BY <2>11, <3>1, <3>2 DEF ReportedFailure
  <2> QED
    BY <2>1, <2>2, <2>3, <2>5, <2>6, <2>7, <2>8, <2>9, <2>10, <2>11
    DEF Next, Statement, StoreForTransaction, StoreLocalEvent
<1> QED BY <1>1, <1>2, TypeCorrect, MarkInvariant, PTL DEF Spec, ImplementsVersionSet, Versions!Spec
============================================================================
