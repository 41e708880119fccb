---------------------------- MODULE EventsProofs ----------------------------
(***************************************************************************)
(* Proofs about events as they are stored (AddressableStore, for any       *)
(* callers, events and number of faults) and as requests read them         *)
(* (Resolution, for any anchors, names, requests and number of changes),   *)
(* and about the texts of a DNN ID (Notation, for any list of letters and  *)
(* of words): the ID of every block and position is read back as that      *)
(* block and position, and a request with a text of it finds it.           *)
(***************************************************************************)
EXTENDS AddressableStore, Resolution, SequenceTheorems, FiniteSetTheorems,
        WellFoundedInduction, TLAPS

\* A call that looks for versions to replace has an event with a d tag.
ReplacesTagged ==
    \A c \in Callers :
        At(c, "selectNewer") \/ At(c, "deleteOlder") => calls[c].ev.d # NoDTag

\* What a call on an address that no other call touches knows of its rows.
LoneCall ==
    \A c \in Callers :
        Running(c) /\ Address(calls[c].ev) \notin raced =>
            /\ \A o \in Callers :
                   Running(o) /\ SameAddress(calls[o].ev, calls[c].ev) => o = c
            /\ At(c, "deleteOlder") =>
                   \A r \in rows : SameAddress(r, calls[c].ev) => r.ts <= calls[c].ev.ts
            /\ At(c, "insert") /\ calls[c].ev.d # NoDTag =>
                   \A r \in rows : SameAddress(r, calls[c].ev) => r.ts = calls[c].ev.ts

-----------------------------------------------------------------------------

\* The variables keep their types.
THEOREM TypeCorrect == Spec => []TypeOK
<1> USE EventsAssumption, NoEventAssumption, FaultsAssumption
<1>1. Init => TypeOK
  BY DEF Init, TypeOK, NoCall, Running, Statements
<1>2. TypeOK /\ [Next]_vars => TypeOK'
  <2> SUFFICES ASSUME TypeOK, [Next]_vars PROVE TypeOK'
    OBVIOUS
  <2> USE DEF TypeOK
  <2>1. CASE UNCHANGED vars
    BY <2>1 DEF vars, Running
  <2>2. CASE Crash
    BY <2>2 DEF Crash, Fault, NoCall, Running, At, Statements
  <2>3. ASSUME NEW c \in Callers, NEW e \in Events, Begin(c, e) PROVE TypeOK'
    BY <2>3 DEF Begin, Running, Statements
  <2>4. ASSUME NEW c \in Callers, SelectById(c) PROVE TypeOK'
    BY <2>4 DEF SelectById, At, Running, GoTo, Return, NoCall, AfterIdCheck, Statements
  <2>5. ASSUME NEW c \in Callers, SelectNewer(c) PROVE TypeOK'
    BY <2>5 DEF SelectNewer, At, Running, GoTo, Return, NoCall, Statements
  <2>6. ASSUME NEW c \in Callers, DeleteOlder(c) PROVE TypeOK'
    BY <2>6 DEF DeleteOlder, OlderRows, At, Running, GoTo, Statements
  <2>7. ASSUME NEW c \in Callers, Insert(c) PROVE TypeOK'
    BY <2>7 DEF Insert, At, Running, Return, NoCall, Statements
  <2>8. ASSUME NEW c \in Callers, FaultyStep(c) PROVE TypeOK'
    <3>1. CASE SelectFails(c)
      BY <3>1 DEF SelectFails, Fault, At, Running, GoTo, AfterIdCheck, Statements
    <3>2. CASE DeleteFails(c)
      BY <3>2 DEF DeleteFails, Fault, At, Running, GoTo, Statements
    <3>3. CASE InsertFails(c)
      BY <3>3 DEF InsertFails, Fault, At, Running, Return, NoCall, Statements
    <3> QED BY <2>8, <3>1, <3>2, <3>3 DEF FaultyStep
  <2> QED
    BY <2>1, <2>2, <2>3, <2>4, <2>5, <2>6, <2>7, <2>8
    DEF Next, Call, StoreNameEvent, StoreConnectionEvent, StoreMetadataEvent
<1> QED BY <1>1, <1>2, PTL DEF Spec

\* Only an event with a d tag reaches the statements that replace versions.
LEMMA TaggedReplacement == Spec => []ReplacesTagged
<1> USE NoEventAssumption DEF ReplacesTagged, At
<1>1. Init => ReplacesTagged
  BY DEF Init, NoCall
<1>2. TypeOK /\ ReplacesTagged /\ [Next]_vars => ReplacesTagged'
  <2> SUFFICES ASSUME TypeOK, ReplacesTagged, [Next]_vars PROVE ReplacesTagged'
    OBVIOUS
  <2> USE DEF TypeOK
  <2>1. CASE UNCHANGED vars
    BY <2>1 DEF vars
  <2>2. CASE Crash
    BY <2>2 DEF Crash, NoCall
  <2>3. ASSUME NEW c \in Callers, NEW e \in Events, Begin(c, e) PROVE ReplacesTagged'
    BY <2>3 DEF Begin
  <2>4. ASSUME NEW c \in Callers,
               SelectById(c) \/ SelectNewer(c) \/ DeleteOlder(c) \/ Insert(c)
        PROVE  ReplacesTagged'
    BY <2>4
    DEF SelectById, SelectNewer, DeleteOlder, Insert, GoTo, Return, NoCall, AfterIdCheck
  <2>5. ASSUME NEW c \in Callers, FaultyStep(c) PROVE ReplacesTagged'
    BY <2>5
    DEF FaultyStep, SelectFails, DeleteFails, InsertFails, GoTo, Return, NoCall,
        AfterIdCheck
  <2> QED
    BY <2>1, <2>2, <2>3, <2>4, <2>5
    DEF Next, Call, StoreNameEvent, StoreConnectionEvent, StoreMetadataEvent
<1> QED BY <1>1, <1>2, TypeCorrect, PTL DEF Spec

-----------------------------------------------------------------------------

\* No interleaving of calls loses the newest version of an address: what was
\* acknowledged is stored, superseded, about to be superseded, or was cut off by
\* a fault.
THEOREM NewestIsSafe == Spec => []NewestSurvives
<1> USE EventsAssumption, NoEventAssumption DEF SameAddress, Address
<1>1. Init => NewestSurvives
  BY DEF Init, NewestSurvives
<1>2. TypeOK /\ ReplacesTagged /\ NewestSurvives /\ [Next]_vars => NewestSurvives'
  <2> SUFFICES ASSUME TypeOK, ReplacesTagged, NewestSurvives, [Next]_vars
               PROVE  NewestSurvives'
    OBVIOUS
  <2> USE DEF TypeOK, NewestSurvives, At
  <2>1. CASE UNCHANGED vars
    BY <2>1 DEF vars
  <2>2. CASE Crash
    BY <2>2 DEF Crash, Running, NoCall
  <2>3. ASSUME NEW c \in Callers, NEW e \in Events, Begin(c, e) PROVE NewestSurvives'
    BY <2>3 DEF Begin, Running
  <2>4. ASSUME NEW c \in Callers, SelectById(c) PROVE NewestSurvives'
    BY <2>4 DEF SelectById, GoTo, Return, NoCall
  <2>5. ASSUME NEW c \in Callers, SelectNewer(c) PROVE NewestSurvives'
    BY <2>5 DEF SelectNewer, NewerRows, GoTo, Return, NoCall, ReplacesTagged
  <2>6. ASSUME NEW c \in Callers, DeleteOlder(c) PROVE NewestSurvives'
    <3> SUFFICES ASSUME NEW e \in acked, e \notin rows' 
                 PROVE  /\ e.d # NoDTag
                        /\ \/ \E r \in rows' : SameAddress(r, e) /\ r.ts > e.ts
                           \/ \E k \in Callers :
                                 /\ calls'[k].at = "insert"
                                 /\ SameAddress(calls'[k].ev, e)
                                 /\ calls'[k].ev.ts > e.ts
                           \/ \E x \in cutOff : SameAddress(x, e) /\ x.ts > e.ts
      BY <2>6 DEF DeleteOlder
    <3> DEFINE new == calls[c].ev
    <3>1. /\ new \in Events /\ new.d # NoDTag /\ e \in Events
          /\ calls'[c].at = "insert" /\ calls'[c].ev = new
          /\ rows' = rows \ OlderRows(new) /\ acked' = acked /\ cutOff' = cutOff
      BY <2>6 DEF DeleteOlder, GoTo, ReplacesTagged, Running
    <3>2. \A k \in Callers : calls[k].at = "insert" => calls'[k] = calls[k]
      BY <2>6 DEF DeleteOlder, GoTo
    <3>3. \A r \in rows \ rows' : SameAddress(r, new) /\ r.ts < new.ts
      BY <3>1 DEF OlderRows
    <3>4. CASE e \in rows
      BY <3>1, <3>3, <3>4
    <3>5. CASE \E r \in rows : SameAddress(r, e) /\ r.ts > e.ts /\ e.d # NoDTag
      <4>1. PICK r \in rows : SameAddress(r, e) /\ r.ts > e.ts /\ e.d # NoDTag
        BY <3>5
      <4>2. CASE r \in rows'
        BY <4>1, <4>2
      <4>3. CASE r \notin rows'
        <5>1. r \in Events /\ e.ts \in Nat /\ r.ts \in Nat /\ new.ts \in Nat
          BY <3>1
        <5>2. SameAddress(new, e) /\ new.ts > e.ts
          BY <3>3, <4>1, <4>3, <5>1
        <5> QED BY <3>1, <4>1, <5>2
      <4> QED BY <4>2, <4>3
    <3> QED BY <3>1, <3>2, <3>4, <3>5
  <2>7. ASSUME NEW c \in Callers, Insert(c) PROVE NewestSurvives'
    BY <2>7 DEF Insert, Return, NoCall
  <2>8. ASSUME NEW c \in Callers, FaultyStep(c) PROVE NewestSurvives'
    <3>1. CASE SelectFails(c)
      BY <3>1 DEF SelectFails, GoTo
    <3>2. CASE DeleteFails(c)
      BY <3>2 DEF DeleteFails, GoTo
    <3>3. CASE InsertFails(c)
      BY <3>3 DEF InsertFails, Return, NoCall
    <3> QED BY <2>8, <3>1, <3>2, <3>3 DEF FaultyStep
  <2> QED
    BY <2>1, <2>2, <2>3, <2>4, <2>5, <2>6, <2>7, <2>8
    DEF Next, Call, StoreNameEvent, StoreConnectionEvent, StoreMetadataEvent
<1> QED BY <1>1, <1>2, TypeCorrect, TaggedReplacement, PTL DEF Spec

-----------------------------------------------------------------------------

\* The interleaved statements implement VersionSet: only DeleteOlder, and the id
\* check of an event without a d tag, change what VersionSet sees.
THEOREM Refinement == Spec => ImplementsVersionSet
<1> USE EventsAssumption, NoEventAssumption DEF Inserting, At
<1> DEFINE store == rows \union Inserting \union cutOff
<1>1. Init => Versions!Init
  BY DEF Init, NoCall, Versions!Init
<1>2. TypeOK /\ ReplacesTagged /\ [Next]_vars => [Versions!Next]_store
  <2> SUFFICES ASSUME TypeOK, ReplacesTagged, [Next]_vars
               PROVE  Versions!Next \/ store' = store
    OBVIOUS
  <2> USE DEF TypeOK
  <2>1. CASE UNCHANGED vars
    BY <2>1 DEF vars
  <2>2. CASE Crash
    <3>1. Inserting' = {} /\ cutOff' = cutOff \union Inserting /\ rows' = rows
      BY <2>2 DEF Crash, NoCall, Running
    <3> QED BY <3>1
  <2>3. ASSUME NEW c \in Callers, NEW e \in Events, Begin(c, e) PROVE store' = store
    BY <2>3 DEF Begin, Running
  <2>4. ASSUME NEW c \in Callers,
               calls' = [calls EXCEPT ![c].at = "insert"], calls[c].at # "insert",
               NEW old \in SUBSET OlderRows(calls[c].ev),
               old # {} => calls[c].ev.d # NoDTag,
               calls[c].ev \in Events, rows' = rows \ old, cutOff' = cutOff
        PROVE  Versions!Next \/ store' = store
    <3> DEFINE new == calls[c].ev
               gone == old \ (Inserting \union cutOff)
    <3>1. Inserting' = Inserting \union {new}
      BY <2>4
    <3>2. gone \in SUBSET {f \in store : Supersedes(new, f)}
      BY <2>4 DEF OlderRows, Supersedes, SameAddress, Address
    <3>3. new \notin gone
      BY <2>4 DEF OlderRows
    <3>4. store' = (store \ gone) \union {new}
      BY <2>4, <3>1, <3>3
    <3>5. PICK e \in Events : e = new
      BY <2>4
    <3>6. Versions!Publish(e)
      BY <3>2, <3>4, <3>5 DEF Versions!Publish
    <3> QED BY <3>6 DEF Versions!Next
  <2>5. ASSUME NEW c \in Callers, SelectById(c) PROVE Versions!Next \/ store' = store
    <3>1. CASE calls'[c].at = "insert"
      <4>1. /\ calls' = [calls EXCEPT ![c].at = "insert"] /\ calls[c].at # "insert"
            /\ calls[c].ev \in Events /\ rows' = rows \ {} /\ cutOff' = cutOff
        BY <2>5, <3>1 DEF SelectById, GoTo, Return, NoCall, AfterIdCheck, Running
      <4> QED BY <4>1, <2>4
    <3>2. CASE calls'[c].at # "insert"
      BY <2>5, <3>2 DEF SelectById, GoTo, Return, NoCall, AfterIdCheck
    <3> QED BY <3>1, <3>2
  <2>6. ASSUME NEW c \in Callers, SelectNewer(c) PROVE store' = store
    BY <2>6 DEF SelectNewer, GoTo, Return, NoCall
  <2>7. ASSUME NEW c \in Callers, DeleteOlder(c) PROVE Versions!Next \/ store' = store
    <3>1. /\ calls' = [calls EXCEPT ![c].at = "insert"] /\ calls[c].at # "insert"
          /\ calls[c].ev \in Events /\ calls[c].ev.d # NoDTag
          /\ rows' = rows \ OlderRows(calls[c].ev) /\ cutOff' = cutOff
      BY <2>7 DEF DeleteOlder, GoTo, ReplacesTagged, Running
    <3> QED BY <3>1, <2>4
  <2>8. ASSUME NEW c \in Callers, Insert(c) PROVE store' = store
    <3>1. /\ calls[c].at = "insert" /\ calls' = [calls EXCEPT ![c] = NoCall]
          /\ rows' = rows \union {calls[c].ev} /\ cutOff' = cutOff
      BY <2>8 DEF Insert, Return
    <3>2. /\ Inserting' \subseteq Inserting
          /\ Inserting \subseteq Inserting' \union {calls[c].ev}
          /\ calls[c].ev \in Inserting
      BY <3>1 DEF NoCall
    <3> QED BY <3>1, <3>2
  <2>9. ASSUME NEW c \in Callers, FaultyStep(c) PROVE Versions!Next \/ store' = store
    <3>1. CASE SelectFails(c)
      <4>1. CASE calls'[c].at = "insert"
        <5>1. /\ calls' = [calls EXCEPT ![c].at = "insert"] /\ calls[c].at # "insert"
              /\ calls[c].ev \in Events /\ rows' = rows \ {} /\ cutOff' = cutOff
          BY <3>1, <4>1 DEF SelectFails, GoTo, AfterIdCheck, Running
        <5> QED BY <5>1, <2>4
      <4>2. CASE calls'[c].at # "insert"
        BY <3>1, <4>2 DEF SelectFails, GoTo, AfterIdCheck
      <4> QED BY <4>1, <4>2
    <3>2. CASE DeleteFails(c)
      <4>1. /\ calls' = [calls EXCEPT ![c].at = "insert"] /\ calls[c].at # "insert"
            /\ calls[c].ev \in Events /\ rows' = rows \ {} /\ cutOff' = cutOff
        BY <3>2 DEF DeleteFails, GoTo, Running
      <4> QED BY <4>1, <2>4
    <3>3. CASE InsertFails(c)
      <4>1. /\ calls[c].at = "insert" /\ calls' = [calls EXCEPT ![c] = NoCall]
            /\ rows' = rows /\ cutOff' = cutOff \union {calls[c].ev}
        BY <3>3 DEF InsertFails, Return
      <4>2. /\ Inserting' \subseteq Inserting
            /\ Inserting \subseteq Inserting' \union {calls[c].ev}
            /\ calls[c].ev \in Inserting
        BY <4>1 DEF NoCall
      <4> QED BY <4>1, <4>2
    <3> QED BY <2>9, <3>1, <3>2, <3>3 DEF FaultyStep
  <2> QED
    BY <2>1, <2>2, <2>3, <2>5, <2>6, <2>7, <2>8, <2>9
    DEF Next, Call, StoreNameEvent, StoreConnectionEvent, StoreMetadataEvent
<1> QED
  BY <1>1, <1>2, TypeCorrect, TaggedReplacement, PTL
  DEF Spec, ImplementsVersionSet, Versions!Spec

-----------------------------------------------------------------------------

\* While the calls on an address do not overlap and do not fail, an older version
\* never stays beside a newer one.  SerialCallsReplace is not inductive alone: the
\* DELETE is right because of what the SELECT before it saw (LoneCall).
THEOREM SerialReplacement == Spec => []SerialCallsReplace
<1> DEFINE SerialInv == LoneCall /\ SerialCallsReplace
<1> USE EventsAssumption, NoEventAssumption DEF SameAddress
<1>1. Init => SerialInv
  BY DEF Init, LoneCall, SerialCallsReplace, NoCall, Running
<1>2. TypeOK /\ ReplacesTagged /\ SerialInv /\ [Next]_vars => SerialInv'
  <2> SUFFICES ASSUME TypeOK, ReplacesTagged, LoneCall, SerialCallsReplace, [Next]_vars
               PROVE  SerialInv'
    OBVIOUS
  <2> USE DEF TypeOK, LoneCall, SerialCallsReplace, At, Running
  <2>1. CASE UNCHANGED vars
    BY <2>1 DEF vars
  <2>2. CASE Crash
    BY <2>2 DEF Crash, Fault, NoCall
  <2>3. ASSUME NEW c \in Callers, NEW e \in Events, Begin(c, e) PROVE SerialInv'
    <3>1. SerialCallsReplace'
      BY <2>3 DEF Begin
    <3>2. LoneCall'
      <4> SUFFICES ASSUME NEW k \in Callers, calls'[k].at # "idle",
                          Address(calls'[k].ev) \notin raced'
                   PROVE  /\ \A o \in Callers :
                                calls'[o].at # "idle"
                                /\ Address(calls'[o].ev) = Address(calls'[k].ev) => o = k
                          /\ calls'[k].at \in {"deleteOlder", "insert"} =>
                                calls'[k] = calls[k] /\ Address(calls[k].ev) \notin raced
        BY <2>3 DEF Begin
      <4>1. raced \subseteq raced' /\ rows' = rows
        BY <2>3 DEF Begin
      <4>2. calls' = [calls EXCEPT ![c] = [at |-> "selectById", ev |-> e]]
        BY <2>3 DEF Begin
      <4>3. CASE \E o \in Callers : Running(o) /\ SameAddress(calls[o].ev, e)
        <5>1. Address(e) \in raced'
          BY <2>3, <4>3 DEF Begin
        <5> QED BY <4>1, <4>2, <5>1
      <4>4. CASE ~\E o \in Callers : Running(o) /\ SameAddress(calls[o].ev, e)
        BY <4>1, <4>2, <4>4
      <4> QED BY <4>3, <4>4
    <3> QED BY <3>1, <3>2
  <2>4. ASSUME NEW c \in Callers, SelectById(c) PROVE SerialInv'
    BY <2>4 DEF SelectById, GoTo, Return, NoCall, AfterIdCheck
  <2>5. ASSUME NEW c \in Callers, SelectNewer(c) PROVE SerialInv'
    <3> DEFINE e == calls[c].ev
    <3>1. /\ e \in Events /\ calls[c].at = "selectNewer"
          /\ rows' = rows /\ raced' = raced
      BY <2>5 DEF SelectNewer
    <3>2. CASE NewerRows(e) # {}
      BY <2>5, <3>1, <3>2 DEF SelectNewer, Return, NoCall
    <3>3. CASE NewerRows(e) = {}
      <4>1. \A r \in rows : SameAddress(r, e) => r.ts <= e.ts
        BY <3>1, <3>3 DEF NewerRows
      <4>2. calls' = [calls EXCEPT ![c].at = "deleteOlder"]
        BY <2>5, <3>3 DEF SelectNewer, GoTo
      <4> QED BY <3>1, <4>1, <4>2
    <3> QED BY <3>2, <3>3
  <2>6. ASSUME NEW c \in Callers, DeleteOlder(c) PROVE SerialInv'
    <3> DEFINE e == calls[c].ev
    <3>1. /\ e \in Events /\ calls[c].at = "deleteOlder" /\ raced' = raced
          /\ rows' = rows \ OlderRows(e)
          /\ calls' = [calls EXCEPT ![c].at = "insert"]
      BY <2>6 DEF DeleteOlder, GoTo
    <3>2. rows' \subseteq rows
      BY <3>1
    <3>3. ASSUME Address(e) \notin raced, NEW r \in rows', SameAddress(r, e)
          PROVE  r.ts = e.ts
      <4>1. r.ts \in Nat /\ e.ts \in Nat
        BY <3>1, <3>2
      <4>2. r.ts <= e.ts
        BY <3>1, <3>2, <3>3
      <4>3. ~(r.ts < e.ts)
        BY <3>1, <3>3 DEF OlderRows
      <4> QED BY <4>1, <4>2, <4>3
    <3>4. SerialCallsReplace'
      BY <3>1, <3>2
    <3>5. LoneCall'
      BY <3>1, <3>2, <3>3
    <3> QED BY <3>4, <3>5
  <2>7. ASSUME NEW c \in Callers, Insert(c) PROVE SerialInv'
    <3> DEFINE e == calls[c].ev
    <3>1. /\ e \in Events /\ rows' = rows \union {e} /\ raced' = raced
          /\ calls' = [calls EXCEPT ![c] = NoCall] /\ calls[c].at = "insert"
      BY <2>7 DEF Insert, Return
    <3>2. SerialCallsReplace'
      BY <3>1 DEF Address
    <3>3. LoneCall'
      BY <3>1 DEF NoCall
    <3> QED BY <3>2, <3>3
  <2>8. ASSUME NEW c \in Callers, FaultyStep(c) PROVE SerialInv'
    <3>1. CASE SelectFails(c)
      BY <3>1 DEF SelectFails, Fault, GoTo, AfterIdCheck
    <3>2. CASE DeleteFails(c)
      BY <3>2 DEF DeleteFails, Fault, GoTo
    <3>3. CASE InsertFails(c)
      BY <3>3 DEF InsertFails, Fault, Return, NoCall
    <3> QED BY <2>8, <3>1, <3>2, <3>3 DEF FaultyStep
  <2> QED
    BY <2>1, <2>2, <2>3, <2>4, <2>5, <2>6, <2>7, <2>8
    DEF Next, Call, StoreNameEvent, StoreConnectionEvent, StoreMetadataEvent
<1> QED BY <1>1, <1>2, TypeCorrect, TaggedReplacement, PTL DEF Spec

-----------------------------------------------------------------------------
(* Requests. *)

\* The variables of a request.
Fields == {"at", "asked", "query", "label", "left", "anchor", "name", "version", "data",
           "before", "open", "steady"}

Runs == request.at \in Places \ {"idle"}

BeforeConnection == {"idle", "match", "name", "connection", "tld", "label", "primary",
                     "primary name", "owner", "content"}

ResolutionTypes ==
    /\ ResolutionTypeOK
    /\ names \in [Authors -> Seq(Names)] /\ contents \in [Authors -> Seq(Contents)]
    /\ DOMAIN request = Fields /\ request.version \in Nat
    /\ request.at \in BeforeConnection => request.version = 0

\* An anchor that has had the name all along is one of those that are left; once the
\* handler has taken one, none that had the name all along comes before it.
SteadyInv ==
    /\ RequestAt("match") =>
        /\ request.query.name # <<>>
        /\ \A a \in request.steady : a \in request.left /\ HasName(a, request.query.name, names)
    /\ request.at \in {"tld", "label", "primary", "primary name", "owner", "content"} =>
        request.query.name = <<>>
    /\ request.at \in {"name", "connection", "marks", "delegation", "served", "verified"}
            /\ request.query.name # <<>> =>
        \A a \in request.steady : ~ Before(a, request.anchor)
    /\ RequestAt("blocked") /\ request.query.name # <<>> /\ request.anchor # Nothing =>
        \A a \in request.steady : ~ Before(a, request.anchor)
    /\ RequestAt("missing") /\ request.query.name # <<>> => request.steady = {}

\* Versions are only added, so the version read is no older than the request.
VersionsInv ==
    /\ Runs => \A a \in Authors : /\ request.before.contents[a] \in Nat
                                  /\ request.before.contents[a] <= Len(contents[a])
    /\ request.at \in {"marks", "delegation"} =>
        request.version >= request.before.contents[By]
    /\ ServedNotOlder

\* open has every mark that is off now; the handlers go on only past marks in open.
MarksInv ==
    /\ Runs => MarkKeys \ blocked \subseteq request.open
    /\ request.at \in {"match", "name", "connection", "marks", "delegation"} =>
        request.asked.protocol # "dns"
    /\ RequestAt("delegation") => <<ID(request.anchor), Whole>> \in request.open
    /\ request.at \in {"label", "primary", "primary name", "owner", "content"}
            /\ <<Target, Whole>> \in MarkKeys =>
        <<Target, Whole>> \in request.open
    /\ request.at \in {"primary", "primary name", "owner", "content"} /\ request.label \in Names
            /\ <<Target, request.label>> \in MarkKeys =>
        <<Target, request.label>> \in request.open
    /\ request.at \in {"primary name", "owner", "content"} => ID(request.anchor) = Target
    /\ BlockedNotServed

ResolutionInv == ResolutionTypes /\ SteadyInv /\ VersionsInv /\ MarksInv

\* What others write leaves what the request asks for and has read, and adds versions.
OthersWrite ==
    \/ \E a \in Authors : \/ \E n \in Names : StoreName(a, n)
                          \/ \E c \in Contents : StoreConnection(a, c)
    \/ \E a \in Anchors : StoreAnchor(a) \/ DeleteAnchor(a)
    \/ \E k \in MarkKeys, on \in BOOLEAN : SetMark(k, on)

LEMMA RequestOnlySees ==
  ASSUME ResolutionTypes, OthersWrite
  PROVE  /\ Runs
         /\ DOMAIN request' = Fields
         /\ request'.at = request.at /\ request'.asked = request.asked
         /\ request'.query = request.query /\ request'.label = request.label
         /\ request'.left = request.left /\ request'.anchor = request.anchor
         /\ request'.version = request.version /\ request'.data = request.data
         /\ request'.before = request.before
         /\ request'.open = request.open \union (MarkKeys \ blocked')
         /\ request'.steady = {a \in request.steady :
                                a \in anchors' /\ HasName(a, request.query.name, names')}
<1>1. Runs /\ Observe
  BY DEF OthersWrite, StoreName, StoreConnection, StoreAnchor, DeleteAnchor, SetMark, Change, Runs
<1> QED
  BY <1>1, SMT DEF Observe, ResolutionTypes, Fields

LEMMA OthersKeepTypes ==
  ASSUME ResolutionTypes, OthersWrite
  PROVE  /\ anchors' \subseteq Anchors /\ blocked' \subseteq MarkKeys
         /\ changes' \in 0..MaxChanges
         /\ names' \in [Authors -> Seq(Names)] /\ contents' \in [Authors -> Seq(Contents)]
         /\ \A a \in Authors : Len(contents'[a]) >= Len(contents[a])
<1> USE ResolutionAssumption DEF ResolutionTypes, ResolutionTypeOK
<1>1. changes' \in 0..MaxChanges
  BY DEF OthersWrite, StoreName, StoreConnection, StoreAnchor, DeleteAnchor, SetMark, Change
<1>2. ASSUME NEW a \in Authors, NEW n \in Names, StoreName(a, n)
      PROVE  /\ names' \in [Authors -> Seq(Names)]
             /\ UNCHANGED <<anchors, contents, blocked>>
  <2>1. Append(names[a], n) \in Seq(Names)
    OBVIOUS
  <2> QED
    BY <1>2, <2>1 DEF StoreName
<1>3. ASSUME NEW a \in Authors, NEW c \in Contents, StoreConnection(a, c)
      PROVE  /\ contents' \in [Authors -> Seq(Contents)]
             /\ \A b \in Authors : Len(contents'[b]) >= Len(contents[b])
             /\ UNCHANGED <<anchors, names, blocked>>
  <2>1. Append(contents[a], c) \in Seq(Contents) /\ Len(Append(contents[a], c)) = Len(contents[a]) + 1
    OBVIOUS
  <2>2. \A b \in Authors : Len(contents[b]) \in Nat
    OBVIOUS
  <2>3. \A b \in Authors : contents'[b] = IF b = a THEN Append(contents[a], c) ELSE contents[b]
    BY <1>3 DEF StoreConnection
  <2> QED
    BY <1>3, <2>1, <2>2, <2>3 DEF StoreConnection
<1>4. \A b \in Authors : Len(contents[b]) \in Nat
  OBVIOUS
<1>5. ASSUME NEW a \in Anchors, StoreAnchor(a) \/ DeleteAnchor(a)
      PROVE  anchors' \subseteq Anchors /\ UNCHANGED <<names, contents, blocked>>
  BY <1>5 DEF StoreAnchor, DeleteAnchor
<1>6. ASSUME NEW k \in MarkKeys, NEW on \in BOOLEAN, SetMark(k, on)
      PROVE  blocked' \subseteq MarkKeys /\ UNCHANGED <<anchors, names, contents>>
  BY <1>6 DEF SetMark
<1> HIDE DEF ResolutionTypes, ResolutionTypeOK
<1>7. anchors \subseteq Anchors /\ blocked \subseteq MarkKeys
      /\ names \in [Authors -> Seq(Names)] /\ contents \in [Authors -> Seq(Contents)]
  BY DEF ResolutionTypes, ResolutionTypeOK
<1> QED
  BY <1>1, <1>2, <1>3, <1>4, <1>5, <1>6, <1>7 DEF OthersWrite

LEMMA OthersKeepInv ==
  ASSUME ResolutionInv, OthersWrite PROVE ResolutionInv'
<1> USE DEF ResolutionInv
<1> DEFINE Same ==
      /\ Runs /\ request'.at = request.at /\ request'.asked = request.asked
      /\ request'.query = request.query /\ request'.label = request.label
      /\ request'.left = request.left /\ request'.anchor = request.anchor
      /\ request'.version = request.version /\ request'.data = request.data
      /\ request'.before = request.before
<1>1. Same /\ DOMAIN request' = Fields
  BY RequestOnlySees
<1>2. request'.open = request.open \union (MarkKeys \ blocked')
  BY RequestOnlySees
<1>3. request'.steady = {a \in request.steady :
                            a \in anchors' /\ HasName(a, request.query.name, names')}
  BY RequestOnlySees
<1>4. /\ anchors' \subseteq Anchors /\ blocked' \subseteq MarkKeys /\ changes' \in 0..MaxChanges
      /\ names' \in [Authors -> Seq(Names)] /\ contents' \in [Authors -> Seq(Contents)]
      /\ \A a \in Authors : Len(contents'[a]) >= Len(contents[a])
  BY OthersKeepTypes
<1>5. \A a \in Authors : Len(contents[a]) \in Nat /\ Len(contents'[a]) \in Nat
  BY <1>4 DEF ResolutionTypes
<1>6. \A a \in Anchors : a.by \in Authors
  BY ResolutionAssumption
<1>7. ResolutionTypes'
  <2>1. request.at \in WithAnchor =>
            request'.anchor \in Anchors /\ request'.version <= Len(contents'[request'.anchor.by])
    BY <1>1, <1>4, <1>5, <1>6 DEF ResolutionTypes, ResolutionTypeOK
  <2>2. request'.steady \subseteq Anchors
    BY <1>3 DEF ResolutionTypes, ResolutionTypeOK
  <2> QED
    BY <1>1, <1>4, <2>1, <2>2 DEF ResolutionTypes, ResolutionTypeOK
<1>8. SteadyInv'
  BY <1>1, <1>3 DEF SteadyInv, RequestAt, HasName, Latest, Before
<1>9. VersionsInv'
  <2>1. \A a \in Authors : /\ request'.before.contents[a] \in Nat
                           /\ request'.before.contents[a] <= Len(contents'[a])
    <3> SUFFICES ASSUME NEW a \in Authors
                 PROVE  /\ request'.before.contents[a] \in Nat
                        /\ request'.before.contents[a] <= Len(contents'[a])
      OBVIOUS
    <3>1. request.before.contents[a] \in Nat /\ request.before.contents[a] <= Len(contents[a])
      BY <1>1 DEF VersionsInv
    <3>2. Len(contents[a]) \in Nat /\ Len(contents'[a]) \in Nat
          /\ Len(contents'[a]) >= Len(contents[a])
      BY <1>4, <1>5
    <3>3. request'.before = request.before
      BY <1>1
    <3> QED
      BY <3>1, <3>2, <3>3
  <2> QED
    BY <1>1, <2>1 DEF VersionsInv, ServedNotOlder, RequestAt, By, Runs
<1>10. MarksInv'
  BY <1>1, <1>2 DEF MarksInv, BlockedNotServed, RequestAt, Target, ID, Runs
<1> QED
  BY <1>7, <1>8, <1>9, <1>10

LEMMA RequestsBegin == ResolutionInit => ResolutionInv
<1> SUFFICES ASSUME ResolutionInit PROVE ResolutionInv
  OBVIOUS
<1>1. PICK d \in Databases : anchors = d.anchors /\ blocked = d.blocked
                             /\ names = d.names /\ contents = d.contents
  BY DEF ResolutionInit
<1>2. /\ anchors \subseteq Anchors /\ blocked \subseteq MarkKeys
      /\ names \in [Authors -> Seq(Names)] /\ contents \in [Authors -> Seq(Contents)]
  BY <1>1, ResolutionAssumption
<1>3. /\ DOMAIN request = Fields /\ request.at = "idle" /\ request.left = {}
      /\ request.steady = {} /\ request.anchor = Nothing /\ request.version = 0
  BY DEF ResolutionInit, Idle, Fields
<1>4. changes \in 0..MaxChanges
  BY ResolutionAssumption DEF ResolutionInit
<1>5. ResolutionTypes
  BY <1>2, <1>3, <1>4 DEF ResolutionTypes, ResolutionTypeOK, Places, WithAnchor
<1> QED
  BY <1>3, <1>5 DEF ResolutionInv, SteadyInv, VersionsInv, MarksInv, Runs, RequestAt,
                    ServedNotOlder, BlockedNotServed

\* What a request has seen when it comes.
LEMMA CameFields ==
  ASSUME NEW asked, NEW query, NEW label
  PROVE  /\ DOMAIN Came(asked, query, label) = Fields
         /\ Came(asked, query, label).asked = asked
         /\ Came(asked, query, label).query = query
         /\ Came(asked, query, label).label = label
         /\ Came(asked, query, label).left = {}
         /\ Came(asked, query, label).anchor = Nothing
         /\ Came(asked, query, label).version = 0
         /\ Came(asked, query, label).before.contents = [a \in Authors |-> Len(contents[a])]
         /\ Came(asked, query, label).open = MarkKeys \ blocked
         /\ Came(asked, query, label).steady =
                {a \in Rows(query) : HasName(a, query.name, names)}
  BY DEF Came, Idle, Fields

\* What the conjuncts ask of a request that goes on from what was stored all along.
LEMMA SameStore ==
  ASSUME ResolutionTypes, UNCHANGED Store,
         DOMAIN request' = Fields, request'.at \in Places \union Outcomes,
         request'.left \subseteq Anchors, request'.steady \subseteq Anchors,
         request'.anchor \in Anchors \union {Nothing}, request'.version \in Nat,
         request'.at \in BeforeConnection => request'.version = 0,
         request'.at \in WithAnchor =>
            request'.anchor \in Anchors /\ request'.version <= Len(contents[request'.anchor.by])
  PROVE  ResolutionTypes'
BY DEF Store, ResolutionTypes, ResolutionTypeOK

LEMMA InvalidKeepsInv ==
  ASSUME ResolutionInv, NEW asked, Continue([Idle EXCEPT !.asked = asked, !.at = "invalid"])
  PROVE  ResolutionInv'
<1>1. /\ DOMAIN request' = Fields /\ request'.at = "invalid" /\ request'.left = {}
      /\ request'.steady = {} /\ request'.anchor = Nothing /\ request'.version = 0
      /\ UNCHANGED Store
  BY DEF Continue, Idle, Fields
<1>2. ResolutionTypes'
  BY <1>1, SameStore DEF ResolutionInv, Outcomes, WithAnchor, BeforeConnection
<1> QED
  BY <1>1, <1>2 DEF ResolutionInv, SteadyInv, VersionsInv, MarksInv, Runs, RequestAt, Places,
                    ServedNotOlder, BlockedNotServed

LEMMA EndKeepsInv ==
  ASSUME ResolutionInv, EndRequest PROVE ResolutionInv'
<1>1. /\ DOMAIN request' = Fields /\ request'.at = "idle" /\ request'.left = {}
      /\ request'.steady = {} /\ request'.anchor = Nothing /\ request'.version = 0
      /\ UNCHANGED Store
  BY DEF EndRequest, Continue, Idle, Fields
<1>2. ResolutionTypes'
  BY <1>1, SameStore DEF ResolutionInv, Places, WithAnchor
<1> QED
  BY <1>1, <1>2 DEF ResolutionInv, SteadyInv, VersionsInv, MarksInv, Runs, RequestAt, Places,
                    ServedNotOlder, BlockedNotServed

\* A request that came and looks for an anchor, or did not find one.
LEMMA CameKeepsInv ==
  ASSUME ResolutionInv, NEW asked, NEW query, NEW label, UNCHANGED Store,
         NEW place \in {"match", "missing", "name", "tld"},
         DOMAIN request' = Fields, request'.at = place, request'.asked = asked,
         request'.query = query, request'.label = label, request'.version = 0,
         request'.before.contents = [a \in Authors |-> Len(contents[a])],
         request'.open = MarkKeys \ blocked,
         request'.steady = {a \in Rows(query) : HasName(a, query.name, names)},
         request'.anchor \in Anchors \union {Nothing},
         place = "match" => /\ query.name # <<>> /\ request'.left = Rows(query)
                            /\ asked.protocol # "dns",
         place # "match" => query.name = <<>> /\ request'.left = {},
         place = "name" => request'.anchor \in Anchors /\ asked.protocol # "dns"
  PROVE  ResolutionInv'
<1> USE DEF ResolutionInv
<1>1. Rows(query) \subseteq Anchors
  BY DEF Rows, ResolutionTypes, ResolutionTypeOK
<1>2. \A a \in Authors : Len(contents[a]) \in Nat
  BY DEF ResolutionTypes
<1>3. \A a \in Anchors : a.by \in Authors
  BY ResolutionAssumption
<1>4. ResolutionTypes'
  <2>1. request'.at \in WithAnchor =>
            request'.anchor \in Anchors /\ request'.version <= Len(contents[request'.anchor.by])
    <3> SUFFICES ASSUME request'.at \in WithAnchor
                 PROVE  /\ request'.anchor \in Anchors
                        /\ request'.version <= Len(contents[request'.anchor.by])
      OBVIOUS
    <3>1. request'.anchor \in Anchors
      BY DEF WithAnchor
    <3>2. Len(contents[request'.anchor.by]) \in Nat
      BY <1>2, <1>3, <3>1
    <3> QED
      BY <3>1, <3>2
  <2>2. request'.at \in Places \union Outcomes
    BY DEF Places, Outcomes
  <2>3. request'.left \subseteq Anchors /\ request'.steady \subseteq Anchors
    BY <1>1
  <2> QED
    BY <2>1, <2>2, <2>3, SameStore
<1>5. SteadyInv'
  BY <1>1 DEF SteadyInv, RequestAt, HasName, Latest, Store
<1>6. VersionsInv'
  BY <1>2 DEF VersionsInv, ServedNotOlder, RequestAt, Runs, Store
<1>7. MarksInv'
  BY DEF MarksInv, BlockedNotServed, RequestAt, Runs, Store
<1> QED
  BY <1>4, <1>5, <1>6, <1>7

LEMMA ReceiveKeepsInv ==
  ASSUME ResolutionInv, NEW asked, Receive(asked) PROVE ResolutionInv'
<1> DEFINE split == IF asked.protocol = "resolve" THEN Split(asked.parts)
                    ELSE [label |-> <<>>, name |-> asked.parts]
           query == ParseDNNName(split.name)
           came == Came(asked, query, split.label)
<1>1. \/ Continue([Idle EXCEPT !.asked = asked, !.at = "invalid"])
      \/ query.name # <<>> /\ Continue([came EXCEPT !.at = "match", !.left = Rows(query)])
      \/ query.name = <<>> /\ Continue([came EXCEPT !.at = "missing"])
      \/ query.name = <<>> /\ \E a \in First(Rows(query)) :
            Continue([came EXCEPT !.at = "name", !.anchor = a])
  BY DEF Receive
<1>2. asked.protocol # "dns"
  BY DEF Receive
<1>3. First(Rows(query)) \subseteq Anchors
  BY DEF First, Rows, ResolutionInv, ResolutionTypes, ResolutionTypeOK
<1>4. /\ DOMAIN came = Fields /\ came.asked = asked /\ came.query = query
      /\ came.label = split.label /\ came.left = {} /\ came.anchor = Nothing /\ came.version = 0
      /\ came.before.contents = [a \in Authors |-> Len(contents[a])]
      /\ came.open = MarkKeys \ blocked
      /\ came.steady = {a \in Rows(query) : HasName(a, query.name, names)}
  BY CameFields
<1> HIDE DEF came, query, split
<1>5. CASE Continue([Idle EXCEPT !.asked = asked, !.at = "invalid"])
  BY <1>5, InvalidKeepsInv
<1>6. CASE query.name # <<>> /\ Continue([came EXCEPT !.at = "match", !.left = Rows(query)])
  <2>1. /\ UNCHANGED Store
        /\ DOMAIN request' = Fields /\ request'.at = "match" /\ request'.asked = asked
        /\ request'.query = query /\ request'.label = split.label /\ request'.version = 0
        /\ request'.before.contents = [a \in Authors |-> Len(contents[a])]
        /\ request'.open = MarkKeys \ blocked
        /\ request'.steady = {a \in Rows(query) : HasName(a, query.name, names)}
        /\ request'.anchor = Nothing /\ request'.left = Rows(query)
    BY <1>4, <1>6 DEF Continue, Fields
  <2> QED
    BY <1>2, <1>6, <2>1, CameKeepsInv
<1>7. CASE query.name = <<>> /\ Continue([came EXCEPT !.at = "missing"])
  <2>1. /\ UNCHANGED Store
        /\ DOMAIN request' = Fields /\ request'.at = "missing" /\ request'.asked = asked
        /\ request'.query = query /\ request'.label = split.label /\ request'.version = 0
        /\ request'.before.contents = [a \in Authors |-> Len(contents[a])]
        /\ request'.open = MarkKeys \ blocked
        /\ request'.steady = {a \in Rows(query) : HasName(a, query.name, names)}
        /\ request'.anchor = Nothing /\ request'.left = {}
    BY <1>4, <1>7 DEF Continue, Fields
  <2> QED
    BY <1>7, <2>1, CameKeepsInv
<1>8. ASSUME query.name = <<>>, NEW a \in First(Rows(query)),
             Continue([came EXCEPT !.at = "name", !.anchor = a])
      PROVE  ResolutionInv'
  <2>1. /\ UNCHANGED Store
        /\ DOMAIN request' = Fields /\ request'.at = "name" /\ request'.asked = asked
        /\ request'.query = query /\ request'.label = split.label /\ request'.version = 0
        /\ request'.before.contents = [b \in Authors |-> Len(contents[b])]
        /\ request'.open = MarkKeys \ blocked
        /\ request'.steady = {b \in Rows(query) : HasName(b, query.name, names)}
        /\ request'.anchor = a /\ request'.left = {}
    BY <1>4, <1>8 DEF Continue, Fields
  <2>2. request'.anchor \in Anchors
    BY <1>3, <2>1
  <2> QED
    BY <1>2, <1>8, <2>1, <2>2, CameKeepsInv
<1> QED
  BY <1>1, <1>5, <1>6, <1>7, <1>8

LEMMA ReceiveDNSKeepsInv ==
  ASSUME ResolutionInv, NEW asked, ReceiveDNS(asked) PROVE ResolutionInv'
<1> DEFINE id == Decode(Last(asked.parts))
           query == Query(<<>>, id[1], id[2])
           label == FlattenSeq(Front(asked.parts))
           came == Came(asked, query, label)
<1>1. \/ Continue([Idle EXCEPT !.asked = asked, !.at = "invalid"])
      \/ Continue([came EXCEPT !.at = "tld"])
  BY DEF ReceiveDNS
<1>2. query.name = <<>>
  BY DEF Query
<1>3. /\ DOMAIN came = Fields /\ came.asked = asked /\ came.query = query
      /\ came.label = label /\ came.left = {} /\ came.anchor = Nothing /\ came.version = 0
      /\ came.before.contents = [a \in Authors |-> Len(contents[a])]
      /\ came.open = MarkKeys \ blocked
      /\ came.steady = {a \in Rows(query) : HasName(a, query.name, names)}
  BY CameFields
<1> HIDE DEF came, query, label, id
<1>4. CASE Continue([Idle EXCEPT !.asked = asked, !.at = "invalid"])
  BY <1>4, InvalidKeepsInv
<1>5. CASE Continue([came EXCEPT !.at = "tld"])
  <2>1. /\ UNCHANGED Store
        /\ DOMAIN request' = Fields /\ request'.at = "tld" /\ request'.asked = asked
        /\ request'.query = query /\ request'.label = label /\ request'.version = 0
        /\ request'.before.contents = [a \in Authors |-> Len(contents[a])]
        /\ request'.open = MarkKeys \ blocked
        /\ request'.steady = {a \in Rows(query) : HasName(a, query.name, names)}
        /\ request'.anchor = Nothing /\ request'.left = {}
    BY <1>3, <1>5 DEF Continue, Fields
  <2> QED
    BY <1>2, <2>1, CameKeepsInv
<1> QED
  BY <1>1, <1>4, <1>5

\* Where the handler goes on from what it has, it keeps the request's other variables.
Kept ==
    /\ UNCHANGED Store
    /\ DOMAIN request' = Fields
    /\ request'.asked = request.asked /\ request'.query = request.query
    /\ request'.label = request.label /\ request'.before = request.before
    /\ request'.open = request.open /\ request'.steady = request.steady

LEMMA GotoKeeps ==
  ASSUME ResolutionInv, NEW place, Goto(place)
  PROVE  /\ Kept /\ request'.at = place
         /\ request'.left = request.left /\ request'.anchor = request.anchor
         /\ request'.version = request.version /\ request'.data = request.data
BY DEF Goto, Continue, Kept, ResolutionInv, ResolutionTypes, Fields

LEMMA MatchKeepsInv ==
  ASSUME ResolutionInv, Match PROVE ResolutionInv'
<1> USE DEF ResolutionInv
<1>1. request.at = "match" /\ request.query.name # <<>> /\ request.version = 0
      /\ request.asked.protocol # "dns"
  BY DEF Match, RequestAt, SteadyInv, ResolutionTypes, BeforeConnection, MarksInv
<1>2. \A a \in request.steady : a \in request.left /\ HasName(a, request.query.name, names)
  BY <1>1 DEF SteadyInv, RequestAt
<1>3. request.left \subseteq Anchors /\ request.steady \subseteq Anchors
      /\ request.anchor \in Anchors \union {Nothing}
  BY DEF ResolutionTypes, ResolutionTypeOK
<1>4. /\ MarkKeys \ blocked \subseteq request.open
      /\ \A a \in Authors : /\ request.before.contents[a] \in Nat
                            /\ request.before.contents[a] <= Len(contents[a])
  BY <1>1 DEF MarksInv, VersionsInv, Runs, Places
<1>5. \A a \in Anchors : a.by \in Authors /\ Len(contents[a.by]) \in Nat
  BY ResolutionAssumption DEF ResolutionTypes
<1>6. CASE request.left = {} /\ Goto("missing")
  <2>1. /\ Kept /\ request'.at = "missing" /\ request'.left = request.left
        /\ request'.anchor = request.anchor /\ request'.version = request.version
    BY <1>6, GotoKeeps
  <2>2. ResolutionTypes'
    BY <1>1, <1>3, <2>1, SameStore DEF Kept, Outcomes, WithAnchor, BeforeConnection
  <2> QED
    BY <1>2, <1>6, <2>1, <2>2 DEF Kept, SteadyInv, VersionsInv, MarksInv, ServedNotOlder,
                                  BlockedNotServed, RequestAt, Runs, Places
<1>7. ASSUME NEW a \in First(request.left), HasName(a, request.query.name, names),
             Continue([request EXCEPT !.at = "name", !.anchor = a, !.left = {}])
      PROVE  ResolutionInv'
  <2>1. /\ Kept /\ request'.at = "name" /\ request'.left = {}
        /\ request'.anchor = a /\ request'.version = request.version
    BY <1>7 DEF Continue, Kept, ResolutionTypes, Fields
  <2>2. a \in Anchors /\ \A b \in request.left : ~ Before(b, a)
    BY <1>3 DEF First
  <2>3. ResolutionTypes'
    <3>1. request'.anchor \in Anchors /\ request'.version <= Len(contents[request'.anchor.by])
      BY <1>1, <1>5, <2>1, <2>2
    <3> QED
      BY <1>1, <1>3, <2>1, <3>1, SameStore DEF Kept, Places
  <2>4. SteadyInv'
    BY <1>2, <2>1, <2>2 DEF Kept, SteadyInv, RequestAt
  <2>5. VersionsInv'
    BY <1>4, <2>1 DEF Kept, Store, VersionsInv, ServedNotOlder, RequestAt
  <2>6. MarksInv'
    BY <1>1, <1>4, <2>1 DEF Kept, Store, MarksInv, BlockedNotServed, RequestAt
  <2> QED
    BY <2>3, <2>4, <2>5, <2>6
<1>8. ASSUME NEW a \in First(request.left), ~ HasName(a, request.query.name, names),
             Continue([request EXCEPT !.left = @ \ {a}])
      PROVE  ResolutionInv'
  <2>1. /\ Kept /\ request'.at = "match" /\ request'.left = request.left \ {a}
        /\ request'.anchor = request.anchor /\ request'.version = request.version
    BY <1>1, <1>8 DEF Continue, Kept, ResolutionTypes, Fields
  <2>2. a \notin request.steady
    BY <1>2, <1>8
  <2>3. ResolutionTypes'
    BY <1>1, <1>3, <2>1, SameStore DEF Kept, Places, WithAnchor
  <2>4. SteadyInv'
    BY <1>1, <1>2, <2>1, <2>2 DEF Kept, Store, SteadyInv, RequestAt
  <2>5. VersionsInv'
    BY <1>4, <2>1 DEF Kept, Store, VersionsInv, ServedNotOlder, RequestAt
  <2>6. MarksInv'
    BY <1>1, <1>4, <2>1 DEF Kept, Store, MarksInv, BlockedNotServed, RequestAt
  <2> QED
    BY <2>3, <2>4, <2>5, <2>6
<1> QED
  BY <1>6, <1>7, <1>8 DEF Match

\* What a handler has seen while it runs.
LEMMA SeenSoFar ==
  ASSUME ResolutionInv, Runs
  PROVE  /\ MarkKeys \ blocked \subseteq request.open
         /\ \A a \in Authors : /\ request.before.contents[a] \in Nat
                               /\ request.before.contents[a] <= Len(contents[a])
BY DEF ResolutionInv, MarksInv, VersionsInv

LEMMA ReadNameKeepsInv ==
  ASSUME ResolutionInv, ReadName PROVE ResolutionInv'
<1> USE DEF ResolutionInv
<1>1. /\ request.at = "name" /\ request.anchor \in Anchors /\ request.version = 0
      /\ request.version <= Len(contents[request.anchor.by])
  BY DEF ReadName, RequestAt, ResolutionTypes, ResolutionTypeOK, WithAnchor, BeforeConnection
<1>2. /\ Kept /\ request'.at = "connection" /\ request'.left = request.left
      /\ request'.anchor = request.anchor /\ request'.version = request.version
  BY DEF ReadName, Continue, Kept, ResolutionTypes, Fields
<1>3. request.left \subseteq Anchors /\ request.steady \subseteq Anchors
  BY DEF ResolutionTypes, ResolutionTypeOK
<1>4. ResolutionTypes'
  BY <1>1, <1>2, <1>3, SameStore DEF Kept, Places
<1>5. SteadyInv'
  BY <1>1, <1>2 DEF Kept, SteadyInv, RequestAt
<1>6. VersionsInv'
  BY <1>1, <1>2 DEF Kept, Store, VersionsInv, ServedNotOlder, RequestAt, Runs, Places
<1>7. MarksInv'
  BY <1>1, <1>2 DEF Kept, Store, MarksInv, BlockedNotServed, RequestAt, Runs, Places
<1> QED
  BY <1>4, <1>5, <1>6, <1>7

LEMMA ReadConnectionKeepsInv ==
  ASSUME ResolutionInv, ReadConnection PROVE ResolutionInv'
<1> USE DEF ResolutionInv
<1>1. request.at = "connection" /\ request.anchor \in Anchors /\ By \in Authors
  BY ResolutionAssumption
     DEF ReadConnection, RequestAt, ResolutionTypes, ResolutionTypeOK, WithAnchor, By
<1>2. request.asked.protocol # "dns"
  BY <1>1 DEF MarksInv
<1>3. /\ Kept /\ request'.at \in {"verified", "marks"} /\ request'.left = request.left
      /\ request'.anchor = request.anchor /\ request'.version = Len(contents[By])
  BY DEF ReadConnection, LatestVersion, Continue, Kept, ResolutionTypes, Fields
<1>4. request.left \subseteq Anchors /\ request.steady \subseteq Anchors
  BY DEF ResolutionTypes, ResolutionTypeOK
<1>5. Len(contents[By]) \in Nat
  BY <1>1 DEF ResolutionTypes
<1>6. ResolutionTypes'
  <2>1. request'.version <= Len(contents[request'.anchor.by])
    BY <1>3, <1>5 DEF By
  <2> QED
    BY <1>1, <1>3, <1>4, <1>5, <2>1, SameStore DEF Kept, Places, Outcomes, BeforeConnection
<1>7. SteadyInv'
  BY <1>1, <1>3 DEF Kept, SteadyInv, RequestAt
<1>8. VersionsInv'
  <2>1. \A a \in Authors : /\ request.before.contents[a] \in Nat
                           /\ request.before.contents[a] <= Len(contents[a])
    BY <1>1, SeenSoFar DEF Runs, Places
  <2>2. request'.version >= request'.before.contents[By]
    BY <1>1, <1>3, <1>5, <2>1 DEF Kept
  <2> QED
    BY <1>3, <2>1, <2>2 DEF Kept, Store, VersionsInv, ServedNotOlder, RequestAt, By
<1>9. MarksInv'
  BY <1>1, <1>2, <1>3 DEF Kept, Store, MarksInv, BlockedNotServed, RequestAt, Runs, Places
<1> QED
  BY <1>6, <1>7, <1>8, <1>9

LEMMA CheckMarksKeepsInv ==
  ASSUME ResolutionInv, CheckMarks PROVE ResolutionInv'
<1> USE DEF ResolutionInv
<1>1. /\ request.at = "marks" /\ request.anchor \in Anchors /\ By \in Authors
      /\ request.version <= Len(contents[By])
  BY ResolutionAssumption
     DEF CheckMarks, RequestAt, ResolutionTypes, ResolutionTypeOK, WithAnchor, By
<1>2. /\ Kept /\ request'.at \in {"blocked", "delegation"} /\ request'.left = request.left
      /\ request'.anchor = request.anchor /\ request'.version = request.version
      /\ request'.at = "delegation" => <<ID(request.anchor), Whole>> \notin blocked
  BY GotoKeeps DEF CheckMarks, IsBlocked
<1>3. request.left \subseteq Anchors /\ request.steady \subseteq Anchors
      /\ request.version \in Nat
  BY DEF ResolutionTypes, ResolutionTypeOK
<1>4. ResolutionTypes'
  BY <1>1, <1>2, <1>3, SameStore DEF Kept, Places, Outcomes, BeforeConnection, By
<1>5. SteadyInv'
  BY <1>1, <1>2 DEF Kept, SteadyInv, RequestAt
<1>6. VersionsInv'
  BY <1>1, <1>2 DEF Kept, Store, VersionsInv, ServedNotOlder, RequestAt, Runs, Places, By
<1>7. MarksInv'
  <2>1. <<ID(request.anchor), Whole>> \in MarkKeys
    BY <1>1 DEF MarkKeys, IDs
  <2>2. MarkKeys \ blocked \subseteq request.open
    BY <1>1, SeenSoFar DEF Runs, Places
  <2>3. request.asked.protocol # "dns"
    BY <1>1 DEF MarksInv
  <2> QED
    BY <1>2, <2>1, <2>2, <2>3 DEF Kept, Store, MarksInv, BlockedNotServed, RequestAt
<1> QED
  BY <1>4, <1>5, <1>6, <1>7

\* Data are the anchor's own, of the version read, or say nothing of a version.
LEMMA WhatIsServed ==
  ASSUME ResolutionInv, Respond
  PROVE  /\ Kept /\ request'.at = "served" /\ request'.left = request.left
         /\ request'.anchor = request.anchor /\ request'.version = request.version
         /\ request'.data.of = By => request'.data.version = request.version
<1>1. request.at = "delegation" /\ By \in Authors /\ By # NoOne
  BY ResolutionAssumption
     DEF Respond, RequestAt, ResolutionInv, ResolutionTypes, ResolutionTypeOK, WithAnchor, By
<1> DEFINE Fits(d) == d.of = By => d.version = request.version
<1>2. Fits(Empty) /\ \A v, k : Fits(Own(request.version, k)) /\ Fits(Theirs(v, k))
  BY <1>1 DEF Own, Theirs, Empty
<1>3. ASSUME NEW content, NEW d \in OwnData(content) PROVE Fits(d)
  <2>1. PICK k \in Keys(content, request.name) :
          d \in IF content[k] = NoOne THEN {Own(request.version, k)}
                ELSE Delegated(content[k], Own(request.version, k))
    BY <1>3, Zenon DEF OwnData
  <2>2. d = Own(request.version, k) \/ d = Empty \/ \E v, l : d = Theirs(v, l)
    BY <2>1 DEF Delegated
  <2> QED
    BY <1>2, <2>2
<1>4. PICK d : Fits(d) /\ Continue([request EXCEPT !.at = "served", !.data = d])
  BY <1>2, <1>3 DEF Respond
<1>5. DOMAIN request = Fields
  BY DEF ResolutionInv, ResolutionTypes
<1> QED
  BY <1>4, <1>5 DEF Continue, Kept, Fields

LEMMA RespondKeepsInv ==
  ASSUME ResolutionInv, Respond PROVE ResolutionInv'
<1> USE DEF ResolutionInv
<1>1. /\ request.at = "delegation" /\ request.anchor \in Anchors /\ By \in Authors
      /\ request.version <= Len(contents[By])
  BY ResolutionAssumption
     DEF Respond, RequestAt, ResolutionTypes, ResolutionTypeOK, WithAnchor, By
<1>2. /\ Kept /\ request'.at = "served" /\ request'.left = request.left
      /\ request'.anchor = request.anchor /\ request'.version = request.version
      /\ request'.data.of = By => request'.data.version = request.version
  BY WhatIsServed
<1>3. request.left \subseteq Anchors /\ request.steady \subseteq Anchors
      /\ request.version \in Nat
  BY DEF ResolutionTypes, ResolutionTypeOK
<1>4. ResolutionTypes'
  BY <1>1, <1>2, <1>3, SameStore DEF Kept, Outcomes, BeforeConnection, By
<1>5. SteadyInv'
  BY <1>1, <1>2 DEF Kept, SteadyInv, RequestAt
<1>6. VersionsInv'
  BY <1>1, <1>2 DEF Kept, VersionsInv, ServedNotOlder, RequestAt, Runs, Places, By
<1>7. MarksInv'
  BY <1>1, <1>2 DEF Kept, MarksInv, BlockedNotServed, RequestAt, Runs, Places
<1> QED
  BY <1>4, <1>5, <1>6, <1>7

\* The DNS server before it looks for an anchor.
LEMMA CheckNamesKeepsInv ==
  ASSUME ResolutionInv, CheckTld \/ CheckLabel PROVE ResolutionInv'
<1> USE DEF ResolutionInv
<1>1. /\ request.at \in {"tld", "label"}
      /\ request.query.name = <<>> /\ request.version = 0
  BY DEF CheckTld, CheckLabel, RequestAt, ResolutionTypes, SteadyInv, BeforeConnection
<1>2. MarkKeys \ blocked \subseteq request.open
  BY <1>1, SeenSoFar DEF Runs, Places
<1>3. request.left \subseteq Anchors /\ request.steady \subseteq Anchors
      /\ request.anchor \in Anchors \union {Nothing}
  BY DEF ResolutionTypes, ResolutionTypeOK
<1>4. PICK place \in {"blocked", "primary", "label"} :
        /\ Goto(place)
        /\ place # "blocked" /\ <<Target, Whole>> \in MarkKeys => <<Target, Whole>> \in request.open
        /\ place = "primary" /\ request.label \in Names /\ <<Target, request.label>> \in MarkKeys =>
            <<Target, request.label>> \in request.open
  <2>1. CASE CheckTld
    <3>1. request.label = <<>> => request.label \notin Names
      BY ResolutionAssumption DEF Whole
    <3> QED
      BY <1>2, <2>1, <3>1 DEF CheckTld, IsBlocked
  <2>2. CASE CheckLabel
    <3>1. <<Target, Whole>> \in MarkKeys => <<Target, Whole>> \in request.open
      BY <2>2 DEF CheckLabel, RequestAt, MarksInv
    <3> QED
      BY <1>2, <2>2, <3>1 DEF CheckLabel, IsBlocked
  <2> QED
    BY <2>1, <2>2
<1>5. /\ Kept /\ request'.at = place /\ request'.left = request.left
      /\ request'.anchor = request.anchor /\ request'.version = request.version
  BY <1>4, GotoKeeps
<1>6. ResolutionTypes'
  <2>1. place \in Places \union Outcomes /\ place \notin WithAnchor
    BY DEF Places, Outcomes, WithAnchor
  <2>2. request'.version = 0
    BY <1>1, <1>5
  <2> QED
    BY <1>3, <1>5, <2>1, <2>2, SameStore DEF Kept
<1>7. SteadyInv'
  BY <1>1, <1>5 DEF Kept, SteadyInv, RequestAt
<1>8. VersionsInv'
  BY <1>1, <1>5 DEF Kept, Store, VersionsInv, ServedNotOlder, RequestAt, Runs, Places
<1>9. MarksInv'
  BY <1>2, <1>4, <1>5 DEF Kept, Store, MarksInv, BlockedNotServed, RequestAt, Target
<1> QED
  BY <1>6, <1>7, <1>8, <1>9

\* Version 0 is no version too many.
LEMMA ZeroIsNoVersion ==
  ASSUME ResolutionTypes, NEW a \in Anchors, NEW version, version = 0
  PROVE  version <= Len(contents[a.by])
<1>1. a.by \in Authors
  BY ResolutionAssumption
<1>2. contents[a.by] \in Seq(Contents)
  BY <1>1 DEF ResolutionTypes
<1>3. Len(contents[a.by]) \in Nat
  BY <1>2
<1> QED
  BY <1>3

LEMMA FindAnchorKeepsInv ==
  ASSUME ResolutionInv, NEW from \in {"primary", "owner"}, NEW to \in {"primary name", "content"},
         FindAnchor(from, to)
  PROVE  ResolutionInv'
<1> USE DEF ResolutionInv
<1> DEFINE found == {a \in anchors : ID(a) = Target}
<1>1. /\ request.at \in {"primary", "owner"}
      /\ request.query.name = <<>> /\ request.version = 0
  BY DEF FindAnchor, RequestAt, ResolutionTypes, SteadyInv, BeforeConnection
<1>2. MarkKeys \ blocked \subseteq request.open
  BY <1>1, SeenSoFar DEF Runs, Places
<1>3. request.left \subseteq Anchors /\ request.steady \subseteq Anchors
      /\ request.anchor \in Anchors \union {Nothing}
  BY DEF ResolutionTypes, ResolutionTypeOK
<1>4. request.version \in Nat /\ request.version = 0
  BY <1>1 DEF ResolutionTypes
<1>5. found \subseteq Anchors
  BY DEF ResolutionTypes, ResolutionTypeOK
<1> HIDE DEF found
<1>6. CASE Goto("missing")
  <2>1. /\ Kept /\ request'.at = "missing" /\ request'.left = request.left
        /\ request'.anchor = request.anchor /\ request'.version = request.version
    BY <1>6, GotoKeeps
  <2>2. ResolutionTypes'
    <3>1. request'.at \in Places \union Outcomes /\ request'.at \notin WithAnchor
      BY <2>1 DEF Outcomes, WithAnchor
    <3>2. request'.version \in Nat
      BY <1>4, <2>1
    <3> QED
      BY <1>1, <1>3, <2>1, <3>1, <3>2, SameStore DEF Kept
  <2> QED
    BY <1>1, <2>1, <2>2 DEF Kept, SteadyInv, VersionsInv, MarksInv, ServedNotOlder,
                            BlockedNotServed, RequestAt, Runs, Places
<1>7. ASSUME NEW a \in found,
             Continue([request EXCEPT !.at = to, !.anchor = a])
      PROVE  ResolutionInv'
  <2>1. /\ Kept /\ request'.at = to /\ request'.left = request.left
        /\ request'.anchor = a /\ request'.version = request.version
    BY <1>7 DEF Continue, Kept, ResolutionTypes, Fields
  <2>2. a \in Anchors /\ ID(a) = Target
    BY <1>5 DEF found
  <2>3. ResolutionTypes'
    <3>1. request'.version <= Len(contents[a.by])
      BY <1>1, <2>1, <2>2, ZeroIsNoVersion
    <3>2. request'.anchor \in Anchors /\ request'.version <= Len(contents[request'.anchor.by])
      BY <2>1, <2>2, <3>1
    <3>3. request'.at \in Places
      BY <2>1 DEF Places
    <3>4. request'.version \in Nat
      BY <1>4, <2>1
    <3> QED
      BY <1>1, <1>3, <2>1, <3>2, <3>3, <3>4, SameStore DEF Kept
  <2>4. SteadyInv'
    BY <1>1, <2>1 DEF Kept, SteadyInv, RequestAt
  <2>5. VersionsInv'
    BY <1>1, <2>1 DEF Kept, Store, VersionsInv, ServedNotOlder, RequestAt, Runs, Places
  <2>6. MarksInv'
    BY <1>1, <1>2, <2>1, <2>2 DEF Kept, Store, MarksInv, BlockedNotServed, RequestAt, Target
  <2> QED
    BY <2>3, <2>4, <2>5, <2>6
<1> QED
  BY <1>6, <1>7 DEF FindAnchor, found

LEMMA ReadPrimaryNameKeepsInv ==
  ASSUME ResolutionInv, ReadPrimaryName PROVE ResolutionInv'
<1> USE DEF ResolutionInv
<1>1. /\ request.at = "primary name" /\ request.anchor \in Anchors
      /\ request.query.name = <<>> /\ request.version = 0
      /\ request.version <= Len(contents[request.anchor.by])
  BY DEF ReadPrimaryName, RequestAt, ResolutionTypes, ResolutionTypeOK, SteadyInv, BeforeConnection,
         WithAnchor
<1>2. MarkKeys \ blocked \subseteq request.open
  BY <1>1, SeenSoFar DEF Runs, Places
<1>3. request.left \subseteq Anchors /\ request.steady \subseteq Anchors
  BY DEF ResolutionTypes, ResolutionTypeOK
<1>4. Goto("missing")
      \/ Continue([request EXCEPT !.at = "owner", !.name = Latest(names[By])])
  BY DEF ReadPrimaryName
<1>5. /\ Kept /\ request'.at \in {"missing", "owner"} /\ request'.left = request.left
      /\ request'.anchor = request.anchor /\ request'.version = request.version
  <2>1. CASE Goto("missing")
    BY <2>1, GotoKeeps
  <2>2. CASE Continue([request EXCEPT !.at = "owner", !.name = Latest(names[By])])
    BY <2>2 DEF Continue, Kept, ResolutionTypes, Fields
  <2> QED
    BY <1>4, <2>1, <2>2
<1>6. ResolutionTypes'
  <2>1. request'.at \in Places \union Outcomes
    BY <1>5 DEF Places, Outcomes
  <2>2. request'.version \in Nat
    BY <1>5 DEF ResolutionTypes
  <2> QED
    BY <1>1, <1>3, <1>5, <2>1, <2>2, SameStore DEF Kept
<1>7. SteadyInv'
  BY <1>1, <1>5 DEF Kept, SteadyInv, RequestAt
<1>8. VersionsInv'
  BY <1>1, <1>5 DEF Kept, Store, VersionsInv, ServedNotOlder, RequestAt, Runs, Places
<1>9. MarksInv'
  BY <1>1, <1>2, <1>5 DEF Kept, Store, MarksInv, BlockedNotServed, RequestAt, Target
<1> QED
  BY <1>6, <1>7, <1>8, <1>9

LEMMA ReadContentKeepsInv ==
  ASSUME ResolutionInv, ReadContent PROVE ResolutionInv'
<1> USE DEF ResolutionInv
<1> DEFINE version == Len(contents[By])
           key == IF request.label = <<>> THEN request.name ELSE request.label
<1>1. /\ request.at = "content" /\ request.anchor \in Anchors /\ By \in Authors
      /\ request.query.name = <<>> /\ request.version = 0
  BY ResolutionAssumption
     DEF ReadContent, RequestAt, ResolutionTypes, ResolutionTypeOK, SteadyInv, BeforeConnection,
         WithAnchor, By
<1>2. /\ MarkKeys \ blocked \subseteq request.open
      /\ \A a \in Authors : /\ request.before.contents[a] \in Nat
                            /\ request.before.contents[a] <= Len(contents[a])
  BY <1>1, SeenSoFar DEF Runs, Places
<1>3. request.left \subseteq Anchors /\ request.steady \subseteq Anchors
  BY DEF ResolutionTypes, ResolutionTypeOK
<1>4. version \in Nat
  BY <1>1 DEF ResolutionTypes
<1>5. Goto("missing")
      \/ Continue([request EXCEPT !.at = "served", !.version = version, !.data = Own(version, key)])
  BY DEF ReadContent, LatestVersion
<1> HIDE DEF key
<1>6. CASE Goto("missing")
  <2>1. /\ Kept /\ request'.at = "missing" /\ request'.left = request.left
        /\ request'.anchor = request.anchor /\ request'.version = 0
    BY <1>1, <1>6, GotoKeeps
  <2>2. ResolutionTypes'
    BY <1>1, <1>3, <2>1, SameStore DEF Kept, Outcomes, WithAnchor
  <2> QED
    BY <1>1, <2>1, <2>2 DEF Kept, SteadyInv, VersionsInv, MarksInv, ServedNotOlder,
                            BlockedNotServed, RequestAt, Runs, Places
<1>7. CASE Continue([request EXCEPT !.at = "served", !.version = version, !.data = Own(version, key)])
  <2>1. /\ Kept /\ request'.at = "served" /\ request'.left = request.left
        /\ request'.anchor = request.anchor /\ request'.version = version
        /\ request'.data.version = version
    BY <1>7 DEF Continue, Kept, ResolutionTypes, Fields, Own
  <2>2. ResolutionTypes'
    <3>1. request'.version <= Len(contents[request'.anchor.by])
      BY <1>4, <2>1 DEF By
    <3> QED
      BY <1>1, <1>3, <1>4, <2>1, <3>1, SameStore DEF Kept, Outcomes, BeforeConnection
  <2>3. SteadyInv'
    BY <1>1, <2>1 DEF Kept, SteadyInv, RequestAt
  <2>4. VersionsInv'
    BY <1>1, <1>2, <1>4, <2>1 DEF Kept, Store, VersionsInv, ServedNotOlder, RequestAt, Runs, Places, By
  <2>5. MarksInv'
    <3>1. /\ <<Target, Whole>> \in MarkKeys => <<Target, Whole>> \in request.open
          /\ request.label \in Names /\ <<Target, request.label>> \in MarkKeys =>
                <<Target, request.label>> \in request.open
          /\ ID(request.anchor) = Target
      BY <1>1 DEF MarksInv
    <3>2. \A n \in Names \union {Whole} : <<ID(request.anchor), n>> \in MarkKeys
      BY <1>1 DEF MarkKeys, IDs
    <3> QED
      BY <2>1, <3>1, <3>2 DEF Kept, MarksInv, BlockedNotServed, RequestAt, Runs, Places
  <2> QED
    BY <2>2, <2>3, <2>4, <2>5
<1> QED
  BY <1>5, <1>6, <1>7

LEMMA ResolutionUnchanged ==
  ASSUME ResolutionInv, UNCHANGED resolutionVars PROVE ResolutionInv'
<1> USE DEF ResolutionInv
<1>1. /\ request' = request /\ anchors' = anchors /\ names' = names
      /\ contents' = contents /\ blocked' = blocked /\ changes' = changes
  BY DEF resolutionVars
<1>2. ResolutionTypes'
  BY <1>1 DEF ResolutionTypes, ResolutionTypeOK
<1>3. SteadyInv'
  BY <1>1 DEF SteadyInv, RequestAt, HasName
<1>4. VersionsInv'
  BY <1>1 DEF VersionsInv, Runs, ServedNotOlder, RequestAt, By
<1>5. MarksInv'
  BY <1>1 DEF MarksInv, Runs, BlockedNotServed, RequestAt, Target
<1> QED
  BY <1>2, <1>3, <1>4, <1>5

\* The invariant holds at every moment of every request, whatever is written meanwhile.
THEOREM ResolutionIsInvariant == ResolutionSpec => []ResolutionInv
<1>1. ResolutionInv /\ [ResolutionNext]_resolutionVars => ResolutionInv'
  BY ReceiveKeepsInv, ReceiveDNSKeepsInv, MatchKeepsInv, ReadNameKeepsInv, ReadConnectionKeepsInv,
     CheckMarksKeepsInv, RespondKeepsInv, CheckNamesKeepsInv, FindAnchorKeepsInv,
     ReadPrimaryNameKeepsInv, ReadContentKeepsInv, EndKeepsInv, OthersKeepInv, ResolutionUnchanged
     DEF ResolutionNext, Step, OthersWrite
<1> QED
  BY RequestsBegin, <1>1, PTL DEF ResolutionSpec

\* Types; and a request that goes on from an anchor has an anchor and a stored version.
THEOREM ResolutionTypeCorrect == ResolutionSpec => []ResolutionTypeOK
<1>1. ResolutionInv => ResolutionTypeOK
  BY DEF ResolutionInv, ResolutionTypes
<1> QED
  BY ResolutionIsInvariant, <1>1, PTL

\* A request for a name is answered by the latest anchor that had the name all along or by a
\* later one, for any number of anchors that come, go and change their names meanwhile.
THEOREM LatestNameFound == ResolutionSpec => []NamesResolveToLatest
<1>1. ResolutionInv => NamesResolveToLatest
  BY DEF ResolutionInv, SteadyInv, NamesResolveToLatest, Found, Ended, RequestAt, Outcomes
<1> QED
  BY ResolutionIsInvariant, <1>1, PTL

\* Connection data that are not delegated are no older than what was stored when the
\* request came.
THEOREM NothingOlderServed == ResolutionSpec => []ServedNotOlder
<1>1. ResolutionInv => ServedNotOlder
  BY DEF ResolutionInv, VersionsInv
<1> QED
  BY ResolutionIsInvariant, <1>1, PTL

\* What is served was at some moment of the request without a block mark on its ID, and
\* over DNS without one on its name.
THEOREM BlockedIsRefused == ResolutionSpec => []BlockedNotServed
<1>1. ResolutionInv => BlockedNotServed
  BY DEF ResolutionInv, MarksInv
<1> QED
  BY ResolutionIsInvariant, <1>1, PTL

-----------------------------------------------------------------------------
(* The words of a DNN ID, for any list of words. *)

Characters == Range(Letters) \union DOMAIN Digit

LEMMA WordsAreTexts ==
  ASSUME NEW i \in DOMAIN Wordlist
  PROVE  Wordlist[i] \in Seq(Characters) /\ Wordlist[i] # <<>>
<1>1. Wordlist[i] \in Seq(Range(Letters))
  BY WordlistAssumption, ElementOfSeq
<1>2. Range(Letters) \subseteq Characters
  BY DEF Characters
<1>3. Wordlist[i] \in Seq(Characters)
  BY <1>1, <1>2, SeqMonotonic
<1> QED
  BY <1>3, WordlistAssumption

\* What follows a text is what is left when the text is taken off.
LEMMA PrefixAndRest ==
  ASSUME NEW s \in Seq(Characters), NEW t \in Seq(Characters)
  PROVE  /\ s \o t \in Seq(Characters) /\ Len(s \o t) = Len(s) + Len(t)
         /\ SubSeq(s \o t, 1, Len(s)) = s
         /\ SubSeq(s \o t, Len(s) + 1, Len(s \o t)) = t
<1>1. s \o t \in Seq(Characters) /\ Len(s \o t) = Len(s) + Len(t)
      /\ Len(s) \in Nat /\ Len(t) \in Nat
  BY ConcatProperties
<1>2. SubSeq(s \o t, 1, Len(s)) = SubSeq(s, 1, Len(s))
  BY <1>1, SubSeqOfConcat1
<1>3. SubSeq(s, 1, Len(s)) = s
  BY SubSeqFull
<1> QED
  BY <1>1, <1>2, <1>3, SubSeqOfConcat2

LEMMA SubSeqOfPrefix ==
  ASSUME NEW s \in Seq(Characters), NEW n \in 0..Len(s), NEW m \in 0..n
  PROVE  SubSeq(SubSeq(s, 1, n), 1, m) = SubSeq(s, 1, m)
<1>1. CASE m = 0
  BY <1>1, SubSeqEmpty
<1>2. CASE m # 0
  <2>1. m \in 1..n /\ n \in 1..Len(s) /\ Len(s) \in Nat
    BY <1>2
  <2> QED
    BY <2>1, SubSeqOfSubSeq
<1> QED
  BY <1>1, <1>2

\* A text that begins with a word begins with no other word, so the longest match is that word.
LEMMA OneWordMatches ==
  ASSUME NEW i \in DOMAIN Wordlist, NEW t \in Seq(Characters)
  PROVE  /\ Matches(Wordlist[i] \o t) = {i} /\ LongestMatch(Wordlist[i] \o t) = i
         /\ Rest(Wordlist[i] \o t, i) = t
<1> DEFINE s == Wordlist[i] \o t
<1>1. /\ Wordlist[i] \in Seq(Characters) /\ s \in Seq(Characters)
      /\ Len(s) = Len(Wordlist[i]) + Len(t) /\ SubSeq(s, 1, Len(Wordlist[i])) = Wordlist[i]
      /\ SubSeq(s, Len(Wordlist[i]) + 1, Len(s)) = t
  BY WordsAreTexts, PrefixAndRest
<1>2. Len(Wordlist[i]) \in Nat /\ Len(t) \in Nat
  BY <1>1
<1> HIDE DEF s
<1>3. i \in Matches(s)
  <2>1. SubSeq(Wordlist[i], 1, Len(Wordlist[i])) = Wordlist[i]
    BY <1>1, SubSeqFull
  <2> QED
    BY <1>1, <1>2, <2>1 DEF Matches, IsPrefix
<1>4. ASSUME NEW j \in Matches(s) PROVE j = i
  <2>1. j \in DOMAIN Wordlist /\ IsPrefix(Wordlist[j], s)
    BY DEF Matches
  <2>2. Wordlist[j] \in Seq(Characters) /\ Len(Wordlist[j]) \in Nat
    BY <2>1, WordsAreTexts
  <2>3. SubSeq(Wordlist[j], 1, Len(Wordlist[j])) = SubSeq(s, 1, Len(Wordlist[j]))
        /\ Len(Wordlist[j]) <= Len(s)
    BY <2>1 DEF IsPrefix
  <2>4. CASE Len(Wordlist[j]) <= Len(Wordlist[i])
    <3>1. SubSeq(s, 1, Len(Wordlist[j])) = SubSeq(Wordlist[i], 1, Len(Wordlist[j]))
      <4>1. Len(Wordlist[j]) \in 0..Len(Wordlist[i]) /\ Len(Wordlist[i]) \in 0..Len(s)
        BY <1>1, <1>2, <2>2, <2>4
      <4> QED
        BY <1>1, <4>1, SubSeqOfPrefix
    <3>2. IsPrefix(Wordlist[j], Wordlist[i])
      BY <2>3, <2>4, <3>1 DEF IsPrefix
    <3> QED
      BY <2>1, <3>2, WordlistAssumption
  <2>5. CASE Len(Wordlist[i]) <= Len(Wordlist[j])
    <3>1. Wordlist[j] = SubSeq(s, 1, Len(Wordlist[j]))
      BY <2>2, <2>3, SubSeqFull
    <3>2. SubSeq(Wordlist[j], 1, Len(Wordlist[i])) = SubSeq(s, 1, Len(Wordlist[i]))
      <4>1. Len(Wordlist[i]) \in 0..Len(Wordlist[j]) /\ Len(Wordlist[j]) \in 0..Len(s)
        BY <1>1, <1>2, <2>2, <2>3, <2>5
      <4> QED
        BY <1>1, <3>1, <4>1, SubSeqOfPrefix
    <3>3. SubSeq(Wordlist[i], 1, Len(Wordlist[i])) = SubSeq(Wordlist[j], 1, Len(Wordlist[i]))
      BY <1>1, <3>2, SubSeqFull
    <3>4. IsPrefix(Wordlist[i], Wordlist[j])
      BY <2>5, <3>3 DEF IsPrefix
    <3> QED
      BY <2>1, <3>4, WordlistAssumption
  <2> QED
    BY <1>2, <2>2, <2>4, <2>5
<1>5. Matches(s) = {i}
  BY <1>3, <1>4
<1>6. LongestMatch(s) = i
  <2>1. \A j \in Matches(s) : Len(Wordlist[j]) <= Len(Wordlist[i])
    BY <1>2, <1>5
  <2> QED
    BY <1>5, <2>1 DEF LongestMatch
<1>7. Rest(s, i) = t
  BY <1>1 DEF Rest, From
<1> QED
  BY <1>5, <1>6, <1>7 DEF s

\* The decoder takes an ID apart where the encoder put it together (matchBIP39Word, Decode):
\* two words of the list, in whatever order and with whatever text after them, are read as
\* these two words, and only the numbers after them are left to read.
THEOREM WordsAreReadBack ==
  ASSUME NEW first \in DOMAIN Wordlist, NEW second \in DOMAIN Wordlist,
         NEW tail \in Seq(Characters)
  PROVE  Decode(<<"n">> \o Wordlist[first] \o Wordlist[second] \o tail)
            = DecodeNumbers(first, second, tail)
<1> DEFINE rest == Wordlist[second] \o tail
           words == Wordlist[first] \o rest
           text == <<"n">> \o Wordlist[first] \o Wordlist[second] \o tail
<1>1. /\ Wordlist[first] \in Seq(Characters) /\ Wordlist[first] # <<>>
      /\ Wordlist[second] \in Seq(Characters)
  BY WordsAreTexts
<1>2. "n" \in Characters /\ <<"n">> \in Seq(Characters) /\ Len(<<"n">>) = 1
  BY WordlistAssumption DEF Characters
<1>3. rest \in Seq(Characters) /\ words \in Seq(Characters)
  BY <1>1, PrefixAndRest
<1>4. text = <<"n">> \o words
  <2>1. <<"n">> \o Wordlist[first] \in Seq(Characters)
    BY <1>1, <1>2, PrefixAndRest
  <2>2. text = (<<"n">> \o Wordlist[first]) \o rest
    BY <1>1, <2>1, ConcatAssociative
  <2> QED
    BY <1>1, <1>2, <1>3, <2>2, ConcatAssociative
<1>5. Len(words) >= 1
  <2>1. Len(words) = Len(Wordlist[first]) + Len(rest)
    BY <1>1, <1>3, PrefixAndRest
  <2>2. Len(Wordlist[first]) \in Nat /\ Len(Wordlist[first]) # 0 /\ Len(rest) \in Nat
    BY <1>1, <1>3, EmptySeq
  <2> QED
    BY <2>1, <2>2
<1> HIDE DEF rest, words, text
<1>6. /\ text \in Seq(Characters) /\ Len(text) = 1 + Len(words)
      /\ SubSeq(text, 2, Len(text)) = words
  BY <1>2, <1>3, <1>4, PrefixAndRest
<1>7. text[1] = "n"
  BY <1>2, <1>3, <1>4, ConcatProperties
<1>8. Len(text) >= 2 /\ text # <<>>
  BY <1>3, <1>5, <1>6
<1>9. Tail(text) = words
  BY <1>6, <1>8, TailIsSubSeq
<1>10. Matches(words) # {} /\ LongestMatch(words) = first /\ Rest(words, first) = rest
  BY <1>3, OneWordMatches DEF words
<1>11. Matches(rest) # {} /\ LongestMatch(rest) = second /\ Rest(rest, second) = tail
  BY OneWordMatches DEF rest
<1>12. Decode(text) = DecodeNumbers(first, second, tail)
  <2>1. ~ (Len(text) < 2 \/ text[1] # "n" \/ Matches(Tail(text)) = {})
    <3>1. ~ (Len(text) < 2)
      BY <1>3, <1>5, <1>6
    <3> QED
      BY <1>7, <1>9, <1>10, <3>1
  <2> QED
    BY <1>9, <1>10, <1>11, <2>1, Zenon DEF Decode
<1> QED
  BY <1>12 DEF text

LEMMA DivisionAddsUp ==
  ASSUME NEW n \in Nat, NEW d \in Nat \ {0}
  PROVE  /\ n \div d \in Nat /\ n % d \in 0..(d - 1)
         /\ (n \div d) * d + (n % d) = n
BY SMT

LEMMA QuotientIsSmall ==
  ASSUME NEW n \in Nat, NEW d \in Nat \ {0}, n < d * d
  PROVE  n \div d < d
<1>1. /\ n \div d \in Nat /\ n % d \in Nat
      /\ (n \div d) * d + (n % d) = n
  BY DivisionAddsUp
<1> DEFINE q == n \div d
<1> HIDE DEF q
<1>2. q \in Nat /\ q * d <= n
  BY <1>1 DEF q
<1>3. q >= d => q * d >= d * d
  BY <1>2
<1> QED
  BY <1>2, <1>3 DEF q

\* The words that the encoder takes are in the list, and their numbers and the cycle give
\* the block again (Encode, Decode).
LEMMA BlockAddsUp ==
  ASSUME NEW block \in Nat
  PROVE  LET inCycle == block % CycleSize IN
         /\ (inCycle \div Base) + 1 \in DOMAIN Wordlist
         /\ (inCycle % Base) + 1 \in DOMAIN Wordlist
         /\ block \div CycleSize \in Nat
         /\ block < CycleSize => block \div CycleSize = 0
         /\ (block \div CycleSize) * CycleSize
              + (((inCycle \div Base) + 1) - 1) * Base + (((inCycle % Base) + 1) - 1) = block
<1> DEFINE inCycle == block % CycleSize
           cycle == block \div CycleSize
           high == inCycle \div Base
           low == inCycle % Base
<1>1. Base \in Nat \ {0} /\ DOMAIN Wordlist = 1..Base
  BY WordlistAssumption, EmptySeq, LenProperties DEF Base
<1>2. CycleSize \in Nat \ {0} /\ CycleSize = Base * Base
  BY <1>1 DEF CycleSize
<1>3. cycle \in Nat /\ inCycle \in 0..(CycleSize - 1) /\ cycle * CycleSize + inCycle = block
  BY <1>2, DivisionAddsUp
<1>4. inCycle \in Nat /\ inCycle < Base * Base
  BY <1>2, <1>3
<1> HIDE DEF inCycle, cycle
<1>5. high \in Nat /\ low \in 0..(Base - 1) /\ high * Base + low = inCycle
  BY <1>1, <1>4, DivisionAddsUp
<1>6. high < Base
  BY <1>1, <1>4, QuotientIsSmall
<1> HIDE DEF high, low, Base, CycleSize
<1>7. high + 1 \in DOMAIN Wordlist /\ low + 1 \in DOMAIN Wordlist
  BY <1>1, <1>5, <1>6
<1>8. block < CycleSize => cycle = 0
  <2>1. SUFFICES ASSUME block < CycleSize, cycle >= 1 PROVE FALSE
    BY <1>3
  <2>2. cycle * CycleSize >= CycleSize
    BY <1>2, <1>3, <2>1
  <2>3. cycle * CycleSize \in Nat
    BY <1>2, <1>3
  <2> QED
    BY <1>2, <1>3, <1>4, <2>1, <2>2, <2>3
<1>9. cycle * CycleSize + ((high + 1) - 1) * Base + ((low + 1) - 1) = block
  <2>1. (high + 1) - 1 = high /\ (low + 1) - 1 = low
    BY <1>5
  <2>2. cycle * CycleSize \in Nat /\ high * Base \in Nat
    BY <1>1, <1>2, <1>3, <1>5
  <2> QED
    BY <1>3, <1>5, <2>1, <2>2
<1> QED
  BY <1>3, <1>7, <1>8, <1>9 DEF high, low, inCycle, cycle

\* The ID of any block is read back as that block and the position, provided that what the
\* encoder writes after the two words is read back as the cycle and the position (Encode,
\* Decode): the words never swallow a part of the numbers, nor one word a part of the other.
THEOREM BlocksAreReadBack ==
  ASSUME NEW block \in Nat, NEW pos, NEW numbers \in Seq(Characters), pos # Nothing,
         Scan(numbers) = IF block >= CycleSize THEN block \div CycleSize ELSE Nothing,
         DecodePosition(From(numbers, LeadingDigits(numbers) + 1)) = pos
  PROVE  LET inCycle == block % CycleSize IN
         Decode(<<"n">> \o Wordlist[(inCycle \div Base) + 1] \o Wordlist[(inCycle % Base) + 1]
                  \o numbers) = <<block, pos>>
<1> DEFINE inCycle == block % CycleSize
           first == (inCycle \div Base) + 1
           second == (inCycle % Base) + 1
           cycle == block \div CycleSize
<1>1. /\ first \in DOMAIN Wordlist /\ second \in DOMAIN Wordlist /\ cycle \in Nat
      /\ block < CycleSize => cycle = 0
      /\ cycle * CycleSize + (first - 1) * Base + (second - 1) = block
  BY BlockAddsUp, Zenon
<1> HIDE DEF first, second, cycle
<1>2. Decode(<<"n">> \o Wordlist[first] \o Wordlist[second] \o numbers)
        = DecodeNumbers(first, second, numbers)
  BY <1>1, WordsAreReadBack
<1>3. (IF Scan(numbers) = Nothing THEN 0 ELSE Scan(numbers)) = cycle
  <2>1. Base \in Nat /\ CycleSize \in Nat
    BY WordlistAssumption, LenProperties DEF Base, CycleSize
  <2>2. block >= CycleSize => Scan(numbers) = cycle /\ cycle # Nothing
    BY <1>1, NothingAssumption DEF cycle
  <2>3. ~ (block >= CycleSize) => Scan(numbers) = Nothing /\ cycle = 0
    BY <1>1, <2>1
  <2> QED
    BY <2>2, <2>3
<1>4. DecodeNumbers(first, second, numbers)
        = <<cycle * CycleSize + (first - 1) * Base + (second - 1), pos>>
  <2>1. DecodePosition(From(numbers, LeadingDigits(numbers) + 1)) # Nothing
    OBVIOUS
  <2>2. DecodeNumbers(first, second, numbers)
          = <<(IF Scan(numbers) = Nothing THEN 0 ELSE Scan(numbers)) * CycleSize
                + (first - 1) * Base + (second - 1),
              DecodePosition(From(numbers, LeadingDigits(numbers) + 1))>>
    BY <2>1, Zenon DEF DecodeNumbers
  <2> QED
    BY <1>3, <2>2, Zenon
<1> QED
  BY <1>1, <1>2, <1>4 DEF first, second, cycle

-----------------------------------------------------------------------------
(* The numbers and letters of a DNN ID.  The functions by which they are   *)
(* written and read are recursive: that there is one, and what it gives,   *)
(* is shown by induction.                                                  *)

LEMMA CourseOfValues ==
  ASSUME NEW S, \A n \in Nat : (\A m \in 0..(n - 1) : m \in S) => n \in S
  PROVE  Nat \subseteq S
<1> SUFFICES ASSUME NEW n \in Nat, n \notin S PROVE FALSE
  OBVIOUS
<1> DEFINE Missing == {k \in 0..n : k \notin S}
           Below == {0..k : k \in Missing}
<1>1. IsFiniteSet(0..n)
  BY FS_Interval
<1>2. FiniteSubsetsOf(0..n) = SUBSET (0..n)
  BY <1>1, FS_FiniteSubsetsOfFinite
<1>3. IsWellFoundedOn(StrictSubsetOrdering(0..n), SUBSET (0..n))
  BY <1>2, FS_StrictSubsetOrderingWellFounded
<1>4. Below \subseteq SUBSET (0..n) /\ Below # {}
  <2>1. n \in Missing
    OBVIOUS
  <2>2. \A k \in Missing : 0..k \subseteq 0..n
    OBVIOUS
  <2> QED BY <2>1, <2>2
<1>5. PICK T \in Below : \A U \in Below : <<U, T>> \notin StrictSubsetOrdering(0..n)
  <2> HIDE DEF Below
  <2> QED BY <1>3, <1>4, WFMin
<1>6. PICK k \in Missing : T = 0..k
  BY <1>5
<1>7. ASSUME NEW m \in 0..(k - 1), m \notin S PROVE FALSE
  <2>1. m \in Missing /\ 0..m \in Below
    BY <1>7
  <2>2. 0..m \subseteq 0..k /\ k \in 0..k /\ k \notin 0..m
    BY <1>6
  <2>3. <<0..m, T>> \in StrictSubsetOrdering(0..n)
    BY <1>4, <1>5, <1>6, <2>1, <2>2 DEF StrictSubsetOrdering
  <2> QED BY <1>5, <2>1, <2>3
<1>8. k \in Nat /\ k \notin S
  OBVIOUS
<1>9. \A m \in 0..(k - 1) : m \in S
  BY <1>7
<1> HIDE DEF Missing, Below
<1> QED BY <1>8, <1>9

\* Functions by which texts are written: those of the numbers up to k.
Writes(write, k, short, first, prev, last) ==
    write = [n \in 0..k |-> IF n \in short THEN first[n] ELSE Append(write[prev[n]], last[n])]

LEMMA WritersExist ==
  ASSUME NEW short, NEW first, NEW last, NEW prev \in [Nat -> Nat],
         \A n \in Nat \ short : prev[n] < n, NEW k \in Nat
  PROVE  \E write : Writes(write, k, short, first, prev, last)
<1> DEFINE S == {n \in Nat : \E write : Writes(write, n, short, first, prev, last)}
<1>1. ASSUME NEW n \in Nat, \A m \in 0..(n - 1) : m \in S PROVE n \in S
  <2>1. PICK before : \A m \in 0..(n - 1) :
            before[m] = IF m \in short THEN first[m] ELSE Append(before[prev[m]], last[m])
    <3>1. CASE n = 0
      BY <3>1
    <3>2. CASE n # 0
      <4>1. n - 1 \in S /\ n - 1 \in Nat
        BY <1>1, <3>2
      <4>2. PICK b : Writes(b, n - 1, short, first, prev, last)
        BY <4>1
      <4> HIDE DEF S
      <4> QED BY <4>2 DEF Writes
    <3> QED BY <3>1, <3>2
  <2> DEFINE write == [m \in 0..n |->
                IF m < n THEN before[m]
                ELSE IF m \in short THEN first[m] ELSE Append(before[prev[m]], last[m])]
  <2>2. ASSUME NEW m \in 0..n
        PROVE  write[m] = IF m \in short THEN first[m] ELSE Append(write[prev[m]], last[m])
    <3>1. m \notin short => prev[m] \in 0..n /\ prev[m] < n /\ write[prev[m]] = before[prev[m]]
      BY <2>2
    <3>2. CASE m < n
      <4>1. m \in 0..(n - 1) /\ write[m] = before[m]
        BY <3>2
      <4> HIDE DEF write
      <4> QED BY <2>1, <3>1, <4>1
    <3>3. CASE ~ (m < n)
      <4>1. write[m] = IF m \in short THEN first[m] ELSE Append(before[prev[m]], last[m])
        BY <3>3
      <4> HIDE DEF write
      <4> QED BY <3>1, <4>1
    <3> QED BY <3>2, <3>3
  <2>3. Writes(write, n, short, first, prev, last)
    <3>1. DOMAIN write = 0..n /\ write = [m \in 0..n |-> write[m]]
      OBVIOUS
    <3> HIDE DEF write
    <3> QED BY <2>2, <3>1 DEF Writes
  <2> QED BY <2>3
<1> HIDE DEF S
<1>2. Nat \subseteq S
  BY <1>1, CourseOfValues
<1> QED BY <1>2 DEF S

LEMMA WritersAgree ==
  ASSUME NEW short, NEW first, NEW last, NEW prev \in [Nat -> Nat],
         \A n \in Nat \ short : prev[n] < n, NEW k \in Nat, NEW j \in 0..k,
         NEW long, Writes(long, k, short, first, prev, last),
         NEW write, Writes(write, j, short, first, prev, last)
  PROVE  long[j] = write[j]
<1> DEFINE S == {n \in Nat : n <= j => long[n] = write[n]}
<1>1. ASSUME NEW n \in Nat, \A m \in 0..(n - 1) : m \in S PROVE n \in S
  <2> SUFFICES ASSUME n <= j PROVE long[n] = write[n]
    OBVIOUS
  <2>0. n \in 0..j /\ n \in 0..k
    OBVIOUS
  <2>1. long[n] = IF n \in short THEN first[n] ELSE Append(long[prev[n]], last[n])
    <3> HIDE DEF S
    <3> QED BY <2>0, Zenon DEF Writes
  <2>2. write[n] = IF n \in short THEN first[n] ELSE Append(write[prev[n]], last[n])
    <3> HIDE DEF S
    <3> QED BY <2>0, Zenon DEF Writes
  <2>3. n \notin short => long[prev[n]] = write[prev[n]]
    <3> SUFFICES ASSUME n \notin short PROVE long[prev[n]] = write[prev[n]]
      OBVIOUS
    <3>1. prev[n] \in Nat /\ prev[n] < n
      OBVIOUS
    <3>2. prev[n] \in 0..(n - 1) /\ prev[n] <= j
      BY <3>1
    <3>3. prev[n] \in S
      BY <1>1, <3>2
    <3> QED BY <3>2, <3>3
  <2> QED BY <2>1, <2>2, <2>3
<1> HIDE DEF S
<1>2. Nat \subseteq S
  BY <1>1, CourseOfValues
<1> QED BY <1>2 DEF S

\* text[n] is what such a function writes for n.
IsWritten(text, short, first, prev, last) ==
    \A n \in Nat : \E write : Writes(write, n, short, first, prev, last) /\ text[n] = write[n]

Unfolds(text, short, first, prev, last) ==
    \A n \in Nat : text[n] = IF n \in short THEN first[n] ELSE Append(text[prev[n]], last[n])

LEMMA WriterUnfolds ==
  ASSUME NEW short, NEW first, NEW last, NEW prev \in [Nat -> Nat],
         \A n \in Nat \ short : prev[n] < n,
         NEW text, IsWritten(text, short, first, prev, last)
  PROVE  Unfolds(text, short, first, prev, last)
<1> SUFFICES ASSUME NEW n \in Nat
             PROVE  text[n] = IF n \in short THEN first[n] ELSE Append(text[prev[n]], last[n])
  BY DEF Unfolds
<1>1. PICK long : Writes(long, n, short, first, prev, last) /\ text[n] = long[n]
  BY DEF IsWritten
<1>2. long[n] = IF n \in short THEN first[n] ELSE Append(long[prev[n]], last[n])
  <2>1. n \in 0..n
    OBVIOUS
  <2> QED BY <1>1, <2>1, Zenon DEF Writes
<1>3. CASE n \in short
  BY <1>1, <1>2, <1>3
<1>4. CASE n \notin short
  <2>1. prev[n] \in Nat /\ prev[n] < n
    BY <1>4
  <2>2. PICK write : /\ Writes(write, prev[n], short, first, prev, last)
                     /\ text[prev[n]] = write[prev[n]]
    BY <2>1 DEF IsWritten
  <2>3. prev[n] \in 0..n
    BY <2>1
  <2>4. long[prev[n]] = write[prev[n]]
    BY <1>1, <2>2, <2>3, WritersAgree
  <2> QED BY <1>1, <1>2, <1>4, <2>2, <2>4
<1> QED BY <1>3, <1>4

LEMMA LettersThere == Len(Letters) \in Nat \ {0} /\ DOMAIN Letters = 1..Len(Letters)
<1>1. Letters # <<>>
  <2>1. "n" \in Range(Letters)
    BY WordlistAssumption
  <2>2. PICK i \in DOMAIN Letters : Letters[i] = "n"
    BY <2>1 DEF Range
  <2>3. DOMAIN <<>> = {}
    OBVIOUS
  <2> QED BY <2>2, <2>3
<1> QED BY <1>1, LettersAssumption, EmptySeq, LenProperties

LEMMA PositionText ==
  ASSUME NEW n \in Nat
  PROVE  EncodePosition(n) =
            IF n = 0 THEN <<>>
            ELSE Append(EncodePosition((n - 1) \div Len(Letters)),
                        Letters[((n - 1) % Len(Letters)) + 1])
<1> DEFINE short == {0}
           first == [m \in Nat |-> <<>>]
           prev == [m \in Nat |-> IF m = 0 THEN 0 ELSE (m - 1) \div Len(Letters)]
           last == [m \in Nat |-> Letters[((m - 1) % Len(Letters)) + 1]]
           text == [m \in Nat |-> EncodePosition(m)]
<1>1. \A m \in Nat \ short : prev[m] \in Nat /\ prev[m] < m
  <2> SUFFICES ASSUME NEW m \in Nat \ {0}
               PROVE  (m - 1) \div Len(Letters) \in Nat /\ (m - 1) \div Len(Letters) < m
    OBVIOUS
  <2> QED BY LettersThere, SMT
<1>2. prev \in [Nat -> Nat]
  BY <1>1
<1>3. ASSUME NEW k \in Nat
      PROVE  \E write : Writes(write, k, short, first, prev, last) /\ text[k] = write[k]
  <2>1. \A write : Writes(write, k, short, first, prev, last) <=>
            write = [m \in 0..k |-> IF m = 0 THEN <<>>
                                    ELSE Append(write[(m - 1) \div Len(Letters)],
                                                Letters[((m - 1) % Len(Letters)) + 1])]
    <3> SUFFICES ASSUME NEW write
                 PROVE  [m \in 0..k |-> IF m \in short THEN first[m] ELSE Append(write[prev[m]], last[m])]
                          = [m \in 0..k |-> IF m = 0 THEN <<>>
                                    ELSE Append(write[(m - 1) \div Len(Letters)],
                                                Letters[((m - 1) % Len(Letters)) + 1])]
      BY DEF Writes
    <3> QED OBVIOUS
  <2>2. \E write : Writes(write, k, short, first, prev, last)
    <3> HIDE DEF short, first, prev, last
    <3> QED BY <1>1, <1>2, WritersExist
  <2> DEFINE write == CHOOSE write : write = [m \in 0..k |-> IF m = 0 THEN <<>>
                                    ELSE Append(write[(m - 1) \div Len(Letters)],
                                                Letters[((m - 1) % Len(Letters)) + 1])]
  <2>3. write = [m \in 0..k |-> IF m = 0 THEN <<>>
                                    ELSE Append(write[(m - 1) \div Len(Letters)],
                                                Letters[((m - 1) % Len(Letters)) + 1])]
    BY <2>1, <2>2
  <2>4. EncodePosition(k) = write[k]
    BY DEF EncodePosition
  <2> HIDE DEF write
  <2>5. Writes(write, k, short, first, prev, last)
    BY <2>1, <2>3
  <2> QED BY <2>4, <2>5
<1>4. \A m \in Nat : text[m] = IF m \in short THEN first[m] ELSE Append(text[prev[m]], last[m])
  <2> HIDE DEF short, first, prev, last, text
  <2>1. \A m \in Nat \ short : prev[m] < m
    BY <1>1
  <2>2. IsWritten(text, short, first, prev, last)
    BY <1>3 DEF IsWritten
  <2>3. Unfolds(text, short, first, prev, last)
    BY <1>2, <2>1, <2>2, WriterUnfolds
  <2> QED BY <2>3 DEF Unfolds
<1>5. CASE n = 0
  BY <1>4, <1>5
<1>6. CASE n # 0
  <2>1. text[n] = Append(text[prev[n]], last[n])
    BY <1>4, <1>6
  <2>2. text[prev[n]] = EncodePosition(prev[n])
    BY <1>2
  <2>3. prev[n] = (n - 1) \div Len(Letters)
    BY <1>6
  <2> QED BY <1>6, <2>1, <2>2, <2>3
<1> QED BY <1>5, <1>6

LEMMA DigitsThere ==
  /\ DOMAIN Digit = Range(Digits)
  /\ \A n \in 0..9 : Digits[n + 1] \in Range(Digits) /\ Digit[Digits[n + 1]] = n
  /\ \A c \in Range(Digits) : Digit[c] \in 0..9
<1>1. DOMAIN Digits = 1..10
  BY DEF Digits
<1>2. \A i, j \in 1..10 : Digits[i] = Digits[j] => i = j
  BY DEF Digits
<1>3. ASSUME NEW c \in Range(Digits)
      PROVE  \E i \in 1..10 : Digits[i] = c /\ Digit[c] = i - 1
  <2>1. \E i \in DOMAIN Digits : Digits[i] = c
    BY DEF Range
  <2>2. Digit[c] = (CHOOSE i \in DOMAIN Digits : Digits[i] = c) - 1
    BY DEF Digit
  <2> QED BY <1>1, <2>1, <2>2
<1>4. DOMAIN Digit = Range(Digits)
  BY DEF Digit
<1>5. ASSUME NEW n \in 0..9
      PROVE  Digits[n + 1] \in Range(Digits) /\ Digit[Digits[n + 1]] = n
  <2>1. n + 1 \in DOMAIN Digits /\ n + 1 \in 1..10
    BY <1>1
  <2>2. Digits[n + 1] \in Range(Digits)
    BY <2>1 DEF Range
  <2>3. PICK i \in 1..10 : Digits[i] = Digits[n + 1] /\ Digit[Digits[n + 1]] = i - 1
    BY <1>3, <2>2
  <2>4. i = n + 1
    BY <1>2, <2>1, <2>3
  <2> QED BY <2>2, <2>3, <2>4
<1>6. ASSUME NEW c \in Range(Digits) PROVE Digit[c] \in 0..9
  <2>1. PICK i \in 1..10 : Digits[i] = c /\ Digit[c] = i - 1
    BY <1>3
  <2> QED BY <2>1
<1> QED BY <1>4, <1>5, <1>6

LEMMA DecimalText ==
  ASSUME NEW n \in Nat
  PROVE  Decimal(n) = IF n < 10 THEN <<Digits[n + 1]>>
                      ELSE Append(Decimal(n \div 10), Digits[(n % 10) + 1])
<1> DEFINE short == 0..9
           first == [m \in Nat |-> <<Digits[m + 1]>>]
           prev == [m \in Nat |-> m \div 10]
           last == [m \in Nat |-> Digits[(m % 10) + 1]]
           text == [m \in Nat |-> Decimal(m)]
<1>1. \A m \in Nat : m \in short <=> m < 10
  OBVIOUS
<1>2. \A m \in Nat \ short : prev[m] < m
  OBVIOUS
<1>3. prev \in [Nat -> Nat]
  OBVIOUS
<1>4. ASSUME NEW k \in Nat
      PROVE  \E write : Writes(write, k, short, first, prev, last) /\ text[k] = write[k]
  <2>1. \A write : Writes(write, k, short, first, prev, last) <=>
            write = [m \in 0..k |-> IF m < 10 THEN <<Digits[m + 1]>>
                                    ELSE Append(write[m \div 10], Digits[(m % 10) + 1])]
    <3> SUFFICES ASSUME NEW write
                 PROVE  [m \in 0..k |-> IF m \in short THEN first[m] ELSE Append(write[prev[m]], last[m])]
                          = [m \in 0..k |-> IF m < 10 THEN <<Digits[m + 1]>>
                                    ELSE Append(write[m \div 10], Digits[(m % 10) + 1])]
      BY DEF Writes
    <3> QED OBVIOUS
  <2>2. \E write : Writes(write, k, short, first, prev, last)
    <3> HIDE DEF short, first, prev, last
    <3> QED BY <1>2, <1>3, WritersExist
  <2> DEFINE write == CHOOSE write :
                        write = [m \in 0..k |-> IF m < 10 THEN <<Digits[m + 1]>>
                                    ELSE Append(write[m \div 10], Digits[(m % 10) + 1])]
  <2>3. write = [m \in 0..k |-> IF m < 10 THEN <<Digits[m + 1]>>
                                ELSE Append(write[m \div 10], Digits[(m % 10) + 1])]
    BY <2>1, <2>2
  <2>4. Decimal(k) = write[k]
    BY DEF Decimal
  <2> HIDE DEF write
  <2>5. Writes(write, k, short, first, prev, last)
    BY <2>1, <2>3
  <2> QED BY <2>4, <2>5
<1>5. \A m \in Nat : text[m] = IF m \in short THEN first[m] ELSE Append(text[prev[m]], last[m])
  <2> HIDE DEF short, first, prev, last, text
  <2>1. IsWritten(text, short, first, prev, last)
    BY <1>4 DEF IsWritten
  <2>2. Unfolds(text, short, first, prev, last)
    BY <1>2, <1>3, <2>1, WriterUnfolds
  <2> QED BY <2>2 DEF Unfolds
<1>6. CASE n < 10
  <2>1. text[n] = first[n]
    <3>1. n \in short
      BY <1>6
    <3> HIDE DEF short, first, prev, last, text
    <3> QED BY <1>5, <3>1
  <2> QED BY <1>6, <2>1
<1>7. CASE ~ (n < 10)
  <2>1. text[n] = Append(text[prev[n]], last[n])
    <3>1. n \notin short
      BY <1>7
    <3> HIDE DEF short, first, prev, last, text
    <3> QED BY <1>5, <3>1
  <2>2. text[prev[n]] = Decimal(prev[n])
    BY <1>3
  <2> QED BY <1>7, <2>1, <2>2
<1> QED BY <1>6, <1>7

\* The function by which Value adds digits up.
AddsUp(sum, digits, base) ==
    sum = [i \in 0..Len(digits) |-> IF i = 0 THEN 0 ELSE base * sum[i - 1] + digits[i]]

LEMMA StepIsNatural ==
  ASSUME NEW base \in Nat, NEW n \in Nat, NEW d \in Nat
  PROVE  base * n + d \in Nat
OBVIOUS

LEMMA SumsExist ==
  ASSUME NEW digits \in Seq(Nat), NEW base \in Nat
  PROVE  \E sum : AddsUp(sum, digits, base) /\ Value(digits, base) = sum[Len(digits)]
<1> DEFINE Sums(k) == {sum \in [0..k -> Nat] : /\ sum[0] = 0
                            /\ \A i \in 1..k : sum[i] = base * sum[i - 1] + digits[i]}
           S == {k \in Nat : k <= Len(digits) => Sums(k) # {}}
<1>0. Len(digits) \in Nat /\ \A i \in 1..Len(digits) : digits[i] \in Nat
  OBVIOUS
<1>1. ASSUME NEW k \in Nat, \A m \in 0..(k - 1) : m \in S PROVE k \in S
  <2> SUFFICES ASSUME k <= Len(digits) PROVE Sums(k) # {}
    OBVIOUS
  <2>1. CASE k = 0
    <3>1. [i \in 0..0 |-> 0] \in Sums(0)
      OBVIOUS
    <3> QED BY <2>1, <3>1
  <2>2. CASE k # 0
    <3>1. k - 1 \in S /\ k - 1 \in Nat /\ k - 1 <= Len(digits)
      <4>1. k - 1 \in 0..(k - 1) /\ k - 1 \in Nat /\ k - 1 <= Len(digits)
        BY <1>0, <2>2
      <4> HIDE DEF S
      <4> QED BY <1>1, <4>1
    <3>2. PICK before \in [0..(k - 1) -> Nat] :
            /\ before[0] = 0
            /\ \A i \in 1..(k - 1) : before[i] = base * before[i - 1] + digits[i]
      BY <3>1
    <3> DEFINE sum == [i \in 0..k |-> IF i < k THEN before[i] ELSE base * before[k - 1] + digits[k]]
    <3>3. digits[k] \in Nat /\ before[k - 1] \in Nat
      BY <1>0, <2>2, <3>1, <3>2
    <3>4. base * before[k - 1] + digits[k] \in Nat
      BY <3>3, StepIsNatural
    <3>5. sum \in [0..k -> Nat]
      BY <3>2, <3>4
    <3>6. sum[0] = 0
      BY <2>2, <3>2
    <3>7. ASSUME NEW i \in 1..k PROVE sum[i] = base * sum[i - 1] + digits[i]
      <4>1. sum[i - 1] = before[i - 1]
        BY <2>2
      <4>2. CASE i < k
        <5>1. sum[i] = before[i] /\ i \in 1..(k - 1)
          BY <4>2
        <5> HIDE DEF sum
        <5> QED BY <3>2, <4>1, <5>1
      <4>3. CASE i = k
        <5>1. sum[k] = base * before[k - 1] + digits[k]
          OBVIOUS
        <5> HIDE DEF sum
        <5> QED BY <4>1, <4>3, <5>1
      <4> QED BY <4>2, <4>3
    <3> HIDE DEF sum
    <3> QED BY <3>5, <3>6, <3>7
  <2> QED BY <2>1, <2>2
<1>2. Sums(Len(digits)) # {}
  <2> HIDE DEF S
  <2>1. Len(digits) \in S
    BY <1>0, <1>1, CourseOfValues
  <2> QED BY <2>1 DEF S
<1>3. PICK sum \in [0..Len(digits) -> Nat] :
        /\ sum[0] = 0
        /\ \A i \in 1..Len(digits) : sum[i] = base * sum[i - 1] + digits[i]
  BY <1>2
<1>4. AddsUp(sum, digits, base)
  <2>1. \A i \in 0..Len(digits) : sum[i] = IF i = 0 THEN 0 ELSE base * sum[i - 1] + digits[i]
    BY <1>0, <1>3
  <2>2. sum = [i \in 0..Len(digits) |-> sum[i]]
    BY <1>3
  <2> QED BY <2>1, <2>2 DEF AddsUp
<1> DEFINE found == CHOOSE s : s = [i \in 0..Len(digits) |->
                        IF i = 0 THEN 0 ELSE base * s[i - 1] + digits[i]]
<1>5. found = [i \in 0..Len(digits) |-> IF i = 0 THEN 0 ELSE base * found[i - 1] + digits[i]]
  BY <1>4 DEF AddsUp
<1>6. Value(digits, base) = found[Len(digits)]
  BY DEF Value
<1> HIDE DEF found
<1> QED BY <1>5, <1>6 DEF AddsUp

LEMMA SumsAgree ==
  ASSUME NEW digits \in Seq(Nat), NEW longer \in Seq(Nat), NEW base \in Nat,
         Len(digits) <= Len(longer), \A i \in 1..Len(digits) : longer[i] = digits[i],
         NEW sum, AddsUp(sum, digits, base), NEW more, AddsUp(more, longer, base)
  PROVE  \A i \in 0..Len(digits) : more[i] = sum[i] /\ sum[i] \in Nat
<1> DEFINE S == {i \in Nat : i <= Len(digits) => more[i] = sum[i] /\ sum[i] \in Nat}
<1>0. /\ Len(digits) \in Nat /\ Len(longer) \in Nat
      /\ \A i \in 1..Len(digits) : digits[i] \in Nat
  OBVIOUS
<1>1. \A i \in 0..Len(digits) :
        /\ sum[i] = IF i = 0 THEN 0 ELSE base * sum[i - 1] + digits[i]
        /\ more[i] = IF i = 0 THEN 0 ELSE base * more[i - 1] + longer[i]
  <2> SUFFICES ASSUME NEW i \in 0..Len(digits)
               PROVE  /\ sum[i] = IF i = 0 THEN 0 ELSE base * sum[i - 1] + digits[i]
                      /\ more[i] = IF i = 0 THEN 0 ELSE base * more[i - 1] + longer[i]
    OBVIOUS
  <2>1. i \in 0..Len(longer)
    BY <1>0
  <2> QED BY <2>1, Zenon DEF AddsUp
<1>2. ASSUME NEW k \in Nat, \A m \in 0..(k - 1) : m \in S PROVE k \in S
  <2> SUFFICES ASSUME k <= Len(digits) PROVE more[k] = sum[k] /\ sum[k] \in Nat
    OBVIOUS
  <2>1. k \in 0..Len(digits)
    BY <1>0
  <2>2. CASE k = 0
    BY <1>1, <2>1, <2>2
  <2>3. CASE k # 0
    <3>1. k - 1 \in S /\ k - 1 <= Len(digits) /\ k \in 1..Len(digits)
      BY <1>0, <1>2, <2>1, <2>3
    <3>2. more[k - 1] = sum[k - 1] /\ sum[k - 1] \in Nat
      BY <3>1
    <3>3. longer[k] = digits[k] /\ digits[k] \in Nat
      BY <1>0, <3>1
    <3>4. sum[k] = base * sum[k - 1] + digits[k] /\ more[k] = base * more[k - 1] + longer[k]
      BY <1>1, <2>1, <2>3
    <3> HIDE DEF S
    <3> QED BY <3>2, <3>3, <3>4
  <2> QED BY <2>2, <2>3
<1> HIDE DEF S
<1>3. Nat \subseteq S
  BY <1>2, CourseOfValues
<1> QED BY <1>0, <1>3 DEF S

LEMMA ValueOfDigits ==
  ASSUME NEW base \in Nat
  PROVE  /\ Value(<<>>, base) = 0
         /\ \A digits \in Seq(Nat), d \in Nat :
                /\ Value(digits, base) \in Nat
                /\ Value(Append(digits, d), base) = base * Value(digits, base) + d
<1>1. ASSUME NEW digits \in Seq(Nat) PROVE Value(digits, base) \in Nat
  <2>1. PICK sum : AddsUp(sum, digits, base) /\ Value(digits, base) = sum[Len(digits)]
    BY SumsExist
  <2>2. Len(digits) \in 0..Len(digits)
    OBVIOUS
  <2> QED BY <2>1, <2>2, SumsAgree
<1>2. ASSUME NEW digits \in Seq(Nat), NEW d \in Nat
      PROVE  Value(Append(digits, d), base) = base * Value(digits, base) + d
  <2> DEFINE longer == Append(digits, d)
  <2>1. /\ longer \in Seq(Nat) /\ Len(longer) = Len(digits) + 1 /\ Len(digits) \in Nat
        /\ \A i \in 1..Len(digits) : longer[i] = digits[i]
        /\ longer[Len(digits) + 1] = d
    OBVIOUS
  <2> HIDE DEF longer
  <2>2. PICK sum : AddsUp(sum, digits, base) /\ Value(digits, base) = sum[Len(digits)]
    BY SumsExist
  <2>3. PICK more : AddsUp(more, longer, base) /\ Value(longer, base) = more[Len(longer)]
    BY <2>1, SumsExist
  <2>4. more[Len(digits)] = sum[Len(digits)]
    <3>1. Len(digits) <= Len(longer) /\ Len(digits) \in 0..Len(digits)
      BY <2>1
    <3>2. \A i \in 0..Len(digits) : more[i] = sum[i] /\ sum[i] \in Nat
      BY <2>1, <2>2, <2>3, <3>1, SumsAgree
    <3> QED BY <3>1, <3>2
  <2>5. more[Len(digits) + 1] = base * more[Len(digits)] + d
    <3>1. Len(digits) + 1 \in 0..Len(longer) /\ Len(digits) + 1 # 0
      BY <2>1
    <3>2. more[Len(digits) + 1] = base * more[(Len(digits) + 1) - 1] + longer[Len(digits) + 1]
      BY <2>3, <3>1, Zenon DEF AddsUp
    <3>3. (Len(digits) + 1) - 1 = Len(digits)
      BY <2>1
    <3> QED BY <2>1, <3>2, <3>3
  <2> QED BY <2>1, <2>2, <2>3, <2>4, <2>5 DEF longer
<1>3. Value(<<>>, base) = 0
  <2>1. <<>> \in Seq(Nat) /\ Len(<<>>) = 0
    OBVIOUS
  <2>2. PICK sum : AddsUp(sum, <<>>, base) /\ Value(<<>>, base) = sum[Len(<<>>)]
    BY <2>1, SumsExist
  <2>3. sum[0] = 0
    BY <2>1, <2>2 DEF AddsUp
  <2> QED BY <2>1, <2>2, <2>3
<1> QED BY <1>1, <1>2, <1>3

Texts == Seq(Range(Digits))
LetterTexts == Seq(Range(Letters))

DigitsOf(s) == [i \in DOMAIN s |-> Digit[s[i]]]
LettersOf(s) == [i \in DOMAIN s |-> LetterNumber(s[i])]

LEMMA DigitsAppend ==
  ASSUME NEW s \in Texts, NEW c \in Range(Digits)
  PROVE  /\ DigitsOf(s) \in Seq(Nat) /\ Len(DigitsOf(s)) = Len(s)
         /\ DigitsOf(Append(s, c)) = Append(DigitsOf(s), Digit[c])
         /\ Append(s, c) \in Texts /\ Append(s, c) # <<>>
<1>1. ASSUME NEW t \in Texts
      PROVE  /\ DigitsOf(t) \in Seq(Nat) /\ Len(DigitsOf(t)) = Len(t)
             /\ \A i \in 1..Len(t) : DigitsOf(t)[i] = Digit[t[i]]
  <2>1. DOMAIN t = 1..Len(t) /\ Len(t) \in Nat /\ \A i \in 1..Len(t) : t[i] \in Range(Digits)
    BY DEF Texts
  <2>2. \A i \in 1..Len(t) : Digit[t[i]] \in Nat
    BY <2>1, DigitsThere
  <2>3. DigitsOf(t) = [i \in 1..Len(t) |-> Digit[t[i]]]
    BY <2>1 DEF DigitsOf
  <2> QED BY <2>1, <2>2, <2>3
<1> DEFINE t == Append(s, c)
<1>2. /\ t \in Texts /\ t # <<>> /\ Len(t) = Len(s) + 1 /\ Len(s) \in Nat
      /\ \A i \in 1..Len(s) : t[i] = s[i]
      /\ t[Len(s) + 1] = c
  BY AppendProperties DEF Texts
<1>3. Digit[c] \in Nat
  BY DigitsThere
<1> HIDE DEF t
<1>4. DigitsOf(t) = Append(DigitsOf(s), Digit[c])
  <2> DEFINE u == DigitsOf(t)
             v == Append(DigitsOf(s), Digit[c])
  <2>1. u \in Seq(Nat) /\ Len(u) = Len(s) + 1 /\ \A i \in 1..(Len(s) + 1) : u[i] = Digit[t[i]]
    BY <1>1, <1>2
  <2>2. /\ v \in Seq(Nat) /\ Len(v) = Len(s) + 1 /\ v[Len(s) + 1] = Digit[c]
        /\ \A i \in 1..Len(s) : v[i] = Digit[s[i]]
    BY <1>1, <1>3, AppendProperties
  <2> HIDE DEF u, v
  <2>3. ASSUME NEW i \in 1..(Len(s) + 1) PROVE u[i] = v[i]
    <3>1. CASE i = Len(s) + 1
      BY <1>2, <2>1, <2>2, <3>1
    <3>2. CASE i # Len(s) + 1
      <4>1. i \in 1..Len(s)
        BY <1>2, <3>2
      <4> QED BY <1>2, <2>1, <2>2, <4>1
    <3> QED BY <3>1, <3>2
  <2>4. u = v
    BY <2>1, <2>2, <2>3, SeqEqual
  <2> QED BY <2>4 DEF u, v
<1> QED BY <1>1, <1>2, <1>4 DEF t

\* A number in decimal digits is read as that number: what the encoder writes for the cycle of
\* a block, and the handlers for a block and a position (strconv.Itoa and ParseInt).
THEOREM NumbersAreReadBack ==
  ASSUME NEW n \in Nat
  PROVE  /\ Decimal(n) \in Texts /\ Decimal(n) # <<>>
         /\ Value(DigitsOf(Decimal(n)), 10) = n
<1> DEFINE S == {m \in Nat : /\ Decimal(m) \in Texts /\ Decimal(m) # <<>>
                             /\ Value(DigitsOf(Decimal(m)), 10) = m}
<1>1. ASSUME NEW m \in Nat, \A k \in 0..(m - 1) : k \in S PROVE m \in S
  <2> SUFFICES /\ Decimal(m) \in Texts /\ Decimal(m) # <<>>
               /\ Value(DigitsOf(Decimal(m)), 10) = m
    OBVIOUS
  <2>1. CASE m < 10
    <3> DEFINE c == Digits[m + 1]
    <3>1. c \in Range(Digits) /\ Digit[c] = m
      BY <2>1, DigitsThere
    <3> HIDE DEF c
    <3>2. Decimal(m) = <<c>>
      BY <2>1, DecimalText DEF c
    <3>3. <<>> \in Texts /\ <<c>> = Append(<<>>, c)
      BY EmptySeq DEF Texts
    <3>4. DigitsOf(<<>>) = <<>>
      BY DEF DigitsOf
    <3>5. /\ DigitsOf(Append(<<>>, c)) = Append(<<>>, Digit[c])
          /\ Append(<<>>, c) \in Texts /\ Append(<<>>, c) # <<>>
      BY <3>1, <3>3, <3>4, DigitsAppend
    <3>6. Value(Append(<<>>, m), 10) = 10 * Value(<<>>, 10) + m /\ Value(<<>>, 10) = 0
      <4>1. <<>> \in Seq(Nat) /\ 10 \in Nat
        BY EmptySeq
      <4> QED BY <4>1, ValueOfDigits
    <3>7. Value(Append(<<>>, m), 10) = m
      BY <3>6
    <3> QED BY <3>1, <3>2, <3>3, <3>5, <3>7
  <2>2. CASE ~ (m < 10)
    <3> DEFINE c == Digits[(m % 10) + 1]
               rest == m \div 10
               s == Decimal(rest)
    <3>0. rest \in Nat /\ rest < m /\ m % 10 \in 0..9 /\ 10 * rest + (m % 10) = m
      BY <2>2
    <3>1. c \in Range(Digits) /\ Digit[c] = m % 10
      BY <3>0, DigitsThere
    <3>2. Decimal(m) = Append(s, c)
      BY <2>2, DecimalText
    <3> HIDE DEF c, rest, s
    <3>3. s \in Texts /\ Value(DigitsOf(s), 10) = rest
      <4>1. rest \in 0..(m - 1)
        BY <3>0
      <4>2. rest \in S
        BY <1>1, <4>1
      <4> QED BY <4>2 DEF s
    <3> HIDE DEF S
    <3>4. /\ DigitsOf(s) \in Seq(Nat) /\ DigitsOf(Append(s, c)) = Append(DigitsOf(s), Digit[c])
          /\ Append(s, c) \in Texts /\ Append(s, c) # <<>>
      BY <3>1, <3>3, DigitsAppend
    <3>5. Value(Append(DigitsOf(s), m % 10), 10) = 10 * Value(DigitsOf(s), 10) + (m % 10)
      <4>1. 10 \in Nat /\ m % 10 \in Nat
        BY <3>0
      <4> QED BY <3>4, <4>1, ValueOfDigits
    <3>6. Value(Append(DigitsOf(s), m % 10), 10) = m
      BY <3>0, <3>3, <3>5
    <3> QED BY <3>1, <3>2, <3>4, <3>6
  <2> QED BY <2>1, <2>2
<1> HIDE DEF S
<1>2. Nat \subseteq S
  BY <1>1, CourseOfValues
<1> QED BY <1>2 DEF S

LEMMA LetterNumbers ==
  /\ \A c \in Range(Letters) : LetterNumber(c) \in 1..Len(Letters)
  /\ \A i \in 1..Len(Letters) : Letters[i] \in Range(Letters) /\ LetterNumber(Letters[i]) = i
<1>1. DOMAIN Letters = 1..Len(Letters)
  BY LettersThere
<1>2. \A c \in Range(Letters) : \E i \in DOMAIN Letters : Letters[i] = c
  BY DEF Range
<1>3. \A i \in DOMAIN Letters : Letters[i] \in Range(Letters)
  BY DEF Range
<1>4. \A i, j \in DOMAIN Letters : Letters[i] = Letters[j] => i = j
  BY LettersAssumption
<1> QED BY <1>1, <1>2, <1>3, <1>4 DEF LetterNumber

LEMMA LettersAppend ==
  ASSUME NEW s \in LetterTexts, NEW c \in Range(Letters)
  PROVE  /\ LettersOf(s) \in Seq(Nat) /\ Len(LettersOf(s)) = Len(s)
         /\ LettersOf(Append(s, c)) = Append(LettersOf(s), LetterNumber(c))
         /\ Append(s, c) \in LetterTexts /\ Append(s, c) # <<>>
<1>1. ASSUME NEW t \in LetterTexts
      PROVE  /\ LettersOf(t) \in Seq(Nat) /\ Len(LettersOf(t)) = Len(t)
             /\ \A i \in 1..Len(t) : LettersOf(t)[i] = LetterNumber(t[i])
  <2>1. DOMAIN t = 1..Len(t) /\ Len(t) \in Nat /\ \A i \in 1..Len(t) : t[i] \in Range(Letters)
    BY DEF LetterTexts
  <2>2. \A i \in 1..Len(t) : LetterNumber(t[i]) \in Nat
    BY <2>1, LetterNumbers, LettersThere
  <2>3. LettersOf(t) = [i \in 1..Len(t) |-> LetterNumber(t[i])]
    BY <2>1 DEF LettersOf
  <2> QED BY <2>1, <2>2, <2>3
<1> DEFINE t == Append(s, c)
<1>2. /\ t \in LetterTexts /\ t # <<>> /\ Len(t) = Len(s) + 1 /\ Len(s) \in Nat
      /\ \A i \in 1..Len(s) : t[i] = s[i]
      /\ t[Len(s) + 1] = c
  BY AppendProperties DEF LetterTexts
<1>3. LetterNumber(c) \in Nat
  BY LetterNumbers, LettersThere
<1> HIDE DEF t
<1>4. LettersOf(t) = Append(LettersOf(s), LetterNumber(c))
  <2> DEFINE u == LettersOf(t)
             v == Append(LettersOf(s), LetterNumber(c))
  <2>1. u \in Seq(Nat) /\ Len(u) = Len(s) + 1 /\ \A i \in 1..(Len(s) + 1) : u[i] = LetterNumber(t[i])
    BY <1>1, <1>2
  <2>2. /\ v \in Seq(Nat) /\ Len(v) = Len(s) + 1 /\ v[Len(s) + 1] = LetterNumber(c)
        /\ \A i \in 1..Len(s) : v[i] = LetterNumber(s[i])
    BY <1>1, <1>3, AppendProperties
  <2> HIDE DEF u, v
  <2>3. ASSUME NEW i \in 1..(Len(s) + 1) PROVE u[i] = v[i]
    <3>1. CASE i = Len(s) + 1
      BY <1>2, <2>1, <2>2, <3>1
    <3>2. CASE i # Len(s) + 1
      <4>1. i \in 1..Len(s)
        BY <1>2, <3>2
      <4> QED BY <1>2, <2>1, <2>2, <4>1
    <3> QED BY <3>1, <3>2
  <2>4. u = v
    BY <2>1, <2>2, <2>3, SeqEqual
  <2> QED BY <2>4 DEF u, v
<1> QED BY <1>1, <1>2, <1>4 DEF t

LEMMA LastLetter ==
  ASSUME NEW base \in Nat \ {0}, NEW m \in Nat, m # 0
  PROVE  /\ (m - 1) \div base \in Nat /\ ((m - 1) % base) + 1 \in 1..base
         /\ base * ((m - 1) \div base) + (((m - 1) % base) + 1) = m
         /\ (m - 1) \div base < m
<1> DEFINE n == m - 1
<1>1. n \in Nat
  OBVIOUS
<1>2. /\ n \div base \in Nat /\ n % base \in 0..(base - 1)
      /\ base * (n \div base) + (n % base) = n /\ n \div base <= n
  <2> HIDE DEF n
  <2> QED BY <1>1, SMT
<1> QED BY <1>2

\* The letters that stand for a position are read as that position (encodePosition and
\* decodePosition): the code without a zero gives every position letters of its own, for any
\* list of letters.
THEOREM PositionsAreReadBack ==
  ASSUME NEW pos \in Nat
  PROVE  /\ EncodePosition(pos) \in LetterTexts
         /\ Value(LettersOf(EncodePosition(pos)), Len(Letters)) = pos
         /\ pos > 0 => EncodePosition(pos) # <<>> /\ DecodePosition(EncodePosition(pos)) = pos
<1> DEFINE S == {m \in Nat : /\ EncodePosition(m) \in LetterTexts
                             /\ m > 0 => EncodePosition(m) # <<>>
                             /\ Value(LettersOf(EncodePosition(m)), Len(Letters)) = m}
           base == Len(Letters)
<1>0. base \in Nat \ {0}
  BY LettersThere
<1>1. ASSUME NEW m \in Nat, \A k \in 0..(m - 1) : k \in S PROVE m \in S
  <2> SUFFICES /\ EncodePosition(m) \in LetterTexts
               /\ m > 0 => EncodePosition(m) # <<>>
               /\ Value(LettersOf(EncodePosition(m)), Len(Letters)) = m
    OBVIOUS
  <2>1. CASE m = 0
    <3>1. EncodePosition(m) = <<>>
      BY <2>1, PositionText
    <3>2. LettersOf(<<>>) = <<>>
      BY DEF LettersOf
    <3>3. <<>> \in LetterTexts
      BY EmptySeq DEF LetterTexts
    <3> QED BY <1>0, <2>1, <3>1, <3>2, <3>3, ValueOfDigits
  <2>2. CASE m # 0
    <3> DEFINE number == ((m - 1) % base) + 1
               rest == (m - 1) \div base
               c == Letters[number]
               s == EncodePosition(rest)
    <3>0. /\ rest \in Nat /\ number \in 1..base /\ base * rest + number = m /\ rest < m
      BY <1>0, <2>2, LastLetter
    <3>1. c \in Range(Letters) /\ LetterNumber(c) = number
      BY <3>0, LetterNumbers
    <3>2. EncodePosition(m) = Append(s, c)
      BY <2>2, PositionText
    <3> HIDE DEF c, rest, s, number
    <3>3. s \in LetterTexts /\ Value(LettersOf(s), base) = rest
      <4>1. rest \in 0..(m - 1)
        BY <3>0
      <4>2. rest \in S
        BY <1>1, <4>1
      <4> QED BY <4>2 DEF s
    <3> HIDE DEF S, base
    <3>4. /\ LettersOf(s) \in Seq(Nat) /\ LettersOf(Append(s, c)) = Append(LettersOf(s), LetterNumber(c))
          /\ Append(s, c) \in LetterTexts /\ Append(s, c) # <<>>
      BY <3>1, <3>3, LettersAppend
    <3>5. Value(Append(LettersOf(s), number), base) = base * Value(LettersOf(s), base) + number
      <4>1. base \in Nat /\ number \in Nat
        BY <1>0, <3>0
      <4> QED BY <3>4, <4>1, ValueOfDigits
    <3>6. Value(Append(LettersOf(s), number), base) = m
      BY <3>0, <3>3, <3>5
    <3> QED BY <3>1, <3>2, <3>4, <3>6 DEF base
  <2> QED BY <2>1, <2>2
<1> HIDE DEF S
<1>2. pos \in S
  <2>1. Nat \subseteq S
    BY <1>1, CourseOfValues
  <2> QED BY <2>1
<1>3. /\ EncodePosition(pos) \in LetterTexts
      /\ pos > 0 => EncodePosition(pos) # <<>>
      /\ Value(LettersOf(EncodePosition(pos)), Len(Letters)) = pos
  BY <1>2 DEF S
<1> DEFINE text == EncodePosition(pos)
<1> HIDE DEF text
<1>4. \A i \in DOMAIN text : IsLetter(text[i])
  <2>1. text \in Seq(Range(Letters))
    BY <1>3 DEF text, LetterTexts
  <2> QED BY <2>1 DEF IsLetter
<1>5. text # <<>> => DecodePosition(text) = Value(LettersOf(text), Len(Letters))
  BY <1>4 DEF DecodePosition, LettersOf
<1> QED BY <1>3, <1>5 DEF text

LEMMA TextsAreCharacters ==
  ASSUME NEW s, s \in Texts \/ s \in LetterTexts
  PROVE  s \in Seq(Characters)
<1>1. Range(Digits) \subseteq Characters /\ Range(Letters) \subseteq Characters
  BY DigitsThere DEF Characters
<1> QED BY <1>1, SeqMonotonic DEF Texts, LetterTexts

\* Digits are read up to the first letter.
LEMMA DigitsEndAtLetters ==
  ASSUME NEW s \in Texts, NEW t \in LetterTexts
  PROVE  /\ LeadingDigits(s \o t) = Len(s)
         /\ From(s \o t, LeadingDigits(s \o t) + 1) = t
         /\ Scan(s \o t) = IF s = <<>> THEN Nothing ELSE Value(DigitsOf(s), 10)
<1> DEFINE text == s \o t
<1>1. /\ s \in Seq(Characters) /\ t \in Seq(Characters) /\ text \in Seq(Characters)
      /\ Len(s) \in Nat /\ Len(t) \in Nat /\ Len(text) = Len(s) + Len(t)
      /\ \A i \in 1..(Len(s) + Len(t)) : text[i] = IF i <= Len(s) THEN s[i] ELSE t[i - Len(s)]
      /\ SubSeq(text, Len(s) + 1, Len(text)) = t
  BY TextsAreCharacters, PrefixAndRest, ConcatProperties
<1>2. \A i \in 1..Len(s) : text[i] = s[i] /\ s[i] \in Range(Digits)
  BY <1>1 DEF Texts
<1>3. Len(s) < Len(text) => text[Len(s) + 1] \notin Range(Digits)
  <2> SUFFICES ASSUME Len(s) < Len(text) PROVE text[Len(s) + 1] \notin Range(Digits)
    OBVIOUS
  <2>1. Len(s) + 1 \in 1..(Len(s) + Len(t)) /\ ~ (Len(s) + 1 <= Len(s))
        /\ (Len(s) + 1) - Len(s) = 1 /\ 1 \in 1..Len(t)
    BY <1>1
  <2>2. text[Len(s) + 1] = t[1]
    BY <1>1, <2>1
  <2>3. t[1] \in Range(Letters)
    BY <2>1, ElementOfSeq DEF LetterTexts
  <2> QED BY <2>2, <2>3, LettersAssumption
<1> HIDE DEF text
<1>4. LeadingDigits(text) = Len(s)
  <2> DEFINE Ends(i) == /\ \A j \in 1..i : text[j] \in DOMAIN Digit
                        /\ i < Len(text) => text[i + 1] \notin DOMAIN Digit
  <2>1. Len(s) \in 0..Len(text) /\ Ends(Len(s))
    BY <1>1, <1>2, <1>3, DigitsThere
  <2>2. ASSUME NEW i \in 0..Len(text), Ends(i) PROVE i = Len(s)
    <3>1. CASE i < Len(s)
      <4>1. i + 1 \in 1..Len(s) /\ i < Len(text)
        BY <1>1, <3>1
      <4> QED BY <1>2, <2>2, <4>1, DigitsThere
    <3>2. CASE i > Len(s)
      <4>1. Len(s) + 1 \in 1..i /\ Len(s) < Len(text)
        BY <1>1, <3>2
      <4> QED BY <1>3, <2>2, <4>1, DigitsThere
    <3> QED BY <1>1, <3>1, <3>2
  <2> HIDE DEF Ends
  <2>3. \E i \in 0..Len(text) : Ends(i)
    BY <2>1
  <2>4. LeadingDigits(text) = CHOOSE i \in 0..Len(text) : Ends(i)
    BY DEF LeadingDigits, Ends
  <2> QED BY <2>2, <2>3, <2>4
<1>5. From(text, LeadingDigits(text) + 1) = t
  BY <1>1, <1>4 DEF From
<1>6. Scan(text) = IF s = <<>> THEN Nothing ELSE Value(DigitsOf(s), 10)
  <2>1. Len(s) = 0 <=> s = <<>>
    BY EmptySeq DEF Texts
  <2>2. DOMAIN s = 1..Len(s)
    BY <1>1
  <2>3. [i \in 1..Len(s) |-> Digit[text[i]]] = DigitsOf(s)
    BY <1>2, <2>2 DEF DigitsOf
  <2> QED BY <1>4, <2>1, <2>3 DEF Scan
<1> QED BY <1>4, <1>5, <1>6 DEF text

\* A number is scanned as that number.
LEMMA NumberIsScanned ==
  ASSUME NEW n \in Nat PROVE Scan(Decimal(n)) = n
<1>1. Decimal(n) \in Texts /\ Decimal(n) # <<>> /\ Value(DigitsOf(Decimal(n)), 10) = n
  BY NumbersAreReadBack
<1>2. <<>> \in LetterTexts
  BY EmptySeq DEF LetterTexts
<1>3. Decimal(n) \o <<>> = Decimal(n)
  BY <1>1, ConcatEmptySeq DEF Texts
<1>4. Scan(Decimal(n) \o <<>>) = Value(DigitsOf(Decimal(n)), 10)
  BY <1>1, <1>2, DigitsEndAtLetters
<1> QED BY <1>1, <1>3, <1>4

\* The parser of block numbers, which adds up numbers with multipliers after them
\* (parseBlockWithShorthand), reads a number without any as that number, and zero as no number.
THEOREM BlockNumbersAreReadBack ==
  ASSUME NEW n \in Nat
  PROVE  ParseBlock(Decimal(n)) = IF n = 0 THEN Nothing ELSE n
<1> DEFINE s == Decimal(n)
           digits == DigitsOf(s)
           step(acc, c) ==
                IF acc = Nothing THEN Nothing
                ELSE IF c \in DOMAIN Digit
                     THEN [acc EXCEPT !.num = (IF @ = Nothing THEN 0 ELSE 10 * @) + Digit[c]]
                ELSE IF c \in DOMAIN Multipliers
                     THEN [sum |-> acc.sum + (IF acc.num = Nothing THEN 1 ELSE acc.num) * Multipliers[c],
                           num |-> Nothing]
                ELSE Nothing
           Reads(read) == read = [i \in 0..Len(s) |->
                IF i = 0 THEN [sum |-> 0, num |-> Nothing] ELSE step(read[i - 1], s[i])]
           read == CHOOSE read : Reads(read)
           end == read[Len(s)]
           total == end.sum + (IF end.num = Nothing THEN 0 ELSE end.num)
<1>1. /\ s \in Texts /\ s # <<>> /\ Value(digits, 10) = n
      /\ Len(s) \in Nat \ {0} /\ DOMAIN s = 1..Len(s) /\ \A i \in 1..Len(s) : s[i] \in Range(Digits)
  BY NumbersAreReadBack, EmptySeq DEF Texts
<1>2. ParseBlock(s) = IF end = Nothing THEN Nothing ELSE IF total = 0 THEN Nothing ELSE total
  BY DEF ParseBlock
<1>3. /\ digits \in Seq(Nat) /\ Len(digits) = Len(s)
      /\ \A i \in 1..Len(s) : digits[i] = Digit[s[i]] /\ Digit[s[i]] \in Nat
  <2>1. digits = [i \in 1..Len(s) |-> Digit[s[i]]]
    BY <1>1 DEF DigitsOf
  <2>2. \A i \in 1..Len(s) : Digit[s[i]] \in Nat
    BY <1>1, DigitsThere
  <2> HIDE DEF s, digits
  <2> QED BY <1>1, <2>1, <2>2
<1> HIDE DEF s, digits, read
<1>4. PICK sum : AddsUp(sum, digits, 10) /\ Value(digits, 10) = sum[Len(digits)]
  BY <1>3, SumsExist
<1>5. \A i \in 0..Len(s) : /\ sum[i] \in Nat
                           /\ sum[i] = IF i = 0 THEN 0 ELSE 10 * sum[i - 1] + Digit[s[i]]
  <2>1. \A i \in 0..Len(s) : sum[i] \in Nat
    BY <1>1, <1>3, <1>4, SumsAgree
  <2>2. \A i \in 0..Len(s) : sum[i] = IF i = 0 THEN 0 ELSE 10 * sum[i - 1] + digits[i]
    BY <1>3, <1>4, Zenon DEF AddsUp
  <2>3. \A i \in 0..Len(s) : i # 0 => i \in 1..Len(s)
    BY <1>1
  <2> QED BY <1>3, <2>1, <2>2, <2>3
<1> DEFINE Num(i) == IF i = 0 THEN Nothing ELSE sum[i]
           known == [i \in 0..Len(s) |-> [sum |-> 0, num |-> Num(i)]]
<1>6. ASSUME NEW i \in 1..Len(s), NEW acc, acc = [sum |-> 0, num |-> Num(i - 1)]
      PROVE  step(acc, s[i]) = [sum |-> 0, num |-> Num(i)]
  <2>1. i \in 0..Len(s) /\ i - 1 \in 0..Len(s) /\ i # 0
    BY <1>1
  <2>2. sum[i] = 10 * sum[i - 1] + Digit[s[i]] /\ sum[i - 1] \in Nat /\ sum[i] \in Nat
    BY <1>5, <2>1
  <2>3. (IF Num(i - 1) = Nothing THEN 0 ELSE 10 * Num(i - 1)) + Digit[s[i]] = sum[i]
    <3>1. CASE i - 1 = 0
      <4>1. sum[i - 1] = 0
        BY <1>5, <2>1, <3>1
      <4>2. Digit[s[i]] \in Nat
        BY <1>3
      <4>3. Num(i - 1) = Nothing
        BY <3>1
      <4> HIDE DEF Num
      <4> QED BY <2>2, <4>1, <4>2, <4>3
    <3>2. CASE i - 1 # 0
      <4>1. Num(i - 1) = sum[i - 1]
        BY <3>2
      <4>2. Num(i - 1) # Nothing
        BY <2>2, <4>1, NothingAssumption
      <4> HIDE DEF Num
      <4> QED BY <2>2, <4>1, <4>2
    <3> QED BY <3>1, <3>2
  <2>4. s[i] \in DOMAIN Digit
    BY <1>1, DigitsThere
  <2>5. acc # Nothing
    <3>1. Num(i - 1) \in Nat \union {Nothing}
      BY <2>2
    <3>2. acc \in [sum : Nat, num : Nat \union {Nothing}]
      BY <1>6, <3>1
    <3> QED BY <3>2, NothingAssumption
  <2>6. step(acc, s[i]) = [acc EXCEPT !.num = (IF @ = Nothing THEN 0 ELSE 10 * @) + Digit[s[i]]]
    BY <2>4, <2>5
  <2>7. acc.num = Num(i - 1)
    BY <1>6
  <2>8. Num(i) = sum[i]
    BY <2>1
  <2> HIDE DEF Num, step
  <2>9. step(acc, s[i]) = [acc EXCEPT !.num = sum[i]]
    BY <2>3, <2>6, <2>7
  <2> QED BY <1>6, <2>8, <2>9
<1>7. Reads(known)
  <2>1. ASSUME NEW i \in 0..Len(s)
        PROVE  known[i] = IF i = 0 THEN [sum |-> 0, num |-> Nothing] ELSE step(known[i - 1], s[i])
    <3>1. CASE i = 0
      BY <3>1
    <3>2. CASE i # 0
      <4>1. i \in 1..Len(s) /\ i - 1 \in 0..Len(s)
        BY <1>1, <3>2
      <4>2. known[i - 1] = [sum |-> 0, num |-> Num(i - 1)] /\ known[i] = [sum |-> 0, num |-> Num(i)]
        BY <4>1
      <4> HIDE DEF known, step, Num
      <4> QED BY <1>6, <3>2, <4>1, <4>2
    <3> QED BY <3>1, <3>2
  <2>2. known = [i \in 0..Len(s) |-> known[i]]
    OBVIOUS
  <2> HIDE DEF known, step
  <2> QED BY <2>1, <2>2
<1>8. Reads(read)
  BY <1>7, Zenon DEF read
<1> HIDE DEF known
<1>9. \A i \in 0..Len(s) : read[i] = [sum |-> 0, num |-> Num(i)]
  <2> DEFINE S == {i \in Nat : i <= Len(s) => read[i] = [sum |-> 0, num |-> Num(i)]}
  <2>1. \A i \in 0..Len(s) :
            read[i] = IF i = 0 THEN [sum |-> 0, num |-> Nothing] ELSE step(read[i - 1], s[i])
    <3> HIDE DEF step
    <3> QED BY <1>8, Zenon
  <2>2. ASSUME NEW i \in Nat, \A j \in 0..(i - 1) : j \in S PROVE i \in S
    <3> SUFFICES ASSUME i <= Len(s) PROVE read[i] = [sum |-> 0, num |-> Num(i)]
      OBVIOUS
    <3>1. i \in 0..Len(s)
      BY <1>1
    <3>2. CASE i = 0
      <4> HIDE DEF step, S
      <4> QED BY <2>1, <3>1, <3>2
    <3>3. CASE i # 0
      <4>1. i \in 1..Len(s) /\ i - 1 \in 0..(i - 1) /\ i - 1 <= Len(s)
        BY <1>1, <3>1, <3>3
      <4> HIDE DEF S
      <4>2. i - 1 \in S
        BY <2>2, <4>1
      <4>3. read[i - 1] = [sum |-> 0, num |-> Num(i - 1)]
        BY <4>1, <4>2 DEF S
      <4> HIDE DEF step, Num
      <4>4. step(read[i - 1], s[i]) = [sum |-> 0, num |-> Num(i)]
        BY <1>6, <4>1, <4>3
      <4> QED BY <2>1, <3>1, <3>3, <4>4
    <3> QED BY <3>2, <3>3
  <2> HIDE DEF S
  <2>3. Nat \subseteq S
    BY <2>2, CourseOfValues
  <2>4. \A i \in 0..Len(s) : i \in Nat /\ i <= Len(s)
    BY <1>1
  <2> QED BY <2>3, <2>4 DEF S
<1>10. end = [sum |-> 0, num |-> n]
  <2>1. Len(s) \in 0..Len(s) /\ Len(s) # 0
    BY <1>1
  <2>2. sum[Len(s)] = n
    BY <1>1, <1>3, <1>4
  <2>3. Num(Len(s)) = n
    BY <2>1, <2>2
  <2> HIDE DEF Num
  <2> QED BY <1>9, <2>1, <2>3
<1>11. end # Nothing
  <2>1. end \in [sum : Nat, num : Nat \union {Nothing}]
    BY <1>10
  <2> QED BY <2>1, NothingAssumption
<1>12. total = n
  <2>1. end.sum = 0 /\ end.num = n
    BY <1>10
  <2>2. n # Nothing
    BY NothingAssumption
  <2> HIDE DEF end
  <2> QED BY <2>1, <2>2
<1> HIDE DEF end, total
<1> QED BY <1>2, <1>11, <1>12 DEF s

\* A text that begins with a given character.
LEMMA FirstCharacter ==
  ASSUME NEW c \in Characters, NEW t \in Seq(Characters)
  PROVE  /\ <<c>> \o t \in Seq(Characters) /\ Len(<<c>> \o t) = Len(t) + 1 /\ Len(t) \in Nat
         /\ <<c>> \o t # <<>> /\ (<<c>> \o t)[1] = c /\ Tail(<<c>> \o t) = t
         /\ t # <<>> => (<<c>> \o t)[2] = t[1] /\ Len(t) > 0 /\ t[1] \in Range(t)
<1> DEFINE s == <<c>> \o t
<1>1. <<c>> \in Seq(Characters) /\ Len(<<c>>) = 1 /\ <<c>>[1] = c /\ Len(t) \in Nat
  OBVIOUS
<1>2. /\ s \in Seq(Characters) /\ Len(s) = 1 + Len(t)
      /\ \A i \in 1..(1 + Len(t)) : s[i] = IF i <= 1 THEN <<c>>[i] ELSE t[i - 1]
      /\ SubSeq(s, 2, Len(s)) = t
  <2>1. /\ s \in Seq(Characters) /\ Len(s) = Len(<<c>>) + Len(t)
        /\ \A i \in 1..(Len(<<c>>) + Len(t)) :
                s[i] = IF i <= Len(<<c>>) THEN <<c>>[i] ELSE t[i - Len(<<c>>)]
    BY <1>1, ConcatProperties
  <2>2. SubSeq(s, Len(<<c>>) + 1, Len(s)) = t
    BY <1>1, PrefixAndRest
  <2> HIDE DEF s
  <2> QED BY <1>1, <2>1, <2>2
<1> HIDE DEF s
<1>3. Len(s) # 0
  BY <1>1, <1>2
<1>4. s # <<>>
  BY <1>2, <1>3, EmptySeq
<1>5. Tail(s) = t
  BY <1>2, <1>4, TailIsSubSeq
<1>6. s[1] = c
  <2>1. 1 \in 1..(1 + Len(t)) /\ 1 <= 1
    BY <1>1
  <2> QED BY <1>1, <1>2, <2>1
<1>7. t # <<>> => s[2] = t[1] /\ Len(t) > 0 /\ t[1] \in Range(t)
  <2> SUFFICES ASSUME t # <<>> PROVE s[2] = t[1] /\ Len(t) > 0 /\ t[1] \in Range(t)
    OBVIOUS
  <2>1. Len(t) \in Nat \ {0} /\ DOMAIN t = 1..Len(t)
    BY EmptySeq, LenProperties
  <2>2. 2 \in 1..(1 + Len(t)) /\ ~ (2 <= 1) /\ 2 - 1 = 1 /\ 1 \in DOMAIN t
    BY <2>1
  <2>3. s[2] = t[1]
    BY <1>2, <2>2
  <2>4. t[1] \in Range(t)
    BY <2>2 DEF Range
  <2> QED BY <2>1, <2>3, <2>4
<1> QED BY <1>1, <1>2, <1>4, <1>5, <1>6, <1>7 DEF s

\* A part that is the code of an ID.
IsCode(s, id) ==
    StartsID(s) /\ Len(s) > 1 /\ s[1] = "n" /\ HasLetters(Tail(s)) /\ Decode(s) = id

\* The DNN ID of every block and position is read back as that block and position (Encode,
\* Decode), whatever the lists of letters and words are, and in whatever cycle the block is.
THEOREM IDsAreReadBack ==
  ASSUME NEW block \in Nat, NEW pos \in Nat \ {0}
  PROVE  Decode(Encode(block, pos)) = <<block, pos>> /\ IsCode(Encode(block, pos), <<block, pos>>)
<1> DEFINE inCycle == block % CycleSize
           w1 == Wordlist[(inCycle \div Base) + 1]
           w2 == Wordlist[(inCycle % Base) + 1]
           cycle == IF block >= CycleSize THEN Decimal(block \div CycleSize) ELSE <<>>
           letters == EncodePosition(pos)
           numbers == cycle \o letters
           code == Encode(block, pos)
<1>1. /\ (inCycle \div Base) + 1 \in DOMAIN Wordlist /\ (inCycle % Base) + 1 \in DOMAIN Wordlist
      /\ block \div CycleSize \in Nat
  BY BlockAddsUp, Zenon
<1>2. /\ w1 \in Seq(Characters) /\ w1 # <<>> /\ w2 \in Seq(Characters)
      /\ w1 \in Seq(Range(Letters))
  BY <1>1, WordsAreTexts, WordlistAssumption, ElementOfSeq
<1>3. letters \in LetterTexts /\ DecodePosition(letters) = pos
  BY PositionsAreReadBack
<1>4. /\ cycle \in Texts
      /\ block >= CycleSize => cycle # <<>> /\ Value(DigitsOf(cycle), 10) = block \div CycleSize
      /\ ~ (block >= CycleSize) => cycle = <<>>
  <2>1. <<>> \in Texts
    BY EmptySeq DEF Texts
  <2> QED BY <1>1, <2>1, NumbersAreReadBack
<1>5. cycle \in Seq(Characters) /\ letters \in Seq(Characters) /\ numbers \in Seq(Characters)
  BY <1>3, <1>4, TextsAreCharacters, PrefixAndRest
<1>6. /\ Scan(numbers) = IF cycle = <<>> THEN Nothing ELSE Value(DigitsOf(cycle), 10)
      /\ From(numbers, LeadingDigits(numbers) + 1) = letters
  BY <1>3, <1>4, DigitsEndAtLetters
<1>7. Scan(numbers) = IF block >= CycleSize THEN block \div CycleSize ELSE Nothing
  <2> HIDE DEF cycle, letters, numbers
  <2> QED BY <1>4, <1>6
<1>8. code = <<"n">> \o w1 \o w2 \o numbers
  <2>1. code = ((((<<"n">> \o w1) \o w2) \o cycle) \o letters)
    BY DEF Encode
  <2>2. <<"n">> \in Seq(Characters)
    BY WordlistAssumption DEF Characters
  <2> HIDE DEF code, cycle, letters, w1, w2
  <2>3. (<<"n">> \o w1) \o w2 \in Seq(Characters)
    BY <1>2, <2>2, PrefixAndRest
  <2> DEFINE words == (<<"n">> \o w1) \o w2
  <2>4. words \in Seq(Characters) /\ code = (words \o cycle) \o letters
    BY <2>1, <2>3
  <2> HIDE DEF words
  <2>5. (words \o cycle) \o letters = words \o (cycle \o letters)
    BY <1>5, <2>4, ConcatAssociative
  <2> QED BY <2>4, <2>5 DEF words
<1>9. Decode(code) = <<block, pos>>
  <2>1. pos # Nothing
    BY NothingAssumption
  <2>2. DecodePosition(From(numbers, LeadingDigits(numbers) + 1)) = pos
    BY <1>3, <1>6
  <2> HIDE DEF numbers, code
  <2> QED BY <1>5, <1>7, <1>8, <2>1, <2>2, BlocksAreReadBack
<1>10. StartsID(code) /\ Len(code) > 1 /\ code[1] = "n" /\ HasLetters(Tail(code))
  <2> DEFINE rest == w1 \o (w2 \o numbers)
  <2>1. "n" \in Characters /\ <<"n">> \in Seq(Characters)
    BY WordlistAssumption DEF Characters
  <2> HIDE DEF code, numbers, w1, w2
  <2>2. w2 \o numbers \in Seq(Characters) /\ rest \in Seq(Characters)
    BY <1>2, <1>5, PrefixAndRest
  <2>3. code = <<"n">> \o rest
    <3>1. <<"n">> \o w1 \in Seq(Characters)
      BY <1>2, <2>1, PrefixAndRest
    <3> DEFINE start == <<"n">> \o w1
    <3>2. code = (start \o w2) \o numbers
      BY <1>8
    <3> HIDE DEF start
    <3>3. (start \o w2) \o numbers = start \o (w2 \o numbers)
      BY <1>2, <1>5, <3>1, ConcatAssociative DEF start
    <3>4. start \o (w2 \o numbers) = <<"n">> \o rest
      BY <1>2, <2>1, <2>2, ConcatAssociative DEF start
    <3> QED BY <3>2, <3>3, <3>4
  <2>4. 1 \in DOMAIN rest /\ rest[1] \in Range(Letters) /\ Len(rest) > 0 /\ Len(rest) \in Nat
    <3>1. Len(w1) \in Nat \ {0} /\ Len(w2 \o numbers) \in Nat
      BY <1>2, <2>2, EmptySeq, LenProperties
    <3>2. /\ Len(rest) = Len(w1) + Len(w2 \o numbers) /\ DOMAIN rest = 1..Len(rest)
          /\ \A i \in 1..(Len(w1) + Len(w2 \o numbers)) :
                rest[i] = IF i <= Len(w1) THEN w1[i] ELSE (w2 \o numbers)[i - Len(w1)]
      BY <1>2, <2>2, ConcatProperties, LenProperties
    <3> HIDE DEF rest
    <3>3. 1 \in 1..(Len(w1) + Len(w2 \o numbers)) /\ 1 \in 1..Len(w1) /\ 1 <= Len(w1)
      BY <3>1
    <3>4. rest[1] = w1[1] /\ w1[1] \in Range(Letters)
      BY <1>2, <3>2, <3>3, ElementOfSeq
    <3> QED BY <3>1, <3>2, <3>3, <3>4
  <2> HIDE DEF rest
  <2>5. code # <<>> /\ code[1] = "n" /\ Tail(code) = rest /\ Len(code) = Len(rest) + 1
    BY <2>1, <2>2, <2>3, FirstCharacter
  <2>6. HasLetters(Tail(code))
    BY <2>4, <2>5 DEF HasLetters, IsLetter
  <2>7. Len(code) > 1
    BY <2>4, <2>5
  <2> QED BY <2>5, <2>6, <2>7 DEF StartsID
<1> QED BY <1>9, <1>10 DEF code, IsCode

\* A part with the number of a block.
IsNumber(s, block) ==
    StartsID(s) /\ ~ HasLetters(Tail(s)) /\ IsBlockSpec(s) /\ NumberedBlock(s) = block

LEMMA PartsWithNumbers ==
  ASSUME NEW c \in {"n", "b"}, NEW number \in Nat \ {0}
  PROVE  IsNumber(<<c>> \o Decimal(number), IF c = "n" THEN number ELSE number - Genesis)
<1> DEFINE t == Decimal(number)
           s == <<c>> \o t
<1>1. t \in Texts /\ t # <<>>
  BY NumbersAreReadBack
<1>2. c \in Characters
  BY WordlistAssumption DEF Characters
<1>3. t \in Seq(Characters)
  BY <1>1, TextsAreCharacters
<1> HIDE DEF t
<1>4. /\ s # <<>> /\ s[1] = c /\ Tail(s) = t /\ Len(s) = Len(t) + 1 /\ Len(t) \in Nat
      /\ s[2] = t[1] /\ Len(t) > 0 /\ t[1] \in Range(t)
  BY <1>1, <1>2, <1>3, FirstCharacter
<1> HIDE DEF s
<1>5. \A i \in DOMAIN t : t[i] \in Range(Digits)
  BY <1>1 DEF Texts
<1>6. StartsID(s)
  BY <1>4 DEF StartsID
<1>7. ~ HasLetters(Tail(s))
  BY <1>4, <1>5, LettersAssumption DEF HasLetters, IsLetter
<1>8. IsBlockSpec(s)
  <2>1. Len(s) >= 2
    BY <1>4
  <2>2. t[1] \in DOMAIN Digit
    BY <1>4, <1>5, DigitsThere DEF Range
  <2> QED BY <1>4, <1>6, <2>1, <2>2 DEF IsBlockSpec
<1>9. ParseBlock(Tail(s)) = number
  BY <1>4, BlockNumbersAreReadBack DEF t
<1>10. number # Nothing
  BY NothingAssumption
<1>11. NumberedBlock(s) = IF c = "n" THEN number ELSE number - Genesis
  BY <1>4, <1>9, <1>10, Zenon DEF NumberedBlock
<1> QED BY <1>6, <1>7, <1>8, <1>11 DEF IsNumber, s, t

-----------------------------------------------------------------------------
(* The names in requests: the node understands the texts by which it calls *)
(* an ID, with and without a name before them.                             *)

Queries == [name : Seq(STRING), block : Int, pos : Nat]

\* A query for the ID, under whatever name.
AsksFor(query, id) ==
    query \in Queries /\ query.block = id[1] /\ query.pos = id[2]

LEMMA QueryOfID ==
  ASSUME NEW name \in Seq(STRING), NEW id \in Nat \X (Nat \ {0})
  PROVE  AsksFor(Query(name, id[1], id[2]), id) /\ Query(name, id[1], id[2]) # Nothing
<1>1. id[1] \in Int /\ id[2] \in Nat
  OBVIOUS
<1>2. Query(name, id[1], id[2]) \in Queries
  BY <1>1 DEF Query, Queries
<1>3. Query(name, id[1], id[2]).block = id[1] /\ Query(name, id[1], id[2]).pos = id[2]
  BY DEF Query
<1> QED BY <1>2, <1>3, NothingAssumption DEF AsksFor, Queries

LEMMA CodesAreParsed ==
  ASSUME NEW id \in Nat \X (Nat \ {0}), NEW s, IsCode(s, id)
  PROVE  /\ AsksFor(ParseDNNName(<<s>>), id)
         /\ \A name \in Seq(STRING) : ~ StartsID(name) => AsksFor(ParseDNNName(<<name, s>>), id)
<1>1. id # Nothing
  BY NothingAssumption
<1>2. \A name : ByCode(name, s) = Query(name, id[1], id[2])
  BY <1>1 DEF ByCode, IsCode
<1>3. <<>> \in Seq(STRING)
  BY EmptySeq
<1>4. ParseDNNName(<<s>>) = Query(<<>>, id[1], id[2])
  <2>1. Len(<<s>>) = 1 /\ <<s>>[1] = s
    OBVIOUS
  <2>2. ParseDNNName(<<s>>) = ParseOnePart(s)
    BY <2>1, Zenon DEF ParseDNNName
  <2>3. ParseOnePart(s) = ByCode(<<>>, s)
    BY DEF ParseOnePart, IsCode
  <2> QED BY <1>2, <2>2, <2>3
<1>5. ASSUME NEW name \in Seq(STRING), ~ StartsID(name)
      PROVE  ParseDNNName(<<name, s>>) = Query(name, id[1], id[2])
  <2>1. Len(<<name, s>>) # 1 /\ <<name, s>>[1] = name /\ <<name, s>>[2] = s
    OBVIOUS
  <2>2. ParseDNNName(<<name, s>>) = ParseNamed(<<name, s>>)
    BY <1>5, <2>1, Zenon DEF ParseDNNName
  <2>3. StartsID(s) /\ s[1] = "n" /\ HasLetters(Tail(s))
    BY DEF IsCode
  <2>4. ParseNamed(<<name, s>>) = ByCode(name, s)
    BY <2>1, <2>3, Zenon DEF ParseNamed
  <2> QED BY <1>2, <2>2, <2>4
<1> QED BY <1>3, <1>4, <1>5, QueryOfID

LEMMA NumbersAreParsed ==
  ASSUME NEW id \in Nat \X (Nat \ {0}), NEW s, IsNumber(s, id[1]), NEW p, Scan(p) = id[2]
  PROVE  /\ AsksFor(ParseDNNName(<<s, p>>), id)
         /\ \A name \in Seq(STRING) : ~ StartsID(name) => AsksFor(ParseDNNName(<<name, s, p>>), id)
<1>1. id[1] # Nothing /\ id[2] # Nothing
  BY NothingAssumption
<1>2. \A name : ByNumber(name, s, p) = Query(name, id[1], id[2])
  BY <1>1 DEF ByNumber, IsNumber
<1>3. <<>> \in Seq(STRING)
  BY EmptySeq
<1>4. StartsID(s) /\ ~ HasLetters(Tail(s))
  BY DEF IsNumber
<1>5. ParseDNNName(<<s, p>>) = Query(<<>>, id[1], id[2])
  <2>1. Len(<<s, p>>) # 1 /\ <<s, p>>[1] = s /\ <<s, p>>[2] = p
    OBVIOUS
  <2>2. ParseDNNName(<<s, p>>) = ByNumber(<<>>, s, p)
    BY <1>4, <2>1, Zenon DEF ParseDNNName
  <2> QED BY <1>2, <2>2
<1>6. ASSUME NEW name \in Seq(STRING), ~ StartsID(name)
      PROVE  ParseDNNName(<<name, s, p>>) = Query(name, id[1], id[2])
  <2> DEFINE parts == <<name, s, p>>
  <2>1. Len(parts) = 3 /\ parts[1] = name /\ parts[2] = s /\ parts[3] = p
    OBVIOUS
  <2>2. Len(parts) # 1
    BY <2>1
  <2> HIDE DEF parts
  <2>3. ParseDNNName(parts) = ParseNamed(parts)
    BY <1>6, <2>1, <2>2, Zenon DEF ParseDNNName
  <2>4. ParseNamed(parts) = ByNumber(name, s, p)
    BY <1>1, <1>4, <2>1, Zenon DEF ParseNamed
  <2> QED BY <1>2, <2>3, <2>4 DEF parts
<1> QED BY <1>3, <1>5, <1>6, QueryOfID

\* The texts in numbers.
LEMMA NumericsAreNumbers ==
  ASSUME NEW id \in Nat \X (Nat \ {0}), NEW text \in Numerics(id)
  PROVE  \E s : IsNumber(s, id[1]) /\ text = <<s, Decimal(id[2])>> /\ Scan(Decimal(id[2])) = id[2]
<1>1. id[1] \in Nat /\ id[2] \in Nat /\ Genesis \in Nat
  BY WordlistAssumption
<1>2. Scan(Decimal(id[2])) = id[2]
  BY <1>1, NumberIsScanned
<1>3. CASE id[1] > 0 /\ text = Numeric(id)
  <2>1. IsNumber(<<"n">> \o Decimal(id[1]), id[1])
    BY <1>1, <1>3, PartsWithNumbers
  <2> QED BY <1>2, <1>3, <2>1 DEF Numeric
<1>4. CASE Genesis + id[1] > 0 /\ text = NumericBitcoin(id)
  <2>1. Genesis + id[1] \in Nat \ {0} /\ (Genesis + id[1]) - Genesis = id[1]
    BY <1>1, <1>4
  <2>2. "b" # "n"
    OBVIOUS
  <2>3. IsNumber(<<"b">> \o Decimal(Genesis + id[1]), (Genesis + id[1]) - Genesis)
    BY <2>1, <2>2, PartsWithNumbers
  <2> QED BY <1>2, <1>4, <2>1, <2>3 DEF NumericBitcoin
<1> QED BY <1>3, <1>4 DEF Numerics

\* What is put before one part or two.
LEMMA PartBefore ==
  ASSUME NEW a, NEW b, NEW c
  PROVE  /\ <<a>> \o <<b>> = <<a, b>> /\ Tail(<<a, b>>) = <<b>>
         /\ <<a>> \o <<b, c>> = <<a, b, c>>
<1> DEFINE S == {a, b, c}
<1>1. /\ <<a>> \in Seq(S) /\ <<b>> \in Seq(S) /\ <<b, c>> \in Seq(S)
      /\ <<a, b>> \in Seq(S) /\ <<a, b, c>> \in Seq(S)
  OBVIOUS
<1>2. Len(<<a>>) = 1 /\ Len(<<b>>) = 1 /\ Len(<<b, c>>) = 2 /\ Len(<<a, b>>) = 2
      /\ Len(<<a, b, c>>) = 3
  OBVIOUS
<1> HIDE DEF S
<1>3. <<a>> \o <<b>> = <<a, b>>
  <2> DEFINE s == <<a>> \o <<b>>
             t == <<a, b>>
  <2>1. /\ s \in Seq(S) /\ Len(s) = 1 + 1
        /\ \A i \in 1..(1 + 1) : s[i] = IF i <= 1 THEN <<a>>[i] ELSE <<b>>[i - 1]
    BY <1>1, <1>2, ConcatProperties
  <2>2. t[1] = a /\ t[2] = b /\ Len(t) = 2 /\ t \in Seq(S)
    BY <1>1, <1>2
  <2> HIDE DEF s, t
  <2>3. s[1] = a
    BY <2>1
  <2>4. s[2] = b
    BY <2>1
  <2>5. \A i \in 1..Len(s) : s[i] = t[i]
    BY <2>1, <2>2, <2>3, <2>4
  <2>6. s = t
    BY <2>1, <2>2, <2>5, SeqEqual
  <2> QED BY <2>6 DEF s, t
<1>4. <<a>> \o <<b, c>> = <<a, b, c>>
  <2> DEFINE s == <<a>> \o <<b, c>>
             t == <<a, b, c>>
  <2>1. /\ s \in Seq(S) /\ Len(s) = 1 + 2
        /\ \A i \in 1..(1 + 2) : s[i] = IF i <= 1 THEN <<a>>[i] ELSE <<b, c>>[i - 1]
    BY <1>1, <1>2, ConcatProperties
  <2>2. t[1] = a /\ t[2] = b /\ t[3] = c /\ Len(t) = 3 /\ t \in Seq(S)
    BY <1>1, <1>2
  <2> HIDE DEF s, t
  <2>3. s[1] = a
    BY <2>1
  <2>4. s[2] = b
    BY <2>1
  <2>5. s[3] = c
    BY <2>1
  <2>6. \A i \in 1..Len(s) : s[i] = t[i]
    BY <2>1, <2>2, <2>3, <2>4, <2>5
  <2>7. s = t
    BY <2>1, <2>2, <2>6, SeqEqual
  <2> QED BY <2>7 DEF s, t
<1>5. Tail(<<a, b>>) = <<b>>
  <2>1. /\ Tail(<<a, b>>) \in Seq(S) /\ Len(Tail(<<a, b>>)) = 1
        /\ \A i \in 1..1 : Tail(<<a, b>>)[i] = <<a, b>>[i + 1]
    BY <1>1, <1>2, HeadTailProperties
  <2>2. Tail(<<a, b>>)[1] = b
    BY <2>1
  <2> DEFINE t == Tail(<<a, b>>)
             u == <<b>>
  <2>3. Len(t) = 1 /\ t[1] = b /\ t \in Seq(S) /\ Len(u) = 1 /\ u[1] = b /\ u \in Seq(S)
    BY <1>1, <1>2, <2>1, <2>2
  <2> HIDE DEF t, u
  <2>4. \A i \in 1..Len(t) : t[i] = u[i]
    BY <2>3
  <2>5. t = u
    BY <2>3, <2>4, SeqEqual
  <2> QED BY <2>5 DEF t, u
<1> QED BY <1>3, <1>4, <1>5

\* Whatever text of an ID a request has, in the code or in numbers, with a name before it or
\* without, and whether or not handleResolve takes the name for a subdomain, the parser
\* returns a query for that ID (parseDNNName, handleResolve).
THEOREM TextsAreUnderstood ==
  ASSUME NEW id \in Nat \X (Nat \ {0}),
         NEW text \in {Encoded(id)} \union Numerics(id), NEW parts, IsCalled(parts, text)
  PROVE  AsksFor(ParseDNNName(parts), id) /\ AsksFor(ParseDNNName(Split(parts).name), id)
<1>1. CASE text = Encoded(id)
  <2> DEFINE s == Encode(id[1], id[2])
  <2>1. IsCode(s, id) /\ text = <<s>>
    <3>1. id[1] \in Nat /\ id[2] \in Nat \ {0} /\ id = <<id[1], id[2]>>
      OBVIOUS
    <3>2. IsCode(s, <<id[1], id[2]>>)
      BY <3>1, IDsAreReadBack
    <3> QED BY <1>1, <3>1, <3>2 DEF Encoded
  <2> HIDE DEF s
  <2>2. CASE parts = <<s>>
    <3>1. AsksFor(ParseDNNName(parts), id)
      BY <2>1, <2>2, CodesAreParsed
    <3>2. Split(parts).name = parts
      <4>1. ~ (Len(parts) >= 2)
        BY <2>2
      <4> QED BY <4>1 DEF Split, HasSubdomain
    <3> QED BY <3>1, <3>2
  <2>3. ASSUME NEW name \in Seq(STRING), ~ StartsID(name), parts = <<name>> \o <<s>>
        PROVE  AsksFor(ParseDNNName(parts), id) /\ AsksFor(ParseDNNName(Split(parts).name), id)
    <3>1. parts = <<name, s>> /\ Tail(parts) = <<s>>
      BY <2>3, PartBefore
    <3>2. AsksFor(ParseDNNName(parts), id) /\ AsksFor(ParseDNNName(<<s>>), id)
      BY <2>1, <2>3, <3>1, CodesAreParsed
    <3>3. Split(parts).name \in {parts, Tail(parts)}
      BY DEF Split
    <3> QED BY <3>1, <3>2, <3>3
  <2> QED BY <2>1, <2>2, <2>3 DEF IsCalled
<1>2. CASE text \in Numerics(id)
  <2>1. PICK s : IsNumber(s, id[1]) /\ text = <<s, Decimal(id[2])>> /\ Scan(Decimal(id[2])) = id[2]
    BY <1>2, NumericsAreNumbers
  <2> DEFINE p == Decimal(id[2])
  <2> HIDE DEF p
  <2>2. text = <<s, p>> /\ Scan(p) = id[2] /\ IsBlockSpec(s)
    BY <2>1 DEF p, IsNumber
  <2>3. CASE parts = <<s, p>>
    <3>1. AsksFor(ParseDNNName(parts), id)
      BY <2>1, <2>2, <2>3, NumbersAreParsed
    <3>2. Split(parts).name = parts
      <4>1. IsBlockSpec(parts[1])
        BY <2>2, <2>3
      <4> QED BY <4>1 DEF Split, HasSubdomain
    <3> QED BY <3>1, <3>2
  <2>4. ASSUME NEW name \in Seq(STRING), ~ StartsID(name), parts = <<name>> \o <<s, p>>
        PROVE  AsksFor(ParseDNNName(parts), id) /\ AsksFor(ParseDNNName(Split(parts).name), id)
    <3>1. parts = <<name, s, p>>
      BY <2>4, PartBefore
    <3>2. AsksFor(ParseDNNName(parts), id)
      BY <2>1, <2>2, <2>4, <3>1, NumbersAreParsed
    <3>3. Split(parts).name = parts
      <4>1. IsBlockSpec(parts[2])
        BY <2>2, <3>1
      <4> QED BY <4>1 DEF Split, HasSubdomain
    <3> QED BY <3>2, <3>3
  <2> QED BY <2>2, <2>3, <2>4 DEF IsCalled
<1> QED BY <1>1, <1>2

\* The DNS server decodes the last part.
LEMMA LastPartIsDecoded ==
  ASSUME NEW id \in Nat \X (Nat \ {0}), NEW parts, IsCalled(parts, Encoded(id))
  PROVE  Decode(Last(parts)) = id
<1> DEFINE s == Encode(id[1], id[2])
<1>1. Decode(s) = id
  <2>1. id[1] \in Nat /\ id[2] \in Nat \ {0} /\ id = <<id[1], id[2]>>
    OBVIOUS
  <2>2. Decode(s) = <<id[1], id[2]>>
    BY <2>1, IDsAreReadBack
  <2> QED BY <2>1, <2>2
<1>2. Encoded(id) = <<s>>
  BY DEF Encoded
<1> HIDE DEF s
<1>3. parts = <<s>> \/ parts = <<parts[1], s>>
  BY <1>2, PartBefore DEF IsCalled
<1>4. Last(parts) = s
  <2>1. CASE parts = <<s>>
    <3>1. Len(parts) = 1 /\ parts[1] = s
      BY <2>1
    <3> QED BY <3>1 DEF Last
  <2>2. ASSUME NEW name, parts = <<name, s>> PROVE Last(parts) = s
    <3>1. Len(parts) = 2 /\ parts[2] = s
      BY <2>2
    <3> QED BY <3>1 DEF Last
  <2> QED BY <1>3, <2>1, <2>2
<1> QED BY <1>1, <1>4

\* Of a request that means an ID, the query names that ID, and so do the anchors that are
\* left to look at and the one that was read.
LeadsBackInv ==
    ~ RequestAt("idle") /\ request.asked.means # Nothing =>
        /\ ~ RequestAt("invalid")
        /\ Target = request.asked.means
        /\ \A a \in request.left : ID(a) = request.asked.means
        /\ request.anchor \in Anchors => ID(request.anchor) = request.asked.means

\* Where a request goes on with the anchors it has.
LEMMA SameMeaning ==
  ASSUME LeadsBackInv, ~ RequestAt("idle"), ~ RequestAt("invalid"), request'.at # "invalid",
         request'.asked = request.asked, request'.query = request.query,
         request'.left \subseteq request.left,
         request'.anchor = request.anchor \/ request'.anchor \in request.left
            \/ ID(request'.anchor) = Target
  PROVE  LeadsBackInv'
BY DEF LeadsBackInv, RequestAt, Target, ID

LEMMA InvalidMeansNothing ==
  ASSUME NEW asked, asked.means = Nothing,
         Continue([Idle EXCEPT !.asked = asked, !.at = "invalid"])
  PROVE  LeadsBackInv'
<1>1. request'.asked = asked
  BY DEF Continue, Idle
<1> QED BY <1>1 DEF LeadsBackInv

LEMMA RowsOfID ==
  ASSUME ResolutionInv, NEW query, NEW id \in Nat \X (Nat \ {0}), AsksFor(query, id)
  PROVE  /\ \A a \in Rows(query) : a \in Anchors /\ ID(a) = id
         /\ <<query.block, query.pos>> = id
<1>1. query.block = id[1] /\ query.pos = id[2] /\ id = <<id[1], id[2]>>
  BY DEF AsksFor
<1>2. query.block # Nothing /\ query.pos # Nothing
  BY <1>1, NothingAssumption
<1>3. ASSUME NEW a \in Rows(query) PROVE a \in Anchors /\ ID(a) = id
  <2>1. a \in anchors /\ a.block = id[1] /\ a.pos = id[2]
    BY <1>1, <1>2 DEF Rows
  <2>2. a \in Anchors
    BY <2>1 DEF ResolutionInv, ResolutionTypes, ResolutionTypeOK
  <2> QED BY <1>1, <2>1, <2>2 DEF ID
<1> QED BY <1>1, <1>3

LEMMA CameForQuery ==
  ASSUME NEW asked, NEW query, NEW label
  PROVE  /\ Came(asked, query, label).asked = asked /\ DOMAIN Came(asked, query, label) = Fields
         /\ Came(asked, query, label).query = query
         /\ Came(asked, query, label).left = {} /\ Came(asked, query, label).anchor = Nothing
BY DEF Came, Idle, Fields

LEMMA ReceiveLeadsBack ==
  ASSUME ResolutionInv, NEW asked \in Requests, Receive(asked) PROVE LeadsBackInv'
<1> DEFINE split == IF asked.protocol = "resolve" THEN Split(asked.parts)
                    ELSE [label |-> <<>>, name |-> asked.parts]
           query == ParseDNNName(split.name)
           came == Came(asked, query, split.label)
<1>3. /\ came.asked = asked /\ DOMAIN came = Fields /\ came.query = query
      /\ came.left = {} /\ came.anchor = Nothing
  <2> HIDE DEF split, query
  <2> QED BY CameForQuery
<1>4. \/ Continue([Idle EXCEPT !.asked = asked, !.at = "invalid"])
      \/ Continue([came EXCEPT !.at = "match", !.left = Rows(query)])
      \/ Continue([came EXCEPT !.at = "missing"])
      \/ \E a \in First(Rows(query)) : Continue([came EXCEPT !.at = "name", !.anchor = a])
  BY DEF Receive
<1>1. CASE asked.means = Nothing
  <2> HIDE DEF came, query, split
  <2>1. CASE Continue([Idle EXCEPT !.asked = asked, !.at = "invalid"])
    BY <1>1, <2>1, InvalidMeansNothing
  <2>2. CASE Continue([came EXCEPT !.at = "match", !.left = Rows(query)])
    <3>1. request'.asked = asked
      BY <1>3, <2>2 DEF Continue, Fields
    <3> QED BY <1>1, <3>1 DEF LeadsBackInv
  <2>3. CASE Continue([came EXCEPT !.at = "missing"])
    <3>1. request'.asked = asked
      BY <1>3, <2>3 DEF Continue, Fields
    <3> QED BY <1>1, <3>1 DEF LeadsBackInv
  <2>4. ASSUME NEW a \in First(Rows(query)), Continue([came EXCEPT !.at = "name", !.anchor = a])
        PROVE  LeadsBackInv'
    <3>1. request'.asked = asked
      BY <1>3, <2>4 DEF Continue, Fields
    <3> QED BY <1>1, <3>1 DEF LeadsBackInv
  <2> QED BY <1>4, <2>1, <2>2, <2>3, <2>4
<1>2. CASE asked.means # Nothing
  <2> DEFINE id == asked.means
             refused == \/ query = Nothing
                        \/ asked.protocol = "resolve" /\ query.block # Nothing /\ query.block < 0
  <2>1. id \in Nat \X (Nat \ {0}) /\ AsksFor(query, id)
    <3>1. /\ id \in Nat \X (Nat \ {0})
          /\ \E text \in {Encoded(id)} \union Numerics(id) : IsCalled(asked.parts, text)
      BY <1>2, RequestsAssumption
    <3>2. AsksFor(ParseDNNName(asked.parts), id) /\ AsksFor(ParseDNNName(Split(asked.parts).name), id)
      BY <3>1, TextsAreUnderstood
    <3>3. split.name = asked.parts \/ split.name = Split(asked.parts).name
      OBVIOUS
    <3> QED BY <3>1, <3>2, <3>3
  <2>2. ~ refused
    <3>1. query \in Queries /\ query.block = id[1] /\ id[1] \in Nat
      BY <2>1 DEF AsksFor
    <3>2. query # Nothing
      BY <3>1, NothingAssumption DEF Queries
    <3>3. ~ (query.block < 0)
      BY <3>1
    <3> HIDE DEF query
    <3> QED BY <3>2, <3>3
  <2>4. \/ Continue([came EXCEPT !.at = "match", !.left = Rows(query)])
        \/ Continue([came EXCEPT !.at = "missing"])
        \/ \E a \in First(Rows(query)) : Continue([came EXCEPT !.at = "name", !.anchor = a])
    BY <2>2 DEF Receive
  <2>5. /\ \A a \in Rows(query) : a \in Anchors /\ ID(a) = id
        /\ <<query.block, query.pos>> = id
    BY <2>1, RowsOfID
  <2>6. Nothing \notin Anchors
    BY ResolutionAssumption
  <2> HIDE DEF came, query, split, refused
  <2>7. CASE Continue([came EXCEPT !.at = "match", !.left = Rows(query)])
    <3>1. /\ request'.asked = asked /\ request'.query = query /\ request'.at = "match"
          /\ request'.left = Rows(query) /\ request'.anchor = Nothing
      BY <1>3, <2>7 DEF Continue, Fields
    <3> QED BY <2>5, <2>6, <3>1 DEF LeadsBackInv, RequestAt, Target, ID
  <2>8. CASE Continue([came EXCEPT !.at = "missing"])
    <3>1. /\ request'.asked = asked /\ request'.query = query /\ request'.at = "missing"
          /\ request'.left = {} /\ request'.anchor = Nothing
      BY <1>3, <2>8 DEF Continue, Fields
    <3> QED BY <2>5, <2>6, <3>1 DEF LeadsBackInv, RequestAt, Target, ID
  <2>9. ASSUME NEW a \in First(Rows(query)), Continue([came EXCEPT !.at = "name", !.anchor = a])
        PROVE  LeadsBackInv'
    <3>1. /\ request'.asked = asked /\ request'.query = query /\ request'.at = "name"
          /\ request'.left = {} /\ request'.anchor = a
      BY <1>3, <2>9 DEF Continue, Fields
    <3>2. ID(a) = id
      BY <2>5 DEF First
    <3> QED BY <2>5, <3>1, <3>2 DEF LeadsBackInv, RequestAt, Target, ID
  <2> QED BY <2>4, <2>7, <2>8, <2>9
<1> QED BY <1>1, <1>2

LEMMA ReceiveDNSLeadsBack ==
  ASSUME ResolutionInv, NEW asked \in Requests, ReceiveDNS(asked) PROVE LeadsBackInv'
<1> DEFINE id == Decode(Last(asked.parts))
           query == Query(<<>>, id[1], id[2])
           label == FlattenSeq(Front(asked.parts))
           came == Came(asked, query, label)
<1>1. \/ id = Nothing /\ Continue([Idle EXCEPT !.asked = asked, !.at = "invalid"])
      \/ id # Nothing /\ Continue([came EXCEPT !.at = "tld"])
  BY DEF ReceiveDNS
<1>2. /\ came.asked = asked /\ DOMAIN came = Fields /\ came.query = query
      /\ came.left = {} /\ came.anchor = Nothing
  BY CameForQuery
<1>3. query.block = id[1] /\ query.pos = id[2]
  BY DEF Query
<1>4. asked.means # Nothing => id = asked.means /\ id \in Nat \X (Nat \ {0})
  <2> SUFFICES ASSUME asked.means # Nothing
               PROVE  id = asked.means /\ id \in Nat \X (Nat \ {0})
    OBVIOUS
  <2>1. asked.protocol = "dns"
    BY DEF ReceiveDNS
  <2>2. asked.means \in Nat \X (Nat \ {0}) /\ IsCalled(asked.parts, Encoded(asked.means))
    BY <2>1, RequestsAssumption
  <2> QED BY <2>2, LastPartIsDecoded
<1> HIDE DEF came, query, label, id
<1>5. CASE id = Nothing /\ Continue([Idle EXCEPT !.asked = asked, !.at = "invalid"])
  <2>1. asked.means = Nothing
    BY <1>4, <1>5
  <2> QED BY <1>5, <2>1, InvalidMeansNothing
<1>6. CASE id # Nothing /\ Continue([came EXCEPT !.at = "tld"])
  <2>1. /\ request'.asked = asked /\ request'.query = query /\ request'.at = "tld"
        /\ request'.left = {} /\ request'.anchor = Nothing
    BY <1>2, <1>6 DEF Continue, Fields
  <2>2. Nothing \notin Anchors
    BY ResolutionAssumption
  <2>3. asked.means # Nothing => <<query.block, query.pos>> = asked.means
    BY <1>3, <1>4
  <2> QED BY <2>1, <2>2, <2>3 DEF LeadsBackInv, RequestAt, Target, ID
<1> QED BY <1>1, <1>5, <1>6

\* The steps after the request came.
LEMMA StepLeadsBack ==
  ASSUME ResolutionInv, LeadsBackInv,
         \/ Match \/ ReadName \/ ReadConnection \/ CheckMarks \/ Respond
         \/ CheckTld \/ CheckLabel
         \/ FindAnchor("primary", "primary name") \/ FindAnchor("owner", "content")
         \/ ReadPrimaryName \/ ReadContent
  PROVE  LeadsBackInv'
<1>1. DOMAIN request = Fields
  BY DEF ResolutionInv, ResolutionTypes
<1>2. ASSUME NEW place, place # "invalid", ~ RequestAt("idle"), ~ RequestAt("invalid"), Goto(place)
      PROVE  LeadsBackInv'
  <2>1. /\ request'.at = place /\ request'.asked = request.asked /\ request'.query = request.query
        /\ request'.left = request.left /\ request'.anchor = request.anchor
    BY <1>2, GotoKeeps DEF Kept
  <2> QED BY <1>2, <2>1, SameMeaning
<1>3. CASE Match
  <2>1. ~ RequestAt("idle") /\ ~ RequestAt("invalid") /\ request.at = "match"
    BY <1>3 DEF Match, RequestAt
  <2>2. CASE Goto("missing")
    BY <1>2, <2>1, <2>2
  <2>3. ASSUME NEW a \in First(request.left),
               Continue([request EXCEPT !.at = "name", !.anchor = a, !.left = {}])
        PROVE  LeadsBackInv'
    <3>1. /\ request'.at = "name" /\ request'.asked = request.asked /\ request'.query = request.query
          /\ request'.left = {} /\ request'.anchor = a
      BY <1>1, <2>3 DEF Continue, Fields
    <3>2. a \in request.left
      BY DEF First
    <3> QED BY <2>1, <3>1, <3>2, SameMeaning
  <2>4. ASSUME NEW a, Continue([request EXCEPT !.left = @ \ {a}]) PROVE LeadsBackInv'
    <3>1. /\ request'.at = "match" /\ request'.asked = request.asked /\ request'.query = request.query
          /\ request'.left \subseteq request.left /\ request'.anchor = request.anchor
      BY <1>1, <2>1, <2>4 DEF Continue, Fields
    <3> QED BY <2>1, <3>1, SameMeaning
  <2> QED BY <1>3, <2>2, <2>3, <2>4 DEF Match
<1>4. CASE ReadName \/ ReadConnection \/ Respond
  <2>1. /\ ~ RequestAt("idle") /\ ~ RequestAt("invalid") /\ request'.at # "invalid"
        /\ request'.asked = request.asked /\ request'.query = request.query
        /\ request'.left = request.left /\ request'.anchor = request.anchor
    BY <1>1, <1>4 DEF ReadName, ReadConnection, Respond, Continue, RequestAt, Fields
  <2> QED BY <2>1, SameMeaning
<1>5. CASE CheckMarks \/ CheckTld \/ CheckLabel
  <2>1. ~ RequestAt("idle") /\ ~ RequestAt("invalid")
    BY <1>5 DEF CheckMarks, CheckTld, CheckLabel, RequestAt
  <2>2. \E place \in {"blocked", "delegation", "primary", "label"} : Goto(place)
    BY <1>5 DEF CheckMarks, CheckTld, CheckLabel
  <2> QED BY <1>2, <2>1, <2>2
<1>6. ASSUME NEW from \in {"primary", "owner"}, NEW to \in {"primary name", "content"},
             FindAnchor(from, to)
      PROVE  LeadsBackInv'
  <2>1. ~ RequestAt("idle") /\ ~ RequestAt("invalid")
    BY <1>6 DEF FindAnchor, RequestAt
  <2>2. CASE Goto("missing")
    BY <1>2, <2>1, <2>2
  <2>3. ASSUME NEW a \in anchors, ID(a) = Target, Continue([request EXCEPT !.at = to, !.anchor = a])
        PROVE  LeadsBackInv'
    <3>1. /\ request'.at = to /\ request'.asked = request.asked /\ request'.query = request.query
          /\ request'.left = request.left /\ request'.anchor = a
      BY <1>1, <2>3 DEF Continue, Fields
    <3> QED BY <2>1, <2>3, <3>1, SameMeaning
  <2> QED BY <1>6, <2>2, <2>3 DEF FindAnchor
<1>7. CASE ReadPrimaryName \/ ReadContent
  <2>1. ~ RequestAt("idle") /\ ~ RequestAt("invalid")
    BY <1>7 DEF ReadPrimaryName, ReadContent, RequestAt
  <2>2. CASE Goto("missing")
    BY <1>2, <2>1, <2>2
  <2>3. CASE ~ Goto("missing")
    <3>1. /\ request'.at # "invalid"
          /\ request'.asked = request.asked /\ request'.query = request.query
          /\ request'.left = request.left /\ request'.anchor = request.anchor
      BY <1>1, <1>7, <2>3 DEF ReadPrimaryName, ReadContent, Continue, Fields
    <3> QED BY <2>1, <3>1, SameMeaning
  <2> QED BY <2>2, <2>3
<1> QED BY <1>3, <1>4, <1>5, <1>6, <1>7

\* A request with a text by which the node calls an ID is understood, and answered with that
\* ID, whatever is stored and removed meanwhile (parseDNNName, GetAnchorByName and the DNS
\* server): an ID is never read as another one, nor as a name.
THEOREM IDsLeadToTheirAnchors == ResolutionSpec => []IDsLeadBack
<1>1. ResolutionInit => LeadsBackInv
  BY DEF ResolutionInit, Idle, LeadsBackInv, RequestAt
<1>2. ResolutionInv /\ LeadsBackInv /\ [ResolutionNext]_resolutionVars => LeadsBackInv'
  <2> SUFFICES ASSUME ResolutionInv, LeadsBackInv, [ResolutionNext]_resolutionVars
               PROVE  LeadsBackInv'
    OBVIOUS
  <2>1. ASSUME NEW asked \in Requests, Receive(asked) \/ ReceiveDNS(asked) PROVE LeadsBackInv'
    BY <2>1, ReceiveLeadsBack, ReceiveDNSLeadsBack
  <2>2. CASE EndRequest
    BY <2>2 DEF EndRequest, Continue, Idle, LeadsBackInv, RequestAt
  <2>3. CASE OthersWrite
    <3>1. /\ request'.at = request.at /\ request'.asked = request.asked
          /\ request'.query = request.query /\ request'.left = request.left
          /\ request'.anchor = request.anchor
      BY <2>3, RequestOnlySees DEF ResolutionInv
    <3> QED BY <3>1 DEF LeadsBackInv, RequestAt, Target, ID
  <2>4. CASE UNCHANGED resolutionVars
    BY <2>4 DEF resolutionVars, LeadsBackInv, RequestAt, Target, ID
  <2> QED BY <2>1, <2>2, <2>3, <2>4, StepLeadsBack DEF ResolutionNext, Step, OthersWrite
<1>3. ResolutionInv /\ LeadsBackInv => IDsLeadBack
  BY DEF ResolutionInv, ResolutionTypes, ResolutionTypeOK, LeadsBackInv, IDsLeadBack, Found,
         Ended, Outcomes, RequestAt
<1> QED BY <1>1, <1>2, <1>3, ResolutionIsInvariant, PTL DEF ResolutionSpec

=============================================================================
