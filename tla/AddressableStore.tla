-------------------------- MODULE AddressableStore --------------------------
(***************************************************************************)
(* The tables name_events, connection_events and metadata_events and the   *)
(* three functions that write them (internal/database/database.go).        *)
(*                                                                         *)
(* StoreNameEvent, StoreConnectionEvent and StoreMetadataEvent run the     *)
(* same four SQL statements, each in a transaction of its own: is this id  *)
(* stored? is a newer version stored? delete the older versions; insert.   *)
(* They are called at the same time by the sync goroutine, the relay       *)
(* subscriptions, the relay's websocket handlers and the HTTP handlers, so *)
(* a caller's statements interleave with those of the others.  A call's    *)
(* private state is the statement it runs next and its event.              *)
(*                                                                         *)
(* An event is a record: its kind, its d tag, its created_at (ts) and n,   *)
(* which tells apart the events that agree on the rest.  Its id, a hash of *)
(* all of these, is the record itself.  The model has one pubkey: every    *)
(* statement selects on (pubkey, d_tag) or on the id.                      *)
(***************************************************************************)
EXTENDS Naturals, FiniteSets

CONSTANTS
    Callers,     \* the goroutines that may store an event at the same time
    Events,      \* the events that reach this node
    DTags,       \* the d tags in use
    NoDTag,      \* the empty d tag of an event that has none
    NoEvent,     \* no event: what a caller holds between two calls
    MaxFaults    \* bound on failed statements and crashes

Kinds == {"name", "connection", "metadata"}

ASSUME EventsAssumption ==
    Events \subseteq
        [kind : Kinds, d : DTags \union {NoDTag}, ts : Nat, n : Nat]

ASSUME NoEventAssumption == NoEvent \notin Events

ASSUME FaultsAssumption == MaxFaults \in Nat

VARIABLES
    rows,        \* the rows of the three tables
    calls,       \* caller |-> the statement it runs next and its event
    acked,       \* history: events whose call returned nil
    cutOff,      \* history: events whose call ended in place of its insert
    raced,       \* history: addresses two calls wrote at once, or a fault hit
    faults       \* number of faults so far

vars == <<rows, calls, acked, cutOff, raced, faults>>
history == <<acked, cutOff, raced>>

-----------------------------------------------------------------------------

Statements == {"idle", "selectById", "selectNewer", "deleteOlder", "insert"}

\* What replaces what: pubkey + d_tag within the kind's table.
Address(e) == <<e.kind, e.d>>
SameAddress(e, f) == Address(e) = Address(f)

NoCall == [at |-> "idle", ev |-> NoEvent]
Running(c) == calls[c].at # "idle"
At(c, statement) == calls[c].at = statement

\* The call of c goes on to another statement, or returns.
GoTo(c, statement) == calls' = [calls EXCEPT ![c].at = statement]

Return(c) == calls' = [calls EXCEPT ![c] = NoCall]

TypeOK ==
    /\ rows \subseteq Events
    /\ calls \in [Callers -> [at : Statements, ev : Events \union {NoEvent}]]
    /\ \A c \in Callers : Running(c) <=> calls[c].ev \in Events
    /\ acked \subseteq Events
    /\ cutOff \subseteq Events
    /\ raced \subseteq {Address(e) : e \in Events}
    /\ faults \in 0..MaxFaults

Init ==
    /\ rows = {}
    /\ calls = [c \in Callers |-> NoCall]
    /\ acked = {}
    /\ cutOff = {}
    /\ raced = {}
    /\ faults = 0

-----------------------------------------------------------------------------
(* The calls. *)

\* A call of one of the three functions begins with an event of its kind.
Begin(c, e) ==
    /\ ~Running(c)
    /\ calls' = [calls EXCEPT ![c] = [at |-> "selectById", ev |-> e]]
    /\ raced' = IF \E o \in Callers : Running(o) /\ SameAddress(calls[o].ev, e)
                THEN raced \union {Address(e)}
                ELSE raced
    /\ UNCHANGED <<rows, acked, cutOff, faults>>

StoreNameEvent(c, e) == e.kind = "name" /\ Begin(c, e)
StoreConnectionEvent(c, e) == e.kind = "connection" /\ Begin(c, e)
StoreMetadataEvent(c, e) == e.kind = "metadata" /\ Begin(c, e)

\* The statement after the id check: an event without a d tag replaces nothing.
AfterIdCheck(e) == IF e.d = NoDTag THEN "insert" ELSE "selectNewer"

\* "Check if this exact event already exists (by ID)": if so the call returns nil.
SelectById(c) ==
    LET e == calls[c].ev IN
    /\ At(c, "selectById")
    /\ IF e \in rows
       THEN Return(c) /\ acked' = acked \union {e}
       ELSE GoTo(c, AfterIdCheck(e)) /\ UNCHANGED acked
    /\ UNCHANGED <<rows, cutOff, raced, faults>>

\* The rows this event loses to: the same address and a later created_at.
NewerRows(e) == {r \in rows : SameAddress(r, e) /\ r.ts > e.ts}

\* "A newer event already exists - discard this older one": returns nil.
SelectNewer(c) ==
    LET e == calls[c].ev IN
    /\ At(c, "selectNewer")
    /\ IF NewerRows(e) # {}
       THEN Return(c) /\ acked' = acked \union {e}
       ELSE GoTo(c, "deleteOlder") /\ UNCHANGED acked
    /\ UNCHANGED <<rows, cutOff, raced, faults>>

\* Mutants: <= for <, no comparison of created_at, no replacement at all.
OlderRowsOrTies(e) == {r \in rows : SameAddress(r, e) /\ r.ts <= e.ts}
AnyOtherRows(e) == {r \in rows : SameAddress(r, e)}
NoRows(e) == {}

\* The rows this event replaces: the same address and an earlier created_at.
OlderRows(e) == {r \in rows : SameAddress(r, e) /\ r.ts < e.ts}

\* "Delete older versions with the same pubkey+d_tag (NIP-33 replacement)".
DeleteOlder(c) ==
    /\ At(c, "deleteOlder")
    /\ rows' = rows \ OlderRows(calls[c].ev)
    /\ GoTo(c, "insert")
    /\ UNCHANGED <<acked, cutOff, raced, faults>>

\* The insert; the primary key refuses an id that another call stored since, and
\* the call then returns that error.
Insert(c) ==
    LET e == calls[c].ev IN
    /\ At(c, "insert")
    /\ rows' = rows \union {e}
    /\ acked' = IF e \in rows THEN acked ELSE acked \union {e}
    /\ Return(c)
    /\ UNCHANGED <<cutOff, raced, faults>>

-----------------------------------------------------------------------------
(* Statements that fail (a locked table, a full disk) and crashes. *)

Fault(addresses) ==
    /\ faults < MaxFaults
    /\ faults' = faults + 1
    /\ raced' = raced \union addresses

\* Both SELECTs read any error as "no such row" (err == nil is the only test).
SelectFails(c) ==
    LET e == calls[c].ev IN
    /\ \/ At(c, "selectById") /\ GoTo(c, AfterIdCheck(e))
       \/ At(c, "selectNewer") /\ GoTo(c, "deleteOlder")
    /\ Fault({Address(e)})
    /\ UNCHANGED <<rows, acked, cutOff>>

\* A failed DELETE is not reported: the call goes on to its insert.
DeleteFails(c) ==
    /\ At(c, "deleteOlder")
    /\ GoTo(c, "insert")
    /\ Fault({Address(calls[c].ev)})
    /\ UNCHANGED <<rows, acked, cutOff>>

\* A failed INSERT is returned to the caller; what the DELETE took is gone.
InsertFails(c) ==
    /\ At(c, "insert")
    /\ Return(c)
    /\ cutOff' = cutOff \union {calls[c].ev}
    /\ Fault({Address(calls[c].ev)})
    /\ UNCHANGED <<rows, acked>>

\* The process dies and starts again: the tables stay, the calls are gone.
Crash ==
    LET hit == {c \in Callers : Running(c)} IN
    /\ hit # {}
    /\ calls' = [c \in Callers |-> NoCall]
    /\ cutOff' = cutOff \union {calls[c].ev : c \in {h \in hit : At(h, "insert")}}
    /\ Fault({Address(calls[c].ev) : c \in hit})
    /\ UNCHANGED <<rows, acked>>

-----------------------------------------------------------------------------

Call(c) ==
    \/ \E e \in Events :
        StoreNameEvent(c, e) \/ StoreConnectionEvent(c, e) \/ StoreMetadataEvent(c, e)
    \/ SelectById(c)
    \/ SelectNewer(c)
    \/ DeleteOlder(c)
    \/ Insert(c)

FaultyStep(c) == SelectFails(c) \/ DeleteFails(c) \/ InsertFails(c)

Next == Crash \/ \E c \in Callers : Call(c) \/ FaultyStep(c)

Spec == Init /\ [][Next]_vars

-----------------------------------------------------------------------------
(* Properties. *)

\* An acknowledged version, or a newer one of its address, is in the table, is
\* about to be inserted by a call that has deleted the older ones, or was lost
\* because such a call was cut off in place of its insert: no interleaving of
\* calls alone loses the newest version.  An event without a d tag is never lost.
NewestSurvives ==
    \A e \in acked :
        \/ e \in rows
        \/ /\ e.d # NoDTag
           /\ \/ \E r \in rows : SameAddress(r, e) /\ r.ts > e.ts
              \/ \E c \in Callers :
                    /\ At(c, "insert")
                    /\ SameAddress(calls[c].ev, e)
                    /\ calls[c].ev.ts > e.ts
              \/ \E x \in cutOff : SameAddress(x, e) /\ x.ts > e.ts

\* While the calls on an address never overlap and no statement of theirs fails,
\* an older version never stays beside a newer one.
SerialCallsReplace ==
    \A r, s \in rows :
        SameAddress(r, s) /\ r.d # NoDTag /\ Address(r) \notin raced => r.ts = s.ts

\* The store as VersionSet sees it: the rows, the version each call that has done
\* its DELETE is about to insert, and those that were cut off there.
Inserting == {calls[c].ev : c \in {k \in Callers : At(k, "insert")}}
Supersedes(e, f) == SameAddress(e, f) /\ e.d # NoDTag /\ e.ts > f.ts

Versions == INSTANCE VersionSet
    WITH versions <- rows \union Inserting \union cutOff, Replaces <- Supersedes

\* The four statements, interleaved in any way, implement the abstract store: a
\* version leaves it only for a newer one of the same address.
ImplementsVersionSet == Versions!Spec
=============================================================================
