----------------------------- MODULE AnchorStore -----------------------------
(***************************************************************************)
(* The table anchor_events, the anchor columns of bitcoin_transactions and *)
(* StoreAnchorEvent, which writes both (internal/database/database.go).    *)
(*                                                                         *)
(* An anchor (kind 60600) ties a pubkey and a d tag to a transaction.      *)
(* StoreAnchorEvent looks for an anchor of the same pubkey and d tag, then *)
(* for one of the same pubkey and transaction, deletes the latter if it    *)
(* loses, inserts the new row, and marks the transaction as anchored.      *)
(* These are five statements in no common SQL transaction.  The sync       *)
(* goroutine, the relay subscriptions, the relay's websocket handlers and  *)
(* the HTTP handlers call it at the same time.                             *)
(*                                                                         *)
(* A transaction marked as anchored is never looked up on the relays again *)
(* (GetUncheckedTransactions and GetCheckedTransactionsWithoutAnchor ask   *)
(* for has_anchor_event = 0), so a mark with no row behind it hides a name *)
(* for good.                                                               *)
(***************************************************************************)
EXTENDS Naturals, FiniteSets

CONSTANTS
    Callers,     \* the goroutines that may store an anchor at the same time
    Anchors,     \* the anchor events that reach this node
    Pubkeys, DTags, Txs,
    NoAnchor,    \* an anchor_event_id that is NULL, a caller with no event
    MaxFaults    \* bound on failed statements and crashes

\* Anchors with the required tags.  created is created_at, updated the content's
\* updated_at (created_at if it has none); id orders the event ids as SQL and Go do.
ASSUME AnchorsAssumption ==
    Anchors \subseteq [pk : Pubkeys, d : DTags, tx : Txs,
                       created : Nat, updated : Nat, id : Nat]

ASSUME IdsAssumption == \A e, f \in Anchors : e.id = f.id => e = f

ASSUME NoAnchorAssumption == NoAnchor \notin Anchors

ASSUME FaultsAssumption == MaxFaults \in Nat

VARIABLES
    anchors,     \* the rows of anchor_events
    link,        \* tx |-> its anchor_event_id; has_anchor_event = 1 iff there is one
    calls,       \* caller |-> its next statement, its event, the row to delete
    cutOff,      \* history: events whose call ended in place of its insert
    raced,       \* history: pubkeys and transactions with overlapping or failed calls
    faults       \* number of faults so far

vars == <<anchors, link, calls, cutOff, raced, faults>>

-----------------------------------------------------------------------------

Statements ==
    {"idle", "selectExisting", "selectConflict", "deleteConflict", "insert", "mark"}

NoCall == [at |-> "idle", ev |-> NoAnchor, loser |-> NoAnchor]
Running(c) == calls[c].at # "idle"
At(c, statement) == calls[c].at = statement
GoTo(c, statement) == calls' = [calls EXCEPT ![c].at = statement]

Return(c) == calls' = [calls EXCEPT ![c] = NoCall]

\* What two calls must share for one's statements to matter to the other.
Scope(e) == {e.tx, e.pk}

TypeOK ==
    /\ anchors \subseteq Anchors
    /\ link \in [Txs -> Anchors \union {NoAnchor}]
    /\ calls \in [Callers -> [at : Statements,
                              ev : Anchors \union {NoAnchor},
                              loser : Anchors \union {NoAnchor}]]
    /\ \A c \in Callers : Running(c) <=> calls[c].ev \in Anchors
    /\ \A c \in Callers : At(c, "deleteConflict") => calls[c].loser \in Anchors
    /\ cutOff \subseteq Anchors
    /\ raced \subseteq Txs \union Pubkeys
    /\ faults \in 0..MaxFaults

Init ==
    /\ anchors = {}
    /\ link = [t \in Txs |-> NoAnchor]
    /\ calls = [c \in Callers |-> NoCall]
    /\ cutOff = {}
    /\ raced = {}
    /\ faults = 0

-----------------------------------------------------------------------------
(* The callers. *)

Begin(c, e) ==
    /\ ~Running(c)
    /\ calls' = [calls EXCEPT ![c] =
                    [at |-> "selectExisting", ev |-> e, loser |-> NoAnchor]]
    /\ raced' = raced \union
                UNION {Scope(e) \intersect Scope(calls[o].ev) : o \in {k \in Callers : Running(k)}}
    /\ UNCHANGED <<anchors, link, cutOff, faults>>

SameAddress(e, f) == e.pk = f.pk /\ e.d = f.d

\* The relay, a subscription and the sync store an anchor whose transaction is
\* recorded (Txs are the recorded ones).
StoreForTransaction(c, e) == Begin(c, e)

\* The HTTP handler stores an anchor only over one of the same pubkey and d tag.
StoreLocalEvent(c, e) ==
    /\ \E r \in anchors : SameAddress(r, e)
    /\ Begin(c, e)

-----------------------------------------------------------------------------
(* The statements. *)

\* The row of the address with the latest updated_at (any one of those that tie).
Latest(e) ==
    {r \in anchors : /\ SameAddress(r, e)
                     /\ \A s \in anchors : SameAddress(s, e) => s.updated <= r.updated}

\* Mutant: updated_at is not compared, only the id.
SelectExistingById(c) ==
    LET e == calls[c].ev IN
    /\ At(c, "selectExisting")
    /\ IF e \in anchors THEN Return(c) ELSE GoTo(c, "selectConflict")
    /\ UNCHANGED <<anchors, link, cutOff, raced, faults>>

\* "newer anchor event already exists for this pubkey+d_tag": rejected.  The same
\* event again: returns nil.  Anything else goes on.
SelectExisting(c) ==
    LET e == calls[c].ev IN
    /\ At(c, "selectExisting")
    /\ \/ (\A r \in anchors : ~SameAddress(r, e)) /\ GoTo(c, "selectConflict")
       \/ \E r \in Latest(e) :
            IF r.updated > e.updated \/ r = e
            THEN Return(c)
            ELSE GoTo(c, "selectConflict")
    /\ UNCHANGED <<anchors, link, cutOff, raced, faults>>

\* Mutant: the transaction is not compared.
OtherDTags(e) == {r \in anchors : r.pk = e.pk /\ r.d # e.d}

\* Same pubkey and transaction, another d tag.
Conflicts(e) == {r \in anchors : r.tx = e.tx /\ r.pk = e.pk /\ r.d # e.d}

\* "LATEST WINS (newer created_at wins)", then "Higher ID wins".
Wins(r, e) == r.created > e.created \/ (r.created = e.created /\ r.id > e.id)

SelectConflict(c) ==
    LET e == calls[c].ev IN
    /\ At(c, "selectConflict")
    /\ \/ Conflicts(e) = {} /\ GoTo(c, "insert")
       \/ \E r \in Conflicts(e) :
            IF Wins(r, e)
            THEN Return(c)
            ELSE calls' = [calls EXCEPT ![c] =
                               [at |-> "deleteConflict", ev |-> e, loser |-> r]]
    /\ UNCHANGED <<anchors, link, cutOff, raced, faults>>

DeleteConflict(c) ==
    /\ At(c, "deleteConflict")
    /\ anchors' = anchors \ {calls[c].loser}
    /\ GoTo(c, "insert")
    /\ UNCHANGED <<link, cutOff, raced, faults>>

\* Mutant: transaction_id is not unique.
InsertBeside(c) ==
    LET e == calls[c].ev IN
    /\ At(c, "insert")
    /\ anchors' = anchors \union {e}
    /\ GoTo(c, "mark")
    /\ UNCHANGED <<link, cutOff, raced, faults>>

\* INSERT OR REPLACE under the keys id and transaction_id: any row of the same
\* transaction goes, whoever signed it and however new it is.
Insert(c) ==
    LET e == calls[c].ev IN
    /\ At(c, "insert")
    /\ anchors' = {r \in anchors : r.tx # e.tx} \union {e}
    /\ GoTo(c, "mark")
    /\ UNCHANGED <<link, cutOff, raced, faults>>

\* UpdateBitcoinTransactionWithAnchor; the hooks run after it and the call returns.
Mark(c) ==
    LET e == calls[c].ev IN
    /\ At(c, "mark")
    /\ link' = [link EXCEPT ![e.tx] = e]
    /\ Return(c)
    /\ UNCHANGED <<anchors, cutOff, raced, faults>>

-----------------------------------------------------------------------------
(* Failures. *)

Fault(scope) ==
    /\ faults < MaxFaults
    /\ faults' = faults + 1
    /\ raced' = raced \union scope

\* A SELECT that fails is read as "no such row"; a DELETE that fails is logged.
IgnoredFailure(c) ==
    /\ \/ At(c, "selectExisting") /\ GoTo(c, "selectConflict")
       \/ (At(c, "selectConflict") \/ At(c, "deleteConflict")) /\ GoTo(c, "insert")
    /\ Fault(Scope(calls[c].ev))
    /\ UNCHANGED <<anchors, link, cutOff>>

\* A failed INSERT or UPDATE ends the call with an error.
ReportedFailure(c) ==
    /\ At(c, "insert") \/ At(c, "mark")
    /\ cutOff' = IF At(c, "insert") THEN cutOff \union {calls[c].ev} ELSE cutOff
    /\ Return(c)
    /\ Fault(Scope(calls[c].ev))
    /\ UNCHANGED <<anchors, link>>

\* The process dies and starts again.
Crash ==
    LET hit == {c \in Callers : Running(c)} IN
    /\ hit # {}
    /\ calls' = [c \in Callers |-> NoCall]
    /\ cutOff' = cutOff \union {calls[c].ev : c \in {h \in hit : At(h, "insert")}}
    /\ Fault(UNION {Scope(calls[c].ev) : c \in hit})
    /\ UNCHANGED <<anchors, link>>

-----------------------------------------------------------------------------

Statement(c) ==
    \/ SelectExisting(c)
    \/ SelectConflict(c)
    \/ DeleteConflict(c)
    \/ Insert(c)
    \/ Mark(c)

Next ==
    \/ Crash
    \/ \E c \in Callers :
        \/ \E e \in Anchors : StoreForTransaction(c, e) \/ StoreLocalEvent(c, e)
        \/ Statement(c)
        \/ IgnoredFailure(c)
        \/ ReportedFailure(c)

Spec == Init /\ [][Next]_vars

-----------------------------------------------------------------------------
(* Properties. *)

\* A transaction marked as anchored has an anchor, or a call is about to insert
\* one, or a call was cut off in place of that insert.
MarkedIsAnchored ==
    \A t \in Txs : link[t] # NoAnchor =>
        \/ \E r \in anchors : r.tx = t
        \/ \E c \in Callers : At(c, "insert") /\ calls[c].ev.tx = t
        \/ \E x \in cutOff : x.tx = t

\* Without overlap or failure on a transaction, its mark and its anchor agree
\* whenever no call is at work on it.
SerialMarkAgrees ==
    \A t \in Txs \ raced :
        (\A c \in Callers : Running(c) => calls[c].ev.tx # t) =>
            {r \in anchors : r.tx = t} = {link[t]} \ {NoAnchor}

\* What a call may displace of its own pubkey: under the same d tag, what is not
\* later by updated_at; under another, what does not win by created_at and id.
Beats(r, e) == IF r.d = e.d THEN r.updated > e.updated ELSE Wins(r, e)

\* Without overlap or failure on a pubkey, no anchor of its own is displaced by one
\* it beats, neither by the DELETE of the conflict nor by the INSERT OR REPLACE.
SerialLatestWins ==
    [][\A r \in anchors \ anchors', c \in Callers :
        calls'[c] # calls[c] /\ r.pk = calls[c].ev.pk /\ r.pk \notin raced
            => ~Beats(r, calls[c].ev)]_vars

\* The store as VersionSet sees it: the rows, the anchor each call is about to insert, and
\* those that were cut off there.
Inserting == {calls[c].ev : c \in {k \in Callers : At(k, "insert")}}
SameTransaction(e, f) == e.tx = f.tx

Versions == INSTANCE VersionSet
    WITH Events <- Anchors, versions <- anchors \union Inserting \union cutOff,
         Replaces <- SameTransaction

\* The statements, interleaved in any way, never displace an anchor without putting another
\* of the same transaction in its place, unless a call is cut off before its insert: else a
\* transaction keeps a claim once it has one.
ImplementsVersionSet == Versions!Spec
=============================================================================
