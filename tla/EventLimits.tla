----------------------------- MODULE EventLimits -----------------------------
(***************************************************************************)
(* How many events one pubkey may keep in one of the tables name_events,   *)
(* connection_events and metadata_events: MaxVersions of a d tag, MaxDTags *)
(* d tags.  Two pieces of code see to it, with different queries.          *)
(*                                                                         *)
(* The HTTP handler handleStoreLocalEvent (internal/node/node.go) asks     *)
(* EnforceRateLimits (internal/policy/policy.go) what to delete, deletes   *)
(* that and stores its event.  The cleanup goroutine (RunEventCleanup,     *)
(* internal/database/database.go) goes over the table once after each      *)
(* start of the process.  The relay, the subscriptions and the sync store  *)
(* events without looking at the limits.  Both pieces mean to spare the    *)
(* d tags that an anchor of the pubkey references, and the cleanup removes *)
(* the events of a pubkey that has no valid transaction.                   *)
(*                                                                         *)
(* Each SQL statement is a step, but a store is a single one: module       *)
(* AddressableStore takes it apart.  The pubkey and the table are fixed,   *)
(* all statements select on them; an event has a d tag, without which no   *)
(* limit applies.                                                          *)
(***************************************************************************)
EXTENDS Naturals, Sequences, FiniteSets, SequencesExt

CONSTANTS
    Handlers,      \* the HTTP handlers that may run at the same time
    Events,        \* the events of the pubkey that reach this node
    DTags,
    Referable,     \* the d tags that anchors reference at some time
    LooksLike,     \* <<d, r>>: the text of d occurs in the naddr of r
    NoEvent, NoDTag,
    MaxVersions, MaxDTags,    \* internal/constants: 10, 5
    MaxFaults      \* bound on failed statements

ASSUME EventsAssumption ==
    /\ Events \subseteq [d : DTags, ts : Nat, n : Nat]
    /\ IsFiniteSet(Events) /\ IsFiniteSet(DTags)

ASSUME NamesAssumption ==
    /\ NoEvent \notin Events /\ NoDTag \notin DTags
    /\ Referable \subseteq DTags /\ LooksLike \subseteq DTags \X DTags

ASSUME NumbersAssumption == MaxVersions \in Nat /\ MaxDTags \in Nat /\ MaxFaults \in Nat

VARIABLES
    rows,        \* the rows of the pubkey in the table
    refs,        \* the d tags its anchors reference
    paid,        \* it has a valid transaction
    calls,       \* handler |-> its next statement, its event, what it will delete
    cleaner,     \* the cleanup: its next statement and what it has read
    stable,      \* history: d tags referenced ever since the cleanup began
    quiet,       \* history: nothing was stored or anchored since then, nothing failed
    strained,    \* history: a store went past the limits, or handlers overlapped
    faults       \* number of faults so far

history == <<stable, quiet, strained>>
vars == <<rows, refs, paid, calls, cleaner, history, faults>>

-----------------------------------------------------------------------------

Versions(d) == {r \in rows : r.d = d}
StoredDTags == {r.d : r \in rows}
Oldest(S) == {r \in S : \A s \in S : r.ts <= s.ts}

\* What StoreNameEvent and its like leave of the table.
AfterStore(e) ==
    IF e \in rows \/ \E r \in Versions(e.d) : r.ts > e.ts
    THEN rows
    ELSE {r \in rows : r.d = e.d => r.ts = e.ts} \union {e}

Reads == {"countVersions", "oldestVersion", "recount",
          "countDTags", "oldestDTag", "checkReference"}
Statements == Reads \union {"idle", "deleteVersion", "deleteDTag", "store"}

NoCall == [at |-> "idle", ev |-> NoEvent, version |-> NoEvent, dtag |-> NoDTag]
At(p, statement) == calls[p].at = statement
GoTo(p, statement) == calls' = [calls EXCEPT ![p].at = statement]

Return(p) == calls' = [calls EXCEPT ![p] = NoCall]

CleanerSteps == {"checkPubkey", "protectInvalid", "deleteInvalid", "countVersions",
                 "pruneVersions", "countDTags", "protectDTags", "orderDTags",
                 "pruneDTags", "done"}

\* excess: d tag |-> versions to delete; quota: d tags to delete, of those in queue.
CleanupStart == [at |-> "checkPubkey", protected |-> {}, excess |-> [d \in DTags |-> 0],
                 quota |-> 0, queue |-> <<>>]
CleanerAt(step) == cleaner.at = step
CleanerTo(step) == cleaner' = [CleanupStart EXCEPT !.at = step]

TypeOK ==
    /\ rows \subseteq Events /\ refs \subseteq Referable /\ paid \in BOOLEAN
    /\ calls \in [Handlers -> [at : Statements, ev : Events \union {NoEvent},
                               version : Events \union {NoEvent},
                               dtag : DTags \union {NoDTag}]]
    /\ \A p \in Handlers : At(p, "idle") <=> calls[p].ev = NoEvent
    /\ cleaner \in [at : CleanerSteps, protected : SUBSET DTags, excess : [DTags -> Nat],
                    quota : Nat, queue : Seq(DTags)]
    /\ stable \subseteq refs /\ quiet \in BOOLEAN /\ strained \in BOOLEAN
    /\ faults \in 0..MaxFaults

Init ==
    /\ rows = {} /\ refs = {} /\ paid = FALSE
    /\ calls = [p \in Handlers |-> NoCall]
    /\ cleaner = CleanupStart
    /\ stable = {} /\ quiet = TRUE /\ strained = FALSE
    /\ faults = 0

-----------------------------------------------------------------------------
(* The rest of the node. *)

\* A transaction to one of the pubkey's addresses is recorded.
RecordTransaction ==
    /\ ~paid
    /\ paid' = TRUE
    /\ UNCHANGED <<rows, refs, calls, cleaner, history, faults>>

\* StoreAnchorEvent stores an anchor that references d, or removes the last one.
Anchor(d) ==
    /\ d \notin refs
    /\ refs' = refs \union {d}
    /\ quiet' = FALSE
    /\ UNCHANGED <<rows, paid, calls, cleaner, stable, strained, faults>>

ReplaceAnchor(d) ==
    /\ d \in refs
    /\ refs' = refs \ {d} /\ stable' = stable \ {d}
    /\ quiet' = FALSE
    /\ UNCHANGED <<rows, paid, calls, cleaner, strained, faults>>

\* The relay, a subscription or the sync stores an event.
StoreUnlimited(e) ==
    /\ AfterStore(e) # rows
    /\ rows' = AfterStore(e)
    /\ quiet' = FALSE /\ strained' = TRUE
    /\ UNCHANGED <<refs, paid, calls, cleaner, stable, faults>>

-----------------------------------------------------------------------------
(* EnforceRateLimits, in a handler. *)

StoreLocalEvent(p, e) ==
    /\ At(p, "idle")
    /\ calls' = [calls EXCEPT ![p] = [NoCall EXCEPT !.at = "countVersions", !.ev = e]]
    /\ strained' = (strained \/ ~CleanerAt("done") \/ \E o \in Handlers : ~At(o, "idle"))
    /\ UNCHANGED <<rows, refs, paid, cleaner, stable, quiet, faults>>

\* A read that finds no row, or fails, is an error: nothing is deleted then.
GiveUp(p) ==
    /\ calls' = [calls EXCEPT ![p] = [NoCall EXCEPT !.at = "store", !.ev = calls[p].ev]]
    /\ strained' = TRUE

\* With the deletions chosen, the statement that comes next.
Chosen(p, version, dtag) ==
    calls' = [calls EXCEPT ![p].version = version, ![p].dtag = dtag,
                           ![p].at = IF version # NoEvent THEN "deleteVersion"
                                     ELSE IF dtag # NoDTag THEN "deleteDTag"
                                     ELSE "store"]

\* Mutant: > for >=.
ReachesPast(n, max) == n > max

\* The limit is met: a new one needs room.
Reaches(n, max) == n >= max

CountVersions(p) ==
    /\ At(p, "countVersions")
    /\ GoTo(p, IF Reaches(Cardinality(Versions(calls[p].ev.d)), MaxVersions)
               THEN "oldestVersion" ELSE "recount")
    /\ UNCHANGED strained

OldestVersion(p) ==
    LET stored == Versions(calls[p].ev.d) IN
    /\ At(p, "oldestVersion")
    /\ \/ stored = {} /\ GiveUp(p)
       \/ /\ \E v \in Oldest(stored) :
                calls' = [calls EXCEPT ![p].at = "recount", ![p].version = v]
          /\ UNCHANGED strained

\* Is the event's d tag a new one?
Recount(p) ==
    /\ At(p, "recount")
    /\ IF Versions(calls[p].ev.d) = {}
       THEN GoTo(p, "countDTags")
       ELSE Chosen(p, calls[p].version, NoDTag)
    /\ UNCHANGED strained

CountDTags(p) ==
    /\ At(p, "countDTags")
    /\ IF Reaches(Cardinality(StoredDTags), MaxDTags)
       THEN GoTo(p, "oldestDTag")
       ELSE Chosen(p, calls[p].version, NoDTag)
    /\ UNCHANGED strained

\* "the d-tag whose most recent event is the oldest among all d-tags".
Stalest ==
    {d \in StoredDTags : \A c \in StoredDTags : \E r \in Versions(c) : \A s \in Versions(d) : s.ts <= r.ts}

OldestDTag(p) ==
    /\ At(p, "oldestDTag")
    /\ \/ rows = {} /\ GiveUp(p)
       \/ /\ \E d \in Stalest :
                calls' = [calls EXCEPT ![p].at = "checkReference", ![p].dtag = d]
          /\ UNCHANGED strained

\* IsDTagReferencedByAnchor: refs LIKE '%d%'.  A ref is an naddr, in which the
\* d tag is encoded: the text of a d tag occurs in it by coincidence only.
SeenReferenced(d) == \E r \in refs : <<d, r>> \in LooksLike

CheckReference(p) ==
    /\ At(p, "checkReference")
    /\ IF SeenReferenced(calls[p].dtag)
       THEN Chosen(p, calls[p].version, NoDTag) /\ strained' = TRUE
       ELSE Chosen(p, calls[p].version, calls[p].dtag) /\ UNCHANGED strained

\* The handler itself: DeleteEventByID, DeleteEventsByDTag and the store.
DeleteVersion(p) ==
    /\ At(p, "deleteVersion")
    /\ rows' = rows \ {calls[p].version}
    /\ Chosen(p, NoEvent, calls[p].dtag)

DeleteDTag(p) ==
    /\ At(p, "deleteDTag")
    /\ rows' = rows \ Versions(calls[p].dtag)
    /\ Chosen(p, NoEvent, NoDTag)

Store(p) ==
    /\ At(p, "store")
    /\ rows' = AfterStore(calls[p].ev)
    /\ Return(p)

HandlerStep(p) ==
    \/ /\ \/ CountVersions(p) \/ OldestVersion(p) \/ Recount(p)
          \/ CountDTags(p) \/ OldestDTag(p) \/ CheckReference(p)
       /\ UNCHANGED <<rows, refs, paid, cleaner, stable, quiet, faults>>
    \/ /\ DeleteVersion(p) \/ DeleteDTag(p) \/ Store(p)
       /\ quiet' = FALSE
       /\ UNCHANGED <<refs, paid, cleaner, stable, strained, faults>>

-----------------------------------------------------------------------------
(* RunEventCleanup. *)

\* A pubkey with rows and no valid transaction loses what no anchor protects.
CheckPubkey ==
    /\ CleanerAt("checkPubkey")
    /\ CleanerTo(IF rows = {} \/ paid THEN "countVersions" ELSE "protectInvalid")
    /\ UNCHANGED rows

\* Mutant: the references of another kind are read.
NoReferences == {}

\* getAnchorReferencedDTags.
AnchorReferencedDTags == refs

ProtectInvalid ==
    /\ CleanerAt("protectInvalid")
    /\ cleaner' = [cleaner EXCEPT !.at = "deleteInvalid", !.protected = AnchorReferencedDTags]
    /\ UNCHANGED rows

DeleteInvalid ==
    /\ CleanerAt("deleteInvalid")
    /\ rows' = {r \in rows : r.d \in cleaner.protected}
    /\ CleanerTo("countVersions")

\* Mutant: one too few.
ExcessButOne(n, max) == IF n > max THEN n - max - 1 ELSE 0

\* HAVING cnt > max; "toDelete := count - max".
Excess(n, max) == IF n > max THEN n - max ELSE 0

\* enforceVersionLimits: one query counts, one DELETE for each d tag follows.
CountAllVersions ==
    /\ CleanerAt("countVersions")
    /\ cleaner' = [cleaner EXCEPT !.at = "pruneVersions",
                       !.excess = [d \in DTags |-> Excess(Cardinality(Versions(d)), MaxVersions)]]
    /\ UNCHANGED rows

\* The k oldest of S; which of those that tie is open.
OldestOf(S, k) ==
    {T \in SUBSET S : /\ Cardinality(T) = IF k < Cardinality(S) THEN k ELSE Cardinality(S)
                      /\ \A t \in T, s \in S \ T : t.ts <= s.ts}

PruneVersions ==
    /\ CleanerAt("pruneVersions")
    /\ \/ \E d \in {c \in DTags : cleaner.excess[c] > 0} :
            /\ \E T \in OldestOf(Versions(d), cleaner.excess[d]) : rows' = rows \ T
            /\ cleaner' = [cleaner EXCEPT !.excess[d] = 0]
       \/ /\ \A d \in DTags : cleaner.excess[d] = 0
          /\ CleanerTo("countDTags")
          /\ UNCHANGED rows

\* enforceDTagLimits.
CountAllDTags ==
    LET excess == Excess(Cardinality(StoredDTags), MaxDTags) IN
    /\ CleanerAt("countDTags")
    /\ cleaner' = [cleaner EXCEPT !.at = IF excess > 0 THEN "protectDTags" ELSE "done",
                                  !.quota = excess]
    /\ UNCHANGED rows

ProtectDTags ==
    /\ CleanerAt("protectDTags")
    /\ cleaner' = [cleaner EXCEPT !.at = "orderDTags", !.protected = AnchorReferencedDTags]
    /\ UNCHANGED rows

\* The unprotected d tags in the order of their first events.
OrderDTags ==
    LET free == StoredDTags \ cleaner.protected IN
    /\ CleanerAt("orderDTags")
    /\ \E order \in SetToSeqs(free) :
        /\ \A i, j \in DOMAIN order : i < j =>
            \E r \in Versions(order[i]) : \A s \in Versions(order[j]) : r.ts <= s.ts
        /\ cleaner' = [cleaner EXCEPT !.at = "pruneDTags", !.queue = order]
    /\ UNCHANGED rows

PruneDTag ==
    /\ CleanerAt("pruneDTags")
    /\ IF cleaner.quota = 0 \/ cleaner.queue = <<>>
       THEN CleanerTo("done") /\ UNCHANGED rows
       ELSE /\ rows' = rows \ Versions(Head(cleaner.queue))
            /\ cleaner' = [cleaner EXCEPT !.queue = Tail(@), !.quota = @ - 1]

CleanerStep ==
    /\ \/ CheckPubkey \/ ProtectInvalid \/ DeleteInvalid
       \/ CountAllVersions \/ PruneVersions
       \/ CountAllDTags \/ ProtectDTags \/ OrderDTags \/ PruneDTag
    /\ UNCHANGED <<refs, paid, calls, history, faults>>

-----------------------------------------------------------------------------
(* Failures. *)

Fault ==
    /\ faults < MaxFaults /\ faults' = faults + 1
    /\ quiet' = FALSE /\ strained' = TRUE

\* A handler's read: the error of the second count is dropped, it reads as 0.
ReadFails(p) ==
    /\ calls[p].at \in Reads
    /\ IF At(p, "recount") THEN GoTo(p, "countDTags") ELSE GiveUp(p)
    /\ Fault
    /\ UNCHANGED <<rows, refs, paid, cleaner, stable>>

\* Deletes that fail are not noticed, a failed store is returned to the client.
WriteFails(p) ==
    /\ \/ At(p, "deleteVersion") /\ Chosen(p, NoEvent, calls[p].dtag)
       \/ At(p, "deleteDTag") /\ Chosen(p, NoEvent, NoDTag)
       \/ At(p, "store") /\ Return(p)
    /\ Fault
    /\ UNCHANGED <<rows, refs, paid, cleaner, stable>>

\* The cleanup passes over what fails.  A failed read of the anchors reads as none.
CleanupFails ==
    /\ \/ /\ cleaner.at \in {"checkPubkey", "deleteInvalid"}
          /\ CleanerTo("countVersions") /\ UNCHANGED stable
       \/ CleanerAt("countVersions") /\ CleanerTo("countDTags") /\ UNCHANGED stable
       \/ /\ cleaner.at \in {"countDTags", "orderDTags"}
          /\ CleanerTo("done") /\ UNCHANGED stable
       \/ /\ cleaner.at \in {"protectInvalid", "protectDTags"}
          /\ cleaner' = [cleaner EXCEPT !.protected = {},
                !.at = IF CleanerAt("protectInvalid") THEN "deleteInvalid" ELSE "orderDTags"]
          /\ stable' = {}
       \/ /\ CleanerAt("pruneVersions")
          /\ \E d \in {c \in DTags : cleaner.excess[c] > 0} :
                cleaner' = [cleaner EXCEPT !.excess[d] = 0]
          /\ UNCHANGED stable
       \/ /\ CleanerAt("pruneDTags") /\ cleaner.quota > 0 /\ cleaner.queue # <<>>
          /\ cleaner' = [cleaner EXCEPT !.queue = Tail(@)]
          /\ UNCHANGED stable
    /\ Fault
    /\ UNCHANGED <<rows, refs, paid, calls>>

\* The process ends at any time; the next one begins with the cleanup.
Restart ==
    /\ calls' = [p \in Handlers |-> NoCall]
    /\ cleaner' = CleanupStart
    /\ stable' = refs /\ quiet' = TRUE
    /\ UNCHANGED <<rows, refs, paid, strained, faults>>

-----------------------------------------------------------------------------

Next ==
    \/ RecordTransaction
    \/ \E d \in Referable : Anchor(d) \/ ReplaceAnchor(d)
    \/ \E e \in Events : StoreUnlimited(e)
    \/ \E p \in Handlers :
        \/ \E e \in Events : StoreLocalEvent(p, e)
        \/ HandlerStep(p) \/ ReadFails(p) \/ WriteFails(p)
    \/ CleanerStep \/ CleanupFails
    \/ Restart

Spec == Init /\ [][Next]_vars

-----------------------------------------------------------------------------
(* Properties. *)

\* The cleanup never takes all the events of a d tag that was referenced all the time
\* since it began, whatever is stored and anchored meanwhile: its reads of the anchors
\* may be old when it deletes, but only for d tags whose references came later.
\* (Pruning versions is excepted: its DELETE acts on a count that may be old, and
\* takes the only version there is if a newer one has replaced the others.)
CleanupSparesReferenced ==
    [][cleaner' # cleaner /\ cleaner.at \in {"deleteInvalid", "pruneDTags"} =>
        \A r \in rows : r.d \in stable => r \in rows']_vars

WithinVersions == \A d \in DTags : Cardinality(Versions(d)) <= MaxVersions

\* A cleanup beside which nothing was stored or anchored, and nothing failed, leaves
\* at most MaxVersions of a d tag and at most MaxDTags d tags, or referenced ones only.
QuietCleanupEnforces ==
    CleanerAt("done") /\ quiet =>
        /\ WithinVersions
        /\ Cardinality(StoredDTags) <= MaxDTags \/ StoredDTags \subseteq refs

\* If handlers alone store events, one at a time and after the cleanup, and nothing
\* fails or looks referenced, the limits hold after each statement of theirs.
SerialHandlersKeepLimits ==
    ~strained => WithinVersions /\ Cardinality(StoredDTags) <= MaxDTags
=============================================================================
