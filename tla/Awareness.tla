------------------------------- MODULE Awareness -------------------------------
(***************************************************************************)
(* Awareness marks (allow, neutral, block) on DNN IDs and names under them *)
(* (internal/database/queries.go), and their import from lists that are    *)
(* published on relays (kind 30000).                                       *)
(*                                                                         *)
(* awareness_marks_local holds the operator's marks: HTTP handlers add and *)
(* delete single ones, and handleAwarenessSync (internal/node/node.go)     *)
(* replaces them all by those of the admin's newest list.                  *)
(* awareness_marks_peers holds the marks of each active peer:              *)
(* syncPeerAwareness (internal/sync/syncer.go) replaces those of each peer *)
(* it found a list of.  Both ask the relays one after the other, keep the  *)
(* newest list, delete the old marks and insert the new ones, each in a    *)
(* statement of its own and with no lock.  (Module Resolution reads the    *)
(* local marks.)                                                           *)
(***************************************************************************)
EXTENDS Naturals, Sequences, FiniteSets

CONSTANTS
    SyncLoop,            \* the sync goroutine
    AdminSyncs,          \* requests to handleAwarenessSync
    Peers, Admin,        \* pubkeys that publish lists
    Tlds, Labels,        \* a DNN ID n<block>.<position>, a name under it
    Relays, Steady,      \* the configured relays, in order; those that always answer
    Lists, Holds,        \* the list events; <<r, e>>: the relay r may come to hold e
    Edits,               \* <<id, mark>>: what the operator may set or delete
    NoLabel, NoList, NoMark,
    MaxFailures          \* bound on failed SQL statements

Ids == Tlds \X (Labels \union {NoLabel})
Marks == {"allow", "neutral", "block"}
RelaySet == {Relays[i] : i \in DOMAIN Relays}

\* tags: the entries that parse, in the list's order; "other" is no mark.
ASSUME ListsAssumption ==
    Lists \subseteq [by : Peers \union {Admin}, created : Nat,
                     tags : Seq(Ids \X (Marks \union {"other"}))]

ASSUME ImportersAssumption ==
    /\ SyncLoop \notin AdminSyncs /\ Admin \notin Peers
    /\ Edits \subseteq Ids \X (Marks \union {"other"})
    /\ Relays \in Seq(RelaySet)
    /\ NoLabel \notin Labels /\ NoList \notin Lists /\ NoMark \notin Marks
    /\ Holds \subseteq RelaySet \X Lists
    /\ MaxFailures \in Nat

VARIABLES
    local,       \* DNN ID and name |-> mark in awareness_marks_local
    byPeer,      \* pubkey |-> the same for its marks in awareness_marks_peers
    active,      \* what GetPeerAdminPubkeys returns
    held,        \* <<relay, list>>: the lists on the relays
    syncs,       \* goroutine |-> where its import is, and its variables
    failures     \* number of failed statements so far

awarenessVars == <<local, byPeer, active, held, syncs, failures>>

-----------------------------------------------------------------------------

Importers == {SyncLoop} \union AdminSyncs
Authors == Peers \union {Admin}

Unmarked == [i \in Ids |-> NoMark]
NothingFound == [a \in Authors |-> NoList]

\* heard and disturbed are histories: the lists relays answered with; someone else
\* wrote to the table between the DELETE and now, or a statement failed.
NoSync == [at |-> "idle", authors |-> {}, next |-> 0, best |-> NothingFound, tags |-> <<>>,
           author |-> Admin, heard |-> {}, disturbed |-> FALSE]

ImportAt(x, place) == syncs[x].at = place

AwarenessTypeOK ==
    /\ local \in [Ids -> Marks \union {NoMark}]
    /\ byPeer \in [Peers -> [Ids -> Marks \union {NoMark}]]
    /\ active \subseteq Peers
    /\ held \subseteq Holds
    /\ \A x \in Importers :
        /\ syncs[x].at \in {"idle", "ask", "clear", "add"}
        /\ syncs[x].next \in 0..(Len(Relays) + 1)
        /\ \A a \in Authors : syncs[x].best[a] # NoList => syncs[x].best[a].by = a
        /\ x \in AdminSyncs => syncs[x].author = Admin
        /\ x = SyncLoop /\ ImportAt(x, "add") => syncs[x].author \in Peers
    /\ failures \in 0..MaxFailures

AwarenessInit ==
    /\ local = Unmarked
    /\ byPeer = [p \in Peers |-> Unmarked]
    /\ active = {}
    /\ held = {}
    /\ syncs = [x \in Importers |-> NoSync]
    /\ failures = 0

-----------------------------------------------------------------------------
(* Writing the tables. *)

\* Mutant: the mark is not looked at.
PutAnything(table, id, mark) == [table EXCEPT ![id] = mark]

\* AddLocalMark and AddPeerMark refuse anything else.
Put(table, id, mark) == IF mark \in Marks THEN [table EXCEPT ![id] = mark] ELSE table

\* A write to the local marks, seen by the imports that are inserting into them.
Disturb(others) ==
    [y \in Importers |->
        IF y \in others THEN [syncs[y] EXCEPT !.disturbed = ImportAt(y, "add")] ELSE syncs[y]]

-----------------------------------------------------------------------------
(* The world: peers become active and inactive, lists are published. *)

SetActive(a) ==
    /\ a # active
    /\ active' = a
    /\ UNCHANGED <<local, byPeer, held, syncs, failures>>

\* A relay keeps one list of an author, and no older one than it has.
Publish(r, e) ==
    LET old == {h \in held : h[1] = r /\ h[2].by = e.by} IN
    /\ <<r, e>> \in Holds
    /\ \A h \in old : h[2].created < e.created
    /\ held' = (held \ old) \union {<<r, e>>}
    /\ UNCHANGED <<local, byPeer, active, syncs, failures>>

-----------------------------------------------------------------------------
(* handleAddLocalMark and handleDeleteLocalMark. *)

AddLocalMark(id, mark) ==
    /\ local' = Put(local, id, mark)
    /\ syncs' = Disturb(AdminSyncs)
    /\ UNCHANGED <<byPeer, active, held, failures>>

DeleteLocalMark(id) ==
    /\ local' = [local EXCEPT ![id] = NoMark]
    /\ syncs' = Disturb(AdminSyncs)
    /\ UNCHANGED <<byPeer, active, held, failures>>

-----------------------------------------------------------------------------
(* syncPeerAwareness and handleAwarenessSync. *)

\* With no active peer, or no relay, there is nothing to ask.
BeginSync(x) ==
    LET wanted == IF x = SyncLoop THEN active ELSE {Admin} IN
    /\ ImportAt(x, "idle")
    /\ wanted # {} /\ Relays # <<>>
    /\ syncs' = [syncs EXCEPT ![x] = [NoSync EXCEPT !.at = "ask", !.authors = wanted, !.next = 1]]
    /\ UNCHANGED <<local, byPeer, active, held, failures>>

\* Mutant: each relay's answer takes the place of those before.
LastAnswer(best, answer) ==
    [a \in Authors |->
        IF \E e \in answer : e.by = a THEN CHOOSE e \in answer : e.by = a ELSE NoList]

\* "Keep the newest event per pubkey"; the first of those that tie.
Newest(best, answer) ==
    [a \in Authors |->
        LET newer == {e \in answer : e.by = a /\ (best[a] = NoList \/ e.created > best[a].created)}
        IN IF newer = {} THEN best[a] ELSE CHOOSE e \in newer : TRUE]

\* The authors a list was found of and not imported yet.
ListsLeft(call) == {a \in call.authors : call.best[a] # NoList}

\* On to the marks of one of the authors left, in any order (a Go map), or the end.
NextList(x, call) ==
    IF ListsLeft(call) = {} THEN syncs' = [syncs EXCEPT ![x] = NoSync]
    ELSE \E a \in ListsLeft(call) :
        syncs' = [syncs EXCEPT ![x] =
                    [call EXCEPT !.at = "clear", !.author = a, !.tags = call.best[a].tags,
                                 !.authors = @ \ {a}, !.disturbed = FALSE]]

\* The next relay answers with the newest list it has of each author, or not at all.
AskRelay(x) ==
    LET r == Relays[syncs[x].next]
        answer == {h[2] : h \in {g \in held : g[1] = r /\ g[2].by \in syncs[x].authors}}
        after(heard) == [syncs[x] EXCEPT !.next = @ + 1, !.best = Newest(@, heard),
                                         !.heard = @ \union heard]
    IN
    /\ ImportAt(x, "ask")
    /\ \E heard \in {answer} \union (IF r \in Steady THEN {} ELSE {{}}) :
        IF syncs[x].next < Len(Relays)
        THEN syncs' = [syncs EXCEPT ![x] = after(heard)]
        ELSE NextList(x, after(heard))
    /\ UNCHANGED <<local, byPeer, active, held, failures>>

\* The table that x imports into, for the list's author.
Write(x, table) ==
    IF x = SyncLoop
    THEN /\ byPeer' = [byPeer EXCEPT ![syncs[x].author] = table]
         /\ UNCHANGED local
    ELSE /\ local' = table
         /\ UNCHANGED byPeer

Table(x) == IF x = SyncLoop THEN byPeer[syncs[x].author] ELSE local
Others(x) == IF x = SyncLoop THEN {} ELSE AdminSyncs \ {x}

\* Mutant: the old marks stay.
ClearNothing(x) ==
    /\ ImportAt(x, "clear")
    /\ syncs' = [syncs EXCEPT ![x].at = "add"]
    /\ UNCHANGED <<local, byPeer, active, held, failures>>

\* ClearPeerMarksForPeer, ClearLocalMarks.
Clear(x) ==
    /\ ImportAt(x, "clear")
    /\ Write(x, Unmarked)
    /\ syncs' = [Disturb(Others(x)) EXCEPT ![x].at = "add"]
    /\ UNCHANGED <<active, held, failures>>

AddMark(x) ==
    /\ ImportAt(x, "add") /\ syncs[x].tags # <<>>
    /\ LET tag == Head(syncs[x].tags) IN Write(x, Put(Table(x), tag[1], tag[2]))
    /\ syncs' = [Disturb(Others(x)) EXCEPT ![x].tags = Tail(@)]
    /\ UNCHANGED <<active, held, failures>>

EndList(x) ==
    /\ ImportAt(x, "add") /\ syncs[x].tags = <<>>
    /\ NextList(x, syncs[x])
    /\ UNCHANGED <<local, byPeer, active, held, failures>>

\* A DELETE or an INSERT that fails is passed over.
FailedWrite(x) ==
    /\ failures < MaxFailures
    /\ failures' = failures + 1
    /\ \/ ImportAt(x, "clear") /\ syncs' = [syncs EXCEPT ![x].at = "add", ![x].disturbed = TRUE]
       \/ /\ ImportAt(x, "add") /\ syncs[x].tags # <<>>
          /\ syncs' = [syncs EXCEPT ![x].tags = Tail(@), ![x].disturbed = TRUE]
    /\ UNCHANGED <<local, byPeer, active, held>>

-----------------------------------------------------------------------------

SyncStep(x) == AskRelay(x) \/ Clear(x) \/ AddMark(x) \/ EndList(x)

AwarenessNext ==
    \/ \E a \in SUBSET Peers : SetActive(a)
    \/ \E r \in RelaySet, e \in Lists : Publish(r, e)
    \/ \E edit \in Edits : AddLocalMark(edit[1], edit[2]) \/ DeleteLocalMark(edit[1])
    \/ \E x \in Importers : BeginSync(x) \/ SyncStep(x) \/ FailedWrite(x)

AwarenessSpec == AwarenessInit /\ [][AwarenessNext]_awarenessVars

\* The sync loop's ticker goes on and its queries end (30 s).
AwarenessFairSpec == AwarenessSpec /\ WF_awarenessVars(BeginSync(SyncLoop) \/ SyncStep(SyncLoop))

-----------------------------------------------------------------------------
(* Properties. *)

\* The table has the marks of the list's first n entries and no other: of two on the
\* same name that of the later one.
CopyUpTo(table, tags, n) ==
    \A id \in Ids :
        LET marking == {k \in 1..n : tags[k][1] = id /\ tags[k][2] \in Marks} IN
        \/ marking = {} /\ table[id] = NoMark
        \/ \E k \in marking : (\A m \in marking : m <= k) /\ table[id] = tags[k][2]

CopyOf(table, tags) == CopyUpTo(table, tags, Len(tags))

NewestHeard(x) ==
    {e \in syncs[x].heard : e.by = syncs[x].author /\
        \A f \in syncs[x].heard : f.by = e.by => f.created <= e.created}

\* A list that was imported with nobody else writing and nothing failing is, mark for
\* mark, the newest any relay answered with: nothing of an older one stays.
SyncReplacesMarks ==
    \A x \in Importers :
        ImportAt(x, "add") /\ syncs[x].tags = <<>> /\ ~syncs[x].disturbed =>
            \E e \in NewestHeard(x) : CopyOf(Table(x), e.tags)

\* The newest list of a peer that stays active is imported whenever it is on a relay
\* that answers, also when others are imported with it.
Outdated(p) ==
    /\ p \in active
    /\ \E r \in Steady, e \in Lists :
        /\ <<r, e>> \in held /\ e.by = p
        /\ \A f \in Lists : f.by = p => f.created <= e.created
        /\ ~CopyOf(byPeer[p], e.tags)

PeerListsArrive == \A p \in Peers : []<>~Outdated(p)
=============================================================================
