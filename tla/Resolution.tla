------------------------------- MODULE Resolution -------------------------------
(***************************************************************************)
(* Requests for a DNN name: handleResolve and handleVerify                 *)
(* (internal/node/node.go) and the DNS server (internal/dns/server.go).    *)
(*                                                                         *)
(* A request reads the database in several statements and takes no lock:   *)
(* the anchors that may be meant, the name event of each until one has the *)
(* name, the connection event, the operator's marks, the connection event  *)
(* it delegates to.  Events are stored, anchors come and go and marks are  *)
(* set meanwhile (modules AddressableStore, AnchorStore and Awareness).    *)
(* Requests only read, so one at a time is enough.                         *)
(*                                                                         *)
(* An author stands for the address (pubkey and d-tag) under which an      *)
(* anchor refers to its events.  The metadata event, read like the         *)
(* connection event, and the parts of the answer that decide nothing are   *)
(* left out.  A name that the node does not hold is an error of            *)
(* GetAnchorByName, which ends the request: fetchAndSyncFromRelays is      *)
(* never called.                                                           *)
(***************************************************************************)
EXTENDS Notation, FiniteSets

CONSTANTS
    Authors,
    Anchors,      \* the anchors that may be stored: [block, pos, by]
    Names,        \* the parts that are names, and keys of a connection event
    Contents,     \* contents of a connection event: name |-> author it delegates to
    Requests,     \* [protocol, parts, means]: means is the ID whose text it is, or Nothing
    NoOne,        \* no author
    Databases,    \* what the database may hold at first
    MaxChanges    \* bound on the changes of the database

ID(anchor) == <<anchor.block, anchor.pos>>
IDs == {ID(a) : a \in Anchors}

\* A mark on the whole ID is one on the empty name.
Whole == <<>>
MarkKeys == IDs \X (Names \union {Whole})

ASSUME ResolutionAssumption ==
    /\ Anchors \subseteq [block : Nat, pos : Nat \ {0}, by : Authors] /\ Nothing \notin Anchors
    /\ \A c \in Contents : DOMAIN c \subseteq Names /\ Range(c) \subseteq Authors \union {NoOne}
    /\ NoOne \notin Authors /\ Whole \notin Names
    /\ Databases \subseteq [anchors : SUBSET Anchors, names : [Authors -> Seq(Names)],
                             contents : [Authors -> Seq(Contents)], blocked : SUBSET MarkKeys]
    /\ MaxChanges \in Nat

\* A request that means an ID has a text of it; the DNS server knows the encoded one only.
ASSUME RequestsAssumption ==
    \A asked \in Requests : asked.means # Nothing =>
        /\ asked.means \in Nat \X (Nat \ {0})
        /\ \E text \in {Encoded(asked.means)}
                       \union (IF asked.protocol = "dns" THEN {} ELSE Numerics(asked.means)) :
                IsCalled(asked.parts, text)

VARIABLES
    anchors,   \* anchor_events
    names,     \* author |-> the primary names of the versions of its name event, oldest first
    contents,  \* author |-> the contents of those of its connection event
    blocked,   \* the IDs and names with a block mark
    request,   \* what is asked, where the handler is, and its variables
    changes    \* number of changes so far

resolutionVars == <<anchors, names, contents, blocked, request, changes>>

-----------------------------------------------------------------------------

\* query is what the handler looks for, label the subdomain it looks for there; anchor is
\* the row read last.  before, open and steady are histories: the number of versions when
\* the request came, the marks that were off since, the anchors that had the name all along.
Idle == [at |-> "idle", asked |-> Nothing, query |-> Nothing, label |-> <<>>, left |-> {},
         anchor |-> Nothing, name |-> <<>>, version |-> 0, data |-> Nothing,
         before |-> Nothing, open |-> {}, steady |-> {}]

Outcomes == {"invalid", "missing", "blocked", "served", "verified"}
Places == {"idle", "match", "name", "connection", "marks", "delegation",
           "tld", "label", "primary", "primary name", "owner", "content"}

\* Where the rest of the handler counts on an anchor.
WithAnchor == {"name", "connection", "marks", "delegation", "served", "verified",
               "primary name", "owner", "content"}

RequestAt(place) == request.at = place

\* Types; and a request that goes on from an anchor, or ends with an answer, has an
\* anchor and a version of its owner's connection event that was stored.
ResolutionTypeOK ==
    /\ anchors \subseteq Anchors
    /\ \A a \in Authors : names[a] \in Seq(Names) /\ contents[a] \in Seq(Contents)
    /\ blocked \subseteq MarkKeys
    /\ request.at \in Places \union Outcomes
    /\ request.left \subseteq Anchors /\ request.steady \subseteq Anchors
    /\ request.anchor \in Anchors \union {Nothing}
    /\ request.at \in WithAnchor =>
        request.anchor \in Anchors /\ request.version <= Len(contents[request.anchor.by])
    /\ changes \in 0..MaxChanges

Latest(versions) == versions[Len(versions)]

HasName(anchor, name, nm) == nm[anchor.by] # <<>> /\ Latest(nm[anchor.by]) = name

ResolutionInit ==
    /\ \E d \in Databases : /\ anchors = d.anchors /\ blocked = d.blocked
                            /\ names = d.names /\ contents = d.contents
    /\ request = Idle
    /\ changes = 0

-----------------------------------------------------------------------------
(* What others write, and what the request has seen of it. *)

Observe ==
    request' = [request EXCEPT
        !.open = @ \union (MarkKeys \ blocked'),
        !.steady = {a \in @ : a \in anchors' /\ HasName(a, request.query.name, names')}]

Change ==
    /\ request.at \in Places \ {"idle"} /\ changes < MaxChanges
    /\ changes' = changes + 1

StoreName(a, n) ==
    /\ Change
    /\ names' = [names EXCEPT ![a] = Append(@, n)]
    /\ UNCHANGED <<anchors, contents, blocked>>
    /\ Observe

StoreConnection(a, c) ==
    /\ Change
    /\ contents' = [contents EXCEPT ![a] = Append(@, c)]
    /\ UNCHANGED <<anchors, names, blocked>>
    /\ Observe

StoreAnchor(anchor) ==
    /\ Change /\ anchor \notin anchors
    /\ anchors' = anchors \union {anchor}
    /\ UNCHANGED <<names, contents, blocked>>
    /\ Observe

DeleteAnchor(anchor) ==
    /\ Change /\ anchor \in anchors
    /\ anchors' = anchors \ {anchor}
    /\ UNCHANGED <<names, contents, blocked>>
    /\ Observe

SetMark(key, on) ==
    /\ Change /\ on # (key \in blocked)
    /\ blocked' = IF on THEN blocked \union {key} ELSE blocked \ {key}
    /\ UNCHANGED <<anchors, names, contents>>
    /\ Observe

-----------------------------------------------------------------------------
(* The HTTP handlers. *)

Store == <<anchors, names, contents, blocked, changes>>

Continue(r) == request' = r /\ UNCHANGED Store
Goto(place) == Continue([request EXCEPT !.at = place])

\* ORDER BY dnn_block_number DESC, position ASC
Before(a, b) == a.block > b.block \/ (a.block = b.block /\ a.pos < b.pos)

\* Mutant: the block does not count.
FirstByPosition(some) == {a \in some : \A b \in some : a.pos <= b.pos}

First(some) == {a \in some : \A b \in some : ~ Before(b, a)}

\* Those at the block and position, if the query names them.
Rows(query) ==
    {a \in anchors : (query.block = Nothing \/ query.block = a.block)
                        /\ (query.pos = Nothing \/ query.pos = a.pos)}

Came(asked, query, label) ==
    [Idle EXCEPT !.asked = asked, !.query = query, !.label = label,
                 !.before = [names |-> [a \in Authors |-> Len(names[a])],
                             contents |-> [a \in Authors |-> Len(contents[a])]],
                 !.open = MarkKeys \ blocked,
                 !.steady = {a \in Rows(query) : HasName(a, query.name, names)}]

\* The subdomain, and the name it is taken off; handleVerify knows no subdomains.
Split(parts) ==
    IF HasSubdomain(parts) THEN [label |-> parts[1], name |-> Tail(parts)]
    ELSE [label |-> <<>>, name |-> parts]

\* Parsing, and the first statement of GetAnchorByName.
Receive(asked) ==
    LET split == IF asked.protocol = "resolve" THEN Split(asked.parts)
                 ELSE [label |-> <<>>, name |-> asked.parts]
        query == ParseDNNName(split.name)
        refused == \/ query = Nothing
                   \/ asked.protocol = "resolve" /\ query.block # Nothing /\ query.block < 0
    IN
    /\ RequestAt("idle") /\ asked.protocol \in {"resolve", "verify"}
    /\ IF refused
       THEN Continue([Idle EXCEPT !.asked = asked, !.at = "invalid"])
       ELSE LET came == Came(asked, query, split.label) IN
            IF query.name # <<>>
            THEN Continue([came EXCEPT !.at = "match", !.left = Rows(query)])
            ELSE IF Rows(query) = {} THEN Continue([came EXCEPT !.at = "missing"])
            ELSE \E a \in First(Rows(query)) :
                    Continue([came EXCEPT !.at = "name", !.anchor = a])

\* Mutant: no row is no error.
MatchNone ==
    /\ RequestAt("match")
    /\ IF request.left = {} THEN Goto("name")
       ELSE \E a \in First(request.left) :
              IF HasName(a, request.query.name, names)
              THEN Continue([request EXCEPT !.at = "name", !.anchor = a, !.left = {}])
              ELSE Continue([request EXCEPT !.left = @ \ {a}])

\* The next row, until one has the name now.
Match ==
    /\ RequestAt("match")
    /\ IF request.left = {} THEN Goto("missing")
       ELSE \E a \in First(request.left) :
              IF HasName(a, request.query.name, names)
              THEN Continue([request EXCEPT !.at = "name", !.anchor = a, !.left = {}])
              ELSE Continue([request EXCEPT !.left = @ \ {a}])

By == request.anchor.by

\* Mutant: the first version is read.
OldestVersion(versions) == IF versions = <<>> THEN 0 ELSE 1

\* ORDER BY created_at DESC LIMIT 1; 0 if there is none.
LatestVersion(versions) == Len(versions)

\* The name event is read again; one that is gone is a warning.
ReadName ==
    /\ RequestAt("name")
    /\ Continue([request EXCEPT !.at = "connection",
                    !.name = IF names[By] = <<>> THEN <<>> ELSE Latest(names[By])])

ReadConnection ==
    /\ RequestAt("connection")
    /\ Continue([request EXCEPT
            !.at = IF request.asked.protocol = "verify" THEN "verified" ELSE "marks",
            !.version = LatestVersion(contents[By])])

\* Mutant: the name is not passed on.
IsBlockedID(id, name) == <<id, Whole>> \in blocked

\* One statement of IsBlocked.
IsBlocked(id, name) == <<id, name>> \in blocked

CheckMarks ==
    /\ RequestAt("marks")
    /\ Goto(IF IsBlocked(ID(request.anchor), Whole) THEN "blocked" ELSE "delegation")

Own(version, key) == [of |-> By, version |-> version, key |-> key]
Theirs(version, key) == [of |-> NoOne, version |-> version, key |-> key]
Empty == Theirs(0, <<>>)

\* parseConnectionContent: the key, or whichever comes first in a map without order.
Keys(content, name) == IF name \in DOMAIN content THEN {name} ELSE DOMAIN content

\* resolveDelegation: any version of the event it delegates to, or what a relay has; else
\* the connection data stay.
Delegated(author, own) ==
    IF contents[author] # <<>>
    THEN UNION {{Theirs(v, k) : k \in Keys(contents[author][v], <<>>)} :
                    v \in DOMAIN contents[author]}
    ELSE {own, Empty}

\* The connection data of the name itself.
OwnData(content) ==
    UNION {LET own == Own(request.version, k) IN
             IF content[k] = NoOne THEN {own} ELSE Delegated(content[k], own) :
           k \in Keys(content, request.name)}

Respond ==
    /\ RequestAt("delegation")
    /\ \E d \in IF request.version = 0 THEN {Empty}
                ELSE LET content == contents[By][request.version] IN
                     IF request.label \in {<<>>, request.name} THEN OwnData(content)
                     ELSE IF request.label \in DOMAIN content
                          THEN {Own(request.version, request.label)}
                     ELSE {Empty} :
            Continue([request EXCEPT !.at = "served", !.data = d])

-----------------------------------------------------------------------------
(* The DNS server. *)

\* Names that are not DNN names are forwarded.
ReceiveDNS(asked) ==
    LET id == Decode(Last(asked.parts)) IN
    /\ RequestAt("idle") /\ asked.protocol = "dns" /\ IsDNNName(asked.parts)
    /\ Continue(IF id = Nothing THEN [Idle EXCEPT !.asked = asked, !.at = "invalid"]
                ELSE [Came(asked, Query(<<>>, id[1], id[2]), FlattenSeq(Front(asked.parts)))
                        EXCEPT !.at = "tld"])

Target == <<request.query.block, request.query.pos>>

CheckTld ==
    /\ RequestAt("tld")
    /\ Goto(IF IsBlocked(Target, Whole) THEN "blocked"
            ELSE IF request.label = <<>> THEN "primary" ELSE "label")

CheckLabel ==
    /\ RequestAt("label")
    /\ Goto(IF IsBlocked(Target, request.label) THEN "blocked" ELSE "primary")

\* The anchor is looked up twice, for the name and for the content; LIMIT 1 without an order.
FindAnchor(from, to) ==
    LET found == {a \in anchors : ID(a) = Target} IN
    /\ RequestAt(from)
    /\ IF found = {} THEN Goto("missing")
       ELSE \E a \in found : Continue([request EXCEPT !.at = to, !.anchor = a])

ReadPrimaryName ==
    /\ RequestAt("primary name")
    /\ IF names[By] = <<>> THEN Goto("missing")
       ELSE Continue([request EXCEPT !.at = "owner", !.name = Latest(names[By])])

ReadContent ==
    LET version == LatestVersion(contents[By])
        key == IF request.label = <<>> THEN request.name ELSE request.label
    IN
    /\ RequestAt("content")
    /\ IF version = 0 THEN Goto("missing")
       ELSE IF key \notin DOMAIN contents[By][version] THEN Goto("missing")
       ELSE Continue([request EXCEPT !.at = "served", !.version = version,
                                     !.data = Own(version, key)])

-----------------------------------------------------------------------------

Ended == request.at \in Outcomes

EndRequest == Ended /\ Continue(Idle)

Step ==
    \/ \E asked \in Requests : Receive(asked) \/ ReceiveDNS(asked)
    \/ Match \/ ReadName \/ ReadConnection \/ CheckMarks \/ Respond
    \/ CheckTld \/ CheckLabel
    \/ FindAnchor("primary", "primary name") \/ FindAnchor("owner", "content")
    \/ ReadPrimaryName \/ ReadContent
    \/ EndRequest

ResolutionNext ==
    \/ Step
    \/ \E a \in Authors : \/ \E n \in Names : StoreName(a, n)
                          \/ \E c \in Contents : StoreConnection(a, c)
    \/ \E a \in Anchors : StoreAnchor(a) \/ DeleteAnchor(a)
    \/ \E k \in MarkKeys, on \in BOOLEAN : SetMark(k, on)

ResolutionSpec == ResolutionInit /\ [][ResolutionNext]_resolutionVars

-----------------------------------------------------------------------------
(* Properties. *)

Found == request.at \in {"served", "blocked", "verified"} /\ request.anchor # Nothing

\* Whatever changes while a request for a name runs, it is answered by the latest anchor
\* that had the name all along or by a later one, and not found only if there was none.
NamesResolveToLatest ==
    Ended /\ request.at # "invalid" /\ request.query.name # <<>> =>
        /\ Found => \A a \in request.steady : ~ Before(a, request.anchor)
        /\ RequestAt("missing") => request.steady = {}

\* Connection data that are not delegated are no older than what was stored when the
\* request came.
ServedNotOlder ==
    RequestAt("served") /\ request.data.of = By =>
        request.data.version >= request.before.contents[By]

\* What is served was at some moment of the request without a block mark on its ID, and
\* over DNS without one on its name.
BlockedNotServed ==
    RequestAt("served") =>
        /\ <<ID(request.anchor), Whole>> \in request.open
        /\ request.asked.protocol = "dns" /\ request.label \in Names =>
                <<ID(request.anchor), request.label>> \in request.open

\* A request with a text by which the node calls an ID is understood, and answered with
\* that ID.
IDsLeadBack ==
    Ended /\ request.asked.means # Nothing =>
        /\ ~ RequestAt("invalid")
        /\ Found => ID(request.anchor) = request.asked.means
=============================================================================
