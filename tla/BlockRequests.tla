---------------------------- MODULE BlockRequests ----------------------------
(***************************************************************************)
(* How the P2P client downloads a block (internal/bitcoin/p2p_client.go).  *)
(*                                                                         *)
(* GetBlock, called by several goroutines, asks up to Parallel peers at    *)
(* once.  For each it starts a goroutine (requestBlockFromPeer) that makes *)
(* a channel, registers it in pendingBlocks under the block's hash, sends  *)
(* getdata and waits 15 seconds.  A peer's read loop (onBlock) takes what  *)
(* is registered under the hash of a block that arrives, releases the lock *)
(* and then sends the block to that channel.  There is one registration    *)
(* for each hash, whoever asked; and a request that ends closes its        *)
(* channel.  Sending to a closed channel panics, in a select as well, and  *)
(* ends the process.                                                       *)
(*                                                                         *)
(* A call that got no block looks for another peer (tryConnectNewPeer) and *)
(* fails.  A connection, once made, stays in the list of peers when it is  *)
(* lost.  Which of the connected peers are asked depends on their past     *)
(* response times: any of them, here.                                      *)
(***************************************************************************)
EXTENDS Naturals, FiniteSets

CONSTANTS
    Calls,         \* the calls of GetBlock
    Blocks,
    Peers,         \* connections that may be made: a bound on reconnecting
    Addresses,     \* discoveredPeers
    AddrOf,        \* connection |-> its address
    Initial,       \* the sets of connections that Start may make
    NoBlock, NoRequest,
    Parallel,      \* numParallelRequests: 3
    MaxPeers,      \* 15
    Flaky          \* connections that may be lost: a bound

ASSUME PeersAssumption ==
    /\ IsFiniteSet(Peers) /\ Flaky \subseteq Peers /\ AddrOf \in [Peers -> Addresses]
    /\ \A S \in Initial : S \subseteq Peers /\ S # {} /\ Cardinality(S) <= MaxPeers

ASSUME NamesAssumption == NoBlock \notin Blocks /\ NoRequest \notin Calls \X Peers

ASSUME NumbersAssumption ==
    Parallel \in Nat \ {0} /\ MaxPeers \in Nat \ {0}

Requests == Calls \X Peers
CallOf(r) == r[1]
PeerOf(r) == r[2]

VARIABLES
    peers,         \* connections in the list of peers
    connected,     \* those of them that are up
    blockCache,    \* the blocks that are cached
    pendingBlocks, \* block |-> the request whose channel is registered
    calls,         \* call |-> its next step, its block, the addresses not to dial
    requests,      \* request |-> its next step and how its wait ended
    channels,      \* request |-> content of its response channel
    asked,         \* getdata messages not answered yet
    handing,       \* connection |-> the block its read loop is about to send, to whom
    alive,         \* the process did not panic
    overlapped     \* history: two calls looked for a new peer at the same time

vars == <<peers, connected, blockCache, pendingBlocks, calls, requests,
          channels, asked, handing, alive, overlapped>>

-----------------------------------------------------------------------------

Handing(p) == handing[p] # NoRequest

CallAt(c, step) == calls[c].at = step
CallTo(c, step) == calls' = [calls EXCEPT ![c].at = step]

CallWith(c, step, known) ==
    calls' = [calls EXCEPT ![c] = [at |-> step, block |-> @.block, known |-> known]]
At(r, step) == requests[r].at = step
BlockOf(r) == calls[CallOf(r)].block

Started(c) == {r \in Requests : CallOf(r) = c /\ ~At(r, "none")}
RequestsFor(b) == {r \in Requests : ~At(r, "none") /\ BlockOf(r) = b}
Over == {"cleanup", "done"}

CallSteps == {"idle", "ask", "collect", "connect", "dial", "served", "failed"}
RequestSteps == {"none", "start", "wait"} \union Over

\* How a wait may end: with a block, which may fail the merkle check, or without.
Results == {"block", "damaged", "timeout"}

TypeOK ==
    /\ peers \subseteq Peers /\ connected \subseteq peers
    /\ blockCache \subseteq Blocks
    /\ pendingBlocks \in [Blocks -> Requests \union {NoRequest}]
    /\ calls \in [Calls -> [at : CallSteps, block : Blocks \union {NoBlock},
                            known : SUBSET Addresses]]
    /\ \A c \in Calls : CallAt(c, "idle") <=> calls[c].block = NoBlock
    /\ requests \in [Requests -> [at : RequestSteps,
                                  result : Results \union {"none"}]]
    /\ \A r \in Requests : calls[CallOf(r)].at \in {"idle", "ask"} => At(r, "none")
    /\ channels \in [Requests -> {"empty", "full", "closed"}]
    /\ asked \subseteq {r \in Requests : requests[r].at \in {"wait"} \union Over}
    /\ handing \in [Peers -> Requests \union {NoRequest}]
    /\ alive \in BOOLEAN /\ overlapped \in BOOLEAN

\* The memory of the process before any call.
NothingPending == [b \in Blocks |-> NoRequest]
IdleCalls == [c \in Calls |-> [at |-> "idle", block |-> NoBlock, known |-> {}]]
NoRequests == [r \in Requests |-> [at |-> "none", result |-> "none"]]
EmptyChannels == [r \in Requests |-> "empty"]
NothingHanded == [p \in Peers |-> NoRequest]

\* Start has connected to some of the discovered peers; nothing was asked yet.
Init ==
    /\ peers \in Initial
    /\ connected = peers
    /\ blockCache = {} /\ pendingBlocks = NothingPending
    /\ calls = IdleCalls /\ requests = NoRequests
    /\ channels = EmptyChannels /\ handing = NothingHanded
    /\ asked = {}
    /\ alive = TRUE /\ overlapped = FALSE

-----------------------------------------------------------------------------
(* GetBlock. *)

GetBlock(c, b) ==
    /\ alive /\ CallAt(c, "idle")
    /\ calls' = [calls EXCEPT ![c].block = b,
                              ![c].at = IF b \in blockCache THEN "served" ELSE "ask"]
    /\ UNCHANGED <<peers, connected, blockCache, pendingBlocks, requests,
                   channels, asked, handing, overlapped, alive>>

Smaller(m, n) == IF m < n THEN m ELSE n

\* Starts a goroutine for each of the fastest connected peers.
AskPeers(c) ==
    /\ CallAt(c, "ask")
    /\ IF connected = {}
       THEN CallTo(c, "connect") /\ UNCHANGED requests
       ELSE \E S \in SUBSET connected :
            /\ Cardinality(S) = Smaller(Parallel, Cardinality(connected))
            /\ requests' = [r \in Requests |->
                   IF CallOf(r) = c /\ PeerOf(r) \in S
                   THEN [requests[r] EXCEPT !.at = "start"] ELSE requests[r]]
            /\ CallTo(c, "collect")
    /\ UNCHANGED <<peers, connected, blockCache, pendingBlocks,
                   channels, asked, handing, overlapped, alive>>

Successful(r) == At(r, "done") /\ requests[r].result = "block"
Failed(r) == At(r, "done") /\ ~Successful(r)

\* Mutant: the first failure ends the call.
OneFailed(c) == \E r \in Started(c) : Failed(r)

\* Mutant: three results are awaited however few peers were asked.
AllOfThreeFailed(c) == Cardinality({r \in Started(c) : Failed(r)}) = Parallel
AllFailed(c) == \A r \in Started(c) : Failed(r)

\* "Wait for first successful response or all to fail".
Collect(c) ==
    /\ CallAt(c, "collect")
    /\ \/ (\E r \in Started(c) : Successful(r)) /\ CallTo(c, "served")
       \/ AllFailed(c) /\ CallTo(c, "connect")
    /\ UNCHANGED <<peers, connected, blockCache, pendingBlocks, requests,
                   channels, asked, handing, overlapped, alive>>

-----------------------------------------------------------------------------
(* tryConnectNewPeer, before a call fails.  The lock is released to dial. *)

KnownAddresses == {AddrOf[p] : p \in peers}

\* Mutant: connections that are lost do not count.
EnoughConnected == Cardinality(connected) >= MaxPeers
EnoughPeers == Cardinality(peers) >= MaxPeers

StartConnecting(c) ==
    /\ CallAt(c, "connect")
    /\ IF EnoughPeers
       THEN CallTo(c, "failed") /\ UNCHANGED overlapped
       ELSE /\ CallWith(c, "dial", KnownAddresses)
            /\ overlapped' = (overlapped \/ \E d \in Calls : CallAt(d, "dial"))
    /\ UNCHANGED <<peers, connected, blockCache, pendingBlocks, requests,
                   channels, asked, handing, alive>>

\* The dial and the handshake succeeded.
ConnectToPeer(p) == peers' = peers \union {p} /\ connected' = connected \union {p}

\* Tries the addresses that were no peer's when the search began, one
\* after the other until one answers.
Dial(c) ==
    /\ CallAt(c, "dial")
    /\ CallWith(c, "failed", {})
    /\ \/ UNCHANGED <<peers, connected>>
       \/ \E p \in Peers \ peers :
            /\ AddrOf[p] \notin calls[c].known
            /\ ConnectToPeer(p)
    /\ UNCHANGED <<blockCache, pendingBlocks, requests,
                   channels, asked, handing, overlapped, alive>>

-----------------------------------------------------------------------------
(* requestBlockFromPeer, a goroutine for each request. *)

\* Replaces the registration of any other request for the block.  A getdata to a
\* peer that is gone is dropped.
Register(r) ==
    /\ At(r, "start")
    /\ pendingBlocks' = [pendingBlocks EXCEPT ![BlockOf(r)] = r]
    /\ asked' = IF PeerOf(r) \in connected THEN asked \union {r} ELSE asked
    /\ requests' = [requests EXCEPT ![r].at = "wait"]
    /\ UNCHANGED <<peers, connected, blockCache, calls, channels, handing,
                   overlapped, alive>>

\* A block whose merkle root does not fit is an error, any other one is cached.
Receive(r) ==
    /\ At(r, "wait") /\ channels[r] = "full"
    /\ channels' = [channels EXCEPT ![r] = "empty"]
    /\ \E result \in {"block", "damaged"} :
        /\ requests' = [requests EXCEPT ![r] = [at |-> "cleanup", result |-> result]]
        /\ blockCache' = blockCache \union {b \in {BlockOf(r)} : result = "block"}
    /\ UNCHANGED <<peers, connected, pendingBlocks, calls, asked, handing,
                   overlapped, alive>>

\* May also win against an answer that is in the channel already.
TimeOut(r) ==
    /\ At(r, "wait")
    /\ requests' = [requests EXCEPT ![r] = [at |-> "cleanup", result |-> "timeout"]]
    /\ UNCHANGED <<peers, connected, blockCache, pendingBlocks, calls,
                   channels, asked, handing, overlapped, alive>>

\* Removes whatever request is registered for the block; closes the channel, which
\* nobody can tell from a step of its own; and reports the result.
Cleanup(r) ==
    /\ At(r, "cleanup")
    /\ pendingBlocks' = [pendingBlocks EXCEPT ![BlockOf(r)] = NoRequest]
    /\ channels' = [channels EXCEPT ![r] = "closed"]
    /\ requests' = [requests EXCEPT ![r].at = "done"]
    /\ UNCHANGED <<peers, connected, blockCache, calls, asked, handing,
                   overlapped, alive>>

-----------------------------------------------------------------------------
(* The peers, and onBlock in their read loops. *)

\* Mutant: the registration of an answered request stays.
KeepRegistration(b) == pendingBlocks
TakeRegistration(b) == [pendingBlocks EXCEPT ![b] = NoRequest]

\* The peer answers r; the registered request gets the block, whichever it is.  A
\* block that is not expected goes to a queue that nobody reads.
OnBlock(r) ==
    LET p == PeerOf(r) b == BlockOf(r) IN
    /\ r \in asked /\ p \in connected /\ ~Handing(p)
    /\ asked' = asked \ {r}
    /\ IF pendingBlocks[b] # NoRequest
       THEN /\ pendingBlocks' = TakeRegistration(b)
            /\ handing' = [handing EXCEPT ![p] = pendingBlocks[b]]
       ELSE UNCHANGED <<pendingBlocks, handing>>
    /\ UNCHANGED <<peers, connected, blockCache, calls, requests, channels,
                   overlapped, alive>>

\* Finds the buffer empty, as no channel is sent to twice (OneAnswerEach).
\* Mutant: the channel has no buffer, the send finds no one waiting yet.
Dropped(p) == channels
Sent(p) == [channels EXCEPT ![handing[p]] = "full"]

HandOver(p) ==
    /\ Handing(p) /\ channels[handing[p]] # "closed"
    /\ channels' = Sent(p)
    /\ handing' = [handing EXCEPT ![p] = NoRequest]
    /\ UNCHANGED <<peers, connected, blockCache, pendingBlocks, calls, requests,
                   asked, overlapped, alive>>

Panic(p) ==
    /\ Handing(p) /\ channels[handing[p]] = "closed"
    /\ alive' = FALSE
    /\ blockCache' = {} /\ pendingBlocks' = NothingPending
    /\ calls' = IdleCalls /\ requests' = NoRequests
    /\ channels' = EmptyChannels /\ handing' = NothingHanded
    /\ asked' = {}
    /\ peers' = {} /\ connected' = {} /\ overlapped' = FALSE

\* The connection is lost.  It stays in the list, and its address is not dialled
\* again.
Disconnect(p) ==
    /\ p \in connected \intersect Flaky
    /\ connected' = connected \ {p}
    /\ asked' = {r \in asked : PeerOf(r) # p}
    /\ UNCHANGED <<peers, blockCache, pendingBlocks, calls, requests,
                   channels, handing, overlapped, alive>>

-----------------------------------------------------------------------------

CallStep(c) == AskPeers(c) \/ Collect(c) \/ StartConnecting(c) \/ Dial(c)
RequestStep(r) == Register(r) \/ Receive(r) \/ TimeOut(r) \/ Cleanup(r)

Next ==
    \/ \E c \in Calls : CallStep(c) \/ \E b \in Blocks : GetBlock(c, b)
    \/ \E r \in Requests : RequestStep(r) \/ OnBlock(r)
    \/ \E p \in Peers : HandOver(p) \/ Panic(p) \/ Disconnect(p)

Spec == Init /\ [][Next]_vars

\* Some goroutine that can go on does, until none can: each has few steps to its
\* end, a wait times out, a dial succeeds or fails.
Goroutines == (\E c \in Calls : CallStep(c)) \/ (\E r \in Requests : RequestStep(r))

FairSpec == Spec /\ WF_vars(Goroutines)

-----------------------------------------------------------------------------
(* Properties. *)

\* A channel is sent to once, and only while its request waits for the answer, or
\* has timed out: no other order of the goroutines reaches a closed channel or
\* finds the buffer full.
OneAnswerEach ==
    \A p \in Peers : Handing(p) =>
        LET r == handing[p] IN
        /\ \A q \in Peers : handing[q] = r => q = p
        /\ pendingBlocks[BlockOf(r)] # r
        /\ (At(r, "wait") /\ channels[r] = "empty") \/ requests[r].result = "timeout"

\* Until the first of the requests for a block ends, whichever calls made them, the
\* first answer for that block finds one that waits: either one is registered that
\* waits, or one has its answer or is about to get it.
FirstAnswerReaches ==
    \A b \in Blocks :
        LET R == RequestsFor(b) IN
        (\A r \in R : requests[r].at \notin Over) /\ (\E r \in R : At(r, "wait")) =>
            \/ pendingBlocks[b] \in R /\ At(pendingBlocks[b], "wait")
            \/ \E r \in R : channels[r] = "full"
            \/ \E p \in Peers : handing[p] \in R

\* Calls that do not look for a peer at the same time respect the limit on the
\* number of peers and connect to an address that no peer in the list has.
SerialDialsKeepPeers ==
    [][peers' # peers /\ ~overlapped =>
        /\ Cardinality(peers') <= MaxPeers
        /\ \A p \in peers' \ peers : AddrOf[p] \notin KnownAddresses]_vars

\* Every call ends with the block or an error, whatever the peers do, unless the
\* process does.  As each call is made once, that is: they are never under way for
\* ever.
Waits(c) == calls[c].at \notin {"idle", "served", "failed"}
CallsReturn == []<>(\A c \in Calls : ~Waits(c))

\* A call as BlockSource sees it: it waits until it has its result, and is answered as soon
\* as a request of its own received a block that passed the merkle check.
Answered(c) == \E r \in Requests : CallOf(r) = c /\ requests[r].result = "block"

Promise == [c \in Calls |-> [at |-> IF Waits(c) THEN "waiting" ELSE calls[c].at,
                            block |-> calls[c].block, answered |-> Answered(c)]]

Source == INSTANCE BlockSource WITH kept <- blockCache, promised <- Promise

\* The goroutines of a call, with its timeouts and the read loops of the peers, implement the
\* abstract client: a call is served only a block that passed the check, fails only if none of
\* its requests received one, and no request that comes to its end later takes this back or
\* keeps a block that nobody asked for.
ImplementsBlockSource == Source!Spec
=============================================================================
