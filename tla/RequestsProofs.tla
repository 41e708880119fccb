----------------------------- MODULE RequestsProofs -----------------------------
(***************************************************************************)
(* Proofs about the two ways the node asks several others at once and      *)
(* takes what answers come: for a block (BlockRequests), with any number   *)
(* of calls, blocks and connections; for the anchors of transactions       *)
(* (PendingSync), with any callers, relays, transactions and batches.      *)
(***************************************************************************)
EXTENDS BlockRequests, PendingSync, FiniteSetTheorems, SequenceTheorems,
        WellFoundedInduction, TLAPS

-----------------------------------------------------------------------------
(* BlockRequests. *)

CallRecords == [at : CallSteps, block : Blocks \union {NoBlock}, known : SUBSET Addresses]
RequestRecords == [at : RequestSteps, result : Results \union {"none"}]

\* The part of TypeOK that speaks of calls.
CallTypes ==
    /\ calls \in [Calls -> CallRecords]
    /\ \A c \in Calls : CallAt(c, "idle") <=> calls[c].block = NoBlock

LEMMA CallOfType == \A r \in Requests : CallOf(r) \in Calls /\ PeerOf(r) \in Peers
BY DEF Requests, CallOf, PeerOf

\* What a step leaves alone when a call that runs goes on: its block, and which
\* calls have not asked yet.
CallsKept ==
    \A d \in Calls : /\ calls'[d].block = calls[d].block
                     /\ CallAt(d, "idle")' <=> CallAt(d, "idle")
                     /\ CallAt(d, "ask")' => CallAt(d, "ask")

LEMMA CallGoesOn ==
    ASSUME CallTypes, NEW c \in Calls, ~CallAt(c, "idle"),
           NEW step \in CallSteps \ {"idle", "ask"}, NEW dialled \in SUBSET Addresses,
           \/ CallTo(c, step)
           \/ CallWith(c, step, dialled)
    PROVE  CallTypes' /\ CallsKept
<1> USE DEF CallTypes, CallAt
<1>1. calls[c] \in CallRecords
  OBVIOUS
<1>2. PICK k \in SUBSET Addresses :
        calls' = [calls EXCEPT ![c] = [at |-> step, block |-> calls[c].block, known |-> k]]
  <2>1. CASE CallTo(c, step)
    <3>1. calls[c].known \in SUBSET Addresses
      BY <1>1 DEF CallRecords
    <3>2. [calls[c] EXCEPT !.at = step]
            = [at |-> step, block |-> calls[c].block, known |-> calls[c].known]
      BY <1>1 DEF CallRecords
    <3>3. calls' = [calls EXCEPT ![c] = [calls[c] EXCEPT !.at = step]]
      BY <2>1 DEF CallTo
    <3> QED BY <3>1, <3>2, <3>3
  <2>2. CASE CallWith(c, step, dialled)
    BY <2>2 DEF CallWith
  <2> QED BY <2>1, <2>2
<1>3. [at |-> step, block |-> calls[c].block, known |-> k] \in CallRecords
  BY <1>1 DEF CallRecords
<1>4. calls' \in [Calls -> CallRecords]
  BY <1>2, <1>3
<1>5. CallsKept
  BY <1>2 DEF CallsKept
<1> QED BY <1>4, <1>5 DEF CallsKept

\* The part of TypeOK that speaks of requests.
RequestTypes ==
    /\ requests \in [Requests -> RequestRecords]
    /\ \A r \in Requests : calls[CallOf(r)].at \in {"idle", "ask"} => At(r, "none")
    /\ channels \in [Requests -> {"empty", "full", "closed"}]
    /\ asked \subseteq {r \in Requests : requests[r].at \in {"wait"} \union Over}

OtherTypes ==
    /\ peers \subseteq Peers /\ connected \subseteq peers
    /\ blockCache \subseteq Blocks
    /\ pendingBlocks \in [Blocks -> Requests \union {NoRequest}]
    /\ handing \in [Peers -> Requests \union {NoRequest}]
    /\ alive \in BOOLEAN /\ overlapped \in BOOLEAN

LEMMA TypeParts == TypeOK <=> CallTypes /\ RequestTypes /\ OtherTypes
BY DEF TypeOK, CallTypes, RequestTypes, OtherTypes, CallRecords, RequestRecords

\* The variables keep their types; a call has a block from its start on, and only
\* then requests.
THEOREM TypeCorrect == Spec => []TypeOK
<1> USE PeersAssumption, NamesAssumption, CallOfType DEF CallAt, At, Over
<1>1. Init => TypeOK
  <2> SUFFICES ASSUME Init PROVE TypeOK
    OBVIOUS
  <2>1. CallTypes
    BY DEF Init, IdleCalls, CallTypes, CallRecords, CallSteps
  <2>2. RequestTypes
    BY DEF Init, NoRequests, EmptyChannels, RequestTypes, RequestRecords, RequestSteps
  <2>3. OtherTypes
    BY DEF Init, NothingHanded, NothingPending, OtherTypes
  <2> QED BY <2>1, <2>2, <2>3, TypeParts
<1>2. TypeOK /\ [Next]_vars => TypeOK'
  <2> SUFFICES ASSUME CallTypes, RequestTypes, OtherTypes, [Next]_vars
               PROVE  CallTypes' /\ RequestTypes' /\ OtherTypes'
    BY TypeParts, PTL
  <2> DEFINE P == CallTypes' /\ RequestTypes' /\ OtherTypes'
  <2>1. CASE UNCHANGED vars
    BY <2>1 DEF vars, CallTypes, RequestTypes, OtherTypes
  <2>2. ASSUME NEW p \in Peers, Panic(p) PROVE P
    <3>1. CallTypes'
      BY <2>2 DEF Panic, IdleCalls, CallTypes, CallRecords, CallSteps
    <3>2. RequestTypes'
      BY <2>2 DEF Panic, NoRequests, EmptyChannels, RequestTypes, RequestRecords, RequestSteps
    <3>3. OtherTypes'
      BY <2>2 DEF Panic, NothingHanded, NothingPending, OtherTypes
    <3> QED BY <3>1, <3>2, <3>3
  <2>3. ASSUME NEW c \in Calls, NEW b \in Blocks, GetBlock(c, b) PROVE P
    <3>1. CallTypes'
      BY <2>3 DEF GetBlock, CallTypes, CallRecords, CallSteps
    <3>2. RequestTypes'
      BY <2>3 DEF GetBlock, CallTypes, CallRecords, RequestTypes
    <3> QED BY <2>3, <3>1, <3>2 DEF GetBlock, OtherTypes
  <2>4. ASSUME NEW c \in Calls, AskPeers(c) PROVE P
    <3>0. ~CallAt(c, "idle") /\ {} \in SUBSET Addresses
      BY <2>4 DEF AskPeers
    <3>1. CallTypes' /\ CallsKept
      <4>1. CASE CallTo(c, "connect")
        BY <3>0, <4>1, CallGoesOn DEF CallSteps
      <4>2. CASE CallTo(c, "collect")
        BY <3>0, <4>2, CallGoesOn DEF CallSteps
      <4> QED BY <2>4, <4>1, <4>2 DEF AskPeers
    <3>2. ASSUME NEW S, requests' = [r \in Requests |->
                   IF CallOf(r) = c /\ PeerOf(r) \in S
                   THEN [requests[r] EXCEPT !.at = "start"] ELSE requests[r]]
          PROVE  RequestTypes'
      <4>1. \A r \in Requests : CallOf(r) = c => At(r, "none")
        BY <2>4 DEF AskPeers, RequestTypes
      <4>2. requests' \in [Requests -> RequestRecords]
        BY <3>2 DEF RequestTypes, RequestRecords, RequestSteps
      <4>3. \A r \in Requests : calls'[CallOf(r)].at \in {"idle", "ask"} => At(r, "none")'
        <5>1. calls'[c].at \notin {"idle", "ask"}
          BY <2>4 DEF AskPeers, CallTo, CallTypes, CallRecords
        <5> QED BY <3>1, <3>2, <5>1 DEF CallsKept, RequestTypes
      <4>4. asked' \subseteq {r \in Requests : requests'[r].at \in {"wait"} \union Over}
        BY <2>4, <3>2, <4>1 DEF AskPeers, RequestTypes
      <4> QED BY <2>4, <4>2, <4>3, <4>4 DEF AskPeers, RequestTypes
    <3>3. RequestTypes'
      <4>1. CASE UNCHANGED requests
        <5>1. UNCHANGED <<requests, channels, asked>>
          BY <2>4, <4>1 DEF AskPeers
        <5> QED BY <3>1, <5>1 DEF CallsKept, RequestTypes
      <4>2. CASE ~UNCHANGED requests
        BY <2>4, <3>2, <4>2 DEF AskPeers
      <4> QED BY <4>1, <4>2
    <3> QED BY <2>4, <3>1, <3>3 DEF AskPeers, OtherTypes
  <2>5. ASSUME NEW c \in Calls, Collect(c) PROVE P
    <3>0. ~CallAt(c, "idle") /\ {} \in SUBSET Addresses
      BY <2>5 DEF Collect
    <3>1. CallTypes' /\ CallsKept
      <4>1. CASE CallTo(c, "served")
        BY <3>0, <4>1, CallGoesOn DEF CallSteps
      <4>2. CASE CallTo(c, "connect")
        BY <3>0, <4>2, CallGoesOn DEF CallSteps
      <4> QED BY <2>5, <4>1, <4>2 DEF Collect
    <3> QED BY <2>5, <3>1 DEF Collect, CallsKept, RequestTypes, OtherTypes
  <2>6. ASSUME NEW c \in Calls, StartConnecting(c) PROVE P
    <3>0. ~CallAt(c, "idle") /\ {} \in SUBSET Addresses
      BY <2>6 DEF StartConnecting
    <3>1. KnownAddresses \in SUBSET Addresses
      <4>1. \A p \in peers : AddrOf[p] \in Addresses
        BY DEF OtherTypes
      <4> QED BY <4>1 DEF KnownAddresses
    <3>2. CallTypes' /\ CallsKept
      <4>1. CASE CallTo(c, "failed")
        BY <3>0, <4>1, CallGoesOn DEF CallSteps
      <4>2. CASE CallWith(c, "dial", KnownAddresses)
        BY <3>0, <3>1, <4>2, CallGoesOn DEF CallSteps
      <4> QED BY <2>6, <4>1, <4>2 DEF StartConnecting
    <3>3. overlapped' \in BOOLEAN
      BY <2>6 DEF StartConnecting, OtherTypes
    <3> QED BY <2>6, <3>2, <3>3 DEF StartConnecting, CallsKept, RequestTypes, OtherTypes
  <2>7. ASSUME NEW c \in Calls, Dial(c) PROVE P
    <3>0. ~CallAt(c, "idle") /\ {} \in SUBSET Addresses
      BY <2>7 DEF Dial
    <3>1. CallTypes' /\ CallsKept
      BY <2>7, <3>0, CallGoesOn DEF Dial, CallSteps
    <3> QED BY <2>7, <3>1 DEF Dial, ConnectToPeer, CallsKept, RequestTypes, OtherTypes
  <2>8. ASSUME NEW r \in Requests, Register(r) PROVE P
    <3>1. ~CallAt(CallOf(r), "idle") /\ BlockOf(r) \in Blocks
      BY <2>8 DEF Register, RequestTypes, CallTypes, CallRecords, BlockOf
    <3>2. RequestTypes'
      BY <2>8, <3>1 DEF Register, RequestTypes, RequestRecords, RequestSteps
    <3>3. OtherTypes'
      BY <2>8, <3>1 DEF Register, OtherTypes
    <3> QED BY <2>8, <3>2, <3>3 DEF Register, CallTypes
  <2>9. ASSUME NEW r \in Requests, Receive(r) PROVE P
    <3>1. BlockOf(r) \in Blocks
      BY <2>9 DEF Receive, RequestTypes, CallTypes, CallRecords, BlockOf
    <3>2. PICK result \in {"block", "damaged"} :
            requests' = [requests EXCEPT ![r] = [at |-> "cleanup", result |-> result]]
      BY <2>9 DEF Receive
    <3>3. RequestTypes'
      BY <2>9, <3>2 DEF Receive, RequestTypes, RequestRecords, RequestSteps, Results
    <3>4. blockCache' \subseteq Blocks
      BY <2>9, <3>1 DEF Receive, OtherTypes
    <3> QED BY <2>9, <3>3, <3>4 DEF Receive, CallTypes, OtherTypes
  <2>10. ASSUME NEW r \in Requests, TimeOut(r) PROVE P
    BY <2>10 DEF TimeOut, CallTypes, RequestTypes, OtherTypes, RequestRecords, RequestSteps, Results
  <2>11. ASSUME NEW r \in Requests, Cleanup(r) PROVE P
    <3>1. RequestTypes'
      BY <2>11 DEF Cleanup, RequestTypes, RequestRecords, RequestSteps
    <3>2. OtherTypes'
      BY <2>11 DEF Cleanup, OtherTypes
    <3> QED BY <2>11, <3>1, <3>2 DEF Cleanup, CallTypes
  <2>12. ASSUME NEW r \in Requests, OnBlock(r) PROVE P
    <3>1. BlockOf(r) \in Blocks
      BY <2>12 DEF OnBlock, RequestTypes, CallTypes, CallRecords, BlockOf
    <3>2. RequestTypes'
      BY <2>12 DEF OnBlock, RequestTypes
    <3>3. OtherTypes'
      BY <2>12, <3>1 DEF OnBlock, TakeRegistration, OtherTypes
    <3> QED BY <2>12, <3>2, <3>3 DEF OnBlock, CallTypes
  <2>13. ASSUME NEW p \in Peers, HandOver(p) PROVE P
    BY <2>13 DEF HandOver, Sent, CallTypes, RequestTypes, OtherTypes, Handing
  <2>14. ASSUME NEW p \in Peers, Disconnect(p) PROVE P
    BY <2>14 DEF Disconnect, CallTypes, RequestTypes, OtherTypes
  <2>15. Next => P
    <3> HIDE DEF P
    <3> QED
      BY <2>2, <2>3, <2>4, <2>5, <2>6, <2>7, <2>8, <2>9, <2>10, <2>11, <2>12, <2>13, <2>14
      DEF Next, CallStep, RequestStep
  <2> QED
    BY <2>1, <2>2, <2>15 DEF Next
<1> QED BY <1>1, <1>2, PTL DEF Spec

-----------------------------------------------------------------------------
(* Who gets an answer. *)

\* The request can be sent to: it waits with an empty channel, or has timed out.
Awaits(r) == (At(r, "wait") /\ channels[r] = "empty") \/ requests[r].result = "timeout"

\* OneAnswerEach is not inductive: what onBlock finds registered has to await an
\* answer that nobody hands over yet, and a request starts with an unused channel.
RegisteredAwait ==
    \A b \in Blocks : pendingBlocks[b] # NoRequest =>
        BlockOf(pendingBlocks[b]) = b /\ Awaits(pendingBlocks[b])
UnusedChannels ==
    \A r \in Requests :
        /\ requests[r].at \in {"none", "start"} => channels[r] = "empty"
        /\ requests[r].at \in {"none", "start", "wait"} => requests[r].result = "none"
        /\ At(r, "wait") => channels[r] # "closed"
HandedAwait ==
    \A p \in Peers : Handing(p) =>
        /\ \A q \in Peers : handing[q] = handing[p] => q = p
        /\ pendingBlocks[BlockOf(handing[p])] # handing[p]
        /\ Awaits(handing[p])
AnswerInv == RegisteredAwait /\ UnusedChannels /\ HandedAwait

LEMMA AnswerInvMeaning == TypeOK /\ AnswerInv => OneAnswerEach
BY DEF AnswerInv, HandedAwait, OneAnswerEach, Awaits

\* A request that awaits an answer was started, so its call keeps its block.
LEMMA AwaitingStarted ==
    ASSUME TypeOK, UnusedChannels, NEW r \in Requests, Awaits(r)
    PROVE  ~At(r, "none") /\ ~CallAt(CallOf(r), "idle") /\ BlockOf(r) \in Blocks
<1>1. ~At(r, "none") /\ CallOf(r) \in Calls
  BY CallOfType DEF UnusedChannels, Awaits, At
<1>2. ~CallAt(CallOf(r), "idle")
  BY <1>1 DEF TypeOK, CallAt
<1> QED BY <1>1, <1>2, NamesAssumption DEF TypeOK, BlockOf

\* The blocks of started requests do not change.
BlocksKept == \A r \in Requests : ~At(r, "none") => BlockOf(r)' = BlockOf(r)

LEMMA CallStepsKeepBlocks ==
    ASSUME TypeOK, NEW c \in Calls,
           CallStep(c) \/ \E b \in Blocks : GetBlock(c, b)
    PROVE  BlocksKept
<1> USE CallOfType DEF CallAt, At, BlockOf, BlocksKept
<1>1. CASE CallStep(c)
  <2>1. CallTypes
    BY TypeParts
  <2>2. ~CallAt(c, "idle") /\ {} \in SUBSET Addresses
    BY <1>1 DEF CallStep, AskPeers, Collect, StartConnecting, Dial
  <2>3. KnownAddresses \in SUBSET Addresses
    <3>1. \A p \in peers : AddrOf[p] \in Addresses
      BY PeersAssumption DEF TypeOK
    <3> QED BY <3>1 DEF KnownAddresses
  <2>4. \/ \E step \in CallSteps \ {"idle", "ask"} : CallTo(c, step)
        \/ CallWith(c, "dial", KnownAddresses) \/ CallWith(c, "failed", {})
    BY <1>1 DEF CallStep, AskPeers, Collect, StartConnecting, Dial, CallSteps
  <2>5. CallsKept
    BY <2>1, <2>2, <2>3, <2>4, CallGoesOn DEF CallSteps
  <2> QED BY <2>5 DEF CallsKept
<1>2. ASSUME NEW b \in Blocks, GetBlock(c, b) PROVE BlocksKept
  BY <1>2 DEF GetBlock, TypeOK
<1> QED BY <1>1, <1>2

\* Steps that change none of the variables AnswerInv speaks of, except the blocks of
\* requests not started and requests that start.
LEMMA AnswersUndisturbed ==
    ASSUME TypeOK, AnswerInv, BlocksKept, UNCHANGED <<pendingBlocks, channels, handing>>,
           \A r \in Requests :
               \/ requests'[r] = requests[r]
               \/ /\ At(r, "none") /\ At(r, "start")'
                  /\ requests'[r].result = requests[r].result
    PROVE  AnswerInv'
<1> USE DEF AnswerInv, At
<1>1. \A r \in Requests : Awaits(r) => Awaits(r)' /\ BlockOf(r)' = BlockOf(r)
  BY AwaitingStarted DEF Awaits, BlocksKept
<1>2. \A b \in Blocks : pendingBlocks[b] # NoRequest => pendingBlocks[b] \in Requests
  BY DEF TypeOK
<1>3. \A p \in Peers : handing[p] # NoRequest => handing[p] \in Requests
  BY DEF TypeOK
<1>4. RegisteredAwait'
  BY <1>1, <1>2 DEF RegisteredAwait
<1>5. HandedAwait'
  BY <1>1, <1>3 DEF HandedAwait, Handing
<1>6. UnusedChannels'
  BY DEF UnusedChannels
<1> QED BY <1>4, <1>5, <1>6

LEMMA AnswerInvStep == TypeOK /\ AnswerInv /\ [Next]_vars => AnswerInv'
<1> SUFFICES ASSUME TypeOK, AnswerInv, [Next]_vars PROVE AnswerInv'
  OBVIOUS
<1> USE NamesAssumption DEF AnswerInv
<1>0. /\ \A b \in Blocks : pendingBlocks[b] # NoRequest => pendingBlocks[b] \in Requests
      /\ \A p \in Peers : handing[p] # NoRequest => handing[p] \in Requests
      /\ NoRequest \notin Requests
  BY DEF TypeOK, Requests
<1>1. CASE UNCHANGED vars
  BY <1>1 DEF vars, RegisteredAwait, HandedAwait, UnusedChannels, Awaits, At, BlockOf, Handing
<1>2. ASSUME NEW p \in Peers, Panic(p) PROVE AnswerInv'
  BY <1>2, <1>0 DEF Panic, NothingPending, NothingHanded, NoRequests, EmptyChannels,
     RegisteredAwait, HandedAwait, UnusedChannels, At, Handing
<1>3. ASSUME NEW c \in Calls, CallStep(c) \/ \E b \in Blocks : GetBlock(c, b) PROVE AnswerInv'
  <2>1. UNCHANGED <<pendingBlocks, channels, handing>>
    BY <1>3 DEF CallStep, AskPeers, Collect, StartConnecting, Dial, GetBlock
  <2>2. ASSUME NEW r \in Requests
        PROVE  \/ requests'[r] = requests[r]
               \/ /\ At(r, "none") /\ At(r, "start")'
                  /\ requests'[r].result = requests[r].result
    <3>1. CASE AskPeers(c)
      <4>1. CallOf(r) = c => At(r, "none")
        BY <3>1 DEF AskPeers, TypeOK, CallAt
      <4>2. ASSUME NEW S, requests' = [q \in Requests |->
                   IF CallOf(q) = c /\ PeerOf(q) \in S
                   THEN [requests[q] EXCEPT !.at = "start"] ELSE requests[q]]
            PROVE  \/ requests'[r] = requests[r]
                   \/ /\ At(r, "none") /\ At(r, "start")'
                      /\ requests'[r].result = requests[r].result
        BY <4>1, <4>2 DEF TypeOK, At
      <4> QED BY <3>1, <4>2 DEF AskPeers
    <3>2. CASE UNCHANGED requests
      BY <3>2
    <3> QED BY <1>3, <3>1, <3>2 DEF CallStep, Collect, StartConnecting, Dial, GetBlock
  <2> QED BY <1>3, <2>1, <2>2, CallStepsKeepBlocks, AnswersUndisturbed
<1>4. ASSUME NEW r \in Requests, Register(r) PROVE AnswerInv'
  <2>1. /\ channels[r] = "empty" /\ ~Awaits(r)
        /\ requests' = [requests EXCEPT ![r].at = "wait"]
        /\ UNCHANGED <<channels, handing, calls>>
        /\ pendingBlocks' = [pendingBlocks EXCEPT ![BlockOf(r)] = r]
    BY <1>4 DEF Register, UnusedChannels, Awaits, At
  <2>2. \A q \in Requests : Awaits(q) => Awaits(q)'
    BY <2>1 DEF Awaits, At, TypeOK
  <2>3. RegisteredAwait'
    BY <1>0, <2>1, <2>2 DEF RegisteredAwait, Awaits, At, BlockOf, TypeOK
  <2>4. HandedAwait'
    BY <1>0, <2>1, <2>2 DEF HandedAwait, Handing, BlockOf, TypeOK
  <2>5. UnusedChannels'
    BY <1>4, <2>1 DEF UnusedChannels, At, TypeOK, Register
  <2> QED BY <2>3, <2>4, <2>5
<1>5. ASSUME NEW r \in Requests, Receive(r) PROVE AnswerInv'
  <2>1. PICK result \in {"block", "damaged"} :
          requests' = [requests EXCEPT ![r] = [at |-> "cleanup", result |-> result]]
    BY <1>5 DEF Receive
  <2>2. /\ ~Awaits(r) /\ channels' = [channels EXCEPT ![r] = "empty"]
        /\ UNCHANGED <<handing, calls, pendingBlocks>>
    BY <1>5 DEF Receive, UnusedChannels, Awaits, At
  <2>3. \A q \in Requests : Awaits(q) => Awaits(q)'
    BY <2>1, <2>2 DEF Awaits, At, TypeOK
  <2>4. RegisteredAwait' /\ HandedAwait'
    BY <1>0, <2>2, <2>3 DEF RegisteredAwait, HandedAwait, Handing, BlockOf
  <2>5. UnusedChannels'
    BY <2>1, <2>2 DEF UnusedChannels, At, TypeOK
  <2> QED BY <2>4, <2>5
<1>6. ASSUME NEW r \in Requests, TimeOut(r) PROVE AnswerInv'
  <2>1. /\ requests' = [requests EXCEPT ![r] = [at |-> "cleanup", result |-> "timeout"]]
        /\ UNCHANGED <<channels, handing, calls, pendingBlocks>>
    BY <1>6 DEF TimeOut
  <2>2. \A q \in Requests : Awaits(q) => Awaits(q)'
    BY <2>1 DEF Awaits, At, TypeOK
  <2>3. RegisteredAwait' /\ HandedAwait'
    BY <1>0, <2>1, <2>2 DEF RegisteredAwait, HandedAwait, Handing, BlockOf
  <2>4. UnusedChannels'
    BY <2>1 DEF UnusedChannels, At, TypeOK
  <2> QED BY <2>3, <2>4
<1>7. ASSUME NEW r \in Requests, Cleanup(r) PROVE AnswerInv'
  <2>1. /\ requests' = [requests EXCEPT ![r].at = "done"]
        /\ channels' = [channels EXCEPT ![r] = "closed"]
        /\ pendingBlocks' = [pendingBlocks EXCEPT ![BlockOf(r)] = NoRequest]
        /\ At(r, "cleanup") /\ UNCHANGED <<handing, calls>>
    BY <1>7 DEF Cleanup
  <2>2. \A q \in Requests : Awaits(q) => Awaits(q)'
    BY <2>1 DEF Awaits, At, TypeOK
  <2>3. RegisteredAwait'
    BY <1>0, <2>1, <2>2 DEF RegisteredAwait, BlockOf, TypeOK
  <2>4. HandedAwait'
    BY <1>0, <2>1, <2>2 DEF HandedAwait, Handing, BlockOf, TypeOK
  <2>5. UnusedChannels'
    BY <2>1 DEF UnusedChannels, At, TypeOK
  <2> QED BY <2>3, <2>4, <2>5
<1>8. ASSUME NEW r \in Requests, OnBlock(r) PROVE AnswerInv'
  <2> DEFINE p == PeerOf(r) b == BlockOf(r)
  <2>1. UNCHANGED <<requests, channels, calls>> /\ p \in Peers /\ ~Handing(p) /\ b \in Blocks
    BY <1>8, CallOfType DEF OnBlock, TypeOK, CallAt, BlockOf, At, Over
  <2>2. UnusedChannels' /\ \A q \in Requests : (Awaits(q)' <=> Awaits(q)) /\ BlockOf(q)' = BlockOf(q)
    BY <2>1 DEF UnusedChannels, Awaits, At, BlockOf
  <2>3. CASE pendingBlocks[b] = NoRequest
    <3>1. UNCHANGED <<pendingBlocks, handing>>
      BY <1>8, <2>3 DEF OnBlock
    <3> QED BY <1>0, <2>2, <3>1 DEF RegisteredAwait, HandedAwait, Handing
  <2>4. CASE pendingBlocks[b] # NoRequest
    <3> DEFINE to == pendingBlocks[b]
    <3>1. /\ pendingBlocks' = [pendingBlocks EXCEPT ![b] = NoRequest]
          /\ handing' = [handing EXCEPT ![p] = to]
      BY <1>8, <2>4 DEF OnBlock, TakeRegistration
    <3>2. to \in Requests /\ BlockOf(to) = b /\ Awaits(to)
      BY <1>0, <2>1, <2>4 DEF RegisteredAwait
    <3>3. \A q \in Peers : handing[q] # to
      BY <2>4, <3>2 DEF HandedAwait, Handing
    <3> HIDE DEF p, b, to
    <3>4. RegisteredAwait'
      BY <1>0, <2>2, <3>1 DEF RegisteredAwait, TypeOK
    <3>5. HandedAwait'
      BY <1>0, <2>1, <2>2, <3>1, <3>2, <3>3 DEF HandedAwait, Handing, TypeOK
    <3> QED BY <2>2, <3>4, <3>5
  <2> QED BY <2>3, <2>4
<1>9. ASSUME NEW p \in Peers, HandOver(p) PROVE AnswerInv'
  <2> DEFINE r == handing[p]
  <2>1. /\ channels' = [channels EXCEPT ![r] = "full"] /\ handing' = [handing EXCEPT ![p] = NoRequest]
        /\ UNCHANGED <<requests, calls, pendingBlocks>> /\ channels[r] # "closed" /\ Handing(p)
    BY <1>9 DEF HandOver, Sent
  <2>2. r \in Requests /\ Awaits(r) /\ pendingBlocks[BlockOf(r)] # r
    BY <1>0, <2>1 DEF HandedAwait, Handing
  <2>3. \A q \in Requests : q # r /\ Awaits(q) => Awaits(q)'
    BY <2>1 DEF Awaits, At
  <2>4. RegisteredAwait'
    BY <1>0, <2>1, <2>2, <2>3 DEF RegisteredAwait, BlockOf
  <2>5. HandedAwait'
    BY <1>0, <2>1, <2>3 DEF HandedAwait, Handing, BlockOf, TypeOK
  <2>6. UnusedChannels'
    BY <2>1, <2>2 DEF UnusedChannels, Awaits, At, TypeOK
  <2> QED BY <2>4, <2>5, <2>6
<1>10. ASSUME NEW p \in Peers, Disconnect(p) PROVE AnswerInv'
  BY <1>10 DEF Disconnect, RegisteredAwait, HandedAwait, UnusedChannels, Awaits, At, BlockOf, Handing
<1> QED
  BY <1>1, <1>2, <1>3, <1>4, <1>5, <1>6, <1>7, <1>8, <1>9, <1>10
  DEF Next, RequestStep

LEMMA AnswersHold == Spec => []AnswerInv
<1>1. Init => AnswerInv
  BY NamesAssumption DEF Init, NothingPending, NothingHanded, NoRequests, EmptyChannels,
     AnswerInv, RegisteredAwait, HandedAwait, UnusedChannels, At, Handing, Requests
<1> QED BY <1>1, AnswerInvStep, TypeCorrect, PTL DEF Spec

\* No channel is sent to twice, and only an answer that is overtaken by the timeout
\* of its request can meet a closed one.
THEOREM AnswersAreSentOnce == Spec => []OneAnswerEach
BY AnswersHold, TypeCorrect, AnswerInvMeaning, PTL

-----------------------------------------------------------------------------
(* What a caller is promised. *)

\* What was received is kept; a call that gives up has no request left, and none that
\* received its block; one that asked and was served has one that did.
AnswersKept ==
    \A r \in Requests : requests[r].result = "block" => BlockOf(r) \in blockCache
FailedUnanswered ==
    \A r \in Requests : calls[CallOf(r)].at \in {"connect", "dial", "failed"} =>
        requests[r].at \in {"none", "done"} /\ requests[r].result # "block"
ServedAnswered ==
    \A r \in Requests : CallAt(CallOf(r), "served") /\ ~At(r, "none") => Answered(CallOf(r))
SourceInv == AnswersKept /\ FailedUnanswered /\ ServedAnswered

\* A call has its block from one of its requests, as all of them are for that block.
LEMMA AnsweredKept ==
    ASSUME AnswersKept, NEW c \in Calls, Answered(c) PROVE calls[c].block \in blockCache
BY DEF AnswersKept, Answered, BlockOf

\* A call whose requests have no result yet is not answered.
LEMMA NotAnsweredYet ==
    ASSUME TypeOK, UnusedChannels, NEW c \in Calls, calls[c].at \in {"idle", "ask"}
    PROVE  ~Answered(c) /\ \A r \in Requests : CallOf(r) = c => At(r, "none")
BY DEF TypeOK, UnusedChannels, Answered, At

\* Steps between two places where a call waits change nothing for its caller.
LEMMA SamePromise ==
    ASSUME \A c \in Calls : /\ calls'[c].block = calls[c].block
                            /\ Waits(c)' <=> Waits(c)
                            /\ ~Waits(c) => calls'[c].at = calls[c].at
                            /\ Answered(c)' <=> Answered(c)
    PROVE  Promise' = Promise
<1>1. \A c \in Calls : Answered(c)' = Answered(c)
  BY DEF Answered
<1>2. \A c \in Calls :
        (IF Waits(c)' THEN "waiting" ELSE calls'[c].at) = IF Waits(c) THEN "waiting" ELSE calls[c].at
  OBVIOUS
<1> QED BY <1>1, <1>2 DEF Promise

\* A request goes on, or gets its result.
LEMMA RequestMoves ==
    ASSUME TypeOK, SourceInv, NEW r \in Requests, requests[r].at \notin {"none", "done"},
           NEW at \in RequestSteps \ {"none"}, NEW result \in Results \union {"none"},
           requests' = [requests EXCEPT ![r] = [at |-> at, result |-> result]],
           calls' = calls, blockCache \subseteq blockCache',
           requests[r].result = "block" => result = "block",
           result = "block" => BlockOf(r) \in blockCache'
    PROVE  SourceInv'
<1> USE DEF SourceInv
<1>1. /\ requests \in [Requests -> RequestRecords]
      /\ requests'[r].at = at /\ requests'[r].result = result
      /\ \A q \in Requests : q # r => requests'[q] = requests[q]
  BY TypeParts DEF RequestTypes
<1>2. AnswersKept'
  BY <1>1 DEF AnswersKept, BlockOf
<1>3. FailedUnanswered'
  BY <1>1 DEF FailedUnanswered
<1>4. \A c : Answered(c) => Answered(c)'
  BY <1>1 DEF Answered
<1>5. ServedAnswered'
  <2> SUFFICES ASSUME NEW q \in Requests, CallAt(CallOf(q), "served"), ~At(q, "none")'
               PROVE  Answered(CallOf(q))'
    BY DEF ServedAnswered, CallAt
  <2>1. ~At(q, "none")
    BY <1>1 DEF At
  <2> QED BY <1>4, <2>1 DEF ServedAnswered
<1> QED BY <1>2, <1>3, <1>5

\* The same, if it is no good block that it gets.
LEMMA RequestMovesUnseen ==
    ASSUME TypeOK, SourceInv, NEW r \in Requests, requests[r].at \notin {"none", "done"},
           NEW at \in RequestSteps \ {"none"}, NEW result \in Results \union {"none"},
           requests' = [requests EXCEPT ![r] = [at |-> at, result |-> result]],
           calls' = calls, blockCache' = blockCache,
           requests[r].result = "block" <=> result = "block"
    PROVE  SourceInv' /\ Promise' = Promise
<1>1. SourceInv'
  BY RequestMoves DEF SourceInv, AnswersKept
<1>2. /\ requests'[r].result = result
      /\ \A q \in Requests : q # r => requests'[q] = requests[q]
  BY DEF TypeOK
<1>3. \A c \in Calls : Answered(c)' <=> Answered(c)
  BY <1>2 DEF Answered
<1>4. Promise' = Promise
  BY <1>3, SamePromise DEF Waits
<1> QED BY <1>1, <1>4

LEMMA ReceiveAnswers ==
    ASSUME TypeOK, UnusedChannels, SourceInv, NEW r \in Requests, Receive(r)
    PROVE  SourceInv' /\ (Source!Next \/ (UNCHANGED blockCache /\ Promise' = Promise))
<1> DEFINE c == CallOf(r)
<1>1. PICK result \in {"block", "damaged"} :
        /\ requests' = [requests EXCEPT ![r] = [at |-> "cleanup", result |-> result]]
        /\ blockCache' = blockCache \union {b \in {BlockOf(r)} : result = "block"}
  BY DEF Receive
<1>2. /\ requests[r].at = "wait" /\ requests[r].result = "none"
      /\ calls' = calls /\ c \in Calls
  BY CallOfType DEF Receive, UnusedChannels, At
<1>3. CASE result = "damaged"
  <2>1. blockCache' = blockCache
    BY <1>1, <1>3
  <2>2. SourceInv' /\ Promise' = Promise
    BY <1>1, <1>2, <1>3, <2>1, RequestMovesUnseen DEF RequestSteps, Results, Over
  <2> QED BY <2>1, <2>2
<1>4. CASE result = "block"
  <2>1. blockCache' = blockCache \union {BlockOf(r)}
    BY <1>1, <1>4
  <2>2. SourceInv'
    BY <1>1, <1>2, <1>4, <2>1, RequestMoves DEF RequestSteps, Results, Over
  <2>3. /\ requests'[r].result = "block"
        /\ \A q \in Requests : q # r => requests'[q] = requests[q]
    BY <1>1, <1>4 DEF TypeOK
  <2>4. Answered(c)' /\ \A d \in Calls : d # c => (Answered(d)' <=> Answered(d))
    BY <2>3 DEF Answered
  <2>5. calls[c].at \notin {"idle", "ask", "connect", "dial", "failed"}
    BY <1>2 DEF SourceInv, FailedUnanswered, TypeOK, At
  <2>6. CASE Waits(c)
    <3> DEFINE entry == [at |-> "waiting", block |-> calls[c].block, answered |-> TRUE]
    <3>1. Promise[c].at = "waiting" /\ Promise[c].block = BlockOf(r)
      BY <1>2, <2>6 DEF Promise, BlockOf
    <3>2. Promise' = [Promise EXCEPT ![c].answered = TRUE]
      <4>1. Answered(c)' = TRUE
        BY <2>4 DEF Answered
      <4>2. \A d \in Calls : d # c => Answered(d)' = Answered(d)
        BY <2>4 DEF Answered
      <4>3. \A d \in Calls : Waits(d)' = Waits(d)
        BY <1>2 DEF Waits
      <4> HIDE DEF c
      <4> QED BY <1>2, <2>6, <4>1, <4>2, <4>3 DEF Promise
    <3>3. Source!Answer(c)
      BY <2>1, <3>1, <3>2 DEF Source!Answer
    <3> QED BY <1>2, <2>2, <3>3 DEF Source!Next
  <2>7. CASE ~Waits(c)
    <3>1. CallAt(c, "served")
      BY <2>5, <2>7 DEF Waits, CallAt
    <3>2. Answered(c)
      BY <1>2, <3>1 DEF SourceInv, ServedAnswered, At
    <3>3. calls[c].block \in blockCache
      BY <1>2, <3>2, AnsweredKept DEF SourceInv
    <3>4. blockCache' = blockCache
      BY <2>1, <3>3 DEF BlockOf
    <3>5. \A d \in Calls : Answered(d)' <=> Answered(d)
      BY <2>4, <3>2
    <3>6. Promise' = Promise
      BY <1>2, <3>5, SamePromise DEF Waits
    <3> QED BY <2>2, <3>4, <3>6
  <2> QED BY <2>6, <2>7
<1> QED BY <1>1, <1>3, <1>4

\* A call goes on, and no request gets a result in that step.
LEMMA CallMoves ==
    ASSUME TypeOK, NEW c \in Calls, NEW step, Waits(c),
           calls'[c].at = step, calls'[c].block = calls[c].block,
           \A d \in Calls : d # c => calls'[d] = calls[d],
           \A r \in Requests : requests'[r].result = requests[r].result,
           blockCache' = blockCache
    PROVE  /\ step \notin {"idle", "served", "failed"} => Promise' = Promise
           /\ step = (IF Answered(c) THEN "served" ELSE "failed") => Source!Next
<1>1. \A d \in Calls : Answered(d)' <=> Answered(d)
  BY DEF Answered
<1>2. ASSUME step \notin {"idle", "served", "failed"} PROVE Promise' = Promise
  BY <1>1, <1>2, SamePromise DEF Waits
<1>3. ASSUME step = IF Answered(c) THEN "served" ELSE "failed" PROVE Source!Next
  <2>1. step \in {"served", "failed"}
    BY <1>3
  <2>2. \A d \in Calls : Answered(d)' = Answered(d)
    BY <1>1 DEF Answered
  <2>3. ~Waits(c)' /\ \A d \in Calls : d # c => Waits(d)' = Waits(d)
    BY <2>1 DEF Waits
  <2>4. Promise' = [Promise EXCEPT ![c].at = step]
    BY <2>2, <2>3 DEF Promise
  <2>5. /\ Promise[c].at = "waiting" /\ Promise[c].answered = Answered(c)
    BY DEF Promise
  <2>6. Source!End(c, step)
    BY <1>3, <2>4, <2>5 DEF Source!End
  <2>7. step \in Source!Outcomes
    BY <2>1 DEF Source!Outcomes
  <2> QED BY <2>6, <2>7 DEF Source!Next
<1> QED BY <1>2, <1>3

LEMMA CallStepFacts ==
    ASSUME TypeOK, NEW c \in Calls, NEW step, NEW dialled,
           CallTo(c, step) \/ CallWith(c, step, dialled)
    PROVE  /\ calls'[c].at = step /\ calls'[c].block = calls[c].block
           /\ \A d \in Calls : d # c => calls'[d] = calls[d]
BY DEF TypeOK, CallTo, CallWith

\* A call goes on: where it gives up, all its requests failed; where it is served, it is
\* answered.
LEMMA CallKeepsSource ==
    ASSUME TypeOK, SourceInv, NEW c \in Calls,
           calls'[c].block = calls[c].block,
           \A d \in Calls : d # c => calls'[d] = calls[d],
           UNCHANGED <<requests, blockCache>>,
           calls'[c].at \in {"connect", "dial", "failed"} =>
               \A r \in Requests : CallOf(r) = c =>
                   requests[r].at \in {"none", "done"} /\ requests[r].result # "block",
           calls'[c].at = "served" => Answered(c)
    PROVE  SourceInv'
<1> USE CallOfType DEF SourceInv
<1>1. AnswersKept'
  BY DEF AnswersKept, BlockOf
<1>2. FailedUnanswered'
  BY DEF FailedUnanswered
<1>3. \A d \in Calls : Answered(d) => Answered(d)'
  BY DEF Answered
<1>4. ServedAnswered'
  BY <1>3 DEF ServedAnswered, CallAt, At
<1> QED BY <1>1, <1>2, <1>4

LEMMA GetBlockAsks ==
    ASSUME TypeOK, UnusedChannels, SourceInv, NEW c \in Calls, NEW b \in Blocks, GetBlock(c, b)
    PROVE  SourceInv' /\ Source!Next
<1> DEFINE step == IF b \in blockCache THEN "served" ELSE "ask"
<1>1. /\ calls[c].at = "idle" /\ UNCHANGED <<requests, blockCache>>
      /\ calls'[c].at = step /\ calls'[c].block = b
      /\ \A d \in Calls : d # c => calls'[d] = calls[d]
  BY DEF GetBlock, CallAt, TypeOK
<1>2. ~Answered(c) /\ \A r \in Requests : CallOf(r) = c => At(r, "none")
  BY <1>1, NotAnsweredYet
<1>3. \A d : Answered(d)' = Answered(d)
  BY <1>1 DEF Answered
<1>4. SourceInv'
  <2> USE CallOfType DEF SourceInv
  <2>1. AnswersKept'
    BY <1>1, <1>2 DEF AnswersKept, BlockOf, Answered
  <2>2. FailedUnanswered'
    BY <1>1 DEF FailedUnanswered
  <2>3. ServedAnswered'
    BY <1>1, <1>2, <1>3 DEF ServedAnswered, CallAt, At
  <2> QED BY <2>1, <2>2, <2>3
<1>5. Source!Next
  <2> DEFINE entry == [at |-> IF b \in blockCache THEN "served" ELSE "waiting",
                       block |-> b, answered |-> FALSE]
  <2>1. Promise[c].at = "idle"
    BY <1>1 DEF Promise, Waits
  <2>2. Answered(c)' = FALSE
    BY <1>2, <1>3
  <2>3. /\ (IF Waits(c)' THEN "waiting" ELSE calls'[c].at) = entry.at
        /\ calls'[c].block = entry.block
    BY <1>1 DEF Waits
  <2>4. \A d \in Calls : d # c => Waits(d)' = Waits(d)
    BY <1>1 DEF Waits
  <2>5. Promise' = [Promise EXCEPT ![c] = entry]
    BY <1>1, <1>3, <2>2, <2>3, <2>4 DEF Promise
  <2>6. Source!Ask(c, b)
    BY <1>1, <2>1, <2>5 DEF Source!Ask
  <2> QED BY <2>6 DEF Source!Next
<1> QED BY <1>4, <1>5

LEMMA AskPeersKeeps ==
    ASSUME TypeOK, UnusedChannels, SourceInv, NEW c \in Calls, AskPeers(c)
    PROVE  SourceInv' /\ Promise' = Promise
<1>1. calls[c].at = "ask" /\ blockCache' = blockCache
  BY DEF AskPeers, CallAt
<1>2. ~Answered(c) /\ \A r \in Requests : CallOf(r) = c => At(r, "none")
  BY <1>1, NotAnsweredYet
<1>3. CASE CallTo(c, "connect") /\ UNCHANGED requests
  <2>1. /\ calls'[c].at = "connect" /\ calls'[c].block = calls[c].block
        /\ \A d \in Calls : d # c => calls'[d] = calls[d]
    BY <1>3, CallStepFacts
  <2>2. \A r \in Requests : CallOf(r) = c =>
            requests[r].at \in {"none", "done"} /\ requests[r].result # "block"
    BY <1>2 DEF Answered, At
  <2>3. SourceInv'
    BY <1>1, <1>3, <2>1, <2>2, CallKeepsSource
  <2>4. Promise' = Promise
    BY <1>1, <1>3, <2>1, CallMoves DEF Waits
  <2> QED BY <2>3, <2>4
<1>4. ASSUME NEW S, CallTo(c, "collect"),
             requests' = [r \in Requests |->
                   IF CallOf(r) = c /\ PeerOf(r) \in S
                   THEN [requests[r] EXCEPT !.at = "start"] ELSE requests[r]]
      PROVE  SourceInv' /\ Promise' = Promise
  <2>1. /\ calls'[c].at = "collect" /\ calls'[c].block = calls[c].block
        /\ \A d \in Calls : d # c => calls'[d] = calls[d]
    BY <1>4, CallStepFacts
  <2>2. /\ \A r \in Requests : requests'[r].result = requests[r].result
        /\ \A r \in Requests : CallOf(r) # c => requests'[r] = requests[r]
    BY <1>4 DEF TypeOK
  <2>3. \A d : Answered(d)' <=> Answered(d)
    BY <2>2 DEF Answered
  <2>4. SourceInv'
    <3> USE CallOfType DEF SourceInv
    <3>1. AnswersKept'
      BY <1>1, <2>1, <2>2 DEF AnswersKept, BlockOf
    <3>2. FailedUnanswered'
      BY <2>1, <2>2 DEF FailedUnanswered
    <3>3. ServedAnswered'
      BY <2>1, <2>2, <2>3 DEF ServedAnswered, CallAt, At
    <3> QED BY <3>1, <3>2, <3>3
  <2>5. Promise' = Promise
    BY <1>1, <2>1, <2>2, CallMoves DEF Waits
  <2> QED BY <2>4, <2>5
<1> QED BY <1>3, <1>4 DEF AskPeers

LEMMA CallStepsServe ==
    ASSUME TypeOK, UnusedChannels, SourceInv, NEW c \in Calls,
           Collect(c) \/ StartConnecting(c) \/ Dial(c)
    PROVE  SourceInv' /\ (Source!Next \/ (UNCHANGED blockCache /\ Promise' = Promise))
<1>1. Waits(c) /\ UNCHANGED <<requests, blockCache>>
  BY DEF Collect, StartConnecting, Dial, CallAt, Waits
<1>2. CASE \E r \in Started(c) : Successful(r) /\ CallTo(c, "served")
  <2>1. /\ calls'[c].at = "served" /\ calls'[c].block = calls[c].block
        /\ \A d \in Calls : d # c => calls'[d] = calls[d]
    BY <1>2, CallStepFacts
  <2>2. Answered(c)
    BY <1>2 DEF Started, Successful, Answered
  <2>3. SourceInv'
    BY <1>1, <2>1, <2>2, CallKeepsSource
  <2>4. Source!Next
    BY <1>1, <2>1, <2>2, CallMoves
  <2> QED BY <2>3, <2>4
<1>3. ASSUME \A r \in Requests : CallOf(r) = c =>
                 requests[r].at \in {"none", "done"} /\ requests[r].result # "block",
             NEW step \in {"connect", "dial", "failed"}, NEW dialled,
             CallTo(c, step) \/ CallWith(c, step, dialled)
      PROVE  SourceInv' /\ (Source!Next \/ (UNCHANGED blockCache /\ Promise' = Promise))
  <2>1. /\ calls'[c].at = step /\ calls'[c].block = calls[c].block
        /\ \A d \in Calls : d # c => calls'[d] = calls[d]
    BY <1>3, CallStepFacts
  <2>2. ~Answered(c)
    BY <1>3 DEF Answered
  <2>3. SourceInv'
    BY <1>1, <1>3, <2>1, CallKeepsSource
  <2>4. CASE step = "failed"
    <3>1. Source!Next
      BY <1>1, <2>1, <2>2, <2>4, CallMoves
    <3> QED BY <2>3, <3>1
  <2>5. CASE step # "failed"
    <3>1. Promise' = Promise
      BY <1>1, <2>1, <2>5, CallMoves
    <3> QED BY <1>1, <2>3, <3>1
  <2> QED BY <2>4, <2>5
<1>4. CASE CallAt(c, "collect") /\ AllFailed(c) /\ CallTo(c, "connect")
  <2>1. \A r \in Requests : CallOf(r) = c =>
            requests[r].at \in {"none", "done"} /\ requests[r].result # "block"
    BY <1>4 DEF AllFailed, Started, Failed, Successful, UnusedChannels, At
  <2> QED BY <1>4, <2>1, <1>3
<1>5. CASE StartConnecting(c) \/ Dial(c)
  <2>1. \A r \in Requests : CallOf(r) = c =>
            requests[r].at \in {"none", "done"} /\ requests[r].result # "block"
    BY <1>5 DEF StartConnecting, Dial, CallAt, SourceInv, FailedUnanswered
  <2>2. CallTo(c, "failed") \/ CallWith(c, "dial", KnownAddresses) \/ CallWith(c, "failed", {})
    BY <1>5 DEF StartConnecting, Dial
  <2> QED BY <2>1, <2>2, <1>3
<1> QED BY <1>2, <1>4, <1>5 DEF Collect

\* All the goroutines of a call together, beside those of others, keep the promise of a client
\* that has a single source of blocks: who is served has a block that was received and passed
\* the check, and who fails had no answer.  A late answer or timeout changes neither.
THEOREM BlocksAreServed == Spec => ImplementsBlockSource
<1>1. Init => SourceInv /\ Source!Init
  <2> SUFFICES ASSUME Init PROVE SourceInv /\ Source!Init
    OBVIOUS
  <2>1. /\ \A r \in Requests : requests[r].result = "none" /\ At(r, "none")
        /\ \A c \in Calls : calls[c].at = "idle" /\ calls[c].block = NoBlock
        /\ blockCache = {}
    BY DEF Init, NoRequests, IdleCalls, At
  <2>2. \A c \in Calls : Answered(c) = FALSE /\ ~Waits(c)
    BY <2>1 DEF Answered, Waits
  <2>3. Source!Init
    BY <2>1, <2>2 DEF Source!Init, Source!NotYet, Promise
  <2>4. SourceInv
    BY <2>1, CallOfType DEF SourceInv, AnswersKept, FailedUnanswered, ServedAnswered
  <2> QED BY <2>3, <2>4
<1>2. TypeOK /\ AnswerInv /\ SourceInv /\ [Next]_vars
        => SourceInv' /\ [Source!Next]_<<blockCache, Promise>>
  <2> SUFFICES ASSUME TypeOK, UnusedChannels, SourceInv, [Next]_vars
               PROVE  SourceInv' /\ (Source!Next \/ (UNCHANGED blockCache /\ Promise' = Promise))
    BY DEF AnswerInv
  <2> DEFINE P == SourceInv' /\ (Source!Next \/ (UNCHANGED blockCache /\ Promise' = Promise))
  <2>1. ASSUME UNCHANGED <<calls, requests, blockCache>> PROVE P
    <3>1. SourceInv'
      BY <2>1 DEF SourceInv, AnswersKept, FailedUnanswered, ServedAnswered, Answered, BlockOf,
                  CallAt, At
    <3>2. Promise' = Promise
      BY <2>1 DEF Promise, Waits, Answered
    <3> QED BY <2>1, <3>1, <3>2
  <2>2. ASSUME NEW p \in Peers, Panic(p) PROVE P
    <3>1. /\ \A r \in Requests : requests'[r].result = "none" /\ At(r, "none")'
          /\ \A c \in Calls : calls'[c].at = "idle" /\ calls'[c].block = NoBlock
          /\ blockCache' = {}
      BY <2>2 DEF Panic, NoRequests, IdleCalls, At
    <3>2. \A c \in Calls : Answered(c)' = FALSE /\ ~Waits(c)'
      BY <3>1 DEF Answered, Waits
    <3>3. Source!Restart
      BY <3>1, <3>2 DEF Source!Restart, Source!NotYet, Promise
    <3>4. SourceInv'
      BY <3>1, CallOfType DEF SourceInv, AnswersKept, FailedUnanswered, ServedAnswered
    <3> QED BY <3>3, <3>4 DEF Source!Next
  <2>3. ASSUME NEW c \in Calls, NEW b \in Blocks, GetBlock(c, b) PROVE P
    BY <2>3, GetBlockAsks
  <2>4. ASSUME NEW c \in Calls, CallStep(c) PROVE P
    <3>1. CASE AskPeers(c)
      <4>1. blockCache' = blockCache
        BY <3>1 DEF AskPeers
      <4> QED BY <3>1, <4>1, AskPeersKeeps
    <3> QED BY <2>4, <3>1, CallStepsServe DEF CallStep
  <2>5. ASSUME NEW r \in Requests, Register(r) \/ TimeOut(r) \/ Cleanup(r) PROVE P
    <3>1. blockCache' = blockCache /\ calls' = calls
      BY <2>5 DEF Register, TimeOut, Cleanup
    <3>2. requests[r].at \in {"start", "wait", "cleanup"} /\ requests[r].result \in Results \union {"none"}
          /\ (requests[r].at # "cleanup" => requests[r].result = "none")
      BY <2>5 DEF Register, TimeOut, Cleanup, At, TypeOK, UnusedChannels
    <3>3. PICK at \in {"wait", "cleanup", "done"}, result \in Results \union {"none"} :
            /\ requests' = [requests EXCEPT ![r] = [at |-> at, result |-> result]]
            /\ requests[r].result = "block" <=> result = "block"
      <4>1. CASE TimeOut(r)
        BY <3>2, <4>1 DEF TimeOut, At, Results
      <4>2. ASSUME NEW at \in {"wait", "done"}
            PROVE  [requests EXCEPT ![r].at = at]
                     = [requests EXCEPT ![r] = [at |-> at, result |-> requests[r].result]]
        <5>1. requests[r] \in [at : RequestSteps, result : Results \union {"none"}]
          BY DEF TypeOK
        <5>2. [requests[r] EXCEPT !.at = at] = [at |-> at, result |-> requests[r].result]
          BY <5>1
        <5> QED BY <5>2
      <4>3. CASE Register(r)
        BY <3>2, <4>2, <4>3 DEF Register
      <4>4. CASE Cleanup(r)
        BY <3>2, <4>2, <4>4 DEF Cleanup
      <4> QED BY <2>5, <4>1, <4>3, <4>4
    <3> QED BY <3>1, <3>2, <3>3, RequestMovesUnseen DEF RequestSteps, Over
  <2>6. ASSUME NEW r \in Requests, Receive(r) PROVE P
    BY <2>6, ReceiveAnswers
  <2>7. CASE UNCHANGED vars
    BY <2>1, <2>7 DEF vars
  <2>8. ASSUME NEW r \in Requests, OnBlock(r) PROVE P
    BY <2>1, <2>8 DEF OnBlock
  <2>9. ASSUME NEW p \in Peers, HandOver(p) \/ Disconnect(p) PROVE P
    BY <2>1, <2>9 DEF HandOver, Disconnect
  <2> HIDE DEF P
  <2>10. ASSUME Next PROVE P
    <3>1. CASE \E c \in Calls : CallStep(c) \/ \E b \in Blocks : GetBlock(c, b)
      BY <3>1, <2>3, <2>4
    <3>2. CASE \E r \in Requests : RequestStep(r) \/ OnBlock(r)
      BY <3>2, <2>5, <2>6, <2>8 DEF RequestStep
    <3>3. CASE \E p \in Peers : HandOver(p) \/ Panic(p) \/ Disconnect(p)
      BY <3>3, <2>2, <2>9
    <3> QED BY <2>10, <3>1, <3>2, <3>3 DEF Next
  <2> QED BY <2>7, <2>10 DEF P
<1> QED
  BY <1>1, <1>2, TypeCorrect, AnswersHold, PTL
  DEF Spec, ImplementsBlockSource, Source!Spec

-----------------------------------------------------------------------------
(* The first answer for a block. *)

Pristine(b) == \A r \in RequestsFor(b) : requests[r].at \notin Over
SomeWait(b) == \E r \in RequestsFor(b) : At(r, "wait")
OnItsWay(b) ==
    \/ pendingBlocks[b] \in RequestsFor(b) /\ At(pendingBlocks[b], "wait")
    \/ \E r \in RequestsFor(b) : channels[r] = "full"
    \/ \E p \in Peers : handing[p] \in RequestsFor(b)

Reached(b) == Pristine(b) /\ SomeWait(b) => OnItsWay(b)

LEMMA FirstAnswerMeaning == FirstAnswerReaches <=> \A b \in Blocks : Reached(b)
BY DEF FirstAnswerReaches, Reached, Pristine, SomeWait, OnItsWay

\* Steps that leave started requests, answers and registrations alone.
LEMMA AnswerStaysOnItsWay ==
    ASSUME NEW b \in Blocks, UNCHANGED <<pendingBlocks, channels, handing>>,
           RequestsFor(b) \subseteq RequestsFor(b)',
           \A r \in RequestsFor(b) : requests'[r] = requests[r],
           \A r \in RequestsFor(b)' \ RequestsFor(b) : At(r, "start")',
           Reached(b)
    PROVE  Reached(b)'
<1> SUFFICES ASSUME Pristine(b)', SomeWait(b)' PROVE OnItsWay(b)'
  BY DEF Reached
<1> USE DEF At
<1>1. Pristine(b)
  BY DEF Pristine
<1>2. SomeWait(b)
  BY DEF SomeWait
<1> QED BY <1>1, <1>2 DEF OnItsWay, Reached

\* A step of a request r changes which requests there are for no block.
LEMMA SameRequests ==
    ASSUME TypeOK, UNCHANGED calls,
           \A r \in Requests : At(r, "none")' <=> At(r, "none")
    PROVE  \A b \in Blocks : RequestsFor(b)' = RequestsFor(b)
BY DEF RequestsFor, BlockOf

LEMMA FirstAnswerStep ==
    TypeOK /\ AnswerInv /\ FirstAnswerReaches /\ [Next]_vars => FirstAnswerReaches'
<1>a. FirstAnswerReaches' <=> \A b \in Blocks : Reached(b)'
  BY DEF FirstAnswerReaches, Reached, Pristine, SomeWait, OnItsWay
<1> SUFFICES ASSUME TypeOK, AnswerInv, [Next]_vars, NEW b \in Blocks, Reached(b)
             PROVE  Reached(b)'
  BY <1>a, FirstAnswerMeaning
<1>0. \A r \in RequestsFor(b) : r \in Requests /\ BlockOf(r) = b
  BY DEF RequestsFor
<1>1. CASE UNCHANGED vars
  BY <1>1 DEF vars, Pristine, SomeWait, Reached, OnItsWay, RequestsFor, At, BlockOf
<1>2. ASSUME NEW p \in Peers, Panic(p) PROVE Reached(b)'
  BY <1>2 DEF Panic, NoRequests, Reached, SomeWait, RequestsFor, At
<1>3. ASSUME NEW c \in Calls, CallStep(c) \/ \E d \in Blocks : GetBlock(c, d) PROVE Reached(b)'
  <2>1. UNCHANGED <<pendingBlocks, channels, handing>> /\ BlocksKept
    BY <1>3, CallStepsKeepBlocks DEF CallStep, AskPeers, Collect, StartConnecting, Dial, GetBlock
  <2>2. ASSUME NEW r \in Requests
        PROVE  requests'[r] = requests[r] \/ (At(r, "none") /\ At(r, "start")')
    <3>1. CASE AskPeers(c)
      <4>1. CallOf(r) = c => At(r, "none")
        BY <3>1 DEF AskPeers, TypeOK, CallAt
      <4>2. ASSUME NEW S, requests' = [q \in Requests |->
                   IF CallOf(q) = c /\ PeerOf(q) \in S
                   THEN [requests[q] EXCEPT !.at = "start"] ELSE requests[q]]
            PROVE  requests'[r] = requests[r] \/ (At(r, "none") /\ At(r, "start")')
        BY <4>1, <4>2 DEF TypeOK, At
      <4> QED BY <3>1, <4>2 DEF AskPeers
    <3>2. CASE UNCHANGED requests
      BY <3>2
    <3> QED BY <1>3, <3>1, <3>2 DEF CallStep, Collect, StartConnecting, Dial, GetBlock
  <2>3. RequestsFor(b) \subseteq RequestsFor(b)'
    BY <2>1, <2>2 DEF RequestsFor, BlocksKept, At
  <2>4. \A r \in RequestsFor(b) : requests'[r] = requests[r]
    BY <2>2 DEF RequestsFor
  <2>5. \A r \in RequestsFor(b)' \ RequestsFor(b) : At(r, "start")'
    BY <2>1, <2>2 DEF RequestsFor, BlocksKept, At
  <2> QED BY <2>1, <2>3, <2>4, <2>5, AnswerStaysOnItsWay
<1>4. ASSUME NEW r \in Requests, Register(r) PROVE Reached(b)'
  <2>1. RequestsFor(b)' = RequestsFor(b)
    BY <1>4, SameRequests DEF Register, At, TypeOK
  <2>2. CASE BlockOf(r) = b
    <3>1. r \in RequestsFor(b)' /\ At(r, "wait")' /\ pendingBlocks'[b] = r
      BY <1>4, <2>1, <2>2 DEF Register, RequestsFor, At, TypeOK
    <3> QED BY <3>1 DEF Reached, OnItsWay
  <2>3. CASE BlockOf(r) # b
    <3>1. \A q \in RequestsFor(b) : requests'[q] = requests[q]
      BY <1>0, <1>4, <2>3 DEF Register
    <3>2. UNCHANGED <<channels, handing, pendingBlocks[b]>>
      BY <1>4, <2>3 DEF Register, TypeOK
    <3> QED BY <2>1, <3>1, <3>2 DEF Pristine, SomeWait, Reached, OnItsWay, At
  <2> QED BY <2>2, <2>3
\* A request for b that is over, or gets over, is no concern.
<1>5. ASSUME NEW r \in Requests, Receive(r) \/ TimeOut(r) \/ Cleanup(r) PROVE Reached(b)'
  <2>1. /\ requests[r].at \in {"wait", "cleanup"} /\ requests'[r].at \in Over
        /\ \A q \in Requests : q # r => requests'[q] = requests[q] /\ channels'[q] = channels[q]
        /\ \A d \in Blocks : d # BlockOf(r) => pendingBlocks'[d] = pendingBlocks[d]
        /\ UNCHANGED <<calls, handing>>
    BY <1>5 DEF Receive, TimeOut, Cleanup, At, Over, TypeOK
  <2>2. RequestsFor(b)' = RequestsFor(b)
    BY <2>1, SameRequests DEF At, Over
  <2>3. CASE BlockOf(r) = b
    <3>1. r \in RequestsFor(b)'
      BY <2>1, <2>2, <2>3 DEF RequestsFor, At
    <3> QED BY <2>1, <3>1 DEF Reached, Pristine
  <2>4. CASE BlockOf(r) # b
    BY <1>0, <2>1, <2>2, <2>4 DEF Pristine, SomeWait, Reached, OnItsWay, At
  <2> QED BY <2>3, <2>4
<1>6. ASSUME NEW r \in Requests, OnBlock(r) PROVE Reached(b)'
  <2> DEFINE p == PeerOf(r) d == BlockOf(r)
  <2>1. /\ UNCHANGED <<requests, channels, calls>> /\ p \in Peers /\ ~Handing(p)
    BY <1>6, CallOfType DEF OnBlock
  <2>2. RequestsFor(b)' = RequestsFor(b)
    BY <2>1, SameRequests DEF At
  <2>3. NoRequest \notin RequestsFor(b)
    BY NamesAssumption DEF RequestsFor, Requests
  <2>4. CASE d = b /\ pendingBlocks[b] # NoRequest
    <3>1. pendingBlocks[b] \in Requests
      BY <2>4 DEF TypeOK
    <3>2. pendingBlocks[b] \in RequestsFor(b)
      BY <2>4, <3>1, AwaitingStarted DEF AnswerInv, RegisteredAwait, RequestsFor
    <3>3. handing'[p] = pendingBlocks[b]
      BY <1>6, <2>1, <2>4 DEF OnBlock, TypeOK
    <3> QED BY <2>1, <2>2, <3>2, <3>3 DEF Reached, OnItsWay
  <2>5. CASE ~(d = b /\ pendingBlocks[b] # NoRequest)
    <3>1. pendingBlocks'[b] = pendingBlocks[b]
      BY <1>6, <2>5 DEF OnBlock, TakeRegistration, TypeOK
    <3>2. \A q \in Peers : handing[q] \in RequestsFor(b) => handing'[q] = handing[q]
      BY <1>6, <2>1, <2>3 DEF OnBlock, Handing, TypeOK
    <3> QED BY <2>1, <2>2, <3>1, <3>2 DEF Pristine, SomeWait, Reached, OnItsWay, At
  <2> QED BY <2>4, <2>5
<1>7. ASSUME NEW p \in Peers, HandOver(p) PROVE Reached(b)'
  <2>1. /\ channels' = [channels EXCEPT ![handing[p]] = "full"]
        /\ handing' = [handing EXCEPT ![p] = NoRequest]
        /\ UNCHANGED <<requests, calls, pendingBlocks>>
    BY <1>7 DEF HandOver, Sent
  <2>2. RequestsFor(b)' = RequestsFor(b)
    BY <2>1, SameRequests DEF At
  <2>3. \A q \in Requests : channels[q] = "full" => channels'[q] = "full"
    BY <2>1 DEF TypeOK
  <2>4. \A q \in Peers : handing[q] \in RequestsFor(b) =>
          handing'[q] = handing[q] \/ channels'[handing[q]] = "full"
    BY <1>0, <2>1 DEF TypeOK
  <2> QED BY <1>0, <2>1, <2>2, <2>3, <2>4 DEF Pristine, SomeWait, Reached, OnItsWay, At
<1>8. ASSUME NEW p \in Peers, Disconnect(p) PROVE Reached(b)'
  BY <1>8 DEF Disconnect, Pristine, SomeWait, Reached, OnItsWay, RequestsFor, At, BlockOf
<1> QED
  BY <1>1, <1>2, <1>3, <1>4, <1>5, <1>6, <1>7, <1>8 DEF Next, RequestStep

\* Until a request for the block has ended, the first answer for it is not lost,
\* although requests replace each other's registrations.
THEOREM FirstAnswerCounts == Spec => []FirstAnswerReaches
<1>1. Init => AnswerInv /\ FirstAnswerReaches
  BY NamesAssumption DEF Init, NothingPending, NothingHanded, NoRequests, EmptyChannels, AnswerInv,
     RegisteredAwait, HandedAwait, UnusedChannels, At, Handing, Requests, FirstAnswerReaches, RequestsFor
<1>2. TypeOK /\ AnswerInv /\ FirstAnswerReaches /\ [Next]_vars => (AnswerInv /\ FirstAnswerReaches)'
  BY AnswerInvStep, FirstAnswerStep
<1> QED BY <1>1, <1>2, TypeCorrect, PTL DEF Spec

-----------------------------------------------------------------------------
(* Looking for new peers. *)

\* A call that dials alone works on what the list of peers still is.
DialInv ==
    ~overlapped => \A c \in Calls : CallAt(c, "dial") =>
        /\ calls[c].known = KnownAddresses /\ Cardinality(peers) < MaxPeers
        /\ \A d \in Calls : CallAt(d, "dial") => d = c

LEMMA DialInvStep == TypeOK /\ DialInv /\ [Next]_vars => DialInv'
<1> SUFFICES ASSUME TypeOK, DialInv, [Next]_vars PROVE DialInv'
  OBVIOUS
<1> USE DEF CallAt, KnownAddresses
<1>1. ASSUME UNCHANGED <<peers, overlapped>>,
             \A c \in Calls : CallAt(c, "dial")' => calls'[c] = calls[c]
      PROVE  DialInv'
  BY <1>1 DEF DialInv
<1>2. CASE UNCHANGED vars
  BY <1>1, <1>2 DEF vars
<1>3. ASSUME NEW p \in Peers, Panic(p) PROVE DialInv'
  BY <1>3 DEF Panic, IdleCalls, DialInv
<1>4. ASSUME NEW c \in Calls, AskPeers(c) \/ Collect(c) \/ \E b \in Blocks : GetBlock(c, b)
      PROVE  DialInv'
  <2>1. UNCHANGED <<peers, overlapped>>
    BY <1>4 DEF AskPeers, Collect, GetBlock
  <2>2. \/ \E step \in {"connect", "collect", "served"} : CallTo(c, step)
        \/ \E b \in Blocks : GetBlock(c, b)
    BY <1>4 DEF AskPeers, Collect
  <2>3. (\A d \in Calls : d # c => calls'[d] = calls[d]) /\ calls'[c].at # "dial"
    <3>1. ASSUME NEW step \in {"connect", "collect", "served"}, CallTo(c, step)
          PROVE  (\A d \in Calls : d # c => calls'[d] = calls[d]) /\ calls'[c].at # "dial"
      BY <3>1 DEF CallTo, TypeOK
    <3>2. ASSUME NEW b \in Blocks, GetBlock(c, b)
          PROVE  (\A d \in Calls : d # c => calls'[d] = calls[d]) /\ calls'[c].at # "dial"
      <4>1. PICK step \in {"ask", "served"} :
              calls' = [calls EXCEPT ![c] = [at |-> step, block |-> b, known |-> calls[c].known]]
        BY <3>2 DEF GetBlock, TypeOK
      <4> QED BY <4>1 DEF TypeOK
    <3> QED BY <2>2, <3>1, <3>2
  <2> QED BY <1>1, <2>1, <2>2, <2>3
<1>5. ASSUME NEW c \in Calls, StartConnecting(c) PROVE DialInv'
  <2>1. CASE EnoughPeers
    <3>1. UNCHANGED <<peers, overlapped>> /\ calls' = [calls EXCEPT ![c].at = "failed"]
      BY <1>5, <2>1 DEF StartConnecting, CallTo
    <3> QED BY <1>1, <3>1 DEF TypeOK
  <2>2. CASE ~EnoughPeers
    <3>1. /\ calls'[c].known = KnownAddresses /\ UNCHANGED peers
          /\ \A d \in Calls : d # c => calls'[d] = calls[d]
      BY <1>5, <2>2 DEF StartConnecting, CallWith, TypeOK
    <3>2. Cardinality(peers) < MaxPeers
      <4>1. Cardinality(peers) \in Nat
        BY PeersAssumption, FS_Subset, FS_CardinalityType DEF TypeOK
      <4> QED BY <2>2, <4>1, NumbersAssumption DEF EnoughPeers
    <3>3. overlapped' \/ \A d \in Calls : ~CallAt(d, "dial")
      BY <1>5, <2>2 DEF StartConnecting
    <3> QED BY <3>1, <3>2, <3>3 DEF DialInv
  <2> QED BY <2>1, <2>2
<1>6. ASSUME NEW c \in Calls, Dial(c) PROVE DialInv'
  <2>1. /\ UNCHANGED overlapped /\ CallAt(c, "dial") /\ calls'[c].at = "failed"
        /\ \A d \in Calls : d # c => calls'[d] = calls[d]
    BY <1>6 DEF Dial, CallWith, TypeOK
  <2> QED BY <2>1 DEF DialInv
<1>7. ASSUME NEW r \in Requests, RequestStep(r) \/ OnBlock(r) PROVE DialInv'
  BY <1>1, <1>7 DEF RequestStep, Register, Receive, TimeOut, Cleanup, OnBlock
<1>8. ASSUME NEW p \in Peers, HandOver(p) \/ Disconnect(p) PROVE DialInv'
  BY <1>1, <1>8 DEF HandOver, Disconnect
<1> QED
  BY <1>2, <1>3, <1>4, <1>5, <1>6, <1>7, <1>8 DEF Next, CallStep

\* Calls that look for peers one after the other keep the limit on their number, and
\* never connect to an address twice.
THEOREM SerialDialing == Spec => SerialDialsKeepPeers
<1> DEFINE Kept == peers' # peers /\ ~overlapped =>
                     /\ Cardinality(peers') <= MaxPeers
                     /\ \A p \in peers' \ peers : AddrOf[p] \notin KnownAddresses
<1>1. Init => DialInv
  BY DEF Init, IdleCalls, DialInv, CallAt
<1>2. TypeOK /\ DialInv /\ [Next]_vars => [Kept]_vars
  <2> SUFFICES ASSUME TypeOK, DialInv, Next, peers' # peers, ~overlapped
               PROVE  /\ Cardinality(peers') <= MaxPeers
                      /\ \A p \in peers' \ peers : AddrOf[p] \notin KnownAddresses
    OBVIOUS
  <2>1. CASE \E p \in Peers : Panic(p)
    <3>1. peers' = {}
      BY <2>1 DEF Panic
    <3> QED BY <3>1, FS_EmptySet, NumbersAssumption
  <2>2. CASE \E c \in Calls : Dial(c)
    <3>1. PICK c \in Calls : Dial(c)
      BY <2>2
    <3>2. PICK p \in Peers \ peers : AddrOf[p] \notin calls[c].known /\ peers' = peers \union {p}
      BY <3>1 DEF Dial, ConnectToPeer
    <3>3. calls[c].known = KnownAddresses /\ Cardinality(peers) < MaxPeers
      BY <3>1 DEF Dial, DialInv
    <3>4. Cardinality(peers') = Cardinality(peers) + 1 /\ Cardinality(peers) \in Nat
      BY <3>2, PeersAssumption, FS_Subset, FS_AddElement, FS_CardinalityType DEF TypeOK
    <3> QED BY <3>2, <3>3, <3>4, NumbersAssumption
  <2>3. CASE ~(\E p \in Peers : Panic(p)) /\ ~(\E c \in Calls : Dial(c))
    BY <2>3 DEF Next, CallStep, RequestStep, AskPeers, Collect, StartConnecting, GetBlock,
       Register, Receive, TimeOut, Cleanup, OnBlock, HandOver, Disconnect
  <2> QED BY <2>1, <2>2, <2>3
<1>3. Spec => [][Kept]_vars
  BY <1>1, <1>2, DialInvStep, TypeCorrect, PTL DEF Spec
<1> QED BY <1>3 DEF SerialDialsKeepPeers

-----------------------------------------------------------------------------
(* PendingSync. *)

Search == [at : {"idle", "selectUnchecked", "selectChecked", "query", "store"},
           iteration : 0..MaxIterations, unchecked : Seq(Txs), todo : Seq(Txs),
           asking : SUBSET Relays, results : [Txs -> Anchors \union {NoAnchor}],
           found : BOOLEAN, heard : SUBSET Anchors, listed : SUBSET Txs]

\* results has, for each transaction, the latest of the claims that were heard.
KeepsLatest(results, heard) ==
    \A t \in Txs :
        \/ results[t] = NoAnchor /\ \A e \in heard : e.tx # t
        \/ /\ results[t] \in heard /\ results[t].tx = t
           /\ \A e \in heard : e.tx = t => results[t] = e \/ Later(results[t], e)

\* What a call knows where it is, of the rows there are and those that are dealt with: an
\* iteration without anything new saw only such as were.
SearchFits(v, rows, done) ==
    /\ Range(v.unchecked) \subseteq rows /\ Range(v.todo) \subseteq rows
    /\ Len(v.unchecked) <= BatchSize /\ Len(v.todo) <= 2 * BatchSize
    /\ v.asking # {} => v.at = "query"
    /\ KeepsLatest(v.results, v.heard)
    /\ v.at \in {"selectChecked", "query", "store"} /\ v.unchecked = <<>> => v.listed \subseteq done

RowsType ==
    /\ checked \subseteq known /\ marked \subseteq known /\ known \subseteq Txs
    /\ anchors \subseteq Anchors /\ held \subseteq Holds
    /\ faults \in 0..MaxFaults

SearchesType ==
    /\ searches \in [Callers -> Search]
    /\ \A c \in Callers : SearchFits(searches[c], known, checked \union marked)

PendingInv == RowsType /\ SearchesType

LEMMA PendingInvImplies == PendingInv => PendingTypeOK /\ LatestHeardWins
<1> SUFFICES ASSUME PendingInv PROVE PendingTypeOK /\ LatestHeardWins
  OBVIOUS
<1>1. ASSUME NEW c \in Callers
      PROVE  searches[c] \in Search /\ SearchFits(searches[c], known, checked \union marked)
  BY DEF PendingInv, SearchesType
<1>2. ASSUME NEW c \in Callers, NEW t \in Txs, searches[c].results[t] # NoAnchor
      PROVE  searches[c].results[t].tx = t
  BY <1>1, <1>2 DEF SearchFits, KeepsLatest
<1>3. ASSUME NEW c \in Callers
      PROVE  /\ searches[c].at \in {"idle", "selectUnchecked", "selectChecked", "query", "store"}
             /\ searches[c].iteration \in 0..MaxIterations
             /\ searches[c].results \in [Txs -> Anchors \union {NoAnchor}]
             /\ Range(searches[c].unchecked) \union Range(searches[c].todo) \subseteq known
             /\ Len(searches[c].unchecked) <= BatchSize
             /\ Len(searches[c].todo) <= 2 * BatchSize
             /\ searches[c].asking # {} => SearchAt(c, "query")
  BY <1>1 DEF Search, SearchFits, SearchAt
<1>4. PendingTypeOK
  BY <1>2, <1>3 DEF PendingInv, RowsType, PendingTypeOK
<1>5. ASSUME NEW c \in Callers, NEW e \in searches[c].heard
      PROVE  LET f == searches[c].results[e.tx] IN f = e \/ Later(f, e)
  <2>1. e \in Anchors
    BY <1>1 DEF Search
  <2>2. e.tx \in Txs
    BY <2>1, AnchorsAssumption
  <2> QED BY <1>1, <2>2 DEF SearchFits, KeepsLatest
<1> QED BY <1>4, <1>5 DEF LatestHeardWins

-----------------------------------------------------------------------------
(* The latest of some claims. *)

\* A minimal set of claims without a latest one would have one after all.
LEMMA LatestExists ==
    ASSUME NEW C \in SUBSET Anchors, C # {}
    PROVE  \E e \in C : \A f \in C : e = f \/ Later(e, f)
<1> DEFINE Has(S) == \E e \in S : \A f \in S : e = f \/ Later(e, f)
           None == {S \in SUBSET C : S # {} /\ ~Has(S)}
<1> SUFFICES ASSUME None # {} PROVE FALSE
  OBVIOUS
<1>1. IsFiniteSet(C)
  BY AnchorsAssumption, FS_Subset
<1>2. FiniteSubsetsOf(C) = SUBSET C
  BY <1>1, FS_FiniteSubsetsOfFinite
<1>3. IsWellFoundedOn(StrictSubsetOrdering(C), SUBSET C)
  BY <1>2, FS_StrictSubsetOrderingWellFounded
<1>4. PICK S \in None : \A T \in None : <<T, S>> \notin StrictSubsetOrdering(C)
  <2>1. None \subseteq SUBSET C
    OBVIOUS
  <2> HIDE DEF None
  <2> QED BY <1>3, <2>1, WFMin
<1>5. PICK x \in S : TRUE
  BY <1>4
<1> DEFINE rest == S \ {x}
<1>6. rest \notin None
  <2>1. <<rest, S>> \in StrictSubsetOrdering(C)
    BY <1>4, <1>5 DEF StrictSubsetOrdering
  <2> QED BY <1>4, <2>1
<1>7. \A e, f \in C : e = f \/ Later(e, f) \/ Later(f, e)
  <2> SUFFICES ASSUME NEW e \in C, NEW f \in C PROVE e = f \/ Later(e, f) \/ Later(f, e)
    OBVIOUS
  <2>1. e.created \in Nat /\ f.created \in Nat /\ e.id \in Nat /\ f.id \in Nat
    BY AnchorsAssumption
  <2>2. e.id = f.id => e = f
    BY AnchorsAssumption
  <2> HIDE DEF None, Has
  <2> QED BY <2>1, <2>2 DEF Later
<1>8. CASE rest = {}
  <2>1. \A f \in S : x = f
    BY <1>8
  <2> QED BY <1>4, <1>5, <2>1
<1>9. CASE rest # {}
  <2>1. PICK e \in rest : \A f \in rest : e = f \/ Later(e, f)
    BY <1>4, <1>6, <1>9
  <2>2. e \in C /\ x \in C
    BY <1>4, <1>5, <2>1
  <2>3. CASE Later(e, x)
    <3>1. \A f \in S : e = f \/ Later(e, f)
      BY <2>1, <2>3
    <3> QED BY <1>4, <2>1, <3>1
  <2>4. CASE Later(x, e)
    <3>1. \A f \in rest : Later(x, f)
      <4> SUFFICES ASSUME NEW f \in rest PROVE Later(x, f)
        OBVIOUS
      <4>1. f \in C
        BY <1>4
      <4>2. e.created \in Nat /\ e.id \in Nat /\ f.created \in Nat /\ f.id \in Nat
            /\ x.created \in Nat /\ x.id \in Nat
        BY <2>2, <4>1, AnchorsAssumption
      <4> QED BY <2>1, <2>4, <4>2 DEF Later
    <3>2. \A f \in S : x = f \/ Later(x, f)
      BY <3>1
    <3> QED BY <1>4, <1>5, <3>2
  <2> QED BY <1>7, <2>1, <2>2, <2>3, <2>4
<1> QED BY <1>8, <1>9

LEMMA LaterTransitive ==
    ASSUME NEW e \in Anchors, NEW f \in Anchors, NEW g \in Anchors, Later(e, f), Later(f, g)
    PROVE  Later(e, g)
<1>1. e.created \in Nat /\ e.id \in Nat /\ f.created \in Nat /\ f.id \in Nat
      /\ g.created \in Nat /\ g.id \in Nat
  BY AnchorsAssumption
<1> QED BY <1>1 DEF Later

LEMMA MergeKeepsLatest ==
    ASSUME NEW found \in [Txs -> Anchors \union {NoAnchor}], NEW heard \in SUBSET Anchors,
           NEW answer \in SUBSET Anchors, KeepsLatest(found, heard)
    PROVE  /\ Merge(found, answer) \in [Txs -> Anchors \union {NoAnchor}]
           /\ KeepsLatest(Merge(found, answer), heard \union answer)
<1> DEFINE claims(t) == {e \in answer \union {found[t]} : e # NoAnchor /\ e.tx = t}
           merged == Merge(found, answer)
<1>1. \A t \in Txs : merged[t] = IF claims(t) = {} THEN NoAnchor
                                 ELSE CHOOSE e \in claims(t) :
                                        \A f \in claims(t) : e = f \/ Later(e, f)
  BY DEF Merge
<1>2. \A t \in Txs : claims(t) \subseteq Anchors
  OBVIOUS
<1>3. ASSUME NEW t \in Txs, claims(t) # {}
      PROVE  merged[t] \in claims(t) /\ \A f \in claims(t) : merged[t] = f \/ Later(merged[t], f)
  <2>1. \E e \in claims(t) : \A f \in claims(t) : e = f \/ Later(e, f)
    <3> HIDE DEF claims
    <3> QED BY <1>2, <1>3, LatestExists
  <2> HIDE DEF claims, merged
  <2> QED BY <1>1, <1>3, <2>1
<1>4. merged \in [Txs -> Anchors \union {NoAnchor}]
  <2>1. \A t \in Txs : merged[t] \in Anchors \union {NoAnchor}
    BY <1>1, <1>2, <1>3
  <2> QED BY <2>1 DEF Merge
<1>5. ASSUME NEW t \in Txs
      PROVE  \/ merged[t] = NoAnchor /\ \A e \in heard \union answer : e.tx # t
             \/ /\ merged[t] \in heard \union answer /\ merged[t].tx = t
                /\ \A e \in heard \union answer : e.tx = t => merged[t] = e \/ Later(merged[t], e)
  <2>1. \/ found[t] = NoAnchor /\ \A e \in heard : e.tx # t
        \/ /\ found[t] \in heard /\ found[t].tx = t
           /\ \A e \in heard : e.tx = t => found[t] = e \/ Later(found[t], e)
    BY DEF KeepsLatest
  <2>2. \A e \in answer : e.tx = t => e \in claims(t)
    BY AnchorsAssumption
  <2>3. found[t] \in heard /\ found[t].tx = t => found[t] \in claims(t)
    BY AnchorsAssumption
  <2>4. CASE claims(t) = {}
    <3>1. merged[t] = NoAnchor
      BY <1>1, <2>4
    <3> HIDE DEF claims, merged
    <3> QED BY <2>1, <2>2, <2>3, <2>4, <3>1
  <2>5. CASE claims(t) # {}
    <3>1. merged[t] \in claims(t) /\ \A f \in claims(t) : merged[t] = f \/ Later(merged[t], f)
      BY <1>3, <2>5
    <3>2. merged[t] \in heard \union answer /\ merged[t].tx = t
      BY <2>1, <3>1
    <3>3. ASSUME NEW e \in heard \union answer, e.tx = t
          PROVE  merged[t] = e \/ Later(merged[t], e)
      <4>1. CASE e \in answer
        <5> HIDE DEF claims, merged
        <5> QED BY <2>2, <3>1, <3>3, <4>1
      <4>2. CASE e \in heard
        <5>1. found[t] \in claims(t) /\ (found[t] = e \/ Later(found[t], e))
          BY <2>1, <2>3, <3>3, <4>2
        <5>2. merged[t] = found[t] \/ Later(merged[t], found[t])
          BY <3>1, <5>1
        <5>3. merged[t] \in Anchors /\ found[t] \in Anchors /\ e \in Anchors
          BY <1>2, <3>1, <4>2, <5>1
        <5> HIDE DEF claims, merged
        <5> QED BY <5>1, <5>2, <5>3, LaterTransitive
      <4> QED BY <3>3, <4>1, <4>2
    <3> QED BY <3>2, <3>3
  <2> QED BY <2>4, <2>5
<1> QED BY <1>4, <1>5 DEF KeepsLatest

-----------------------------------------------------------------------------
(* What the queries return. *)

\* BatchSize of the rows, or all if there are fewer, in some order.
Batches(rows) ==
    LET size == IF Cardinality(rows) < BatchSize THEN Cardinality(rows) ELSE BatchSize IN
    UNION {SetToSeqs(S) : S \in {R \in SUBSET rows : Cardinality(R) = size}}

LEMMA QueriesReturnBatches ==
    /\ GetUncheckedBitcoinTransactions \subseteq Batches(Unchecked)
    /\ GetCheckedTransactionsWithoutAnchor \subseteq Batches(CheckedWithoutAnchor)
BY DEF GetUncheckedBitcoinTransactions, GetCheckedTransactionsWithoutAnchor, Listings, Batches

LEMMA BatchFacts ==
    ASSUME NEW rows \in SUBSET Txs, NEW list \in Batches(rows)
    PROVE  /\ list \in Seq(Txs) /\ Range(list) \subseteq rows
           /\ Len(list) \in Nat /\ Len(list) <= BatchSize
           /\ list = <<>> => rows = {}
<1> DEFINE size == IF Cardinality(rows) < BatchSize THEN Cardinality(rows) ELSE BatchSize
<1>1. IsFiniteSet(rows) /\ Cardinality(rows) \in Nat
  BY WorldAssumption, FS_Subset, FS_CardinalityType
<1>2. size \in Nat /\ size <= BatchSize /\ (size = 0 => Cardinality(rows) = 0)
  BY <1>1, BatchesAssumption
<1>3. PICK S \in SUBSET rows : Cardinality(S) = size /\ list \in SetToSeqs(S)
  BY DEF Batches
<1>4. list \in [1..size -> S]
  BY <1>3 DEF SetToSeqs
<1> HIDE DEF size
<1>5. list \in Seq(Txs) /\ Len(list) = size
  <2>1. list \in [1..size -> Txs]
    BY <1>3, <1>4
  <2> QED BY <1>2, <2>1, SeqDef, LenProperties
<1>6. Range(list) \subseteq rows
  BY <1>3, <1>4 DEF Range
<1>7. ASSUME list = <<>> PROVE rows = {}
  <2>1. size = 0
    BY <1>5, <1>7
  <2> QED BY <1>1, <1>2, <2>1, FS_EmptySet
<1> QED BY <1>2, <1>5, <1>6, <1>7

-----------------------------------------------------------------------------
(* Steps. *)

LEMMA FitsMonotone ==
    ASSUME NEW v, NEW rows, NEW done, SearchFits(v, rows, done),
           NEW more, rows \subseteq more, NEW doneNow, done \subseteq doneNow
    PROVE  SearchFits(v, more, doneNow)
BY DEF SearchFits

LEMMA SearchMoves ==
    ASSUME PendingInv, RowsType', known \subseteq known',
           checked \union marked \subseteq checked' \union marked',
           NEW c \in Callers, NEW v \in Search, searches' = [searches EXCEPT ![c] = v],
           SearchFits(v, known', checked' \union marked')
    PROVE  PendingInv'
<1>1. searches \in [Callers -> Search]
  BY DEF PendingInv, SearchesType
<1>2. ASSUME NEW d \in Callers PROVE SearchFits(searches'[d], known', checked' \union marked')
  <2>1. CASE d = c
    BY <1>1, <2>1
  <2>2. CASE d # c
    <3>1. searches'[d] = searches[d] /\ SearchFits(searches[d], known, checked \union marked)
      BY <1>1, <2>2 DEF PendingInv, SearchesType
    <3> QED BY <3>1, FitsMonotone
  <2> QED BY <2>1, <2>2
<1>3. searches' \in [Callers -> Search]
  BY <1>1
<1> QED BY <1>2, <1>3 DEF PendingInv, SearchesType

LEMMA OthersMove ==
    ASSUME PendingInv, RowsType', known \subseteq known', searches' = searches,
           checked \union marked \subseteq checked' \union marked'
    PROVE  PendingInv'
<1>1. searches \in [Callers -> Search]
  BY DEF PendingInv, SearchesType
<1>2. ASSUME NEW d \in Callers PROVE SearchFits(searches[d], known', checked' \union marked')
  BY FitsMonotone DEF PendingInv, SearchesType
<1> QED BY <1>1, <1>2 DEF PendingInv, SearchesType

LEMMA NoSearchFits ==
    ASSUME NEW rows, NEW done
    PROVE  NoSearch \in Search /\ SearchFits(NoSearch, rows, done)
<1>1. /\ NoSearch.at = "idle" /\ NoSearch.unchecked = <<>> /\ NoSearch.todo = <<>>
      /\ NoSearch.asking = {} /\ NoSearch.results = NothingFound /\ NoSearch.heard = {}
  BY DEF NoSearch
<1>2. NoSearch \in Search
  <2>1. NothingFound \in [Txs -> Anchors \union {NoAnchor}]
    BY DEF NothingFound
  <2>2. 0 \in 0..MaxIterations
    BY BatchesAssumption
  <2> QED BY <2>1, <2>2 DEF NoSearch, Search
<1>3. KeepsLatest(NothingFound, {})
  BY DEF KeepsLatest, NothingFound
<1>4. Range(<<>>) = {} /\ Len(<<>>) = 0
  BY DEF Range
<1> QED BY <1>1, <1>2, <1>3, <1>4, BatchesAssumption DEF SearchFits

\* The beginning of an iteration.
LEMMA NewSearchFits ==
    ASSUME NEW n \in 0..MaxIterations, NEW rows, NEW done
    PROVE  LET v == [NoSearch EXCEPT !.at = "selectUnchecked", !.iteration = n] IN
           v \in Search /\ SearchFits(v, rows, done)
<1> DEFINE v == [NoSearch EXCEPT !.at = "selectUnchecked", !.iteration = n]
<1>1. NoSearch \in Search /\ SearchFits(NoSearch, rows, done)
  BY NoSearchFits
<1>2. v \in Search
  BY <1>1 DEF Search
<1>3. /\ v.at = "selectUnchecked" /\ v.unchecked = NoSearch.unchecked /\ v.todo = NoSearch.todo
      /\ v.asking = NoSearch.asking /\ v.results = NoSearch.results /\ v.heard = NoSearch.heard
  BY <1>1 DEF Search
<1>4. NoSearch.asking = {}
  BY DEF NoSearch
<1> HIDE DEF v
<1>5. SearchFits(v, rows, done)
  BY <1>1, <1>3, <1>4 DEF SearchFits
<1> QED BY <1>2, <1>5 DEF v

LEMMA ReturnKeeps ==
    ASSUME PendingInv, RowsType', known \subseteq known', NEW c \in Callers, Return(c),
           checked \union marked \subseteq checked' \union marked'
    PROVE  PendingInv'
BY NoSearchFits, SearchMoves DEF Return

LEMMA EndIterationKeeps ==
    ASSUME PendingInv, RowsType', known \subseteq known', NEW c \in Callers, EndIteration(c),
           checked \union marked \subseteq checked' \union marked'
    PROVE  PendingInv'
<1>1. CASE Return(c)
  BY <1>1, ReturnKeeps
<1>2. CASE searches[c].iteration # MaxIterations /\ searches' = [searches EXCEPT ![c] =
            [NoSearch EXCEPT !.at = "selectUnchecked", !.iteration = searches[c].iteration + 1]]
  <2> DEFINE v == [NoSearch EXCEPT !.at = "selectUnchecked", !.iteration = searches[c].iteration + 1]
  <2>1. searches[c].iteration \in 0..MaxIterations
    BY DEF PendingInv, SearchesType, Search
  <2>2. searches[c].iteration + 1 \in 0..MaxIterations
    BY <1>2, <2>1, BatchesAssumption
  <2>3. v \in Search /\ SearchFits(v, known', checked' \union marked')
    BY <2>2, NewSearchFits
  <2> HIDE DEF v
  <2>4. searches' = [searches EXCEPT ![c] = v]
    BY <1>2 DEF v
  <2> QED BY <2>3, <2>4, SearchMoves
<1> QED BY <1>1, <1>2 DEF EndIteration, Again

LEMMA StoreTyped ==
    ASSUME RowsType, NEW e \in Anchors, e.tx \in known, StoreAnchorEvent(e),
           UNCHANGED <<known, checked, held, faults>>
    PROVE  RowsType' /\ marked \subseteq marked'
BY DEF StoreAnchorEvent, RowsType

LEMMA InitPending == PendingInit => PendingInv
<1> SUFFICES ASSUME PendingInit PROVE PendingInv
  OBVIOUS
<1>1. RowsType
  BY WorldAssumption, BatchesAssumption DEF PendingInit, RowsType
<1>2. SearchesType
  BY NoSearchFits DEF PendingInit, SearchesType
<1> QED BY <1>1, <1>2 DEF PendingInv

LEMMA CallerKnown ==
    ASSUME PendingInv, NEW c \in Callers
    PROVE  searches[c] \in Search /\ SearchFits(searches[c], known, checked \union marked)
BY DEF PendingInv, SearchesType

LEMMA BeginKeeps ==
    ASSUME PendingInv, NEW c \in Callers, Begin(c)
    PROVE  PendingInv'
<1> DEFINE v == [NoSearch EXCEPT !.at = "selectUnchecked", !.iteration = 1]
<1>1. UNCHANGED <<known, checked, marked, anchors, held, faults>>
  BY DEF Begin, table
<1>2. v \in Search /\ SearchFits(v, known', checked' \union marked')
  <2>1. 1 \in 0..MaxIterations
    BY BatchesAssumption
  <2> QED BY <2>1, NewSearchFits
<1>3. RowsType'
  BY <1>1 DEF PendingInv, RowsType
<1>4. searches' = [searches EXCEPT ![c] = v]
  BY DEF Begin
<1> HIDE DEF v
<1> QED BY <1>1, <1>2, <1>3, <1>4, SearchMoves

LEMMA SelectUncheckedKeeps ==
    ASSUME PendingInv, NEW c \in Callers, SelectUnchecked(c)
    PROVE  PendingInv'
<1>1. UNCHANGED <<known, checked, marked, anchors, held, faults>>
  BY DEF SelectUnchecked, table
<1>2. PICK list \in GetUncheckedBitcoinTransactions :
        searches' = [searches EXCEPT ![c] =
            [NoSearch EXCEPT !.at = "selectChecked", !.iteration = searches[c].iteration,
                             !.unchecked = list, !.listed = known]]
  BY DEF SelectUnchecked
<1> DEFINE v == [NoSearch EXCEPT !.at = "selectChecked", !.iteration = searches[c].iteration,
                                 !.unchecked = list, !.listed = known]
<1>3. RowsType /\ RowsType'
  BY <1>1 DEF PendingInv, RowsType
<1>4. /\ list \in Seq(Txs) /\ Range(list) \subseteq Unchecked /\ Len(list) <= BatchSize
      /\ list = <<>> => Unchecked = {}
  <2>1. Unchecked \in SUBSET Txs
    BY <1>3 DEF RowsType, Unchecked
  <2> QED BY <1>2, <2>1, QueriesReturnBatches, BatchFacts
<1>5. NoSearch \in Search /\ SearchFits(NoSearch, known, checked \union marked)
  BY NoSearchFits
<1>6. searches[c].iteration \in 0..MaxIterations
  BY CallerKnown DEF Search
<1>7. v \in Search
  <2>1. known \in SUBSET Txs
    BY <1>3 DEF RowsType
  <2> QED BY <1>4, <1>5, <1>6, <2>1 DEF Search
<1>8. /\ v.at = "selectChecked" /\ v.unchecked = list /\ v.todo = NoSearch.todo
      /\ v.asking = NoSearch.asking /\ v.results = NoSearch.results /\ v.heard = NoSearch.heard
      /\ v.listed = known
  BY <1>5 DEF Search
<1>9. SearchFits(v, known, checked \union marked)
  <2>1. NoSearch.asking = {}
    BY DEF NoSearch
  <2>2. list = <<>> => known \subseteq checked \union marked
    BY <1>4 DEF Unchecked
  <2>3. Range(list) \subseteq known
    BY <1>4 DEF Unchecked
  <2> HIDE DEF v
  <2> QED BY <1>4, <1>5, <1>8, <2>1, <2>2, <2>3 DEF SearchFits
<1>10. searches' = [searches EXCEPT ![c] = v]
  BY <1>2
<1> HIDE DEF v
<1> QED BY <1>1, <1>3, <1>7, <1>9, <1>10, SearchMoves

\* Both lots together.
LEMMA GoOnWithKeeps ==
    ASSUME PendingInv, NEW c \in Callers, NEW list \in Seq(Txs), Range(list) \subseteq known,
           Len(list) <= BatchSize, searches[c].at = "selectChecked", GoOnWith(c, list),
           UNCHANGED <<known, checked, marked>>, RowsType'
    PROVE  PendingInv'
<1> DEFINE all == searches[c].unchecked \o list
           v == [searches[c] EXCEPT !.at = IF Relays = {} THEN "store" ELSE "query",
                                    !.todo = all, !.asking = Relays]
<1>1. searches[c] \in Search /\ SearchFits(searches[c], known, checked \union marked)
  BY CallerKnown
<1>2. CASE all = <<>>
  BY <1>2, ReturnKeeps DEF GoOnWith
<1>3. CASE all # <<>>
  <2>1. searches[c].unchecked \in Seq(Txs) /\ Len(searches[c].unchecked) \in Nat /\ Len(list) \in Nat
    BY <1>1, LenProperties DEF Search
  <2>2. /\ all \in Seq(Txs) /\ Len(all) = Len(searches[c].unchecked) + Len(list)
        /\ \A i \in 1..Len(all) : all[i] = IF i <= Len(searches[c].unchecked)
                                           THEN searches[c].unchecked[i]
                                           ELSE list[i - Len(searches[c].unchecked)]
    BY <2>1, ConcatProperties
  <2>3. Range(all) \subseteq known
    <3> SUFFICES ASSUME NEW i \in DOMAIN all PROVE all[i] \in known
      BY DEF Range
    <3>1. i \in 1..Len(all)
      BY <2>2, LenProperties
    <3>2. CASE i <= Len(searches[c].unchecked)
      <4>1. i \in DOMAIN searches[c].unchecked
        BY <2>1, <3>1, <3>2, LenProperties
      <4>2. all[i] = searches[c].unchecked[i]
        BY <2>2, <3>1, <3>2
      <4> QED BY <1>1, <4>1, <4>2 DEF Range, SearchFits
    <3>3. CASE ~(i <= Len(searches[c].unchecked))
      <4>1. i - Len(searches[c].unchecked) \in 1..Len(list)
        BY <2>1, <2>2, <3>1, <3>3
      <4>2. i - Len(searches[c].unchecked) \in DOMAIN list
        BY <4>1, LenProperties
      <4>3. all[i] = list[i - Len(searches[c].unchecked)]
        BY <2>2, <3>1, <3>3
      <4> QED BY <4>2, <4>3 DEF Range
    <3> QED BY <3>2, <3>3
  <2>4. Len(all) <= 2 * BatchSize
    <3>1. Len(searches[c].unchecked) <= BatchSize
      BY <1>1 DEF SearchFits
    <3> QED BY <2>1, <2>2, <3>1, BatchesAssumption
  <2>5. v \in Search
    <3> HIDE DEF all
    <3> QED BY <1>1, <2>2 DEF Search
  <2>6. /\ v.at \in {"query", "store"} /\ (Relays # {} => v.at = "query") /\ v.asking = Relays
        /\ v.todo = all /\ v.unchecked = searches[c].unchecked /\ v.listed = searches[c].listed
        /\ v.results = searches[c].results /\ v.heard = searches[c].heard
    <3> HIDE DEF all
    <3> QED BY <1>1 DEF Search
  <2>7. searches' = [searches EXCEPT ![c] = v]
    BY <1>1, <1>3 DEF GoOnWith, PendingInv, SearchesType
  <2> HIDE DEF v, all
  <2>8. SearchFits(v, known, checked \union marked)
    BY <1>1, <2>3, <2>4, <2>6 DEF SearchFits
  <2> QED BY <2>5, <2>7, <2>8, SearchMoves
<1> QED BY <1>2, <1>3

LEMMA SelectCheckedKeeps ==
    ASSUME PendingInv, NEW c \in Callers, SelectChecked(c)
    PROVE  PendingInv'
<1>1. UNCHANGED <<known, checked, marked, anchors, held, faults>>
  BY DEF SelectChecked, table
<1>2. PICK list \in GetCheckedTransactionsWithoutAnchor : GoOnWith(c, list)
  BY DEF SelectChecked
<1>3. RowsType /\ RowsType'
  BY <1>1 DEF PendingInv, RowsType
<1>4. CheckedWithoutAnchor \in SUBSET Txs /\ CheckedWithoutAnchor \subseteq known
  BY <1>3 DEF RowsType, CheckedWithoutAnchor
<1>5. list \in Seq(Txs) /\ Range(list) \subseteq known /\ Len(list) <= BatchSize
  BY <1>2, <1>4, QueriesReturnBatches, BatchFacts
<1> QED BY <1>1, <1>2, <1>3, <1>5, GoOnWithKeeps DEF SelectChecked, SearchAt

LEMMA HeardKeeps ==
    ASSUME PendingInv, NEW c \in Callers, NEW r \in searches[c].asking,
           NEW answer \in SUBSET Anchors, Heard(c, r, answer),
           UNCHANGED <<table, held, faults>>
    PROVE  PendingInv'
<1> DEFINE results == Merge(searches[c].results, answer)
           v == [searches[c] EXCEPT !.at = IF searches[c].asking = {r} THEN "store" ELSE @,
                                    !.asking = @ \ {r}, !.results = results,
                                    !.heard = @ \union answer]
<1>1. UNCHANGED <<known, checked, marked, anchors, held, faults>>
  BY DEF table
<1>2. searches[c] \in Search /\ SearchFits(searches[c], known, checked \union marked)
  BY CallerKnown
<1>3. RowsType'
  BY <1>1 DEF PendingInv, RowsType
<1>4. /\ results \in [Txs -> Anchors \union {NoAnchor}]
      /\ KeepsLatest(results, searches[c].heard \union answer)
  BY <1>2, MergeKeepsLatest DEF Search, SearchFits
<1> HIDE DEF results
<1>5. v \in Search
  BY <1>2, <1>4 DEF Search
<1>6. /\ v.at = (IF searches[c].asking = {r} THEN "store" ELSE searches[c].at)
      /\ v.asking = searches[c].asking \ {r} /\ v.results = results
      /\ v.heard = searches[c].heard \union answer /\ v.listed = searches[c].listed
      /\ v.unchecked = searches[c].unchecked /\ v.todo = searches[c].todo
  BY <1>2 DEF Search
<1>7. searches' = [searches EXCEPT ![c] = v]
  BY <1>2 DEF Heard, PendingInv, SearchesType, results
<1> HIDE DEF v
<1>8. SearchFits(v, known, checked \union marked)
  BY <1>2, <1>4, <1>6 DEF SearchFits
<1> QED BY <1>1, <1>3, <1>5, <1>7, <1>8, SearchMoves

LEMMA StoreKeeps ==
    ASSUME PendingInv, NEW c \in Callers, Store(c)
    PROVE  PendingInv'
<1> DEFINE todo == searches[c].todo
<1>1. PICK i \in DOMAIN todo :
        /\ FoundFor(c, i) # NoAnchor
        /\ IF FoundFor(c, i).valid THEN StoreAnchorEvent(FoundFor(c, i))
           ELSE UNCHANGED <<anchors, marked>>
        /\ searches' = [searches EXCEPT ![c].todo = SubSeq(@, i + 1, Len(@)), ![c].found = TRUE]
  BY DEF Store
<1>2. searches[c] \in Search /\ SearchFits(searches[c], known, checked \union marked)
  BY CallerKnown
<1>3. todo \in Seq(Txs) /\ i \in 1..Len(todo) /\ Len(todo) \in Nat /\ todo[i] \in known
  <2>1. todo[i] \in known
    BY <1>2 DEF SearchFits, Range
  <2> QED BY <1>2, <2>1, LenProperties DEF Search
<1>4. FoundFor(c, i) \in Anchors /\ FoundFor(c, i).tx = todo[i]
  <2>1. todo[i] \in Txs
    BY <1>3 DEF PendingInv, RowsType
  <2>2. searches[c].heard \subseteq Anchors
    BY <1>2 DEF Search
  <2> QED BY <1>1, <1>2, <2>1, <2>2 DEF FoundFor, SearchFits, KeepsLatest
<1>5. RowsType' /\ marked \subseteq marked' /\ UNCHANGED <<known, checked>>
  <2>1. UNCHANGED <<known, checked, held, faults>> /\ RowsType
    BY DEF Store, PendingInv
  <2>2. CASE FoundFor(c, i).valid
    BY <1>1, <1>3, <1>4, <2>1, <2>2, StoreTyped
  <2>3. CASE ~FoundFor(c, i).valid
    BY <1>1, <2>1, <2>3 DEF RowsType
  <2> QED BY <2>1, <2>2, <2>3
<1> DEFINE rest == SubSeq(todo, i + 1, Len(todo))
           v == [searches[c] EXCEPT !.todo = rest, !.found = TRUE]
<1>6. /\ rest \in Seq(Txs) /\ Len(rest) <= Len(todo) /\ Len(rest) \in Nat
      /\ Range(rest) \subseteq Range(todo)
  <2>1. /\ rest \in Seq(Txs)
        /\ Len(rest) = IF i + 1 <= Len(todo) THEN Len(todo) - (i + 1) + 1 ELSE 0
        /\ \A j \in 1..Len(rest) : rest[j] = todo[i + 1 + j - 1]
    <3>1. i + 1 \in 1..(Len(todo) + 1) /\ Len(todo) \in (i + 1) - 1..Len(todo)
      BY <1>3
    <3>2. \A j \in i + 1..Len(todo) : todo[j] \in Txs
      BY <1>3
    <3> HIDE DEF todo
    <3> QED BY <1>3, <3>1, <3>2, SubSeqProperties
  <2>2. Len(rest) \in Nat /\ Len(rest) <= Len(todo)
    <3> HIDE DEF todo, rest
    <3> QED BY <1>3, <2>1
  <2>3. Range(rest) \subseteq Range(todo)
    <3> SUFFICES ASSUME NEW j \in DOMAIN rest PROVE rest[j] \in Range(todo)
      BY DEF Range
    <3>1. j \in 1..Len(rest)
      BY <2>1, LenProperties
    <3>2. rest[j] = todo[i + 1 + j - 1] /\ i + 1 + j - 1 \in 1..Len(todo)
      <4> HIDE DEF todo, rest
      <4> QED BY <1>3, <2>1, <3>1
    <3>3. i + 1 + j - 1 \in DOMAIN todo
      BY <1>3, <3>2, LenProperties
    <3> HIDE DEF todo, rest
    <3> QED BY <3>2, <3>3 DEF Range
  <2> QED BY <2>1, <2>2, <2>3
<1>7. searches' = [searches EXCEPT ![c] = v]
  BY <1>1, <1>2 DEF PendingInv, SearchesType
<1> HIDE DEF rest
<1>8. v \in Search
  BY <1>2, <1>6 DEF Search
<1>9. /\ v.at = searches[c].at /\ v.asking = searches[c].asking /\ v.todo = rest
      /\ v.results = searches[c].results /\ v.heard = searches[c].heard
      /\ v.unchecked = searches[c].unchecked /\ v.listed = searches[c].listed
  BY <1>2 DEF Search
<1> HIDE DEF v, todo
<1>10. SearchFits(v, known, checked \union marked)
  <2>1. Len(rest) <= 2 * BatchSize
    <3>1. Len(todo) <= 2 * BatchSize
      BY <1>2 DEF SearchFits, todo
    <3> QED BY <1>3, <1>6, <3>1, BatchesAssumption
  <2>2. Range(rest) \subseteq known
    BY <1>2, <1>6 DEF SearchFits, todo
  <2> QED BY <1>2, <1>9, <2>1, <2>2 DEF SearchFits
<1>11. SearchFits(v, known', checked' \union marked')
  BY <1>5, <1>10, FitsMonotone
<1> QED BY <1>5, <1>7, <1>8, <1>11, SearchMoves

LEMMA MarkCheckedKeeps ==
    ASSUME PendingInv, NEW c \in Callers, MarkChecked(c)
    PROVE  PendingInv'
<1>1. Range(searches[c].unchecked) \subseteq known
  BY CallerKnown DEF SearchFits
<1>2. RowsType' /\ checked \subseteq checked'
  BY <1>1 DEF MarkChecked, PendingInv, RowsType
<1> QED BY <1>2, EndIterationKeeps DEF MarkChecked

LEMMA FailedStatementKeeps ==
    ASSUME PendingInv, NEW c \in Callers, FailedStatement(c)
    PROVE  PendingInv'
<1>1. UNCHANGED <<known, checked, marked, anchors, held>>
  BY DEF FailedStatement, table
<1>2. RowsType'
  BY <1>1, BatchesAssumption DEF FailedStatement, PendingInv, RowsType
<1>3. CASE Return(c)
  BY <1>1, <1>2, <1>3, ReturnKeeps
<1>4. CASE SearchAt(c, "selectChecked") /\ GoOnWith(c, <<>>)
  <2>1. <<>> \in Seq(Txs) /\ Range(<<>>) \subseteq known /\ Len(<<>>) <= BatchSize
    BY BatchesAssumption DEF Range
  <2> QED BY <1>1, <1>2, <1>4, <2>1, GoOnWithKeeps DEF SearchAt
<1>5. CASE EndIteration(c)
  BY <1>1, <1>2, <1>5, EndIterationKeeps
<1> QED BY <1>3, <1>4, <1>5 DEF FailedStatement

LEMMA PendingStep == PendingInv /\ [PendingNext]_pendingVars => PendingInv'
<1> SUFFICES ASSUME PendingInv, [PendingNext]_pendingVars
             PROVE  PendingInv'
  OBVIOUS
<1>1. ASSUME NEW t \in Txs, Discover(t) PROVE PendingInv'
  <2>1. RowsType'
    BY <1>1 DEF Discover, PendingInv, RowsType
  <2> QED BY <1>1, <2>1, OthersMove DEF Discover
<1>2. ASSUME NEW r \in Relays, NEW e \in Anchors, Publish(r, e) PROVE PendingInv'
  <2>1. RowsType'
    BY <1>2 DEF Publish, table, PendingInv, RowsType
  <2> QED BY <1>2, <2>1, OthersMove DEF Publish, table
<1>3. ASSUME NEW e \in Anchors, Arrive(e) PROVE PendingInv'
  <2>1. RowsType' /\ marked \subseteq marked'
    BY <1>3, StoreTyped DEF Arrive, PendingInv
  <2> QED BY <1>3, <2>1, OthersMove DEF Arrive
<1>4. ASSUME NEW c \in Callers, SearchStep(c) PROVE PendingInv'
  <2>1. ASSUME NEW r \in Relays, Answer(c, r) PROVE PendingInv'
    <3> DEFINE answer == {e \in Anchors : <<r, e>> \in held /\ e.tx \in Range(searches[c].todo)}
    <3>1. answer \in SUBSET Anchors /\ Heard(c, r, answer) /\ r \in searches[c].asking
      BY <2>1 DEF Answer
    <3> HIDE DEF answer
    <3> QED BY <2>1, <3>1, HeardKeeps DEF Answer
  <2>2. ASSUME NEW r \in Relays, NoAnswer(c, r) PROVE PendingInv'
    BY <2>2, HeardKeeps DEF NoAnswer
  <2> QED BY <1>4, <2>1, <2>2, SelectUncheckedKeeps, SelectCheckedKeeps, StoreKeeps,
             MarkCheckedKeeps DEF SearchStep
<1>5. CASE UNCHANGED pendingVars
  <2>1. RowsType'
    BY <1>5 DEF PendingInv, RowsType, pendingVars, table
  <2> QED BY <1>5, <2>1, OthersMove DEF pendingVars, table
<1> QED BY <1>1, <1>2, <1>3, <1>4, <1>5, BeginKeeps, FailedStatementKeeps DEF PendingNext

\* The invariant holds at every moment, whatever the relays answer and the callers do.
THEOREM PendingIsInvariant == PendingSpec => []PendingInv
BY InitPending, PendingStep, PTL DEF PendingSpec

\* Every variable of the search keeps its type; a batch keeps its size.
THEOREM PendingTypeCorrect == PendingSpec => []PendingTypeOK
BY PendingIsInvariant, PendingInvImplies, PTL

\* In whichever order the relays answer, a call takes up the latest claim it heard
\* (findAnchorEventsForTransactionsBatch).
THEOREM LatestHeard == PendingSpec => []LatestHeardWins
BY PendingIsInvariant, PendingInvImplies, PTL

LEMMA EndOfCall ==
    ASSUME PendingInv, [PendingNext]_pendingVars, NEW c \in Callers,
           Running(c), ~Running(c)', faults' = faults, SearchAt(c, "store") => Stops(searches[c])
    PROVE  searches[c].listed \subseteq checked' \union marked'
<1>1. searches[c] \in Search /\ SearchFits(searches[c], known, checked \union marked)
  BY CallerKnown
<1>2. searches[c].at # "idle" /\ searches'[c].at = "idle"
  BY DEF Running, SearchAt
<1>3. searches \in [Callers -> Search]
  BY DEF PendingInv, SearchesType
<1>4. searches' # searches
  BY <1>2
<1> SUFFICES ASSUME searches[c].unchecked = <<>>,
                    searches[c].at \in {"selectChecked", "query", "store"},
                    checked \subseteq checked', marked \subseteq marked'
             PROVE  searches[c].listed \subseteq checked' \union marked'
  <2>1. PICK d \in Callers : Begin(d) \/ SearchStep(d) \/ FailedStatement(d)
    BY <1>4 DEF PendingNext, Discover, Publish, Arrive, pendingVars
  <2>2. ~FailedStatement(d)
    <3>1. faults \in Nat
      BY BatchesAssumption DEF PendingInv, RowsType
    <3> QED BY <3>1 DEF FailedStatement
  <2>3. ~Begin(d)
    BY <1>2, <1>3 DEF Begin, NoSearch
  <2>4. ~SelectUnchecked(d)
    BY <1>2, <1>3 DEF SelectUnchecked, NoSearch
  <2>5. ~\E r \in Relays : Answer(d, r) \/ NoAnswer(d, r)
    <3> SUFFICES ASSUME NEW r \in Relays, NEW answer, Heard(d, r, answer) PROVE FALSE
      BY DEF Answer, NoAnswer
    <3>1. searches'[d].at = "store" \/ searches'[d].at = searches[d].at
      BY <1>3 DEF Heard, Search
    <3>2. d # c => searches'[c] = searches[c]
      BY <1>3 DEF Heard
    <3> QED BY <1>2, <3>1, <3>2
  <2>6. ~Store(d)
    <3> SUFFICES ASSUME NEW i, searches' = [searches EXCEPT
                            ![d].todo = SubSeq(@, i + 1, Len(@)), ![d].found = TRUE]
                 PROVE  FALSE
      BY DEF Store
    <3>1. searches'[c].at = searches[c].at
      BY <1>3 DEF Search
    <3> QED BY <1>2, <3>1
  <2>7. CASE SelectChecked(d)
    <3>1. PICK list \in GetCheckedTransactionsWithoutAnchor : GoOnWith(d, list)
      BY <2>7 DEF SelectChecked
    <3>2. Return(d) /\ searches[d].unchecked \o list = <<>> /\ d = c
      <4>1. CASE searches[d].unchecked \o list = <<>>
        BY <1>2, <1>3, <3>1, <4>1 DEF GoOnWith, Return
      <4>2. CASE searches[d].unchecked \o list # <<>>
        <5> DEFINE all == searches[d].unchecked \o list
        <5>1. searches' = [searches EXCEPT ![d].at = IF Relays = {} THEN "store" ELSE "query",
                                           ![d].todo = all, ![d].asking = Relays]
          BY <3>1, <4>2 DEF GoOnWith
        <5> HIDE DEF all
        <5>2. searches[d] \in Search
          BY <1>3
        <5>3. searches'[d].at \in {"store", "query"}
          BY <1>3, <5>1, <5>2 DEF Search
        <5>4. d # c => searches'[c] = searches[c]
          BY <1>3, <5>1
        <5> QED BY <1>2, <5>3, <5>4
      <4> QED BY <4>1, <4>2
    <3>3. CheckedWithoutAnchor \in SUBSET Txs
      BY DEF PendingInv, RowsType, CheckedWithoutAnchor
    <3>4. list \in Seq(Txs) /\ searches[c].unchecked \in Seq(Txs)
      BY <1>1, <3>1, <3>3, QueriesReturnBatches, BatchFacts DEF Search
    <3>5. searches[c].unchecked = <<>>
      <4>1. searches[c].unchecked \o list = <<>>
        BY <3>2
      <4>2. Len(searches[c].unchecked \o list) = Len(searches[c].unchecked) + Len(list)
        BY <3>4, ConcatProperties
      <4>3. Len(<<>>) = 0
        OBVIOUS
      <4>4. Len(searches[c].unchecked) \in Nat /\ Len(list) \in Nat
        BY <3>4, LenProperties
      <4>5. Len(searches[c].unchecked) = 0
        BY <4>1, <4>2, <4>3, <4>4
      <4> QED BY <3>4, <4>5, EmptySeq
    <3>6. UNCHANGED <<checked, marked>> /\ searches[c].at = "selectChecked"
      BY <2>7, <3>2 DEF SelectChecked, SearchAt, table
    <3> QED BY <3>5, <3>6
  <2>8. CASE MarkChecked(d)
    <3>1. /\ checked \subseteq checked' /\ marked' = marked
          /\ searches[d].at = "store" /\ EndIteration(d)
      BY <2>8 DEF MarkChecked, SearchAt
    <3>2. d = c
      <4>1. d # c => searches'[c] = searches[c]
        BY <1>3, <3>1 DEF EndIteration, Again, Return
      <4> QED BY <1>2, <4>1
    <3>3. searches[c].unchecked = <<>>
      BY <3>1, <3>2 DEF SearchAt, Stops
    <3> QED BY <3>1, <3>2, <3>3
  <2> QED BY <2>1, <2>2, <2>3, <2>4, <2>5, <2>6, <2>7, <2>8 DEF SearchStep
<1> QED BY <1>1 DEF SearchFits

\* A call that ends by itself leaves none of the rows of its last iteration unasked: a row
\* that was dealt with stays so (SyncPendingTransactions).
THEOREM SearchesAskAll == PendingSpec => EndsWhenAllAsked
<1> DEFINE AllAsked ==
        \A c \in Callers :
            (/\ Running(c) /\ ~Running(c)' /\ faults' = faults
             /\ SearchAt(c, "store") => Stops(searches[c]))
            => searches[c].listed \subseteq checked' \union marked'
<1>1. PendingInv /\ [PendingNext]_pendingVars => [AllAsked]_pendingVars
  BY EndOfCall
<1>2. PendingSpec => [][AllAsked]_pendingVars
  BY <1>1, PendingIsInvariant, PTL DEF PendingSpec
<1> QED BY <1>2 DEF EndsWhenAllAsked
=============================================================================
