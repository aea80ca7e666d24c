------------------------------ MODULE Transport ------------------------------
(***************************************************************************)
(* The generic P2P transport eventloop, P2PTransport in                    *)
(* src/transport/src/transport.rs, together with the handle that feeds it  *)
(* and the libp2p swarm it drives.                                         *)
(*                                                                         *)
(* The loop (run) multiplexes the swarm's events and the handle's command  *)
(* channels; each select! branch runs one handler to completion, so every  *)
(* handler below is one atomic action.  The swarm is the environment: it   *)
(* establishes, fails and closes connections, lets identify and Kademlia   *)
(* report, and answers swarm.dial synchronously.  A swarm event and the    *)
(* loop's handling of it are one step, since the loop sees swarm events in *)
(* the order the swarm emits them.                                         *)
(*                                                                         *)
(* Data is abstracted to identities: peers, dial waiters and messages are  *)
(* model values; connection ids and query ids are positions in the        *)
(* sequences conns and kad (both are handed out monotonically).           *)
(* Gossip validation, subscriptions and inbound requests touch none of    *)
(* this state and are modelled in PubSub.tla.                              *)
(***************************************************************************)
EXTENDS Naturals, Sequences, FiniteSets, SequencesExt, Functions

CONSTANTS
  Peers,              \* remote peer identities
  BootNodes,          \* boot nodes given to the builder (at most one)
  Waiters,            \* dial result senders, one per dial_peer call
  DialTo,             \* DialTo[w]: the peer the caller of waiter w dials
  Msgs,               \* outbound messages, one per send call of the handle
  MsgTo,              \* MsgTo[m]: recipient peer, Broadcast or NoDest
  Broadcast,          \* a message carrying a topic
  NoDest,             \* a message with neither peer_id nor topic
  NoResult,           \* a waiter not answered yet
  MAX_CONNS_PER_PEER, \* transport.rs:78
  BootstrapEnabled,   \* P2PTransport.bootstrap
  MaxOtherConns,      \* bound: connections opened by remote peers or by the
                      \* swarm's own behaviours (not by dial_peer)
  MaxQuerySteps,      \* bound: progress events of one DHT query
  MaxTicks,           \* bound: bootstrap timer ticks
  MaxConnId,          \* no more connection ids than this are handed out
  MaxQueryId          \* no more query ids than this are handed out

ASSUME BootNodes \subseteq Peers /\ Cardinality(BootNodes) <= 1
ASSUME DialTo \in [Waiters -> Peers]
ASSUME MsgTo \in [Msgs -> Peers \cup {Broadcast, NoDest}]
ASSUME MAX_CONNS_PER_PEER \in Nat \ {0}
ASSUME BootstrapEnabled \in BOOLEAN
ASSUME {MaxOtherConns, MaxTicks, MaxConnId, MaxQueryId} \subseteq Nat /\ MaxQuerySteps \in Nat \ {0}

VARIABLES
  \* fields of P2PTransport
  pending_dials,      \* peer -> waiters queued until the peer's address is found
  ongoing_dials,      \* connection id -> waiter of the dial that opened it
  ongoing_queries,    \* peer -> id of the DHT query resolving it (a bijection)
  pending_messages,   \* peer -> messages buffered until the peer is found
  active_connections, \* peer -> connection ids, most recent first
  running,            \* the loop has not exited
  \* the handle's command channels (FIFO)
  outbound_q,         \* outbound_msg_receiver
  dial_q,             \* dial_receiver (the peer is DialTo[w])
  \* the swarm
  conns,              \* connection id -> [peer, state]
  addrs,              \* peers with an address in the Kademlia address book
  kad,                \* query id -> [peer, steps, running]
  identify_due,       \* connections whose identify Received event is still to come
  others,             \* connections not opened by dial_peer so far
  ticks,              \* bootstrap timer ticks so far
  \* what the callers of the handle observe
  issued,             \* waiters whose dial_peer call reached the channel
  result,             \* waiter -> answer sent on it, or NoResult
  submitted,          \* messages accepted by the handle's try_send
  sent,               \* message -> number of request_response send_request calls
  dropped,            \* messages discarded by the loop
  published           \* messages handed to gossipsub publish

loop  == <<pending_dials, ongoing_dials, ongoing_queries, pending_messages,
           active_connections, running>>
chans == <<outbound_q, dial_q>>
swarm == <<conns, addrs, kad, identify_due, others, ticks>>
hist  == <<issued, result, submitted, sent, dropped, published>>
vars  == <<loop, chans, swarm, hist>>

ConnStates == {"dialing", "established", "closing", "closed", "failed"}
Live == {"established", "closing"}   \* counted by swarm.is_connected

(***************************************************************************)
(* Reads of the swarm.                                                     *)
(***************************************************************************)
\* swarm.is_connected(peer_id)
Connected(p) == \E c \in DOMAIN conns : conns[c].peer = p /\ conns[c].state \in Live

\* can_send_msg: connected, or peer_addrs (the behaviours' addresses) non-empty
CanSendMsg(p) == Connected(p) \/ p \in addrs

\* Connection and query ids that can occur.  The inputs are bounded, so
\* only finitely many are handed out; TypeOK checks the bounds are enough.
ConnIds  == 1..MaxConnId
QueryIds == 1..MaxQueryId

Without(f, k) == Restrict(f, DOMAIN f \ {k})

(***************************************************************************)
(* Helpers of the loop.  Each is a fragment of the handler that calls it;  *)
(* the arguments are the values the handler has computed before the call. *)
(***************************************************************************)

\* Mutant of LookupPeer: the new query's id is taken one too low.
LookupPeerOffByOne(p, oq, kq) ==
  IF p \in DOMAIN oq
  THEN /\ ongoing_queries' = oq
       /\ kad' = kq
  ELSE /\ ongoing_queries' = (p :> Len(kq)) @@ oq
       /\ kad' = Append(kq, [peer |-> p, steps |-> 0, running |-> TRUE])

\* lookup_peer: start a GetClosestPeers query unless one is ongoing for p.
\* Sets ongoing_queries' and kad' from the values oq and kq.
LookupPeer(p, oq, kq) ==
  IF p \in DOMAIN oq
  THEN /\ ongoing_queries' = oq
       /\ kad' = kq
  ELSE /\ ongoing_queries' = (p :> Len(kq) + 1) @@ oq
       /\ kad' = Append(kq, [peer |-> p, steps |-> 0, running |-> TRUE])

\* dial_peer for every waiter of W in turn (peer_found re-dials each one),
\* starting from pending dials pd, queries oq, DHT kq and address book ad.
\* swarm.dial with PeerCondition::Disconnected answers synchronously:
\*   DialPeerConditionFalse (connected)  -> send true
\*   NoAddresses                         -> queue in pending_dials, look up
\*   another error (Denied by a behaviour) -> send false
\*   Ok                                  -> park under the new connection id
DialPeers(p, W, pd, oq, kq, ad) ==
  CASE W = {} ->
         /\ pending_dials' = pd /\ ongoing_queries' = oq /\ kad' = kq
         /\ UNCHANGED <<ongoing_dials, conns, result>>
    [] Connected(p) ->
         /\ result' = [w \in Waiters |-> IF w \in W THEN TRUE ELSE result[w]]
         /\ pending_dials' = pd /\ ongoing_queries' = oq /\ kad' = kq
         /\ UNCHANGED <<ongoing_dials, conns>>
    [] p \notin ad ->
         /\ pending_dials' = [pd EXCEPT ![p] = @ \cup W]
         /\ LookupPeer(p, oq, kq)
         /\ UNCHANGED <<ongoing_dials, conns, result>>
    [] OTHER ->
         \E denied \in SUBSET W :
           LET ok == SetToSeq(W \ denied)
               n  == Len(conns)
           IN /\ result' = [w \in Waiters |-> IF w \in denied THEN FALSE ELSE result[w]]
              /\ conns' = conns \o [i \in 1..Len(ok) |-> [peer |-> p, state |-> "dialing"]]
              /\ ongoing_dials' = ongoing_dials @@ [c \in n+1..n+Len(ok) |-> ok[c - n]]
              /\ pending_dials' = pd /\ ongoing_queries' = oq /\ kad' = kq

\* send_pending_messages: hand every buffered message for p to send_request.
SendPendingMessages(p) ==
  /\ sent' = [m \in Msgs |-> IF m \in pending_messages[p] THEN sent[m] + 1 ELSE sent[m]]
  /\ pending_messages' = [pending_messages EXCEPT ![p] = {}]

\* Mutant of PeerFound: the pending dials are answered true instead of
\* being re-dialled.
PeerFoundAnswersTrue(p, oq, kq, ad) ==
  /\ result' = [w \in Waiters |-> IF w \in pending_dials[p] THEN TRUE ELSE result[w]]
  /\ pending_dials' = [pending_dials EXCEPT ![p] = {}]
  /\ ongoing_queries' = oq /\ kad' = kq
  /\ UNCHANGED <<ongoing_dials, conns>>
  /\ SendPendingMessages(p)

\* peer_found: re-dial the pending dials, then flush the pending messages.
PeerFound(p, oq, kq, ad) ==
  /\ DialPeers(p, pending_dials[p], [pending_dials EXCEPT ![p] = {}], oq, kq, ad)
  /\ SendPendingMessages(p)

\* peer_not_found: answer the pending dials false, drop the pending messages.
PeerNotFound(p, oq, kq) ==
  /\ result' = [w \in Waiters |-> IF w \in pending_dials[p] THEN FALSE ELSE result[w]]
  /\ pending_dials' = [pending_dials EXCEPT ![p] = {}]
  /\ dropped' = dropped \cup pending_messages[p]
  /\ pending_messages' = [pending_messages EXCEPT ![p] = {}]
  /\ ongoing_queries' = oq /\ kad' = kq
  /\ UNCHANGED <<ongoing_dials, conns, sent>>

(***************************************************************************)
(* Initial state: run() has built the swarm, dialled the boot node and     *)
(* consumed its ConnectionEstablished in wait_for_first_connection, so the *)
(* loop starts with that connection open but unknown to it.                *)
(***************************************************************************)
Init ==
  /\ pending_dials = [p \in Peers |-> {}]
  /\ ongoing_dials = <<>>
  /\ ongoing_queries = <<>>
  /\ pending_messages = [p \in Peers |-> {}]
  /\ active_connections = [p \in Peers |-> <<>>]
  /\ running = TRUE
  /\ outbound_q = <<>>
  /\ dial_q = <<>>
  /\ conns = [b \in 1..Cardinality(BootNodes) |->
                [peer |-> CHOOSE n \in BootNodes : TRUE, state |-> "established"]]
  /\ addrs = BootNodes
  /\ kad = <<>>
  /\ identify_due = DOMAIN conns
  /\ others = 0
  /\ ticks = 0
  /\ issued = {}
  /\ result = [w \in Waiters |-> NoResult]
  /\ submitted = {}
  /\ sent = [m \in Msgs |-> 0]
  /\ dropped = {}
  /\ published = {}

(***************************************************************************)
(* The handle (P2PTransportHandle), called from any task.                 *)
(***************************************************************************)
\* send_message / send_direct_msg / broadcast_msg: try_send on the outbound
\* channel; once the loop has exited the receiver is gone and it fails.
SendMessage(m) ==
  /\ running /\ m \notin submitted
  /\ submitted' = submitted \cup {m}
  /\ outbound_q' = Append(outbound_q, m)
  /\ UNCHANGED <<loop, dial_q, swarm, issued, result, sent, dropped, published>>

\* dial_peer: send (peer, result sender) on the dial channel, await the answer.
DialPeerCall(w) ==
  /\ running /\ w \notin issued
  /\ issued' = issued \cup {w}
  /\ dial_q' = Append(dial_q, w)
  /\ UNCHANGED <<loop, outbound_q, swarm, result, submitted, sent, dropped, published>>

(***************************************************************************)
(* Branches of the loop's select! over the command channels and timers.   *)
(***************************************************************************)
\* cancel_token.cancelled() => break
Cancel ==
  /\ running
  /\ running' = FALSE
  /\ UNCHANGED <<pending_dials, ongoing_dials, ongoing_queries, pending_messages,
                 active_connections, chans, swarm, hist>>

\* bootstrap timer: kademlia.bootstrap() fails when the routing table is
\* empty, and the loop then breaks.  The first tick of interval() is
\* immediate.
Bootstrap ==
  /\ running /\ ticks < MaxTicks
  /\ ticks' = ticks + 1
  /\ running' = ~(BootstrapEnabled /\ addrs = {})
  /\ UNCHANGED <<pending_dials, ongoing_dials, ongoing_queries, pending_messages,
                 active_connections, chans, conns, addrs, kad, identify_due,
                 others, hist>>

\* handle_outbound_msg
HandleOutboundMsg ==
  /\ running /\ outbound_q # <<>>
  /\ outbound_q' = Tail(outbound_q)
  /\ LET m == Head(outbound_q)
         p == MsgTo[m]
     IN CASE p = Broadcast ->
               /\ published' = published \cup {m}
               /\ UNCHANGED <<loop, swarm, sent, dropped>>
          [] p = NoDest ->
               /\ dropped' = dropped \cup {m}
               /\ UNCHANGED <<loop, swarm, sent, published>>
          [] CanSendMsg(p) ->
               /\ sent' = [sent EXCEPT ![m] = @ + 1]
               /\ UNCHANGED <<loop, swarm, dropped, published>>
          [] OTHER ->
               /\ pending_messages' = [pending_messages EXCEPT ![p] = @ \cup {m}]
               /\ LookupPeer(p, ongoing_queries, kad)
               /\ UNCHANGED <<pending_dials, ongoing_dials, active_connections, running,
                              conns, addrs, identify_due, others, ticks,
                              sent, dropped, published>>
  /\ UNCHANGED <<dial_q, issued, result, submitted>>

\* dial_receiver branch: dial_peer(peer_id, result_sender)
HandleDial ==
  /\ running /\ dial_q # <<>>
  /\ dial_q' = Tail(dial_q)
  /\ LET w == Head(dial_q) IN
       DialPeers(DialTo[w], {w}, pending_dials, ongoing_queries, kad, addrs)
  /\ UNCHANGED <<pending_messages, active_connections, running, outbound_q,
                 addrs, identify_due, others, ticks,
                 issued, submitted, sent, dropped, published>>

(***************************************************************************)
(* Swarm events and their handlers (handle_swarm_event).                   *)
(***************************************************************************)
\* Mutant of OnConnectionEstablished: the pending messages are not flushed.
OnConnectionEstablishedNoFlush(p, c, cs) ==
  LET peer_conns == <<c>> \o active_connections[p]
      to_close   == IF Len(peer_conns) > MAX_CONNS_PER_PEER
                    THEN {peer_conns[Len(peer_conns)]} ELSE {}
      dialled    == IF c \in DOMAIN ongoing_dials THEN {ongoing_dials[c]} ELSE {}
  IN /\ ongoing_queries' = Without(ongoing_queries, p)
     /\ result' = [w \in Waiters |->
                     IF w \in dialled \cup pending_dials[p] THEN TRUE ELSE result[w]]
     /\ ongoing_dials' = Without(ongoing_dials, c)
     /\ pending_dials' = [pending_dials EXCEPT ![p] = {}]
     /\ UNCHANGED <<sent, pending_messages>>
     /\ active_connections' = [active_connections EXCEPT ![p] = peer_conns]
     /\ conns' = [i \in DOMAIN cs |->
                    IF i \in to_close /\ cs[i].state = "established"
                    THEN [cs[i] EXCEPT !.state = "closing"] ELSE cs[i]]
     /\ identify_due' = identify_due \cup {c}

\* handle_connection_established, on the swarm's connection table cs that
\* already holds c as established.
OnConnectionEstablished(p, c, cs) ==
  LET peer_conns == <<c>> \o active_connections[p]
      to_close   == IF Len(peer_conns) > MAX_CONNS_PER_PEER
                    THEN {peer_conns[Len(peer_conns)]} ELSE {}
      dialled    == IF c \in DOMAIN ongoing_dials THEN {ongoing_dials[c]} ELSE {}
  IN /\ ongoing_queries' = Without(ongoing_queries, p)
     /\ result' = [w \in Waiters |->
                     IF w \in dialled \cup pending_dials[p] THEN TRUE ELSE result[w]]
     /\ ongoing_dials' = Without(ongoing_dials, c)
     /\ pending_dials' = [pending_dials EXCEPT ![p] = {}]
     /\ SendPendingMessages(p)
     /\ active_connections' = [active_connections EXCEPT ![p] = peer_conns]
     \* swarm.close_connection: a connection already closing stays so
     /\ conns' = [i \in DOMAIN cs |->
                    IF i \in to_close /\ cs[i].state = "established"
                    THEN [cs[i] EXCEPT !.state = "closing"] ELSE cs[i]]
     /\ identify_due' = identify_due \cup {c}

\* ConnectionEstablished for a connection the loop dialled
ConnectionEstablished(c) ==
  /\ running /\ c \in DOMAIN conns
  /\ conns[c].state = "dialing"
  /\ OnConnectionEstablished(conns[c].peer, c,
                             [conns EXCEPT ![c].state = "established"])
  /\ UNCHANGED <<running, chans, addrs, kad, others, ticks,
                 issued, submitted, dropped, published>>

\* ConnectionEstablished for a connection opened by the remote peer
IncomingConnection(p) ==
  /\ running /\ others < MaxOtherConns
  /\ others' = others + 1
  /\ OnConnectionEstablished(p, Len(conns) + 1,
                             Append(conns, [peer |-> p, state |-> "established"]))
  /\ UNCHANGED <<running, chans, addrs, kad, ticks,
                 issued, submitted, dropped, published>>

\* A behaviour of the swarm dials a peer it has an address for (request_response
\* sending to a disconnected peer, Kademlia, autonat).  No handler runs: the
\* loop only sees the dial's outcome.
SwarmDial(p) ==
  /\ running /\ others < MaxOtherConns /\ p \in addrs
  /\ others' = others + 1
  /\ conns' = Append(conns, [peer |-> p, state |-> "dialing"])
  /\ UNCHANGED <<loop, chans, addrs, kad, identify_due, ticks, hist>>

\* Mutant of OutgoingConnectionError: the waiter is removed but never answered.
OutgoingConnectionErrorDropsWaiter(c) ==
  /\ running /\ c \in DOMAIN conns
  /\ conns[c].state = "dialing"
  /\ conns' = [conns EXCEPT ![c].state = "failed"]
  /\ ongoing_dials' = Without(ongoing_dials, c)
  /\ UNCHANGED <<pending_dials, ongoing_queries, pending_messages, active_connections,
                 running, chans, addrs, kad, identify_due, others, ticks, hist>>

\* OutgoingConnectionError: handle_connection_failed
OutgoingConnectionError(c) ==
  /\ running /\ c \in DOMAIN conns
  /\ conns[c].state = "dialing"
  /\ conns' = [conns EXCEPT ![c].state = "failed"]
  /\ IF c \in DOMAIN ongoing_dials
     THEN /\ result' = [result EXCEPT ![ongoing_dials[c]] = FALSE]
          /\ ongoing_dials' = Without(ongoing_dials, c)
     ELSE UNCHANGED <<result, ongoing_dials>>
  /\ UNCHANGED <<pending_dials, ongoing_queries, pending_messages, active_connections,
                 running, chans, addrs, kad, identify_due, others, ticks,
                 issued, submitted, sent, dropped, published>>

\* ConnectionClosed (remote close, idle timeout, or close_connection done):
\* handle_connection_closed
ConnectionClosed(c) ==
  /\ running /\ c \in DOMAIN conns
  /\ conns[c].state \in Live
  /\ conns' = [conns EXCEPT ![c].state = "closed"]
  /\ active_connections' =
       [active_connections EXCEPT ![conns[c].peer] = SelectSeq(@, LAMBDA x : x # c)]
  /\ UNCHANGED <<pending_dials, ongoing_dials, ongoing_queries, pending_messages,
                 running, chans, addrs, kad, identify_due, others, ticks, hist>>

\* identify Received over connection c: handle_identify_event.  The peer's
\* listen addresses are added to Kademlia when some are reachable; the event
\* counts as a successful lookup of the peer.  Identify queues its events,
\* so one may be handled after its connection has closed.
IdentifyReceived(c) ==
  /\ running /\ c \in identify_due
  /\ identify_due' = identify_due \ {c}
  /\ \E reachable \in BOOLEAN :
       LET p  == conns[c].peer
           ad == IF reachable THEN addrs \cup {p} ELSE addrs
       IN /\ addrs' = ad
          /\ IF p \in DOMAIN ongoing_queries
             THEN PeerFound(p, Without(ongoing_queries, p), kad, ad)
             ELSE UNCHANGED <<pending_dials, ongoing_dials, ongoing_queries,
                              pending_messages, conns, kad, result, sent>>
  /\ UNCHANGED <<active_connections, running, chans, others, ticks,
                 issued, submitted, dropped, published>>

\* handle_kademlia_event for OutboundQueryProgressed(GetClosestPeers) of
\* query q, after Kademlia has advanced it to kq.
OnKademliaEvent(q, found, last, kq, ad) ==
  IF q \notin Range(ongoing_queries)
  THEN /\ kad' = kq
       /\ UNCHANGED <<pending_dials, ongoing_dials, ongoing_queries,
                      pending_messages, conns, result, sent, dropped>>
  ELSE LET p == CHOOSE x \in DOMAIN ongoing_queries : ongoing_queries[x] = q IN
       CASE found ->
              /\ PeerFound(p, Without(ongoing_queries, p), kq, ad)
              /\ UNCHANGED dropped
         [] last ->
              PeerNotFound(p, Without(ongoing_queries, p), kq)
         [] OTHER ->
              /\ kad' = kq
              /\ UNCHANGED <<pending_dials, ongoing_dials, ongoing_queries,
                             pending_messages, conns, result, sent, dropped>>

\* A GetClosestPeers query of Kademlia reports a step.  found: the result
\* holds the target, whose addresses Kademlia then knows.  The query times
\* out, so its last step comes within MaxQuerySteps.
KademliaProgress(q) ==
  /\ running /\ q \in DOMAIN kad
  /\ kad[q].running
  /\ \E found \in BOOLEAN, last \in BOOLEAN :
       /\ kad[q].steps + 1 = MaxQuerySteps => last
       /\ LET ad == IF found THEN addrs \cup {kad[q].peer} ELSE addrs
              kq == [kad EXCEPT ![q].steps = @ + 1, ![q].running = ~last]
          IN /\ addrs' = ad
             /\ OnKademliaEvent(q, found, last, kq, ad)
  /\ UNCHANGED <<active_connections, running, chans, identify_due, others, ticks,
                 issued, submitted, published>>

(***************************************************************************)
(* The specification.                                                      *)
(***************************************************************************)
Next ==
  \/ \E m \in Msgs : SendMessage(m)
  \/ \E w \in Waiters : DialPeerCall(w)
  \/ Cancel
  \/ Bootstrap
  \/ HandleOutboundMsg
  \/ HandleDial
  \/ \E c \in ConnIds : ConnectionEstablished(c)
  \/ \E c \in ConnIds : OutgoingConnectionError(c)
  \/ \E c \in ConnIds : ConnectionClosed(c)
  \/ \E c \in ConnIds : IdentifyReceived(c)
  \/ \E p \in Peers : IncomingConnection(p)
  \/ \E p \in Peers : SwarmDial(p)
  \/ \E q \in QueryIds : KademliaProgress(q)

(***************************************************************************)
(* Fairness.  tokio::select! polls its ready branches in random order and  *)
(* every handler returns without awaiting, so a command or event that     *)
(* stays ready is eventually handled.  libp2p ends every dial with         *)
(* ConnectionEstablished or OutgoingConnectionError (transport timeouts),  *)
(* and every Kademlia query reaches its last step (query timeout).         *)
(* Callers, remote peers, closes, identify, the timer and cancellation get *)
(* no fairness: they may never happen.                                     *)
(***************************************************************************)
Fairness ==
  /\ WF_vars(HandleOutboundMsg)
  /\ WF_vars(HandleDial)
  /\ WF_vars(\E c \in DOMAIN conns : ConnectionEstablished(c) \/ OutgoingConnectionError(c))
  /\ WF_vars(\E q \in DOMAIN kad : KademliaProgress(q))

Spec == Init /\ [][Next]_vars /\ Fairness

(***************************************************************************)
(* Properties.                                                             *)
(***************************************************************************)
TypeOK ==
  /\ pending_dials \in [Peers -> SUBSET Waiters]
  /\ IsInjective(ongoing_dials) /\ Range(ongoing_dials) \subseteq Waiters
  /\ DOMAIN ongoing_dials \subseteq DOMAIN conns
  /\ IsInjective(ongoing_queries) /\ DOMAIN ongoing_queries \subseteq Peers
  /\ Range(ongoing_queries) \subseteq DOMAIN kad
  /\ pending_messages \in [Peers -> SUBSET Msgs]
  /\ active_connections \in [Peers -> Seq(DOMAIN conns)]
  /\ running \in BOOLEAN
  /\ outbound_q \in Seq(Msgs) /\ dial_q \in Seq(Waiters)
  /\ conns \in Seq([peer : Peers, state : ConnStates]) /\ Len(conns) <= MaxConnId
  /\ Len(kad) <= MaxQueryId
  /\ addrs \subseteq Peers
  /\ kad \in Seq([peer : Peers, steps : 0..MaxQuerySteps, running : BOOLEAN])
  /\ identify_due \subseteq DOMAIN conns
  /\ issued \subseteq Waiters /\ submitted \subseteq Msgs
  /\ result \in [Waiters -> BOOLEAN \cup {NoResult}]
  /\ sent \in [Msgs -> Nat] /\ dropped \subseteq Msgs /\ published \subseteq Msgs

\* Every dial waiter or message the loop has buffered for a peer has a DHT
\* query for that peer still running in Kademlia, whose end (found, not
\* found, identify or a new connection) will release it: lookup_peer,
\* handle_kademlia_event, peer_found and handle_connection_established
\* together must never leave a buffer without its query.
LookupCoversPending ==
  \A p \in Peers :
    pending_dials[p] \cup pending_messages[p] # {} =>
      /\ p \in DOMAIN ongoing_queries
      /\ kad[ongoing_queries[p]].running

\* A dial_peer caller is answered true only when the swarm holds a live
\* connection to the peer it dialled (DialPeerConditionFalse, the dial's own
\* ConnectionEstablished, or any connection to the peer for pending dials).
TrueMeansConnected ==
  [][\A w \in Waiters :
       (result[w] = NoResult /\ result'[w] = TRUE) =>
         \E c \in DOMAIN conns' : conns'[c].peer = DialTo[w] /\ conns'[c].state \in Live
    ]_vars

\* The swarm never keeps more than MAX_CONNS_PER_PEER connections to a peer
\* open without closing the surplus (spec 3: "excess connections are
\* proactively closed, oldest first").  handle_connection_established
\* closes the back of active_connections, which is the connection it
\* already asked to close if a new one arrives before that close completes.
ConnCap ==
  \A p \in Peers :
    Cardinality({c \in DOMAIN conns :
                   conns[c].peer = p /\ conns[c].state = "established"})
      <= MAX_CONNS_PER_PEER

\* Refinement: the transport implements TransportService.
MsgFate(m) ==
  LET n == sent[m] + (IF m \in dropped THEN 1 ELSE 0)
                   + (IF m \in published THEN 1 ELSE 0)
  IN CASE n = 0 -> "none"
       [] n > 1 -> "twice"
       [] sent[m] = 1 -> "sent"
       [] m \in dropped -> "dropped"
       [] OTHER -> "published"

Service == INSTANCE TransportService
             WITH fate <- [m \in Msgs |-> MsgFate(m)]

\* Every dial_peer call the loop received is answered exactly once and, while
\* the loop runs, eventually; every message the handle accepted is sent once,
\* published or dropped, and eventually so while the loop runs.
ImplementsService == Service!Spec

=============================================================================
