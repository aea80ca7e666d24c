------------------------------ MODULE Startup ------------------------------
(***************************************************************************)
(* P2PTransportBuilder::run (transport.rs): the steps before the eventloop *)
(* starts.  It builds the swarm, listens, waits one second for listen      *)
(* addresses, dials every boot node and waits for the first               *)
(* ConnectionEstablished; with relay enabled it dials the relay (given, or *)
(* a random boot node), waits until an identify Sent and an identify      *)
(* Received were seen, and listens on the relay circuit.  Every wait loop  *)
(* pulls swarm events one at a time and drops those it does not wait for.  *)
(*                                                                         *)
(* The swarm is the environment: dials to Reachable peers succeed, others  *)
(* fail; Others may connect in; identify runs on every connection.  The   *)
(* loops look only at an event's kind, so an event is its kind; the       *)
(* NewListenAddr and Kademlia events, which every loop drops, are left    *)
(* out, as they change nothing but the length of the queue.               *)
(***************************************************************************)
EXTENDS Naturals, Sequences, FiniteSets

CONSTANTS
    BootNodes,    \* the builder's boot_nodes
    Others,       \* peers that may connect to us while we start
    Reachable,    \* peers whose dial succeeds
    Relay,        \* the builder's relay flag
    RelayAddr,    \* the builder's relay_addr, or NoRelay
    NoRelay,
    MaxIncoming   \* bound on inbound connections

Peers == BootNodes \cup Others

ASSUME Relay \in BOOLEAN /\ RelayAddr \in Peers \cup {NoRelay}

Terminal == {"done", "error"}

VARIABLES
    pc,         \* step of run(): "start", "listening", "first_conn", "identify", "done", "error"
    relayAddr,  \* relay_addr after the random boot node choice
    sentSeen,   \* wait_for_identify's `sent`
    recvSeen,   \* wait_for_identify's `received`
    events,     \* swarm events not yet pulled by swarm.next()
    dialing,    \* outgoing dials the swarm has not finished
    conns,      \* established connections, <<peer, n>> for the n-th to a peer
    identified, \* <<connection, kind>> identify events the swarm has emitted
    incoming    \* inbound connections so far

vars == <<pc, relayAddr, sentSeen, recvSeen, events, dialing, conns,
          identified, incoming>>

Event == {"established", "dial_error", "identify_sent", "identify_received"}

Init ==
    /\ pc = "start"
    /\ relayAddr = NoRelay
    /\ sentSeen = FALSE /\ recvSeen = FALSE
    /\ events = <<>>
    /\ dialing = {} /\ conns = {} /\ identified = {}
    /\ incoming = 0

(* build_swarm, relay_addr.or_else(random boot node), listen_on per address; *)
(* build and listen errors are returned by `?`                                *)
Start ==
    /\ pc = "start"
    /\ relayAddr' \in IF RelayAddr = NoRelay /\ BootNodes # {}
                      THEN BootNodes ELSE {RelayAddr}
    /\ \E ok \in BOOLEAN : pc' = IF ok THEN "listening" ELSE "error"
    /\ UNCHANGED <<sentSeen, recvSeen, events, dialing, conns, identified,
                   incoming>>

(* The relay branch of run(): with relay set, dial the relay (an error is *)
(* returned by `?`, no relay address is Error::NoRelay) and go on to      *)
(* wait_for_identify; without it, build the channels and return Ok.       *)
StartRelay(dials) ==
    IF ~Relay THEN pc' = "done" /\ dialing' = dials
    ELSE IF relayAddr = NoRelay THEN pc' = "error" /\ dialing' = dials
    ELSE \E ok \in BOOLEAN :
            /\ pc' = IF ok THEN "identify" ELSE "error"
            /\ dialing' = IF ok THEN dials \cup {relayAddr} ELSE dials

(* wait_for_listening: each pulled event is only logged *)
WaitForListening ==
    /\ pc = "listening" /\ events # <<>>
    /\ events' = Tail(events)
    /\ UNCHANGED <<pc, relayAddr, sentSeen, recvSeen, dialing, conns,
                   identified, incoming>>

(* The one-second timeout of wait_for_listening fires; run() goes on      *)
(* without awaiting: add_external_address, then for every boot node       *)
(* add_server, kademlia add_address and swarm.dial (an error is returned), *)
(* then wait_for_first_connection, or the relay branch if none.            *)
ListeningTimeout ==
    /\ pc = "listening"
    /\ IF BootNodes = {}
       THEN StartRelay({})
       ELSE \E ok \in BOOLEAN :
               /\ pc' = IF ok THEN "first_conn" ELSE "error"
               /\ dialing' = IF ok THEN BootNodes ELSE {}
    /\ UNCHANGED <<relayAddr, sentSeen, recvSeen, events, conns, identified,
                   incoming>>

(* wait_for_first_connection: break on any ConnectionEstablished, then    *)
(* the relay branch; Kademlia and every other event are dropped            *)
WaitForFirstConnection ==
    /\ pc = "first_conn" /\ events # <<>>
    /\ events' = Tail(events)
    /\ IF Head(events) = "established"
       THEN StartRelay(dialing)
       ELSE UNCHANGED <<pc, dialing>>
    /\ UNCHANGED <<relayAddr, sentSeen, recvSeen, conns, identified,
                   incoming>>

(* mutant: `sent` and `received` declared inside the loop *)
WaitForIdentifyFlagsInLoop ==
    /\ pc = "identify" /\ events # <<>>
    /\ sentSeen' = (Head(events) = "identify_sent")
    /\ recvSeen' = (Head(events) = "identify_received")
    /\ events' = Tail(events)
    /\ IF sentSeen' /\ recvSeen'
       THEN \E ok \in BOOLEAN : pc' = IF ok THEN "done" ELSE "error"
       ELSE UNCHANGED pc
    /\ UNCHANGED <<relayAddr, dialing, conns, identified, incoming>>

(* wait_for_identify: loop until an identify Sent and an identify Received *)
(* were both pulled, from any peers; then listen_on the relay circuit     *)
WaitForIdentify ==
    /\ pc = "identify" /\ events # <<>>
    /\ LET e == Head(events) IN
         /\ sentSeen' = (sentSeen \/ e = "identify_sent")
         /\ recvSeen' = (recvSeen \/ e = "identify_received")
    /\ events' = Tail(events)
    /\ IF sentSeen' /\ recvSeen'
       THEN \E ok \in BOOLEAN : pc' = IF ok THEN "done" ELSE "error"
       ELSE UNCHANGED pc
    /\ UNCHANGED <<relayAddr, dialing, conns, identified, incoming>>

-----------------------------------------------------------------------------
(* The swarm *)

ConnsTo(p) == {c \in conns : c[1] = p}

(* a new connection to p; dialling a connected peer opens another *)
Connect(p) == conns' = conns \cup {<<p, Cardinality(ConnsTo(p)) + 1>>}

Emit(kind) == events' = Append(events, kind)

SwarmUnchanged == UNCHANGED <<pc, relayAddr, sentSeen, recvSeen>>

DialOutcome(p) ==
    /\ pc \notin Terminal /\ p \in dialing
    /\ dialing' = dialing \ {p}
    /\ IF p \in Reachable
       THEN Connect(p) /\ Emit("established")
       ELSE UNCHANGED conns /\ Emit("dial_error")
    /\ SwarmUnchanged
    /\ UNCHANGED <<identified, incoming>>

IncomingConnection(p) ==
    /\ pc \notin Terminal \cup {"start"} /\ p \in Others
    /\ incoming < MaxIncoming
    /\ incoming' = incoming + 1
    /\ Connect(p)
    /\ Emit("established")
    /\ SwarmUnchanged
    /\ UNCHANGED <<dialing, identified>>

Identify(c, kind) ==
    /\ pc \notin Terminal /\ c \in conns /\ <<c, kind>> \notin identified
    /\ identified' = identified \cup {<<c, kind>>}
    /\ Emit(kind)
    /\ SwarmUnchanged
    /\ UNCHANGED <<dialing, conns, incoming>>

IdentifyKinds == {"identify_sent", "identify_received"}

(* a peer gets at most a boot dial, a relay dial and an inbound connection *)
ConnIds == Peers \X (1..2)

Next ==
    \/ Start \/ WaitForListening \/ ListeningTimeout
    \/ WaitForFirstConnection \/ WaitForIdentify
    \/ \E p \in Peers : DialOutcome(p) \/ IncomingConnection(p)
    \/ \E c \in ConnIds, k \in IdentifyKinds : Identify(c, k)

(* run() is driven to completion by its caller; libp2p finishes every dial *)
(* (transport timeout) and runs identify on every connection.              *)
Fairness ==
    /\ WF_vars(Start) /\ WF_vars(WaitForListening) /\ WF_vars(ListeningTimeout)
    /\ WF_vars(WaitForFirstConnection) /\ WF_vars(WaitForIdentify)
    /\ \A p \in Peers : WF_vars(DialOutcome(p))
    /\ \A c \in ConnIds, k \in IdentifyKinds : WF_vars(Identify(c, k))

Spec == Init /\ [][Next]_vars /\ Fairness

-----------------------------------------------------------------------------
(* Spec 7: a failed swarm build, listen or initial dial is fatal and is   *)
(* propagated to the caller of run(); run() returns Ok or an error, and   *)
(* never waits forever.                                                   *)
RunReturns == <>(pc \in Terminal)
=============================================================================
