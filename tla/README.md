# TLA+ models of the subsquid network transport

This directory holds TLA+ models of the Rust transport in `src/transport/`.
The modules are checked with TLC.

## The system

`src/transport/src/transport.rs` builds a libp2p swarm. Its behaviours are Kademlia, identify, gossipsub, request/response, autonat and relay. It runs one eventloop task, `P2PTransport::run`, which owns all the state. The application talks to that task only through `P2PTransportHandle`, over bounded mpsc channels:

- outbound messages;
- subscription toggles;
- dial commands, each carrying a oneshot result sender.

Inbound messages go back to the application on a channel. Inside `run`, a `tokio::select!` takes one ready source at a time:

- cancellation;
- the bootstrap timer;
- a swarm event;
- an outbound message;
- a subscription;
- a dial.

Each select branch runs its handler to completion without awaiting anything that can block.

### State kept by the loop (struct at transport.rs:674)

| field | meaning |
|---|---|
| `pending_dials` | peer → dial waiters queued because the swarm had no address for the peer |
| `ongoing_dials` | connection id → waiter of the dial that opened that connection |
| `ongoing_queries` | peer ↔ Kademlia GetClosestPeers query id (a bijection) |
| `pending_messages` | peer → unicast messages buffered until the peer is found |
| `active_connections` | peer → connection ids, newest first; used for the 2-connection cap |
| `subscribed_topics`, `sequence_numbers` | gossip subscriptions and the last accepted sequence number per (topic, source) |

### How the parts interact

- **Dials.** A dial is answered in one of three ways.
  - At once: `true` if the peer is already connected (`DialPeerConditionFalse`), `false` on any other dial error.
  - Parked under the new connection id, then answered by `ConnectionEstablished` or `OutgoingConnectionError`.
  - Queued under the peer while a DHT lookup runs.
- **Ending a lookup.** A lookup ends in one of three ways:
  - a Kademlia progress event that contains the peer (`peer_found`, which re-dials every queued waiter and then flushes the buffered messages);
  - the query's last step (`peer_not_found`, which answers the waiters `false` and drops the messages);
  - identify from the peer, or a new connection to the peer.
- **Connection cap.** Each established connection is pushed to the front of `active_connections`. If the peer then has more than `MAX_CONNS_PER_PEER` (2) connections, the back one is closed.

### What is hard

- Swarm events interleave freely with the handle's commands.
- Identify and Kademlia events can arrive after the state they refer to has changed.
- A close is asynchronous. A connection stays in `active_connections` until its `ConnectionClosed` is handled.
- Every waiter must be answered exactly once, on whichever path it ends.
- The worker (`actors/worker.rs`) adds query deduplication and response routing on top of the base behaviour. It has its own leaks under queue pressure.

## Modules

- **`TransportService.tla`** is the abstract promise the loop makes to the handle's callers:
  - every dial call the loop received is answered once, and never changes its answer;
  - every accepted message is sent once, published, or dropped;
  - while the loop runs, each of these happens eventually.
- **`Transport.tla`** models the loop, the handle's send and dial calls, and the swarm as the environment.
  - Variables: the five maps above and `running`; the outbound and dial channels; the swarm's connection table `conns`, its address book `addrs`, Kademlia queries `kad`, pending identify events, and the environment budgets; and the callers' view (`issued`, `result`, `submitted`, `sent`, `dropped`, `published`).
  - Connection and query ids are positions in `conns` and `kad`, since both are handed out monotonically.
  - Actions, one per handler:
    - `HandleOutboundMsg` (handle_outbound_msg);
    - `HandleDial` (dial branch → `DialPeers`, i.e. P2PTransport::dial_peer);
    - `Bootstrap` (bootstrap timer) and `Cancel`;
    - `ConnectionEstablished` / `IncomingConnection`, both through `OnConnectionEstablished` (handle_connection_established);
    - `OutgoingConnectionError` (handle_connection_failed);
    - `ConnectionClosed` (handle_connection_closed);
    - `IdentifyReceived` (handle_identify_event);
    - `KademliaProgress`, through `OnKademliaEvent` (handle_kademlia_event).
  - Helpers `LookupPeer`, `PeerFound`, `PeerNotFound` and `SendPendingMessages` are the functions of the same names. Each is part of the action that calls it, never a step of its own.
  - `SwarmDial` is a dial started by a swarm behaviour. It is there so that a failed connection with no waiter can occur.
  - `Init` is `P2PTransport::new`'s empty maps in the state `run()` leaves the swarm in. The boot node's connection is open, but its `ConnectionEstablished` was consumed by `wait_for_first_connection`, so the loop does not know about it.
  - Message payloads, addresses and topics are abstracted to model values. A message's destination is a peer, `Broadcast` (has a topic) or `NoDest`.
- **`MCTransport.tla`** gives model values and destination maps for TLC.
- **`PubSub.tla`**, **`Worker.tla`**, **`Codec.tla`**, **`Startup.tla`** and **`BootNode.tla`** model the gossip side of the loop, the worker behaviour, the message codec, the builder's `run()` and the boot node binary; each has an `MC` module giving its constants for TLC, described in its own section below.

Refinement: `Transport` maps `sent`, `dropped` and `published` to the abstract `fate`. A message handed over twice maps to `"twice"`, which the abstract spec never allows. `ImplementsService` checks `TransportService!Spec` as a property.

## Runs

| run | cfg | checks | bounds |
|---|---|---|---|
| transport_boot | MCTransport.cfg | TypeOK, LookupCoversPending, TrueMeansConnected, ImplementsService | 2 peers (one a boot node), 1 dial to p2, message m1 to p2 and m2 broadcast, 1 connection from remote or behaviour, DHT queries of ≤ 2 steps, 1 timer tick |
| transport_noboot | MCTransportNoBoot.cfg | ImplementsService | no boot node; m2 has no destination |
| transport_conncap | MCTransportConnCap.cfg | ConnCap (expected violation) | 1 peer, 4 incoming connections |

- **`LookupCoversPending`**: every buffered dial or message has a running DHT query for its peer. It is broken if any of lookup_peer, the Kademlia handler, identify or handle_connection_established removes a query and leaves the buffer behind.
- **`TrueMeansConnected`** (an action property): a dial is answered `true` only when the swarm holds a live connection to the peer.
- **`ImplementsService`**: the refinement plus liveness described above.
- transport_noboot checks only `ImplementsService`: the other properties gain no case without a boot node, while the refinement meets two paths the boot run never reaches, the drop of a message with no destination and the loop's exit at the first bootstrap tick.
- The address book `addrs` only grows; Kademlia may evict addresses, so the model allows a superset of the code's `can_send_msg` answers on that side.
- **`ConnCap`**: at most 2 established connections per peer that the code has not asked to close.

### Why the bounds are enough

- One dial waiter and one unicast message to p2 reach every path:
  - no address → lookup;
  - the lookup found, not found, or overtaken by identify or a connection;
  - re-dial after found;
  - dial denied, dial ok, dial failed, and already connected.
- The extra connection lets a second connection to the peer arrive while a dial is parked, and lets a behaviour-dialled connection fail.
- Query steps ≤ 2 give a query both an intermediate step and a last step.
- A second waiter or message only multiplies interleavings of the same handlers.
- The ConnCap violation needs 4 connections: three to reach the cap twice, and a fourth before the first close completes.

### Fairness

`select!` polls the ready branches in random order, and no handler blocks. So a command that stays queued is eventually handled: this is weak fairness on `HandleOutboundMsg` and `HandleDial`.

libp2p ends every outgoing dial with `ConnectionEstablished` or `OutgoingConnectionError` (transport timeout). Every Kademlia query reaches a last step (query timeout). So there is weak fairness on those environment steps.

Callers, remote peers, closes, identify, the timer and cancellation get no fairness.

The runs set CHECK_DEADLOCK FALSE. Once its bounded inputs are spent, the loop idles in `select!`, which is the program's normal resting state.

## Gossip subscriptions and validation: `PubSub.tla`

`PubSub.tla` models the loop's gossip side (transport.rs:831-1051):

- `subscribed_topics` (topic ↦ allow_unordered) and `sequence_numbers` ((topic, source) ↦ last accepted sequence number) are the struct fields of the same names.
- `sub_q` is the subscription channel, and `inbound` the bounded inbound channel to the application. `closed` says whether the application has dropped its stream.
- Actions:
  - `ToggleSubscription` is the handle's `subscribe`/`toggle_subscription` (a `try_send`; a full channel is an error to the caller).
  - `HandleSubscription` is the select branch; it runs `Subscribe` or `Unsubscribe`.
  - `GossipMessage` is `handle_gossipsub_event`, and runs `ValidGossipsubMsg` (`validate_gossipsub_msg`) and `TrySendInbound`.
  - `InboundRequest` is `handle_request_event`, which acks only a request it could deliver.
  - `Receive`, `DropStream` and `Tick` are the application and the wall clock. `Cancel` is the cancellation branch.
- The order of the checks is the code's, and so is its storing of the sequence number before the `try_send` that may drop the message.
- History: `accepted` records every message handed to the application, with the subscription `epoch` it was accepted in.

| run | cfg | checks | bounds |
|---|---|---|---|
| pubsub | MCPubSub.cfg | TypeOK, OrderedWithinSubscription, SequenceNumbersOfSubscribed | 1 topic, 1 source (plus anonymous), sequence numbers ≤ 2, inbound capacity 1, 3 subscription commands, 3 gossip messages, 1 request |
| pubsub_replay | MCPubSubReplay.cfg | OrderedAccept (expected violation) | same |

- **`OrderedWithinSubscription`**: within one subscription, ordered-topic messages accepted from one source carry strictly increasing sequence numbers. A mutant that accepts an equal sequence number breaks it.
- **`SequenceNumbersOfSubscribed`**: `sequence_numbers`, which is never pruned by age (the FIXME at transport.rs:692), only holds keys of topics currently subscribed for ordered delivery. A mutant of `unsubscribe` without its `retain` breaks it. Growth with the number of sources within one subscription stays unbounded; a finite model cannot show it.
- **`OrderedAccept`** is spec.md §8's form of the same statement, with no subscription condition. It fails (see Findings).
- `sink_error` records a delivery attempted after the application dropped its stream. The handlers return an error that `run()` only logs (transport.rs:756), and the loop keeps running. spec.md §4.4 says the transport fails. The model shows this state, but no run checks it: the project's run budget went to the findings below.
- Bounds: three subscription commands give subscribe, unsubscribe and resubscribe; three gossip messages with sequence numbers 0..2 and a clock 0..2 reach the future, stale, equal and missing cases, the full channel and the replay. More topics or sources only repeat the same per-key checks.
- No liveness is checked here; the weak fairness on `HandleSubscription` is what the select loop guarantees.

## Worker: `Worker.tla`

`Worker.tla` models `actors/worker.rs`:

- `query_senders` (query id ↦ gateway) and `query_response_channels` (query id ↦ the request's response channel, modelled as the arrival that carried it) are the behaviour's fields. `blocked` is the set of peers the base behaviour was told to block.
- `events` and `results` are the bounded `events_tx` and `queries_rx` channels of `start_transport`.
- Actions:
  - `QueryRequest` is `on_inner_event` with a request or a legacy message, through `OnQuery` (signature check, id check, dedup on `Entry::Occupied`, insert).
  - `ForwardEvent` is part of every handler that emits an event. It is `on_swarm_event`'s `try_send`, which drops the event when the queue is full.
  - `Pong` and `LogsCollected` are `on_pong_event` and `on_logs_collected` with their impersonation checks.
  - `TrySendResult` is the handle's `send_query_result` (`try_send`): a full queue returns QueueFull and queues nothing. `HandleQueryResult` is the run loop's branch, and calls `SendQueryResult`.
  - `AppSendPing` and `AppSendLogs` are the handle's `send_ping` and `send_logs`. `HandlePing` (`send_ping`, the base behaviour's `publish_ping`) and `HandleLogs` (through `SendLogs`, the logs client's `try_send_request`, whose failure is only logged) are the loop's branches. `OnLogsEvent` is `on_logs_event`: a Response or Timeout ends a request, PeerUnknown asks the base behaviour to `find_and_dial` the collector.
  - `AppReceive`, `AppAnswer` and `AppStrayResult` are the application; `AppAnswer` keeps a query whose result met QueueFull and tries again. `Cancel` is the cancellation branch.
- `block_peer`, `publish_ping` and the logs client belong to the base behaviour and `ClientBehaviour`, which are not in this repository. They are modelled from spec.md 4.5: a blocked peer's messages are no longer processed, and the logs client holds a bounded queue of requests that end in a Response or a Timeout. Pings and logs batches carry no content the worker looks at, so their channels are counts.
- History: `log` records every accepted query and every answer, with the gateway and response channel used.

| run | cfg | checks | bounds |
|---|---|---|---|
| worker | MCWorker.cfg | TypeOK, DedupWhileOutstanding, ResultToOriginalSender | 2 gateways (symmetric), 1 query id, 3 arrivals, queues of 1, 2 pongs/logs broadcasts, 1 stray result, 2 send_ping/send_logs calls with one-slot channels and logs client |
| worker_live | MCWorkerLive.cfg | QueryEventuallyAnswered | 2 query ids, event queue of 3, result queue of 1, no control messages, no pings or logs |
| worker_event_drop | MCWorkerDrop.cfg | QueryEventuallyAnswered (expected violation) | as worker_live with an event queue of 1 |

- **`DedupWhileOutstanding`**: a query id is accepted again only after the earlier one was answered.
- **`ResultToOriginalSender`**: every answer goes to the gateway, and over the response channel, of the request that was accepted under that id. A duplicate must not overwrite the first sender.
- **`QueryEventuallyAnswered`**: while the loop runs, an accepted query is eventually answered. With a one-slot result queue, results meet QueueFull; the application retries and every query is still answered. A mutant of the handle that drops the result on a full queue but returns Ok breaks it.
- Fairness: weak fairness on `HandleQueryResult` (a select branch), on `AppReceive`, and on `AppAnswer` for each id. The last two assume an application that reads its events and answers what it reads, retrying on QueueFull. This is the contract spec.md gives the worker's user (§7: backpressure is reported to the caller as QueueFull).
- A logs batch the handle accepted is lost when the logs client's queue is full (worker.rs:271); only an error is logged and the caller is never told. The model reaches this state, but no run checks it.
- Bounds: one id shared by two gateways reaches the duplicate, the reuse after an answer and impersonation. Three arrivals give an accept, a duplicate and a reuse. The liveness run uses two ids so that a second query can meet a full queue.

## Codec: `Codec.tla`

`Codec.tla` models `MessageCodec` (transport.rs:131-200) on one substream.

- The dialer's `write_request` writes an 8-byte big-endian length (`ToBE`, `u64::to_be_bytes`) and the payload; `WriteRequest(k)` writes any `k` more bytes of that frame, since `write_all` may be split by the stream.
- The listener's `read_request` is `ReadHeader` (`read_exact` of 8 bytes, `FromBE`) and `ReadBody` (`take(100 MiB).read_to_end`: it returns at the cap or at end of stream, and a length mismatch is only logged).
- `HandleRequest` is `handle_request_event` answering (or dropping the channel) and `write_response`'s one byte. `ReadResponse` is `read_response`, which returns `Ok(0)` whatever it read.
- `CloseWrite`, `WriteFails` and `Reset` are request_response and the connection, which are not in this repository.

| run | cfg | checks | bounds |
|---|---|---|---|
| codec | MCCodec.cfg | RoundTrip | byte values {0,1}, payloads of length 0..3, read cap 2, response cap 2 |

- **`RoundTrip`**: whatever the split of the writes and wherever a reset falls, a request the listener delivers carries the header's length and is the payload cut at the read cap. A payload no longer than the cap comes back unchanged. A mutant that reads without the cap breaks it.
- Bounds: a read cap of 2 under payloads of up to 3 bytes reaches the over-long request, the exact fit and the empty one. The real cap is 100 MiB; the behaviour at the cap does not depend on its size.
- `read_response` returns `Ok(0)` on a substream closed without a response byte. No run checks it: `handle_request_event` ignores outbound responses, so this hides only a log line.

## Startup: `Startup.tla`

`Startup.tla` models `P2PTransportBuilder::run` (transport.rs:424-507) up to the start of the eventloop. `Transport.tla`'s `Init` is the state `run()` leaves behind.

- `pc` is the step of `run()`. `events` is the swarm's event queue, each event reduced to its kind; the `NewListenAddr` and Kademlia events, which every wait loop drops, are left out.
- Actions: `Start` (build, the random relay choice, listen), `WaitForListening` and its one-second timeout `ListeningTimeout` (which adds and dials every boot node), `WaitForFirstConnection`, `StartRelay` (the relay dial or `Error::NoRelay`), and `WaitForIdentify`.
- The swarm: `DialOutcome(p)` finishes a dial (an established connection to a `Reachable` peer, a dial error otherwise), `IncomingConnection(p)` lets one of `Others` connect, and `Identify(c, kind)` emits identify `Sent`/`Received` on a connection.

| run | cfg | checks | bounds |
|---|---|---|---|
| startup | MCStartup.cfg | RunReturns | 2 boot nodes, 1 reachable; relay a random boot node; 1 inbound peer |
| startup_unreachable | MCStartupUnreachable.cfg | RunReturns (expected violation) | as startup with no boot node reachable |

- **`RunReturns`**: `run()` eventually returns Ok or an error. It holds while one boot node is reachable, even when the relay is the unreachable one: identify events from the first connection, or from an inbound peer, satisfy `wait_for_identify`. A mutant that resets `sent`/`received` on every event breaks it. It fails when no boot node is reachable (see Findings).
- Fairness: weak fairness on every step of `run()` (its caller awaits it), on every dial outcome (libp2p's transport timeout ends every dial) and on identify on every connection (identify runs on every connection it is offered).

## Boot node: `BootNode.tla`

`BootNode.tla` models `bootnode.rs`: `Start` is `main` up to the event loop (listen, the boot nodes other than itself added to Kademlia and dialled, bootstrap, which only warns), and `IdentifyReceived` is the loop's only handler. `kad` is the Kademlia routing table.

| run | cfg | checks | bounds |
|---|---|---|---|
| bootnode_dht | MCBootNodeDht.cfg | DhtOnlyReachable (expected violation) | itself and one more boot node, 2 remote peers, 3 addresses of which 1 is reachable |

- **`DhtOnlyReachable`**: Kademlia only holds reachable addresses, as spec.md §3 requires. It fails (see Findings).

## Findings

- `transport_conncap`: `handle_connection_established` (transport.rs:1228) closes `peer_conns.back()`. That connection stays in the deque until its `ConnectionClosed` is handled. If another connection is established before then, the code "closes" the already-closing connection again. The result is three established connections and no close pending. spec.md §3 says the excess is closed oldest first, keeping at most 2.
- `pubsub_replay`: `unsubscribe` (transport.rs:855) removes every sequence number of the topic. After a resubscribe, a message from the same source with a lower sequence number than one already accepted is accepted again. spec.md §8 says accepted ordered messages strictly increase per (topic, source).
- `startup_unreachable`: `wait_for_first_connection` (transport.rs:379) loops until some `ConnectionEstablished` and drops every `OutgoingConnectionError`. When every boot node dial fails, `run()` never returns. spec.md §7 says a failed initial dial is fatal and is propagated to the caller of `run()`.
- `bootnode_dht`: the boot node binary (bootnode.rs:93) adds every listen address of an identify `Received` to Kademlia. `handle_identify_event` in the transport filters them with `addr_is_reachable` (transport.rs:1062), and spec.md §3 says unreachable addresses must be filtered before they enter the DHT. The boot node serves private and loopback addresses to everyone.
- `worker_event_drop`: `on_query` stores the id in `query_senders` before `on_swarm_event` tries to queue the event (worker.rs:334). When the queue is full, the event is dropped. The query is never answered, and its id is refused as a duplicate for the life of the process.

## Not modelled

- `gossipsub_msg_id` and `timestamp_now`. The id's injectivity depends on the length of base58 peer ids, a property of libp2p's key encoding; the collision of a missing sequence number with 0 cannot happen, because gossipsub's strict validation of signed messages rejects a message without one. `timestamp_now` is a clock read.
- `dial_peer`'s 60-second timeout (transport.rs:656). When it fires, the eventloop's later answer finds the receiver dropped and only logs it, so nothing of the state depends on the race.
- The metrics gauges. `SUBSCRIBED_TOPICS` drifts: `subscribe` increments it for an already subscribed topic and `unsubscribe` decrements it for one that is not (transport.rs:843, 857).
- Request inbound/outbound failures, which the loop only logs.
- The handle's outbound channel capacities (`send_message`'s QueueFull, transport.rs:595): a rejected message never reaches the loop and is not counted as accepted, so no property of Transport depends on it.
- Swarm construction (`build_swarm`), the builder's setters, metrics and logging: configuration and output only.
- The crate re-exports and the contract-client example, a single RPC call.
