------------------------------- MODULE Worker -------------------------------
(***************************************************************************)
(* The worker role of src/transport/src/actors/worker.rs: WorkerBehaviour  *)
(* (query de-duplication, response routing, impersonation checks) driven   *)
(* by the WorkerTransport loop, which forwards every event the behaviour   *)
(* generates to the application over a bounded channel and hands the       *)
(* application's query results back to the behaviour.                      *)
(*                                                                         *)
(* Gateways send queries over the query protocol (with a response channel) *)
(* or as legacy envelopes (without one); the scheduler sends pongs and the *)
(* logs collector broadcasts LogsCollected; any peer may pretend to be     *)
(* either.  A behaviour event and the loop's try_send of it are one step:  *)
(* the event is returned by the same swarm poll the loop's select! awaits. *)
(* The base behaviour is not in this repository: block_peer is modelled    *)
(* from spec.md (a blocked peer's messages are no longer processed).       *)
(***************************************************************************)
EXTENDS Naturals, Sequences, FiniteSets, Functions, TLC

CONSTANTS
  Gateways,      \* peers that send queries
  QueryIds,      \* query ids the gateways use
  Scheduler,     \* WorkerConfig.scheduler_id
  LogsCollector, \* WorkerConfig.logs_collector_id
  Legacy,        \* a result sent as a legacy message (no response channel)
  NoQuery,       \* the query field of a Pong or LogsCollected event
  EventsCap,     \* events_queue_size
  ResultsCap,    \* query_results_queue_size
  MaxArrivals,   \* bound: query requests that reach the worker
  MaxControl,    \* bound: pong and LogsCollected messages
  MaxStray,      \* bound: results the application sends for ids it never got
  PingsCap,      \* pings_queue_size
  LogsCap,       \* logs_queue_size
  LogsClientCap, \* outbound queue of the logs ClientBehaviour
  MaxOutbound    \* bound: send_ping and send_logs calls of the application

Peers == Gateways \cup {Scheduler, LogsCollector}
Arrivals == 1..MaxArrivals   \* a query request; its response channel has its number

ASSUME {EventsCap, ResultsCap} \subseteq Nat \ {0}
ASSUME {MaxArrivals, MaxControl, MaxStray, MaxOutbound} \subseteq Nat
ASSUME {PingsCap, LogsCap, LogsClientCap} \subseteq Nat \ {0}

VARIABLES
  query_senders,           \* query id -> peer that sent it
  query_response_channels, \* query id -> response channel (an arrival)
  blocked,                 \* peers blocked by the base behaviour
  events,                  \* events_tx channel to the application
  results,                 \* query_results_rx channel from the handle
  running,                 \* the loop has not exited
  todo,                    \* application: query ids received, not yet answered
  arrivals, control, stray,\* inputs so far
  log,                     \* history: queries accepted and results routed
  pings, logs,             \* pings_rx and logs_rx: items queued by the handle
  logs_client,             \* QueryLogs requests the logs client still holds
  published,               \* pings handed to the base behaviour's publish_ping
  lookup,                  \* the base behaviour was asked to find_and_dial the collector
  outbound                 \* input: send_ping and send_logs calls so far

worker == <<query_senders, query_response_channels, blocked, running>>
chans  == <<events, results>>
env    == <<todo, arrivals, control, stray>>
outq   == <<pings, logs, logs_client, published, lookup, outbound>>
vars   == <<worker, chans, env, log, outq>>

Event == [kind : {"query", "pong", "logs"}, q : QueryIds \cup {NoQuery}]
LogEntry == [kind : {"accept"}, q : QueryIds, from : Peers, arrival : Arrivals]
       \cup [kind : {"answer"}, q : QueryIds, to : Peers, chan : Arrivals \cup {Legacy}]

Init ==
  /\ query_senders = <<>>
  /\ query_response_channels = <<>>
  /\ blocked = {}
  /\ events = <<>>
  /\ results = <<>>
  /\ running = TRUE
  /\ todo = {}
  /\ arrivals = 0 /\ control = 0 /\ stray = 0
  /\ log = <<>>
  /\ pings = 0 /\ logs = 0 /\ logs_client = 0
  /\ published = 0 /\ lookup = FALSE /\ outbound = 0

(***************************************************************************)
(* Behaviour events, each forwarded by on_swarm_event.                     *)
(***************************************************************************)
\* on_swarm_event: events_tx.try_send(ev); a full queue drops the event.
ForwardEvent(ev) ==
  events' = IF Len(events) < EventsCap THEN Append(events, ev) ELSE events

\* Mutant of OnQuery: no duplicate check.
OnQueryNoDedup(p, q, a, withChan, sigOk, hasId) ==
  IF sigOk /\ hasId
  THEN /\ query_senders' = (q :> p) @@ query_senders
       /\ query_response_channels' =
            IF withChan THEN (q :> a) @@ query_response_channels
            ELSE query_response_channels
       /\ log' = Append(log, [kind |-> "accept", q |-> q, from |-> p, arrival |-> a])
       /\ ForwardEvent([kind |-> "query", q |-> q])
  ELSE UNCHANGED <<query_senders, query_response_channels, log, events>>

\* Mutant of OnQuery: a duplicate is dropped but its sender is recorded.
OnQueryDuplicateOverwrites(p, q, a, withChan, sigOk, hasId) ==
  IF sigOk /\ hasId /\ q \notin DOMAIN query_senders
  THEN /\ query_senders' = (q :> p) @@ query_senders
       /\ query_response_channels' =
            IF withChan THEN (q :> a) @@ query_response_channels
            ELSE query_response_channels
       /\ log' = Append(log, [kind |-> "accept", q |-> q, from |-> p, arrival |-> a])
       /\ ForwardEvent([kind |-> "query", q |-> q])
  ELSE /\ query_senders' = IF sigOk /\ hasId THEN [query_senders EXCEPT ![q] = p]
                           ELSE query_senders
       /\ UNCHANGED <<query_response_channels, log, events>>

\* on_query for a request a of peer p with query id q: drop it if the
\* signature is bad, the id is missing or the id is already outstanding;
\* otherwise remember the sender and the response channel and emit it.
OnQuery(p, q, a, withChan, sigOk, hasId) ==
  IF sigOk /\ hasId /\ q \notin DOMAIN query_senders
  THEN /\ query_senders' = (q :> p) @@ query_senders
       /\ query_response_channels' =
            IF withChan THEN (q :> a) @@ query_response_channels
            ELSE query_response_channels
       /\ log' = Append(log, [kind |-> "accept", q |-> q, from |-> p, arrival |-> a])
       /\ ForwardEvent([kind |-> "query", q |-> q])
  ELSE UNCHANGED <<query_senders, query_response_channels, log, events>>

\* A query request from a gateway: over QUERY_PROTOCOL (withChan) or as a
\* legacy envelope through the base behaviour.
QueryRequest(p, q, withChan) ==
  /\ running /\ arrivals < MaxArrivals /\ p \notin blocked
  /\ arrivals' = arrivals + 1
  /\ \E sigOk, hasId \in BOOLEAN : OnQuery(p, q, arrivals + 1, withChan, sigOk, hasId)
  /\ UNCHANGED <<blocked, results, running, todo, control, stray>>
  /\ UNCHANGED outq

\* on_pong_event: a pong from anyone but the scheduler blocks its sender.
Pong(p) ==
  /\ running /\ control < MaxControl /\ p \notin blocked
  /\ control' = control + 1
  /\ IF p # Scheduler
     THEN blocked' = blocked \cup {p} /\ UNCHANGED events
     ELSE ForwardEvent([kind |-> "pong", q |-> NoQuery]) /\ UNCHANGED blocked
  /\ UNCHANGED <<query_senders, query_response_channels, results, running,
                 todo, arrivals, stray, log>>
  /\ UNCHANGED outq

\* on_logs_collected: a broadcast from anyone but the logs collector blocks
\* its sender; otherwise an event when the map holds this worker's entry.
LogsCollected(p) ==
  /\ running /\ control < MaxControl /\ p \notin blocked
  /\ control' = control + 1
  /\ IF p # LogsCollector
     THEN blocked' = blocked \cup {p} /\ UNCHANGED events
     ELSE /\ UNCHANGED blocked
          /\ \E mine \in BOOLEAN :
               IF mine THEN ForwardEvent([kind |-> "logs", q |-> NoQuery])
               ELSE UNCHANGED events
  /\ UNCHANGED <<query_senders, query_response_channels, results, running,
                 todo, arrivals, stray, log>>
  /\ UNCHANGED outq

(***************************************************************************)
(* The application, through the event stream and WorkerTransportHandle.    *)
(***************************************************************************)
AppReceive ==
  /\ events # <<>>
  /\ events' = Tail(events)
  /\ todo' = IF Head(events).kind = "query" THEN todo \cup {Head(events).q} ELSE todo
  /\ UNCHANGED <<worker, results, arrivals, control, stray, log>>
  /\ UNCHANGED outq

\* Mutant of TrySendResult: a full channel drops the result but Ok is returned.
TrySendResultIgnoresFull(q, ok) ==
  /\ ok = TRUE
  /\ results' = IF Len(results) < ResultsCap THEN Append(results, q) ELSE results

\* send_query_result on the handle: try_send on the results channel; a full
\* channel returns QueueFull (ok = FALSE) and the result is not queued.
TrySendResult(q, ok) ==
  /\ ok = (Len(results) < ResultsCap)
  /\ results' = IF ok THEN Append(results, q) ELSE results

\* The application answers a query it read; on QueueFull it keeps the
\* query and tries again later.
AppAnswer(q) ==
  /\ q \in todo
  /\ \E ok \in BOOLEAN :
       /\ TrySendResult(q, ok)
       /\ todo' = IF ok THEN todo \ {q} ELSE todo
  /\ UNCHANGED <<worker, events, arrivals, control, stray, log>>
  /\ UNCHANGED outq

\* A result for an id the application never received (answered twice, or
\* made up): the behaviour must not route it to anyone new.
AppStrayResult(q) ==
  /\ stray < MaxStray
  /\ stray' = stray + 1
  /\ \E ok \in BOOLEAN : TrySendResult(q, ok)
  /\ UNCHANGED <<worker, events, todo, arrivals, control, log>>
  /\ UNCHANGED outq

(***************************************************************************)
(* The loop's own branches.                                                *)
(***************************************************************************)
Cancel ==
  /\ running
  /\ running' = FALSE
  /\ UNCHANGED <<query_senders, query_response_channels, blocked, chans, env, log>>
  /\ UNCHANGED outq

\* Mutant of SendQueryResult: the response channel is not removed.
SendQueryResultKeepsChannel(q) ==
  IF q \notin DOMAIN query_senders
  THEN UNCHANGED <<query_senders, query_response_channels, log>>
  ELSE /\ query_senders' = Restrict(query_senders, DOMAIN query_senders \ {q})
       /\ UNCHANGED query_response_channels
       /\ log' = Append(log, [kind |-> "answer", q |-> q, to |-> query_senders[q],
                              chan |-> IF q \in DOMAIN query_response_channels
                                       THEN query_response_channels[q] ELSE Legacy])

\* Mutant of SendQueryResult: a query without a response channel is
\* forgotten without the legacy message.
SendQueryResultNoLegacy(q) ==
  IF q \notin DOMAIN query_senders
  THEN UNCHANGED <<query_senders, query_response_channels, log>>
  ELSE /\ query_senders' = Restrict(query_senders, DOMAIN query_senders \ {q})
       /\ query_response_channels' =
            Restrict(query_response_channels, DOMAIN query_response_channels \ {q})
       /\ log' = IF q \in DOMAIN query_response_channels
                 THEN Append(log, [kind |-> "answer", q |-> q, to |-> query_senders[q],
                                   chan |-> query_response_channels[q]])
                 ELSE log

\* send_query_result in the behaviour: an unknown id is only logged; a
\* known one is forgotten and answered on its response channel, or as a
\* legacy message to its sender when there is none.
SendQueryResult(q) ==
  IF q \notin DOMAIN query_senders
  THEN UNCHANGED <<query_senders, query_response_channels, log>>
  ELSE /\ query_senders' = Restrict(query_senders, DOMAIN query_senders \ {q})
       /\ query_response_channels' =
            Restrict(query_response_channels, DOMAIN query_response_channels \ {q})
       /\ log' = Append(log, [kind |-> "answer", q |-> q, to |-> query_senders[q],
                              chan |-> IF q \in DOMAIN query_response_channels
                                       THEN query_response_channels[q] ELSE Legacy])

\* query_results_rx branch
HandleQueryResult ==
  /\ running /\ results # <<>>
  /\ results' = Tail(results)
  /\ SendQueryResult(Head(results))
  /\ UNCHANGED <<blocked, running, events, env>>
  /\ UNCHANGED outq

(***************************************************************************)
(* Pings and query logs.  The handle's send_ping and send_logs try_send on *)
(* bounded channels (QueueFull, or Closed once the loop is gone, goes back *)
(* to the caller); the loop hands a ping to the base behaviour's           *)
(* publish_ping and a batch to the logs client's try_send_request, whose   *)
(* failure is only logged.  The logs client (not in this repository) is    *)
(* modelled from spec.md 4.5: a bounded outbound queue whose requests end  *)
(* in a Response or a Timeout, and PeerUnknown while the collector has no  *)
(* address.  Contents are abstracted, so channels are counts.              *)
(***************************************************************************)
\* WorkerTransportHandle::send_ping / send_logs
AppSendPing ==
  /\ outbound < MaxOutbound
  /\ outbound' = outbound + 1
  /\ pings' = IF running /\ pings < PingsCap THEN pings + 1 ELSE pings
  /\ UNCHANGED <<worker, chans, env, log, logs, logs_client, published, lookup>>

AppSendLogs ==
  /\ outbound < MaxOutbound
  /\ outbound' = outbound + 1
  /\ logs' = IF running /\ logs < LogsCap THEN logs + 1 ELSE logs
  /\ UNCHANGED <<worker, chans, env, log, pings, logs_client, published, lookup>>

\* pings_rx branch: WorkerBehaviour::send_ping, base.publish_ping
HandlePing ==
  /\ running /\ pings > 0
  /\ pings' = pings - 1
  /\ published' = published + 1
  /\ UNCHANGED <<worker, chans, env, log, logs, logs_client, lookup, outbound>>

\* WorkerBehaviour::send_logs: try_send_request to the logs collector; a
\* full outbound queue is logged and the batch is lost.
SendLogs ==
  logs_client' = IF logs_client < LogsClientCap THEN logs_client + 1 ELSE logs_client

\* logs_rx branch
HandleLogs ==
  /\ running /\ logs > 0
  /\ logs' = logs - 1
  /\ SendLogs
  /\ UNCHANGED <<worker, chans, env, log, pings, published, lookup, outbound>>

\* on_logs_event for an event of the logs client: a Response (an ack) or a
\* Timeout ends the request and is only logged; PeerUnknown makes the base
\* behaviour find_and_dial the collector, and the request stays queued.
OnLogsEvent(ev) ==
  /\ running /\ logs_client > 0
  /\ IF ev = "peer_unknown"
     THEN lookup' = TRUE /\ UNCHANGED logs_client
     ELSE logs_client' = logs_client - 1 /\ UNCHANGED lookup
  /\ UNCHANGED <<worker, chans, env, log, pings, logs, published, outbound>>

Next ==
  \/ \E p \in Gateways, q \in QueryIds, withChan \in BOOLEAN : QueryRequest(p, q, withChan)
  \/ \E p \in Peers : Pong(p)
  \/ \E p \in Peers : LogsCollected(p)
  \/ AppReceive
  \/ \E q \in QueryIds : AppAnswer(q)
  \/ \E q \in QueryIds : AppStrayResult(q)
  \/ Cancel
  \/ HandleQueryResult
  \/ AppSendPing \/ AppSendLogs \/ HandlePing \/ HandleLogs
  \/ \E ev \in {"response", "peer_unknown", "timeout"} : OnLogsEvent(ev)

(***************************************************************************)
(* Fairness.  The loop's select! handles a queued result eventually.  The  *)
(* application is assumed to read its event stream and to answer every     *)
(* query it reads: the liveness property is about the worker given that.  *)
(***************************************************************************)
Fairness ==
  /\ WF_vars(HandleQueryResult)
  /\ WF_vars(AppReceive)
  /\ \A q \in QueryIds : WF_vars(AppAnswer(q))

Spec == Init /\ [][Next]_vars /\ Fairness

(***************************************************************************)
(* Properties.                                                             *)
(***************************************************************************)
TypeOK ==
  /\ DOMAIN query_senders \subseteq QueryIds /\ Range(query_senders) \subseteq Peers
  /\ DOMAIN query_response_channels \subseteq DOMAIN query_senders
  /\ Range(query_response_channels) \subseteq Arrivals
  /\ blocked \subseteq Peers
  /\ events \in Seq(Event) /\ Len(events) <= EventsCap
  /\ results \in Seq(QueryIds) /\ Len(results) <= ResultsCap
  /\ running \in BOOLEAN /\ todo \subseteq QueryIds
  /\ log \in Seq(LogEntry)
  /\ pings \in 0..PingsCap /\ logs \in 0..LogsCap /\ logs_client \in 0..LogsClientCap

\* The accept of query id q that a log position k is answered against:
\* the last accept of q before k.
LastAccept(q, k) ==
  LET acc == {i \in 1..(k - 1) : log[i].kind = "accept" /\ log[i].q = q}
  IN IF acc = {} THEN 0 ELSE CHOOSE i \in acc : \A j \in acc : j <= i

\* A query id is handed to the application again only after a result for
\* its previous acceptance has been routed: on_query's duplicate check and
\* send_query_result's removal keep each id outstanding at most once.
DedupWhileOutstanding ==
  \A j \in DOMAIN log :
    (log[j].kind = "accept" /\ LastAccept(log[j].q, j) # 0) =>
      \E k \in LastAccept(log[j].q, j)..(j - 1) :
        log[k].kind = "answer" /\ log[k].q = log[j].q

\* Every result goes to the gateway whose request for that id was accepted,
\* on that request's own response channel or, for a legacy request, as a
\* message to its sender: never to a peer that reused the id meanwhile and
\* never on the channel of a dropped duplicate.
ResultToOriginalSender ==
  \A k \in DOMAIN log :
    log[k].kind = "answer" =>
      LET i == LastAccept(log[k].q, k) IN
        /\ i # 0
        /\ log[k].to = log[i].from
        /\ log[k].chan \in {log[i].arrival, Legacy}

\* Arrival a was accepted / has had its result routed.
Accepted(a) == \E i \in DOMAIN log : log[i].kind = "accept" /\ log[i].arrival = a
Answered(a) ==
  \E k \in DOMAIN log : log[k].kind = "answer" /\ LastAccept(log[k].q, k) # 0
                        /\ log[LastAccept(log[k].q, k)].arrival = a

\* Every query the worker accepted is eventually answered to its gateway,
\* as long as the loop runs and the application answers what it reads,
\* retrying on QueueFull: the handle must report every result it could not
\* queue, or the query stays outstanding and its id refused for good.
\* on_swarm_event drops the event when the events queue is full, but
\* on_query has already stored the id: the application never sees it, it
\* is never answered, and its id is refused as a duplicate from then on.
QueryEventuallyAnswered ==
  \A a \in Arrivals : (Accepted(a) /\ running) ~> (Answered(a) \/ ~running)

=============================================================================
