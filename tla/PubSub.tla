------------------------------- MODULE PubSub -------------------------------
(***************************************************************************)
(* The publish/subscribe side of the P2PTransport eventloop in             *)
(* src/transport/src/transport.rs: subscription commands from the handle,  *)
(* validation of gossipsub messages against the subscribed topics and the  *)
(* per-(topic, source) sequence numbers, inbound request/response          *)
(* messages, and the bounded inbound channel to the application.           *)
(*                                                                         *)
(* None of this touches the dial and lookup state of Transport.tla; the    *)
(* two parts share only the loop, and each select! branch is one step.     *)
(* Message contents are abstracted to (topic, source, sequence number);    *)
(* time is the wall clock read by timestamp_now, in the same units as the *)
(* sequence numbers publishers attach.                                     *)
(***************************************************************************)
EXTENDS Naturals, Sequences, FiniteSets, Functions, TLC

CONSTANTS
  Topics,        \* topic strings (their Sha256 hashes are in bijection)
  Sources,       \* publishing peers
  Anonymous,     \* a gossip message without a source
  NoSeq,         \* a gossip message without a sequence number
  NoTopic,       \* an inbound request (it carries no topic)
  MaxSeq,        \* bound: sequence numbers and the clock stay in 0..MaxSeq
  InboundCap,    \* capacity of the inbound channel (1000 in run())
  MaxSubCmds,    \* bound: subscription commands sent by the handle
  MaxGossip,     \* bound: gossip messages delivered by gossipsub
  MaxRequests    \* bound: inbound requests delivered by request_response

ASSUME MaxSeq \in Nat /\ InboundCap \in Nat \ {0}
ASSUME {MaxSubCmds, MaxGossip, MaxRequests} \subseteq Nat

VARIABLES
  subscribed_topics,  \* topic -> allow_unordered, for subscribed topics
  sequence_numbers,   \* <<topic, source>> -> last accepted sequence number
  running,            \* the loop has not exited
  sub_q,              \* subscription_receiver (FIFO)
  inbound,            \* inbound_msg channel: [topic, src], oldest first
  closed,             \* the application dropped the inbound stream
  sink_error,         \* a handler returned Err("Inbound messages sink closed")
  responded,          \* inbound requests answered with the one-byte ack
  now,                \* wall clock (timestamp_now)
  cmds, gossip, requests, \* inputs so far
  epoch,              \* topic -> number of subscriptions made so far (history)
  accepted            \* history: gossip messages reported Accept, in order

loop  == <<subscribed_topics, sequence_numbers, running>>
chans == <<sub_q, inbound, closed>>
env   == <<now, cmds, gossip, requests>>
hist  == <<sink_error, responded, epoch, accepted>>
vars  == <<loop, chans, env, hist>>

SeqNos == 0..MaxSeq
Subscription == [topic : Topics, subscribed : BOOLEAN, allow_unordered : BOOLEAN]
Acceptance == [topic : Topics, src : Sources, seq : SeqNos \cup {NoSeq},
               epoch : Nat, ordered : BOOLEAN]

\* sequence_numbers.get(&key).copied().unwrap_or_default()
LastSeqNo(t, s) ==
  IF <<t, s>> \in DOMAIN sequence_numbers THEN sequence_numbers[<<t, s>>] ELSE 0

Init ==
  /\ subscribed_topics = <<>>
  /\ sequence_numbers = <<>>
  /\ running = TRUE
  /\ sub_q = <<>>
  /\ inbound = <<>>
  /\ closed = FALSE
  /\ sink_error = FALSE
  /\ responded = 0
  /\ now = 0
  /\ cmds = 0 /\ gossip = 0 /\ requests = 0
  /\ epoch = [t \in Topics |-> 0]
  /\ accepted = <<>>

(***************************************************************************)
(* The handle and the application.                                         *)
(***************************************************************************)
\* toggle_subscription (and subscribe, which asks for ordered delivery):
\* try_send on the subscription channel.
ToggleSubscription(t, sub, unordered) ==
  /\ running /\ cmds < MaxSubCmds
  /\ cmds' = cmds + 1
  /\ sub_q' = Append(sub_q, [topic |-> t, subscribed |-> sub, allow_unordered |-> unordered])
  /\ UNCHANGED <<loop, inbound, closed, now, gossip, requests, hist>>

\* The application reads the inbound stream.
Receive ==
  /\ ~closed /\ inbound # <<>>
  /\ inbound' = Tail(inbound)
  /\ UNCHANGED <<loop, sub_q, closed, env, hist>>

\* The application drops the inbound stream; the channel's buffer goes with it.
DropStream ==
  /\ ~closed
  /\ closed' = TRUE /\ inbound' = <<>>
  /\ UNCHANGED <<loop, sub_q, env, hist>>

Tick ==
  /\ now < MaxSeq
  /\ now' = now + 1
  /\ UNCHANGED <<loop, chans, cmds, gossip, requests, hist>>

(***************************************************************************)
(* The loop.                                                               *)
(***************************************************************************)
Cancel ==
  /\ running
  /\ running' = FALSE
  /\ UNCHANGED <<subscribed_topics, sequence_numbers, chans, env, hist>>

\* subscribe: only a topic not yet subscribed is subscribed, with the flag
\* of this command (gossipsub.subscribe cannot fail with the default
\* subscription filter).
Subscribe(t, unordered) ==
  IF t \in DOMAIN subscribed_topics
  THEN UNCHANGED <<subscribed_topics, epoch>>
  ELSE /\ subscribed_topics' = (t :> unordered) @@ subscribed_topics
       /\ epoch' = [epoch EXCEPT ![t] = @ + 1]

\* Mutant of Unsubscribe: the sequence numbers of the topic are kept.
UnsubscribeKeepsSequenceNumbers(t) ==
  /\ subscribed_topics' = Restrict(subscribed_topics, DOMAIN subscribed_topics \ {t})
  /\ UNCHANGED <<sequence_numbers, epoch>>

\* unsubscribe: drop the topic and every sequence number stored for it.
Unsubscribe(t) ==
  /\ subscribed_topics' = Restrict(subscribed_topics, DOMAIN subscribed_topics \ {t})
  /\ sequence_numbers' = Restrict(sequence_numbers,
                                  {k \in DOMAIN sequence_numbers : k[1] # t})
  /\ UNCHANGED epoch

\* subscription_receiver branch: handle_subscription
HandleSubscription ==
  /\ running /\ sub_q # <<>>
  /\ sub_q' = Tail(sub_q)
  /\ LET cmd == Head(sub_q) IN
       IF cmd.subscribed
       THEN Subscribe(cmd.topic, cmd.allow_unordered) /\ UNCHANGED sequence_numbers
       ELSE Unsubscribe(cmd.topic)
  /\ UNCHANGED <<running, inbound, closed, env, sink_error, responded, accepted>>

\* Mutant of TrySendInbound: the capacity check is off by one.
TrySendInboundOverfill(msg, delivered) ==
  CASE closed ->
         /\ sink_error' = TRUE /\ UNCHANGED inbound /\ delivered = FALSE
    [] Len(inbound) > InboundCap ->
         /\ UNCHANGED <<sink_error, inbound>> /\ delivered = FALSE
    [] OTHER ->
         /\ inbound' = Append(inbound, msg) /\ UNCHANGED sink_error /\ delivered = TRUE

\* inbound_msg_sender.try_send(msg): Closed makes the handler return an
\* error, Full drops the message.  delivered: whether msg went in.
TrySendInbound(msg, delivered) ==
  CASE closed ->
         /\ sink_error' = TRUE /\ UNCHANGED inbound /\ delivered = FALSE
    [] Len(inbound) >= InboundCap ->
         /\ UNCHANGED <<sink_error, inbound>> /\ delivered = FALSE
    [] OTHER ->
         /\ inbound' = Append(inbound, msg) /\ UNCHANGED sink_error /\ delivered = TRUE

\* Mutant of ValidGossipsubMsg: a sequence number equal to the stored one passes.
ValidGossipsubMsgEqualSeq(src, t, seq) ==
  /\ src # Anonymous
  /\ t \in DOMAIN subscribed_topics
  /\ ~subscribed_topics[t] => seq # NoSeq /\ seq <= now /\ seq >= LastSeqNo(t, src)

\* validate_gossipsub_msg: the checks that decide Accept or Reject.
ValidGossipsubMsg(src, t, seq) ==
  /\ src # Anonymous
  /\ t \in DOMAIN subscribed_topics
  /\ ~subscribed_topics[t] =>
       /\ seq # NoSeq
       /\ seq <= now
       /\ seq > LastSeqNo(t, src)

\* handle_gossipsub_event for a Message event: validate (which stores the
\* new sequence number of an ordered topic), report Accept or Reject,
\* and on Accept try_send the message to the application.
GossipMessage(src, t, seq) ==
  /\ running /\ gossip < MaxGossip
  /\ gossip' = gossip + 1
  /\ IF ValidGossipsubMsg(src, t, seq)
     THEN LET ordered == ~subscribed_topics[t] IN
          /\ sequence_numbers' =
               IF ordered THEN (<<t, src>> :> seq) @@ sequence_numbers
               ELSE sequence_numbers
          /\ accepted' = Append(accepted, [topic |-> t, src |-> src, seq |-> seq,
                                           epoch |-> epoch[t], ordered |-> ordered])
          /\ \E delivered \in BOOLEAN : TrySendInbound([topic |-> t, src |-> src], delivered)
     ELSE UNCHANGED <<sequence_numbers, accepted, inbound, sink_error>>
  /\ UNCHANGED <<subscribed_topics, running, sub_q, closed, now, cmds, requests,
                 responded, epoch>>

\* handle_request_event for a Request: try_send to the application, and
\* only when that succeeded answer with the one-byte ack.
InboundRequest(src) ==
  /\ running /\ requests < MaxRequests
  /\ requests' = requests + 1
  /\ \E delivered \in BOOLEAN :
       /\ TrySendInbound([topic |-> NoTopic, src |-> src], delivered)
       /\ responded' = IF delivered THEN responded + 1 ELSE responded
  /\ UNCHANGED <<loop, sub_q, closed, now, cmds, gossip, epoch, accepted>>

Next ==
  \/ \E t \in Topics, sub, unordered \in BOOLEAN : ToggleSubscription(t, sub, unordered)
  \/ Receive
  \/ DropStream
  \/ Tick
  \/ Cancel
  \/ HandleSubscription
  \/ \E src \in Sources \cup {Anonymous}, t \in Topics, seq \in SeqNos \cup {NoSeq} :
       GossipMessage(src, t, seq)
  \/ \E src \in Sources : InboundRequest(src)

\* select! polls ready branches in random order and no handler blocks, so
\* a queued subscription command is eventually handled.
Spec == Init /\ [][Next]_vars /\ WF_vars(HandleSubscription)

(***************************************************************************)
(* Properties.                                                             *)
(***************************************************************************)
TypeOK ==
  /\ DOMAIN subscribed_topics \subseteq Topics
  /\ Range(subscribed_topics) \subseteq BOOLEAN
  /\ DOMAIN sequence_numbers \subseteq Topics \X Sources
  /\ Range(sequence_numbers) \subseteq SeqNos
  /\ running \in BOOLEAN /\ closed \in BOOLEAN /\ sink_error \in BOOLEAN
  /\ sub_q \in Seq(Subscription)
  /\ inbound \in Seq([topic : Topics \cup {NoTopic}, src : Sources])
  /\ Len(inbound) <= InboundCap
  /\ responded \in 0..MaxRequests /\ now \in SeqNos
  /\ epoch \in [Topics -> Nat]
  /\ accepted \in Seq(Acceptance)

\* Two accepted messages with the same topic and source, both under one
\* subscription of that topic, the later ordered: the later has a larger
\* sequence number.  validate_gossipsub_msg, the seq_no <= last_seq_no
\* check, the store of the new number and unsubscribe's clean-up must
\* together keep this whatever the interleaving of commands and messages.
OrderedWithinSubscription ==
  \A i, j \in DOMAIN accepted :
    LET a == accepted[i]  b == accepted[j] IN
      (i < j /\ a.topic = b.topic /\ a.src = b.src /\ a.epoch = b.epoch /\ b.ordered)
        => a.seq # NoSeq /\ a.seq < b.seq

\* sequence_numbers is never pruned by age (the FIXME at its declaration,
\* spec.md 9), but it only holds keys of topics currently subscribed for
\* ordered delivery: validate_gossipsub_msg stores a number only for an
\* ordered subscribed topic, and unsubscribe drops every key of the topic,
\* whatever the order of commands and messages.  The table is thus bounded
\* by the ordered subscriptions times the sources heard on them.
SequenceNumbersOfSubscribed ==
  \A k \in DOMAIN sequence_numbers :
    k[1] \in DOMAIN subscribed_topics /\ ~subscribed_topics[k[1]]

\* spec.md 8: every accepted ordered-topic message (T, S, n) has either no
\* prior accepted (T, S) message or the prior one had a sequence number
\* below n.  unsubscribe forgets the topic's sequence numbers, so this
\* promise is not kept across an unsubscribe and a new subscribe.
OrderedAccept ==
  \A j \in DOMAIN accepted :
    LET b     == accepted[j]
        prior == {i \in 1..(j - 1) : accepted[i].topic = b.topic /\ accepted[i].src = b.src}
    IN (b.ordered /\ prior # {}) =>
         LET a == accepted[CHOOSE i \in prior : \A k \in prior : k <= i]
         IN a.seq # NoSeq /\ a.seq < b.seq

=============================================================================
