-------------------------- MODULE TransportService --------------------------
(***************************************************************************)
(* What the generic transport promises its callers, stated without the    *)
(* DHT, the swarm or the eventloop's maps.                                 *)
(*                                                                         *)
(*  - every dial_peer call handed to the loop is answered once with a      *)
(*    bool and the answer never changes;                                   *)
(*  - every message handed to the loop meets exactly one fate: sent once   *)
(*    over request/response, published on gossip, or dropped;              *)
(*  - while the loop keeps running, every such call is eventually          *)
(*    answered and every such message eventually meets its fate.           *)
(*                                                                         *)
(* The loop may stop (cancellation, failed bootstrap); after that nothing *)
(* more is answered.  Transport.tla is shown to implement this module.    *)
(***************************************************************************)
CONSTANTS
  Waiters,      \* dial result senders, one per dial_peer call
  Msgs,         \* outbound messages, one per send call
  NoResult      \* a waiter that has not been answered yet

VARIABLES issued, result, submitted, fate, running

vars == <<issued, result, submitted, fate, running>>

Fates == {"sent", "published", "dropped"}

Init ==
  /\ issued = {}
  /\ result = [w \in Waiters |-> NoResult]
  /\ submitted = {}
  /\ fate = [m \in Msgs |-> "none"]
  /\ running = TRUE

Issue(w) ==
  /\ running /\ w \notin issued
  /\ issued' = issued \cup {w}
  /\ UNCHANGED <<result, submitted, fate, running>>

\* One step of the loop may answer several waiters and settle several
\* messages; an answer or a fate, once given, never changes.
Answer ==
  /\ running
  /\ result' \in [Waiters -> BOOLEAN \cup {NoResult}]
  /\ fate' \in [Msgs -> Fates \cup {"none"}]
  /\ <<result', fate'>> # <<result, fate>>
  /\ \A w \in Waiters :
       result'[w] # result[w] => w \in issued /\ result[w] = NoResult
  /\ \A m \in Msgs :
       fate'[m] # fate[m] => m \in submitted /\ fate[m] = "none" /\ fate'[m] # "none"
  /\ UNCHANGED <<issued, submitted, running>>

\* The single answers, named for fairness.
Resolve(w, b) ==
  /\ running /\ w \in issued /\ result[w] = NoResult
  /\ result' = [result EXCEPT ![w] = b]
  /\ UNCHANGED <<issued, submitted, fate, running>>

Submit(m) ==
  /\ running /\ m \notin submitted
  /\ submitted' = submitted \cup {m}
  /\ UNCHANGED <<issued, result, fate, running>>

Settle(m, f) ==
  /\ running /\ m \in submitted /\ fate[m] = "none"
  /\ fate' = [fate EXCEPT ![m] = f]
  /\ UNCHANGED <<issued, result, submitted, running>>

Stop ==
  /\ running
  /\ running' = FALSE
  /\ UNCHANGED <<issued, result, submitted, fate>>

Next ==
  \/ \E w \in Waiters : Issue(w)
  \/ \E m \in Msgs : Submit(m)
  \/ Answer
  \/ Stop

Spec ==
  /\ Init /\ [][Next]_vars
  /\ \A w \in Waiters : WF_vars(\E b \in BOOLEAN : Resolve(w, b))
  /\ \A m \in Msgs : WF_vars(\E f \in Fates : Settle(m, f))

=============================================================================
