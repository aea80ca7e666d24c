----------------------------- MODULE MCTransport -----------------------------
(***************************************************************************)
(* Model-checking instances of Transport.                                  *)
(***************************************************************************)
EXTENDS Transport, TLC

CONSTANTS p1, p2, w1, w2, m1, m2

\* every caller dials p2, and m1 goes to p2; p1 is the boot node when
\* there is one
MCDialTo == [w \in Waiters |-> p2]
MCMsgTo  == [m \in Msgs |-> IF m = m1 THEN p2 ELSE Broadcast]

\* as MCMsgTo, with m2 carrying neither a peer nor a topic
MCMsgToNoDest == [m \in Msgs |-> IF m = m1 THEN p2 ELSE NoDest]

=============================================================================
