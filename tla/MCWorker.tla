------------------------------ MODULE MCWorker ------------------------------
EXTENDS Worker

CONSTANTS g1, g2, q1, q2, sched, lc

\* Gateways are interchangeable; used only where no liveness is checked.
GatewaySymmetry == Permutations(Gateways)

=============================================================================
