------------------------------ MODULE BootNode ------------------------------
(***************************************************************************)
(* The boot node binary (bootnode.rs): listen, register public addresses, *)
(* add every other boot node of the command line to Kademlia and dial it, *)
(* bootstrap Kademlia, then loop over swarm events and add the listen     *)
(* addresses of every identify Received to Kademlia.  The swarm is the    *)
(* environment; an address is reachable or not (addr_is_reachable in      *)
(* transport.rs), and the configured boot node addresses are reachable.   *)
(***************************************************************************)
EXTENDS Naturals, FiniteSets

CONSTANTS
    Self,             \* local_peer_id
    BootList,         \* peer ids of cli.boot_nodes, possibly including Self
    Remotes,          \* other peers that connect and identify
    Addrs,            \* listen addresses peers may report
    ReachableAddrs,   \* those addr_is_reachable accepts
    BootAddr,         \* the configured address of a boot node
    MaxIdentify       \* bound on identify events

Peers == {Self} \cup BootList \cup Remotes

ASSUME ReachableAddrs \subseteq Addrs /\ BootAddr \in ReachableAddrs

VARIABLES
    pc,            \* "start", "running", "error"
    kad,           \* Kademlia routing table: peer -> addresses
    dialled,       \* peers dialled at startup
    bootstrapped,  \* kademlia.bootstrap() returned Ok
    identifies     \* identify events handled so far

vars == <<pc, kad, dialled, bootstrapped, identifies>>

Init ==
    /\ pc = "start"
    /\ kad = [p \in Peers |-> {}]
    /\ dialled = {}
    /\ bootstrapped = FALSE
    /\ identifies = 0

(* cli.boot_nodes filtered by peer_id != local_peer_id *)
OtherBootNodes == BootList \ {Self}

(* main() up to the event loop: listen_on and every dial return errors by *)
(* `?`; bootstrap fails, with only a warning, when Kademlia knows no peer *)
Start ==
    /\ pc = "start"
    /\ \E ok \in BOOLEAN :
         IF ok
         THEN /\ pc' = "running"
              /\ kad' = [p \in Peers |->
                           IF p \in OtherBootNodes THEN kad[p] \cup {BootAddr}
                           ELSE kad[p]]
              /\ dialled' = OtherBootNodes
              /\ bootstrapped' = (\E p \in Peers : kad'[p] # {})
         ELSE /\ pc' = "error"
              /\ UNCHANGED <<kad, dialled, bootstrapped>>
    /\ UNCHANGED identifies

(* the event loop: identify Received from a peer adds every one of its   *)
(* listen addresses to Kademlia; other events are only logged            *)
IdentifyReceived(p, listenAddrs) ==
    /\ pc = "running" /\ p # Self
    /\ identifies < MaxIdentify
    /\ identifies' = identifies + 1
    /\ kad' = [kad EXCEPT ![p] = @ \cup listenAddrs]
    /\ UNCHANGED <<pc, dialled, bootstrapped>>

Next ==
    \/ Start
    \/ \E p \in Peers, a \in SUBSET Addrs : IdentifyReceived(p, a)

Spec == Init /\ [][Next]_vars

-----------------------------------------------------------------------------
(* Spec 3 (Multiaddress): unreachable addresses must be filtered before *)
(* they are inserted into the DHT, as handle_identify_event does with   *)
(* addr_is_reachable.                                                    *)
DhtOnlyReachable ==
    \A p \in Peers : kad[p] \subseteq ReachableAddrs
=============================================================================
