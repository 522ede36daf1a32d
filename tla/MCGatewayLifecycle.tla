------------------------- MODULE MCGatewayLifecycle -------------------------
(* Instances of GatewayLifecycle for TLC, and the promise it implements. *)
EXTENDS GatewayLifecycle, TLC

Symm == Permutations(Threads) \cup Permutations(Requests) \cup Permutations(Names)

Promise == INSTANCE GatewayPromise WITH
    Gateways <- GatewayId,
    status <- [g \in GatewayId |-> gateway[g].status],
    served <- {g \in LiveGateways : gateway[g].name \in vm}

\* Bound of the run two_gateways: requests race as long as there is one gateway and
\* no fault; two gateways, or a fault, are explored with one request at a time.
InFlight == {r \in Requests : request[r].op # "idle"}
RacesBeforeFaults == (faults = 0 /\ created < 2) \/ Cardinality(InFlight) < 2

\* Jobs, threads, sweeps, crashes and locks together do what GatewayPromise says:
\* a gateway goes through its statuses in order, is READY only with a VM, comes
\* back from DELETING only when the deletion failed, and nothing is under way for
\* ever (provision_gateway, execute_delete_gateway, resume_incomplete_*).
PromiseKept == Promise!Spec
=============================================================================
