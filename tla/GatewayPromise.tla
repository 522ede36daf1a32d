---------------------------- MODULE GatewayPromise ----------------------------
(***************************************************************************)
(* What the control plane promises an operator about a gateway, without     *)
(* jobs, threads, sessions or sweeps: the statuses it goes through, when it  *)
(* has a VM, and that neither provisioning nor deletion goes on for ever.   *)
(* GatewayLifecycle implements it where gateways are deleted when READY.    *)
(***************************************************************************)

CONSTANT Gateways

VARIABLES
    status,  \* the gateway's status, "absent" when there is none
    served   \* the gateways that have a VM

vars == <<status, served>>

Status == {"absent", "pending", "provisioning", "ready", "error", "deleting"}

Becomes(g, from, to) ==
    /\ status[g] \in from
    /\ status' = [status EXCEPT ![g] = to]

\* The VM of an earlier gateway of the same name may still be there.
Create(g) ==
    /\ Becomes(g, {"absent"}, "pending")
    /\ served' \in {served, served \cup {g}}

\* Also a gateway that failed a moment ago, unless a retry put it back first.
Provision(g) == Becomes(g, {"pending", "error"}, "provisioning") /\ UNCHANGED served

Launch(g) ==
    /\ status[g] = "provisioning"
    /\ served' = served \cup {g}
    /\ UNCHANGED status

\* Only a gateway that has its VM becomes READY.
Ready(g) ==
    /\ g \in served
    /\ Becomes(g, {"provisioning"}, "ready")
    /\ UNCHANGED served

Fail(g) == Becomes(g, {"provisioning"}, "error") /\ UNCHANGED served

\* A provisioning that did not end is started over.
Requeue(g) == Becomes(g, {"provisioning", "error"}, "pending") /\ UNCHANGED served

RequestDelete(g) == Becomes(g, {"ready"}, "deleting") /\ UNCHANGED served

Destroy(g) ==
    /\ status[g] = "deleting"
    /\ served' = served \ {g}
    /\ UNCHANGED status

\* Nothing but the end of the deletion, or its failure, takes it back.
Remove(g) == Becomes(g, {"deleting"}, "absent") /\ served' = served \ {g}
FailDelete(g) == Becomes(g, {"deleting"}, "error") /\ UNCHANGED served

Init == status = [g \in Gateways |-> "absent"] /\ served = {}

Next ==
    \E g \in Gateways :
        \/ Create(g) \/ Provision(g) \/ Launch(g) \/ Ready(g) \/ Fail(g) \/ Requeue(g)
        \/ RequestDelete(g) \/ Destroy(g) \/ Remove(g) \/ FailDelete(g)

IsBusy(g) == status[g] \in {"pending", "provisioning", "deleting"}

\* Whatever is under way comes to its end.
Spec == Init /\ [][Next]_vars /\ \A g \in Gateways : IsBusy(g) ~> ~IsBusy(g)
===============================================================================
