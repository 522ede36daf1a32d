----------------------------- MODULE AgentRouting -----------------------------
(***************************************************************************)
(* Routing inside a gateway's VM.  Traffic of exit clients arrives on       *)
(* tailscale0 and has to leave by wg0; the gateway's own replies, those of  *)
(* WireGuard among them, have to leave by eth0.  The agent at boot, its     *)
(* HTTP handlers, the routing daemon and the orchestrator's incus exec all  *)
(* write the same rules, routes and nft tables, without a lock, one command *)
(* at a time: an application is a list of commands, and each is a step.     *)
(*                                                                         *)
(* There are two lists.  The agent's own sends exit traffic to a table of   *)
(* its own, 200; the script deeporc-routing.sh makes wg0 the main default   *)
(* and sends the gateway's replies to a table of their own, wan.  OpenWrt   *)
(* images have the script, and a daemon that runs it every minute.  The     *)
(* agent in Python prefers the script where there is one; the one in Go     *)
(* (OpenWrt only) goes by its own list.                                     *)
(***************************************************************************)
EXTENDS Integers, Sequences, FiniteSets, SequencesExt

CONSTANTS
    Handlers,    \* threads of the agent that serve advertise requests
    MaxCalls,    \* bound: requests and script runs the orchestrator makes
    MaxActive,   \* bound: applications under way at a time
    MaxFaults    \* bound: reboots of the VM and kills of an application

ASSUME BoundsAssumption ==
    MaxCalls \in Nat /\ MaxActive \in Nat /\ MaxFaults \in Nat
ASSUME HandlersAssumption == Handlers \cap {"boot", "daemon", "exec"} = {}

Appliers == {"boot", "daemon", "exec"} \cup Handlers

\* Preferences of rules: own stands for 45 and 50, where the lists differ, and for
\* 35, 40, 48, 57 and 59, where they do not; exit_fwd is 49, and exit 58.
Prefs == {"own", "exit_fwd", "exit"}
Tables == {"main", "wan", "200"}

VARIABLES
    lang,        \* the agent is the one in go or the one in python
    script,      \* an OpenWrt image: deeporc-routing.sh and its daemon are installed
    wgUp, tsUp,  \* wg0 is up; tailscale is logged in
    advertised,  \* the preference AdvertiseExitNode, which survives a reboot
    rules,       \* for each preference, the tables of its rules in the order they match
    routes,      \* wan: its default is eth0; main, 200: their default is wg0
    nat,         \* the nft tables gw_nat and deeporc_exit are there
    run,         \* applications under way: [plan, at, wg: wg0 was up at the start]
    agent,       \* the agent's process
    flow,        \* what the orchestrator is doing with this gateway
    applied,     \* routing has been applied since the boot, see IsEffective
    calls, reboots, kills

vars == <<lang, script, wgUp, tsUp, advertised, rules, routes, nat, run, agent, flow,
          applied, calls, reboots, kills>>
vm == <<rules, routes, nat, advertised>>
bounds == <<calls, reboots, kills>>

Idle == [plan |-> "agent", at |-> 0, wg |-> FALSE]
IsActive(a) == run[a].at # 0

-----------------------------------------------------------------------------
(* The lists of commands *)

Cmd(op, arg) == [op |-> op, pref |-> "", table |-> arg]
\* _ensure_ip_rule: that rule is deleted, then added.
Replace(pref, table) == << [op |-> "del", pref |-> pref, table |-> table],
                           [op |-> "add", pref |-> pref, table |-> table] >>
\* _rule_add: every rule of that preference is deleted first.
Scrub(pref) == << [op |-> "scrub", pref |-> pref, table |-> ""] >>
ScrubAdd(pref, table) == Scrub(pref) \o << [op |-> "add", pref |-> pref, table |-> table] >>

\* _ensure_backhaul_policy_routing
PolicyRouting == Replace("own", "main") \o Replace("exit", "200") \o << Cmd("route", "200") >>

\* Mutant: the table is deleted and only the chain is checked afterwards.
ExitViaWgBackhaulDeleted == << Cmd("nat-", "") >>

\* _ensure_exit_via_wg_backhaul: the nft tables are deleted and made anew.
ExitViaWgBackhaul == << Cmd("nat-", ""), Cmd("nat+", "") >>

\* The agent's own list: _wg_gateway_ip raises before anything is done.
AgentPlan == << Cmd("need", "wg0") >> \o PolicyRouting \o ExitViaWgBackhaul

\* deeporc-routing.sh: _cleanup_stale, ...
CleanupStale == Scrub("exit") \o << Cmd("flush", "200") >>

\* Mutant: the main default is left as it is.
ScriptTablesWanOnly == << Cmd("route", "wan") >>

\* ... _apply_wan_table and _apply_main_table, ...
ScriptTables == << Cmd("route", "wan"), Cmd("route", "main") >>

\* Mutant: the rules are added without those of the other list going first.
ScriptRulesReplace == Replace("own", "wan") \o Replace("exit_fwd", "main")

\* ... _apply_policy_rules ...
ScriptRules == ScrubAdd("own", "wan") \o ScrubAdd("exit_fwd", "main")

\* ... and _apply_nft; _apply_tailscale sets what the login has set.
ScriptPlan == CleanupStale \o ScriptTables \o ScriptRules
              \o << Cmd("nat-", ""), Cmd("nat+", "") >>

\* advertise_exit_node: _cleanup_stale_peer_routing flushes table 100, which is the
\* script's wan table.
Advertising == << Cmd("flush", "wan"), Cmd("set", "exit") >>

\* The agent in Go reads the address of wg0 from its configuration when there is no
\* wg0, and goes on.
GoPlan == << Cmd("read", "wg0") >> \o Tail(AgentPlan)

\* What each kind of application does.  The agent in Go does not clean up before it
\* advertises.
Plans == [agent            |-> AgentPlan,
          agent_go         |-> GoPlan,
          script           |-> ScriptPlan,
          advertise_agent  |-> Advertising \o AgentPlan,
          advertise_script |-> Advertising \o ScriptPlan,
          advertise_go     |-> Tail(Advertising) \o Tail(AgentPlan)]

\* ensure_exit_node_forwarding; the agent in Go does not look for the script.
ForwardingPlan == IF lang = "go" THEN "agent_go" ELSE IF script THEN "script" ELSE "agent"
AdvertisePlan == IF lang = "go" THEN "advertise_go"
                 ELSE IF script THEN "advertise_script" ELSE "advertise_agent"

-----------------------------------------------------------------------------
(* One command *)

Command(a) == Plans[run[a].plan][run[a].at]
Op(a) == Command(a).op
Pref(a) == Command(a).pref
Table(a) == Command(a).table

\* The kernel refuses a rule that exists and a route by a link that is not there.
IsRefused(a) ==
    \/ Op(a) = "add" /\ Contains(rules[Pref(a)], Table(a))
    \/ Op(a) = "route" /\ Table(a) = "200" /\ ~wgUp
    \/ Op(a) = "need" /\ ~wgUp
    \/ Op(a) = "set" /\ ~tsUp
\* _run raises and the script has set -e; ipRule and runOK of the agent in Go go on.
IsFatal(a) == Op(a) \in {"need", "set"} \/ lang = "python" \/ a \in {"daemon", "exec"}

\* ip rule del: the first rule that matches goes.
Without(list, t) ==
    IF Contains(list, t) THEN RemoveAt(list, CHOOSE i \in 1..Len(list) : list[i] = t) ELSE list
RulesAfter(a) ==
    CASE Op(a) = "del" -> [rules EXCEPT ![Pref(a)] = Without(@, Table(a))]
      [] Op(a) = "scrub" -> [rules EXCEPT ![Pref(a)] = <<>>]
      [] Op(a) = "add" /\ ~IsRefused(a) -> [rules EXCEPT ![Pref(a)] = Append(@, Table(a))]
      [] OTHER -> rules
\* _apply_main_table returns early when there is no wg0.
RoutesAfter(a) ==
    CASE Op(a) = "route" /\ (Table(a) = "wan" \/ wgUp) -> routes \cup {Table(a)}
      [] Op(a) = "flush" -> routes \ {Table(a)}
      [] OTHER -> routes

Effect(a) ==
    /\ rules' = RulesAfter(a)
    /\ routes' = RoutesAfter(a)
    /\ nat' = ((nat \/ Op(a) = "nat+") /\ Op(a) # "nat-")
    /\ advertised' = (advertised \/ (Op(a) = "set" /\ tsUp))

-----------------------------------------------------------------------------
(* Applications *)

Start(a, plan) ==
    /\ Cardinality({b \in Appliers : IsActive(b)}) < MaxActive
    /\ run' = [run EXCEPT ![a] = [plan |-> plan, at |-> 1, wg |-> wgUp]]

\* An application that ends, well or not, answers whoever waits for it.
Answer(a, result) ==
    /\ agent' = IF a = "boot" THEN "serving" ELSE agent
    /\ flow' = IF a \in Handlers /\ flow = "advertising" THEN result ELSE flow

\* a had wg0 from its start, as has every other under way; and it was the script, or
\* the script has not been there before: its rule exit_fwd comes before the agent's.
IsEffective(a) ==
    /\ \A b \in Appliers : IsActive(b) => run[b].wg
    /\ run[a].plan \in {"script", "advertise_script"} \/ rules["exit_fwd"] = <<>>

\* One command of an application.
Step(a) ==
    /\ IsActive(a)
    /\ IsRefused(a) => ~IsFatal(a)
    /\ Effect(a)
    /\ IF run[a].at < Len(Plans[run[a].plan])
       THEN /\ run' = [run EXCEPT ![a].at = @ + 1]
            /\ UNCHANGED <<agent, flow, applied>>
       ELSE /\ run' = [run EXCEPT ![a] = Idle]
            /\ Answer(a, "ready")
            /\ applied' = (applied \/ IsEffective(a))
    /\ UNCHANGED <<lang, script, wgUp, tsUp, bounds>>

\* The rest is not done, and the agent answers 500: wget fails, and with it the
\* request through incus, so that the orchestrator falls back.
Abort(a) ==
    /\ IsActive(a)
    /\ IsRefused(a) /\ IsFatal(a)
    /\ run' = [run EXCEPT ![a] = Idle]
    /\ Answer(a, "fallback")
    /\ UNCHANGED <<lang, script, wgUp, tsUp, vm, applied, bounds>>

\* An application is killed half-way; the orchestrator sees the connection end.
Killed(a) ==
    /\ IsActive(a)
    /\ reboots + kills < MaxFaults
    /\ kills' = kills + 1
    /\ run' = [run EXCEPT ![a] = Idle]
    /\ Answer(a, "fallback")
    /\ UNCHANGED <<lang, script, wgUp, tsUp, vm, applied, calls, reboots>>

\* deeporc-routing-daemon.sh: every minute, and the hotplug script at an ifup.
Tick ==
    /\ script
    /\ ~IsActive("daemon")
    /\ Start("daemon", "script")
    /\ UNCHANGED <<lang, script, wgUp, tsUp, vm, agent, flow, applied, bounds>>

-----------------------------------------------------------------------------
(* The VM and the agent *)

\* wg-up.sh, once at boot: the link is there from then on.
WgUp ==
    /\ ~wgUp
    /\ wgUp' = TRUE
    /\ UNCHANGED <<lang, script, tsUp, vm, run, agent, flow, applied, bounds>>

\* tailscale-up: the login advertises the exit node too.
TsUp ==
    /\ ~tsUp
    /\ tsUp' = TRUE
    /\ advertised' = TRUE
    /\ UNCHANGED <<lang, script, wgUp, rules, routes, nat, run, agent, flow, applied, bounds>>

\* restore_exit_node_routing: only if the preference says so, and nothing is restored
\* when Tailscale is not there yet to be asked for it.  Its service starts after wg0
\* where there is no OpenWrt.
AgentStart ==
    /\ agent = "down"
    /\ ~script => wgUp
    /\ \/ advertised /\ Start("boot", ForwardingPlan) /\ agent' = "restoring"
       \/ ~(advertised /\ tsUp) /\ agent' = "serving" /\ UNCHANGED run
    /\ UNCHANGED <<lang, script, wgUp, tsUp, vm, flow, applied, bounds>>

\* The VM restarts: rules, routes, nft tables and processes are gone.
Boot ==
    /\ reboots + kills < MaxFaults
    /\ reboots' = reboots + 1
    /\ rules' = [p \in Prefs |-> <<>>] /\ routes' = {} /\ nat' = FALSE
    /\ wgUp' = FALSE /\ tsUp' = FALSE
    /\ run' = [a \in Appliers |-> Idle]
    /\ agent' = "down"
    /\ applied' = FALSE
    /\ UNCHANGED <<lang, script, advertised, calls, kills>>

\* By itself, under whatever the orchestrator is doing.
Reboot == Boot /\ flow' = IF flow = "advertising" THEN "fallback" ELSE flow

-----------------------------------------------------------------------------
(* The orchestrator *)

Call == calls < MaxCalls /\ calls' = calls + 1

\* The Python agent serves after its restore, the one in Go during it.
IsServing == agent = "serving" \/ (agent = "restoring" /\ lang = "go")

\* agent.advertise_exit_node, from _finalize_exit_node and, READY already, once the
\* backhaul peer is there.
Advertise(h) ==
    /\ flow \in {"finalize", "ready"}
    /\ Call
    /\ IsServing
    /\ ~IsActive(h)
    /\ Start(h, AdvertisePlan)
    /\ flow' = IF flow = "finalize" THEN "advertising" ELSE flow
    /\ UNCHANGED <<lang, script, wgUp, tsUp, vm, agent, applied, reboots, kills>>

\* The request times out, the handler works on; or nobody listens.
NoAnswer ==
    /\ flow = "advertising" \/ (flow = "finalize" /\ agent = "down")
    /\ flow' = "fallback"
    /\ UNCHANGED <<lang, script, wgUp, tsUp, vm, run, agent, applied, bounds>>

\* Mutant: the result of the fallback is not looked at.
FallbackUnchecked ==
    /\ flow = "fallback"
    /\ advertised' = (advertised \/ tsUp)
    /\ flow' = "ready"
    /\ UNCHANGED <<lang, script, wgUp, tsUp, rules, routes, nat, run, agent, applied, bounds>>

\* _advertise_exit_node_via_incus sets the preference without the routing.
Fallback ==
    /\ flow = "fallback"
    /\ advertised' = (advertised \/ tsUp)
    /\ flow' = IF tsUp THEN "ready" ELSE "error"
    /\ UNCHANGED <<lang, script, wgUp, tsUp, rules, routes, nat, run, agent, applied, bounds>>

\* run_exit_via_wg: exit-via-wg.sh hands over to the script.
RunExitViaWg ==
    /\ flow = "ready"
    /\ Call
    /\ script
    /\ ~IsActive("exec")
    /\ Start("exec", "script")
    /\ UNCHANGED <<lang, script, wgUp, tsUp, vm, agent, flow, applied, reboots, kills>>

\* restart_gateway: the VM restarts ...
Restart == flow = "ready" /\ flow' = "booting" /\ Boot

\* ... and apply_gateway_post_reboot runs the script once Tailscale is up, without
\* insisting on wg0.
PostReboot ==
    /\ flow = "booting"
    /\ script /\ tsUp
    /\ ~IsActive("exec")
    /\ Start("exec", "script")
    /\ flow' = "ready"
    /\ UNCHANGED <<lang, script, wgUp, tsUp, vm, agent, applied, bounds>>

\* wait_for_instance asks for ubus, which only OpenWrt has; or "tailscale did not
\* come online after reboot".
PostRebootFails ==
    /\ flow = "booting"
    /\ ~(script /\ tsUp)
    /\ flow' = "ready"
    /\ UNCHANGED <<lang, script, wgUp, tsUp, vm, run, agent, applied, bounds>>

-----------------------------------------------------------------------------

Init ==
    /\ lang \in {"go", "python"} /\ script \in BOOLEAN
    /\ lang = "go" => script
    /\ wgUp = FALSE /\ tsUp = FALSE
    /\ advertised = FALSE
    /\ rules = [p \in Prefs |-> <<>>] /\ routes = {} /\ nat = FALSE
    /\ run = [a \in Appliers |-> Idle]
    /\ agent = "down"
    /\ flow = "finalize"
    /\ applied = FALSE
    /\ calls = 0 /\ reboots = 0 /\ kills = 0

Next ==
    \/ \E a \in Appliers : Step(a) \/ Abort(a) \/ Killed(a)
    \/ Tick \/ WgUp \/ TsUp \/ AgentStart \/ Reboot
    \/ \E h \in Handlers : Advertise(h)
    \/ NoAnswer \/ Fallback \/ RunExitViaWg
    \/ Restart \/ PostReboot \/ PostRebootFails

Spec == Init /\ [][Next]_vars

\* Processes run; procd keeps the daemon going; wg0 comes up.
FairSpec ==
    /\ Spec
    /\ \A a \in Appliers : WF_vars(Step(a) \/ Abort(a))
    /\ WF_vars(Tick)
    /\ WF_vars(WgUp)

-----------------------------------------------------------------------------
(* Properties *)

MainDefault == IF "main" \in routes THEN "wg0" ELSE "eth0"
\* Where the kernel sends the packet of an exit client ...
ExitPath ==
    IF rules["exit_fwd"] = <<>> /\ rules["exit"] # <<>> /\ "200" \in routes
    THEN "wg0" ELSE MainDefault
\* ... and a reply from the gateway's own address: the first rule decides.
ReplyPath ==
    IF rules["own"] # <<>> /\ Head(rules["own"]) = "wan" /\ "wan" \in routes
    THEN "eth0" ELSE MainDefault

\* The shapes of the state; a preference never holds the same rule twice.
TypeOK ==
    /\ lang \in {"go", "python"} /\ script \in BOOLEAN
    /\ wgUp \in BOOLEAN /\ tsUp \in BOOLEAN /\ advertised \in BOOLEAN
    /\ rules \in [Prefs -> Seq(Tables)] /\ \A p \in Prefs : IsInjective(rules[p])
    /\ routes \subseteq Tables /\ nat \in BOOLEAN
    /\ run \in [Appliers -> [plan : DOMAIN Plans, at : Nat, wg : BOOLEAN]]
    /\ \A a \in Appliers : run[a].at <= Len(Plans[run[a].plan])
    /\ agent \in {"down", "restoring", "serving"}
    /\ flow \in {"finalize", "advertising", "fallback", "ready", "error", "booting"}
    /\ applied \in BOOLEAN
    /\ calls \in 0..MaxCalls /\ reboots \in Nat /\ kills \in Nat /\ reboots + kills <= MaxFaults

\* a has yet to add the route of exit traffic, or its rule.
IsRewriting(a) ==
    IsActive(a) /\ \E i \in run[a].at..Len(Plans[run[a].plan]) :
        Plans[run[a].plan][i] \in {Cmd("route", "main"), Replace("exit", "200")[2]}

\* Once routing has been applied, exit traffic leaves by eth0, the provider's own
\* address, only while an application that will end that is under way, never because
\* two of them took each other's rules apart (kills aside).
LeaksOnlyRewriting ==
    applied /\ kills = 0 /\ ExitPath = "eth0" => \E a \in Appliers : IsRewriting(a)

\* When nothing is under way and nothing was killed, exit traffic is routed and
\* masqueraded, and the gateway's replies have a rule: applications that refuse
\* each other's rules do not leave one out.
QuietIsWhole ==
    applied /\ kills = 0 /\ (\A a \in Appliers : ~IsActive(a)) =>
        ExitPath = "wg0" /\ nat /\ rules["own"] # <<>>

\* A gateway is READY only once it advertises itself as an exit node, whichever
\* way that was set, and no reboot loses it.
ReadyAdvertised == flow \in {"ready", "booting"} => advertised

\* Whatever was killed, rebooted or written over by the agent's list (which may
\* leave the gateway's replies on wg0), the daemon makes the routing whole again.
RoutingHeals == [](script => <>(ExitPath = "wg0" /\ ReplyPath = "eth0" /\ nat))

=============================================================================
