------------------------- MODULE AgentRouting_proofs -------------------------
(***************************************************************************)
(* Proofs about AgentRouting, for every value of its constants:             *)
(*   - TypeCorrect: shapes, and applications stay within their lists;       *)
(*   - NoLeak: exit traffic leaves by eth0 only while an application that   *)
(*     ends that is under way;                                              *)
(*   - WholeWhenQuiet: applications that have refused each other's rules    *)
(*     leave none out;                                                      *)
(*   - AdvertisedWhenReady: READY means advertised.                         *)
(*                                                                         *)
(* An application is a list of commands of which each is a step, and any    *)
(* number of lists interleave.  Both lists take a rule away before they add *)
(* their own, so what an invariant can say is who owes what is missing:     *)
(* IInv says it of each rule, route and table in turn.  First come the      *)
(* lists, command by command; then what a command does, by its place; then  *)
(* the actions.                                                             *)
(***************************************************************************)
EXTENDS AgentRouting, TLAPS, SequenceTheorems

-----------------------------------------------------------------------------
(* The lists of commands, written out *)

Ops == {"need", "read", "del", "add", "scrub", "route", "flush", "set", "nat-", "nat+"}
Targets == Tables \cup {"", "wg0", "exit"}
Commands == [op : Ops, pref : Prefs \cup {""}, table : Targets]

Rule(op, pref, table) == [op |-> op, pref |-> pref, table |-> table]
Joined(s, t) == s \o t

\* The commands that the lists consist of are commands.
LEMMA CommandType ==
  \A op \in Ops, pref \in Prefs \cup {""}, table \in Targets :
      Cmd(op, table) \in Commands /\ Rule(op, pref, table) \in Commands
BY DEF Commands, Cmd, Rule

LEMMA OneCommand ==
  ASSUME NEW x \in Commands
  PROVE  <<x>> \in Seq(Commands) /\ Len(<<x>>) = 1 /\ <<x>>[1] = x
OBVIOUS

LEMMA TwoCommands ==
  ASSUME NEW x \in Commands, NEW y \in Commands
  PROVE  /\ <<x, y>> \in Seq(Commands) /\ Len(<<x, y>>) = 2
         /\ <<x, y>>[1] = x /\ <<x, y>>[2] = y
OBVIOUS

\* What is where in a list made of two.
LEMMA JoinedText ==
  ASSUME NEW s \in Seq(Commands), NEW t \in Seq(Commands)
  PROVE  /\ Joined(s, t) \in Seq(Commands)
         /\ Len(Joined(s, t)) = Len(s) + Len(t)
         /\ \A i \in 1..(Len(s) + Len(t)) :
               Joined(s, t)[i] = IF i <= Len(s) THEN s[i] ELSE t[i - Len(s)]
<1>1. /\ s \o t \in Seq(Commands)
      /\ Len(s \o t) = Len(s) + Len(t)
      /\ \A i \in 1..Len(s) + Len(t) :
            (s \o t)[i] = IF i <= Len(s) THEN s[i] ELSE t[i - Len(s)]
  BY ConcatProperties, Zenon
<1>. QED BY <1>1 DEF Joined

\* The smallest of them, command by command.
LEMMA JoinedPair ==
  ASSUME NEW x \in Commands, NEW y \in Commands
  PROVE  /\ Joined(<<x>>, <<y>>) \in Seq(Commands) /\ Len(Joined(<<x>>, <<y>>)) = 2
         /\ Joined(<<x>>, <<y>>)[1] = x /\ Joined(<<x>>, <<y>>)[2] = y
<1>. DEFINE s == <<x>>  t == <<y>>
<1>1. /\ s \in Seq(Commands) /\ Len(s) = 1 /\ s[1] = x
      /\ t \in Seq(Commands) /\ Len(t) = 1 /\ t[1] = y
  BY OneCommand
<1>. HIDE DEF s, t
<1>2. /\ Joined(s, t) \in Seq(Commands)
      /\ Len(Joined(s, t)) = Len(s) + Len(t)
      /\ \A i \in 1..(Len(s) + Len(t)) :
            Joined(s, t)[i] = IF i <= Len(s) THEN s[i] ELSE t[i - Len(s)]
  BY <1>1, JoinedText
<1>3. Len(Joined(s, t)) = 2 /\ Joined(s, t)[1] = x /\ Joined(s, t)[2] = y
  BY <1>1, <1>2
<1>. QED BY <1>2, <1>3 DEF s, t

LEMMA JoinedPairs ==
  ASSUME NEW s \in Seq(Commands), NEW t \in Seq(Commands), Len(s) = 2, Len(t) = 2
  PROVE  /\ Joined(s, t) \in Seq(Commands) /\ Len(Joined(s, t)) = 4
         /\ Joined(s, t)[1] = s[1] /\ Joined(s, t)[2] = s[2]
         /\ Joined(s, t)[3] = t[1] /\ Joined(s, t)[4] = t[2]
<1>1. /\ Joined(s, t) \in Seq(Commands)
      /\ Len(Joined(s, t)) = Len(s) + Len(t)
      /\ \A i \in 1..(Len(s) + Len(t)) :
            Joined(s, t)[i] = IF i <= Len(s) THEN s[i] ELSE t[i - Len(s)]
  BY JoinedText
<1>. QED BY <1>1

\* _ensure_backhaul_policy_routing
LEMMA PolicyText ==
  /\ PolicyRouting \in Seq(Commands) /\ Len(PolicyRouting) = 5
  /\ PolicyRouting[1] = Rule("del", "own", "main") /\ PolicyRouting[2] = Rule("add", "own", "main")
  /\ PolicyRouting[3] = Rule("del", "exit", "200") /\ PolicyRouting[4] = Rule("add", "exit", "200")
  /\ PolicyRouting[5] = Cmd("route", "200")
<1>. DEFINE own == Replace("own", "main")
            exit == Replace("exit", "200")
            route == << Cmd("route", "200") >>
            most == Joined(own, exit)
<1>1. PolicyRouting = Joined(most, route)
  BY DEF Joined, PolicyRouting
<1>2. /\ own \in Seq(Commands) /\ Len(own) = 2
      /\ own[1] = Rule("del", "own", "main") /\ own[2] = Rule("add", "own", "main")
  BY CommandType, TwoCommands DEF Replace, Rule, Ops, Targets, Prefs, Tables
<1>3. /\ exit \in Seq(Commands) /\ Len(exit) = 2
      /\ exit[1] = Rule("del", "exit", "200") /\ exit[2] = Rule("add", "exit", "200")
  BY CommandType, TwoCommands DEF Replace, Rule, Ops, Targets, Prefs, Tables
<1>4. route \in Seq(Commands) /\ Len(route) = 1 /\ route[1] = Cmd("route", "200")
  BY CommandType, OneCommand DEF Ops, Targets, Tables
<1>. HIDE DEF own, exit, route
<1>5. /\ most \in Seq(Commands) /\ Len(most) = 4
      /\ most[1] = own[1] /\ most[2] = own[2] /\ most[3] = exit[1] /\ most[4] = exit[2]
  BY <1>2, <1>3, JoinedPairs
<1>. HIDE DEF most
<1>6. /\ Joined(most, route) \in Seq(Commands)
      /\ Len(Joined(most, route)) = Len(most) + Len(route)
      /\ \A i \in 1..(Len(most) + Len(route)) :
            Joined(most, route)[i] = IF i <= Len(most) THEN most[i] ELSE route[i - Len(most)]
  BY <1>4, <1>5, JoinedText
<1>7. /\ PolicyRouting \in Seq(Commands) /\ Len(PolicyRouting) = 5
      /\ PolicyRouting[1] = most[1] /\ PolicyRouting[2] = most[2]
      /\ PolicyRouting[3] = most[3] /\ PolicyRouting[4] = most[4] /\ PolicyRouting[5] = route[1]
  BY <1>1, <1>4, <1>5, <1>6
<1>. QED BY <1>2, <1>3, <1>4, <1>5, <1>7

LEMMA NatText ==
  /\ ExitViaWgBackhaul \in Seq(Commands) /\ Len(ExitViaWgBackhaul) = 2
  /\ ExitViaWgBackhaul[1] = Cmd("nat-", "") /\ ExitViaWgBackhaul[2] = Cmd("nat+", "")
BY CommandType, TwoCommands DEF ExitViaWgBackhaul, Ops, Targets

LEMMA AdvertisingText ==
  /\ Advertising \in Seq(Commands) /\ Len(Advertising) = 2
  /\ Advertising[1] = Cmd("flush", "wan") /\ Advertising[2] = Cmd("set", "exit")
BY CommandType, TwoCommands DEF Advertising, Ops, Targets, Tables

\* The agent's own list.
LEMMA AgentText ==
  /\ AgentPlan \in Seq(Commands) /\ Len(AgentPlan) = 8
  /\ AgentPlan[1] = Cmd("need", "wg0")
  /\ AgentPlan[2] = Rule("del", "own", "main") /\ AgentPlan[3] = Rule("add", "own", "main")
  /\ AgentPlan[4] = Rule("del", "exit", "200") /\ AgentPlan[5] = Rule("add", "exit", "200")
  /\ AgentPlan[6] = Cmd("route", "200")
  /\ AgentPlan[7] = Cmd("nat-", "") /\ AgentPlan[8] = Cmd("nat+", "")
<1>. DEFINE need == << Cmd("need", "wg0") >>
            most == Joined(need, PolicyRouting)
<1>1. AgentPlan = Joined(most, ExitViaWgBackhaul)
  BY DEF Joined, AgentPlan
<1>2. need \in Seq(Commands) /\ Len(need) = 1 /\ need[1] = Cmd("need", "wg0")
  BY CommandType, OneCommand DEF Ops, Targets
<1>. HIDE DEF need
<1>3. /\ most \in Seq(Commands) /\ Len(most) = 6
      /\ \A i \in 1..6 : most[i] = IF i <= 1 THEN need[i] ELSE PolicyRouting[i - 1]
  <2>1. /\ Joined(need, PolicyRouting) \in Seq(Commands)
        /\ Len(Joined(need, PolicyRouting)) = Len(need) + Len(PolicyRouting)
        /\ \A i \in 1..(Len(need) + Len(PolicyRouting)) :
              Joined(need, PolicyRouting)[i] = IF i <= Len(need) THEN need[i] ELSE PolicyRouting[i - Len(need)]
    BY <1>2, PolicyText, JoinedText
  <2>2. Len(need) = 1 /\ Len(PolicyRouting) = 5
    BY <1>2, PolicyText
  <2>. QED BY <2>1, <2>2
<1>. HIDE DEF most
<1>4. /\ AgentPlan \in Seq(Commands) /\ Len(AgentPlan) = 8
      /\ \A i \in 1..8 : AgentPlan[i] = IF i <= 6 THEN most[i] ELSE ExitViaWgBackhaul[i - 6]
  <2>1. /\ Joined(most, ExitViaWgBackhaul) \in Seq(Commands)
        /\ Len(Joined(most, ExitViaWgBackhaul)) = Len(most) + Len(ExitViaWgBackhaul)
        /\ \A i \in 1..(Len(most) + Len(ExitViaWgBackhaul)) :
              Joined(most, ExitViaWgBackhaul)[i] = IF i <= Len(most) THEN most[i] ELSE ExitViaWgBackhaul[i - Len(most)]
    BY <1>3, NatText, JoinedText
  <2>2. Len(most) = 6 /\ Len(ExitViaWgBackhaul) = 2
    BY <1>3, NatText
  <2>. QED BY <1>1, <2>1, <2>2
<1>5. /\ AgentPlan[1] = most[1] /\ AgentPlan[2] = most[2] /\ AgentPlan[3] = most[3]
      /\ AgentPlan[4] = most[4] /\ AgentPlan[5] = most[5] /\ AgentPlan[6] = most[6]
      /\ AgentPlan[7] = ExitViaWgBackhaul[1] /\ AgentPlan[8] = ExitViaWgBackhaul[2]
  BY <1>4
<1>6. /\ most[1] = need[1] /\ most[2] = PolicyRouting[1] /\ most[3] = PolicyRouting[2]
      /\ most[4] = PolicyRouting[3] /\ most[5] = PolicyRouting[4] /\ most[6] = PolicyRouting[5]
  BY <1>3
<1>. QED BY <1>2, <1>4, <1>5, <1>6, PolicyText, NatText

\* deeporc-routing.sh
LEMMA ScriptText ==
  /\ ScriptPlan \in Seq(Commands) /\ Len(ScriptPlan) = 10
  /\ ScriptPlan[1] = Rule("scrub", "exit", "") /\ ScriptPlan[2] = Cmd("flush", "200")
  /\ ScriptPlan[3] = Cmd("route", "wan") /\ ScriptPlan[4] = Cmd("route", "main")
  /\ ScriptPlan[5] = Rule("scrub", "own", "") /\ ScriptPlan[6] = Rule("add", "own", "wan")
  /\ ScriptPlan[7] = Rule("scrub", "exit_fwd", "") /\ ScriptPlan[8] = Rule("add", "exit_fwd", "main")
  /\ ScriptPlan[9] = Cmd("nat-", "") /\ ScriptPlan[10] = Cmd("nat+", "")
<1>. DEFINE clean == CleanupStale
            tables == ScriptTables
            some == Joined(clean, tables)
            most == Joined(some, ScriptRules)
<1>1. ScriptPlan = Joined(most, ExitViaWgBackhaul)
  BY DEF Joined, ScriptPlan, ExitViaWgBackhaul
<1>2. /\ clean \in Seq(Commands) /\ Len(clean) = 2
      /\ clean[1] = Rule("scrub", "exit", "") /\ clean[2] = Cmd("flush", "200")
  <2>1. clean = Joined(<<Rule("scrub", "exit", "")>>, <<Cmd("flush", "200")>>)
    BY DEF CleanupStale, Scrub, Rule, Joined
  <2>2. Rule("scrub", "exit", "") \in Commands /\ Cmd("flush", "200") \in Commands
    BY CommandType DEF Ops, Targets, Prefs, Tables
  <2>. QED BY <2>1, <2>2, JoinedPair
<1>3. /\ tables \in Seq(Commands) /\ Len(tables) = 2
      /\ tables[1] = Cmd("route", "wan") /\ tables[2] = Cmd("route", "main")
  BY CommandType, TwoCommands DEF ScriptTables, Ops, Targets, Tables
<1>4. /\ ScriptRules \in Seq(Commands) /\ Len(ScriptRules) = 4
      /\ ScriptRules[1] = Rule("scrub", "own", "") /\ ScriptRules[2] = Rule("add", "own", "wan")
      /\ ScriptRules[3] = Rule("scrub", "exit_fwd", "")
      /\ ScriptRules[4] = Rule("add", "exit_fwd", "main")
  <2>. DEFINE own == ScrubAdd("own", "wan")
              fwd == ScrubAdd("exit_fwd", "main")
  <2>1. ScriptRules = Joined(own, fwd)
    BY DEF ScriptRules, Joined
  <2>2. /\ own = Joined(<<Rule("scrub", "own", "")>>, <<Rule("add", "own", "wan")>>)
        /\ fwd = Joined(<<Rule("scrub", "exit_fwd", "")>>, <<Rule("add", "exit_fwd", "main")>>)
    BY DEF ScrubAdd, Scrub, Rule, Joined
  <2>3. /\ Rule("scrub", "own", "") \in Commands /\ Rule("add", "own", "wan") \in Commands
        /\ Rule("scrub", "exit_fwd", "") \in Commands /\ Rule("add", "exit_fwd", "main") \in Commands
    BY CommandType DEF Ops, Targets, Prefs, Tables
  <2>. HIDE DEF own, fwd
  <2>4. /\ own \in Seq(Commands) /\ Len(own) = 2
        /\ own[1] = Rule("scrub", "own", "") /\ own[2] = Rule("add", "own", "wan")
    BY <2>2, <2>3, JoinedPair
  <2>5. /\ fwd \in Seq(Commands) /\ Len(fwd) = 2
        /\ fwd[1] = Rule("scrub", "exit_fwd", "") /\ fwd[2] = Rule("add", "exit_fwd", "main")
    BY <2>2, <2>3, JoinedPair
  <2>. QED BY <2>1, <2>4, <2>5, JoinedPairs
<1>. HIDE DEF clean, tables
<1>5. /\ some \in Seq(Commands) /\ Len(some) = 4
      /\ some[1] = clean[1] /\ some[2] = clean[2] /\ some[3] = tables[1] /\ some[4] = tables[2]
  BY <1>2, <1>3, JoinedPairs
<1>. HIDE DEF some
<1>6. /\ most \in Seq(Commands) /\ Len(most) = 8
      /\ \A i \in 1..8 : most[i] = IF i <= 4 THEN some[i] ELSE ScriptRules[i - 4]
  <2>1. /\ Joined(some, ScriptRules) \in Seq(Commands)
        /\ Len(Joined(some, ScriptRules)) = Len(some) + Len(ScriptRules)
        /\ \A i \in 1..(Len(some) + Len(ScriptRules)) :
              Joined(some, ScriptRules)[i] = IF i <= Len(some) THEN some[i] ELSE ScriptRules[i - Len(some)]
    BY <1>4, <1>5, JoinedText
  <2>2. Len(some) = 4 /\ Len(ScriptRules) = 4
    BY <1>4, <1>5
  <2>. QED BY <2>1, <2>2
<1>. HIDE DEF most
<1>7. /\ ScriptPlan \in Seq(Commands) /\ Len(ScriptPlan) = 10
      /\ \A i \in 1..10 : ScriptPlan[i] = IF i <= 8 THEN most[i] ELSE ExitViaWgBackhaul[i - 8]
  <2>1. /\ Joined(most, ExitViaWgBackhaul) \in Seq(Commands)
        /\ Len(Joined(most, ExitViaWgBackhaul)) = Len(most) + Len(ExitViaWgBackhaul)
        /\ \A i \in 1..(Len(most) + Len(ExitViaWgBackhaul)) :
              Joined(most, ExitViaWgBackhaul)[i] = IF i <= Len(most) THEN most[i] ELSE ExitViaWgBackhaul[i - Len(most)]
    BY <1>6, NatText, JoinedText
  <2>2. Len(most) = 8 /\ Len(ExitViaWgBackhaul) = 2
    BY <1>6, NatText
  <2>. QED BY <1>1, <2>1, <2>2
<1>8. /\ most[1] = some[1] /\ most[2] = some[2] /\ most[3] = some[3] /\ most[4] = some[4]
      /\ most[5] = ScriptRules[1] /\ most[6] = ScriptRules[2]
      /\ most[7] = ScriptRules[3] /\ most[8] = ScriptRules[4]
  BY <1>6
<1>9. /\ ScriptPlan[1] = most[1] /\ ScriptPlan[2] = most[2] /\ ScriptPlan[3] = most[3]
      /\ ScriptPlan[4] = most[4] /\ ScriptPlan[5] = most[5] /\ ScriptPlan[6] = most[6]
      /\ ScriptPlan[7] = most[7] /\ ScriptPlan[8] = most[8]
      /\ ScriptPlan[9] = ExitViaWgBackhaul[1] /\ ScriptPlan[10] = ExitViaWgBackhaul[2]
  BY <1>7
<1>. QED BY <1>2, <1>3, <1>4, <1>5, <1>7, <1>8, <1>9, NatText


\* The stage of an application: where it is in the agent's list or the script's,
\* 0 and -1 in the commands of advertise_exit_node that come before it.
Scripts == {"script", "advertise_script"}
Base == [agent |-> 0, agent_go |-> 0, script |-> 0, advertise_agent |-> 2,
         advertise_script |-> 2, advertise_go |-> 0]
LastStage(plan) == IF plan \in Scripts THEN 10 ELSE 8
StageCommand(plan, k) ==
    CASE k = -1 -> Cmd("flush", "wan")
      [] k = 0 \/ (k = 1 /\ plan = "advertise_go") -> Cmd("set", "exit")
      [] k = 1 /\ plan = "agent_go" -> Cmd("read", "wg0")
      [] OTHER -> IF plan \in Scripts THEN ScriptPlan[k] ELSE AgentPlan[k]

LEMMA AdvertisingBefore ==
  ASSUME NEW t \in Seq(Commands)
  PROVE  /\ Len(Advertising \o t) = 2 + Len(t)
         /\ (Advertising \o t)[1] = Cmd("flush", "wan") /\ (Advertising \o t)[2] = Cmd("set", "exit")
         /\ \A i \in 3..(2 + Len(t)) : (Advertising \o t)[i] = t[i - 2]
<1>1. Len(Advertising \o t) = Len(Joined(Advertising, t))
      /\ \A i \in 1..(2 + Len(t)) : (Advertising \o t)[i] = Joined(Advertising, t)[i]
  BY DEF Joined
<1>2. /\ Len(Joined(Advertising, t)) = Len(Advertising) + Len(t)
      /\ \A i \in 1..(Len(Advertising) + Len(t)) :
            Joined(Advertising, t)[i] = IF i <= Len(Advertising) THEN Advertising[i]
                                        ELSE t[i - Len(Advertising)]
  BY AdvertisingText, JoinedText
<1>3. /\ Len(Joined(Advertising, t)) = 2 + Len(t)
      /\ \A i \in 1..(2 + Len(t)) :
            Joined(Advertising, t)[i] = IF i <= 2 THEN Advertising[i] ELSE t[i - 2]
  BY <1>2, AdvertisingText
<1>4. Len(t) \in Nat
  OBVIOUS
<1>5. Joined(Advertising, t)[1] = Advertising[1] /\ Joined(Advertising, t)[2] = Advertising[2]
  BY <1>3, <1>4
<1>6. \A i \in 3..(2 + Len(t)) : Joined(Advertising, t)[i] = t[i - 2]
  BY <1>3, <1>4
<1>7. 1 \in 1..(2 + Len(t)) /\ 2 \in 1..(2 + Len(t)) /\ \A i \in 3..(2 + Len(t)) : i \in 1..(2 + Len(t))
  BY <1>4
<1>. QED BY <1>1, <1>3, <1>5, <1>6, <1>7, AdvertisingText

\* What the agent in Go has of that list.
LEMMA TailText ==
  /\ Tail(AgentPlan) \in Seq(Commands) /\ Len(Tail(AgentPlan)) = 7
  /\ \A i \in 1..7 : Tail(AgentPlan)[i] = AgentPlan[i + 1]
<1>. DEFINE t == Tail(AgentPlan)
<1>0. Len(AgentPlan) = 8
  BY AgentText
<1>1. AgentPlan # <<>>
  BY <1>0
<1>2. t \in Seq(Commands) /\ Len(t) = Len(AgentPlan) - 1 /\ \A i \in 1..Len(t) : t[i] = AgentPlan[i + 1]
  BY <1>1, AgentText, HeadTailProperties, Zenon
<1>. HIDE DEF t
<1>3. t \in Seq(Commands) /\ Len(t) = 7 /\ \A i \in 1..7 : t[i] = AgentPlan[i + 1]
  BY <1>0, <1>2
<1>. QED BY <1>3 DEF t

\* The lists of the agent in Go: another command takes the place of the check of wg0.
LEMMA GoText ==
  ASSUME NEW s \in Seq(Commands), Len(s) = 1
  PROVE  /\ Len(Joined(s, Tail(AgentPlan))) = 8 /\ Joined(s, Tail(AgentPlan))[1] = s[1]
         /\ \A i \in 2..8 : Joined(s, Tail(AgentPlan))[i] = AgentPlan[i]
<1>. DEFINE t == Tail(AgentPlan)
<1>3. t \in Seq(Commands) /\ Len(t) = 7 /\ \A i \in 1..7 : t[i] = AgentPlan[i + 1]
  BY TailText
<1>. HIDE DEF t
<1>4. /\ Len(Joined(s, t)) = Len(s) + Len(t)
      /\ \A i \in 1..(Len(s) + Len(t)) : Joined(s, t)[i] = IF i <= Len(s) THEN s[i] ELSE t[i - Len(s)]
  BY <1>3, JoinedText
<1>5. /\ Len(Joined(s, t)) = 8
      /\ \A i \in 1..8 : Joined(s, t)[i] = IF i <= 1 THEN s[i] ELSE t[i - 1]
  BY <1>3, <1>4
<1>6. Joined(s, t)[1] = s[1] /\ \A i \in 2..8 : Joined(s, t)[i] = t[i - 1]
  BY <1>5
<1>7. \A i \in 2..8 : i - 1 \in 1..7 /\ (i - 1) + 1 = i
  OBVIOUS
<1>. QED BY <1>3, <1>5, <1>6, <1>7 DEF t

\* The one it advertises with sets the preference first ...
LEMMA AdvertiseGoText ==
  /\ Len(Plans.advertise_go) = 8 /\ Plans.advertise_go[1] = Cmd("set", "exit")
  /\ \A i \in 2..8 : Plans.advertise_go[i] = AgentPlan[i]
<1>. DEFINE s == Tail(Advertising)
<1>1. Plans.advertise_go = Joined(s, Tail(AgentPlan))
  BY DEF Joined, Plans
<1>2. s \in Seq(Commands) /\ Len(s) = 1 /\ s[1] = Cmd("set", "exit")
  <2>1. Advertising # <<>>
    BY AdvertisingText
  <2>2. s \in Seq(Commands) /\ Len(s) = Len(Advertising) - 1 /\ \A i \in 1..Len(s) : s[i] = Advertising[i + 1]
    BY <2>1, AdvertisingText, HeadTailProperties, Zenon
  <2>3. Len(Advertising) = 2 /\ Advertising[2] = Cmd("set", "exit")
    BY AdvertisingText
  <2>. HIDE DEF s
  <2>. QED BY <2>2, <2>3
<1>. HIDE DEF s
<1>3. /\ Len(Joined(s, Tail(AgentPlan))) = 8 /\ Joined(s, Tail(AgentPlan))[1] = s[1]
      /\ \A i \in 2..8 : Joined(s, Tail(AgentPlan))[i] = AgentPlan[i]
  BY <1>2, GoText
<1>. QED BY <1>1, <1>2, <1>3

\* ... and the one it restores with goes on without wg0.
LEMMA RestoreGoText ==
  /\ Len(Plans.agent_go) = 8 /\ Plans.agent_go[1] = Cmd("read", "wg0")
  /\ \A i \in 2..8 : Plans.agent_go[i] = AgentPlan[i]
<1>. DEFINE s == << Cmd("read", "wg0") >>
<1>1. Plans.agent_go = Joined(s, Tail(AgentPlan))
  BY DEF Joined, Plans, GoPlan
<1>2. s \in Seq(Commands) /\ Len(s) = 1 /\ s[1] = Cmd("read", "wg0")
  BY CommandType, OneCommand DEF Ops, Targets
<1>. HIDE DEF s
<1>3. /\ Len(Joined(s, Tail(AgentPlan))) = 8 /\ Joined(s, Tail(AgentPlan))[1] = s[1]
      /\ \A i \in 2..8 : Joined(s, Tail(AgentPlan))[i] = AgentPlan[i]
  BY <1>2, GoText
<1>. QED BY <1>1, <1>2, <1>3

\* What every list has at every place.
LEMMA PlanText ==
  ASSUME NEW plan \in DOMAIN Plans
  PROVE  /\ Base[plan] \in {0, 2}
         /\ Len(Plans[plan]) = Base[plan] + LastStage(plan)
         /\ \A i \in 1..Len(Plans[plan]) : Plans[plan][i] = StageCommand(plan, i - Base[plan])
<1>0. plan \in {"agent", "agent_go", "script", "advertise_agent", "advertise_script", "advertise_go"}
  BY DEF Plans
<1>1. CASE plan = "agent"
  <2>1. Base[plan] = 0 /\ LastStage(plan) = 8
    BY <1>1 DEF Base, LastStage, Scripts
  <2>2. Plans[plan] = AgentPlan
    BY <1>1 DEF Plans
  <2>3. Len(Plans[plan]) = 8
    BY <2>2, AgentText
  <2>4. \A i \in 1..8 : Plans[plan][i] = StageCommand(plan, i)
    BY <1>1, <2>2 DEF StageCommand, Scripts
  <2>. QED BY <2>1, <2>3, <2>4
<1>2. CASE plan = "script"
  <2>1. Base[plan] = 0 /\ LastStage(plan) = 10
    BY <1>2 DEF Base, LastStage, Scripts
  <2>2. Plans[plan] = ScriptPlan
    BY <1>2 DEF Plans
  <2>3. Len(Plans[plan]) = 10
    BY <2>2, ScriptText
  <2>4. \A i \in 1..10 : Plans[plan][i] = StageCommand(plan, i)
    BY <1>2, <2>2 DEF StageCommand, Scripts
  <2>. QED BY <2>1, <2>3, <2>4
<1>3. CASE plan = "advertise_agent"
  <2>1. Base[plan] = 2 /\ LastStage(plan) = 8
    BY <1>3 DEF Base, LastStage, Scripts
  <2>a. Plans[plan] = Advertising \o AgentPlan
    BY <1>3 DEF Plans
  <2>b. AgentPlan \in Seq(Commands) /\ Len(AgentPlan) = 8
    BY AgentText
  <2>2. /\ Len(Plans[plan]) = 10
        /\ Plans[plan][1] = Cmd("flush", "wan") /\ Plans[plan][2] = Cmd("set", "exit")
        /\ \A i \in 3..10 : Plans[plan][i] = AgentPlan[i - 2]
    <3>1. /\ Len(Plans[plan]) = 2 + Len(AgentPlan)
          /\ Plans[plan][1] = Cmd("flush", "wan") /\ Plans[plan][2] = Cmd("set", "exit")
          /\ \A i \in 3..(2 + Len(AgentPlan)) : Plans[plan][i] = AgentPlan[i - 2]
      BY <2>a, <2>b, AdvertisingBefore, Zenon
    <3>2. Len(AgentPlan) = 8
      BY <2>b
    <3>. QED BY <3>1, <3>2
  <2>3. \A i \in 1..10 : Plans[plan][i] = StageCommand(plan, i - 2)
    BY <1>3, <2>2 DEF StageCommand, Scripts
  <2>. QED BY <2>1, <2>2, <2>3
<1>4. CASE plan = "advertise_script"
  <2>1. Base[plan] = 2 /\ LastStage(plan) = 10
    BY <1>4 DEF Base, LastStage, Scripts
  <2>a. Plans[plan] = Advertising \o ScriptPlan
    BY <1>4 DEF Plans
  <2>b. ScriptPlan \in Seq(Commands) /\ Len(ScriptPlan) = 10
    BY ScriptText
  <2>2. /\ Len(Plans[plan]) = 12
        /\ Plans[plan][1] = Cmd("flush", "wan") /\ Plans[plan][2] = Cmd("set", "exit")
        /\ \A i \in 3..12 : Plans[plan][i] = ScriptPlan[i - 2]
    <3>1. /\ Len(Plans[plan]) = 2 + Len(ScriptPlan)
          /\ Plans[plan][1] = Cmd("flush", "wan") /\ Plans[plan][2] = Cmd("set", "exit")
          /\ \A i \in 3..(2 + Len(ScriptPlan)) : Plans[plan][i] = ScriptPlan[i - 2]
      BY <2>a, <2>b, AdvertisingBefore, Zenon
    <3>2. Len(ScriptPlan) = 10
      BY <2>b
    <3>. QED BY <3>1, <3>2
  <2>3. \A i \in 1..12 : Plans[plan][i] = StageCommand(plan, i - 2)
    BY <1>4, <2>2 DEF StageCommand, Scripts
  <2>. QED BY <2>1, <2>2, <2>3
<1>5. CASE plan = "advertise_go"
  <2>1. Base[plan] = 0 /\ LastStage(plan) = 8
    BY <1>5 DEF Base, LastStage, Scripts
  <2>2. /\ Len(Plans[plan]) = 8 /\ Plans[plan][1] = Cmd("set", "exit")
        /\ \A i \in 2..8 : Plans[plan][i] = AgentPlan[i]
    BY <1>5, AdvertiseGoText
  <2>3. \A i \in 1..8 : Plans[plan][i] = StageCommand(plan, i)
    BY <1>5, <2>2 DEF StageCommand, Scripts
  <2>. QED BY <2>1, <2>2, <2>3
<1>6. CASE plan = "agent_go"
  <2>1. Base[plan] = 0 /\ LastStage(plan) = 8
    BY <1>6 DEF Base, LastStage, Scripts
  <2>2. /\ Len(Plans[plan]) = 8 /\ Plans[plan][1] = Cmd("read", "wg0")
        /\ \A i \in 2..8 : Plans[plan][i] = AgentPlan[i]
    BY <1>6, RestoreGoText
  <2>3. \A i \in 1..8 : Plans[plan][i] = StageCommand(plan, i)
    BY <1>6, <2>2 DEF StageCommand, Scripts
  <2>. QED BY <2>1, <2>2, <2>3
<1>. QED BY <1>0, <1>1, <1>2, <1>3, <1>4, <1>5, <1>6


-----------------------------------------------------------------------------
(* The inductive invariant *)

Stage(a) == run[a].at - Base[run[a].plan]
DoesScript(a) == run[a].plan \in Scripts

\* a is about to add a rule own, or has added it.
AtAddOwn(a) == IsActive(a) /\ Stage(a) = (IF DoesScript(a) THEN 6 ELSE 3)
PastAddOwn(a) == IsActive(a) /\ Stage(a) > (IF DoesScript(a) THEN 6 ELSE 3)
\* a is about to make the nft tables anew.
AtNat(a) == IsActive(a) /\ Stage(a) = LastStage(run[a].plan)
\* a has taken away the rule of exit traffic, or the route of table 200, and is yet to
\* add the rule or to make wg0 the default.
OwesExit(a) == IsActive(a) /\ IF DoesScript(a) THEN Stage(a) \in 2..4 ELSE Stage(a) = 5
OwesTable(a) == IsActive(a) /\ DoesScript(a) /\ Stage(a) \in 3..4
ExitKept == rules["exit"] # <<>> \/ \E b \in Appliers : OwesExit(b)
TableKept == "200" \in routes \/ \E b \in Appliers : OwesTable(b)

\* The agent at boot restores before it serves; handlers advertise, and past the
\* command that sets the preference it is set.
Advertises(a) == run[a].plan \in {"advertise_agent", "advertise_script", "advertise_go"}
PastSet(a) == IsActive(a) /\ Advertises(a) /\ Stage(a) > (IF run[a].plan = "advertise_go" THEN 1 ELSE 0)
AgentInv ==
    /\ IsActive("boot") => agent = "restoring"
    /\ \A h \in Handlers : IsActive(h) => Advertises(h)
    /\ \A a \in Appliers : PastSet(a) => advertised
    /\ ReadyAdvertised

\* wg0 stays up under an application, and under all once routing has been applied;
\* the script has then made it the default.
LinkInv ==
    /\ \A a \in Appliers : IsActive(a) /\ run[a].wg =>
          wgUp /\ (DoesScript(a) /\ Stage(a) > 4 => "main" \in routes)
    /\ applied => wgUp /\ \A a \in Appliers : IsActive(a) => run[a].wg

\* From the first time on, replies have a rule or get one.
OwnInv ==
    applied \/ (\E a \in Appliers : PastAddOwn(a)) =>
        rules["own"] # <<>> \/ \E b \in Appliers : AtAddOwn(b)

NatInv == applied => nat \/ \E b \in Appliers : AtNat(b)

\* Without the default route, exit traffic has its rule and its table, or somebody
\* owes them.
ExitInv ==
    "main" \notin routes =>
       /\ applied => rules["exit_fwd"] = <<>> /\ ExitKept /\ TableKept
       /\ \A a \in Appliers : IsActive(a) /\ ~DoesScript(a) /\ run[a].wg =>
             (Stage(a) > 5 => ExitKept) /\ (Stage(a) > 6 => TableKept)

\* A killed application leaves what it owed to nobody.
IInv == TypeOK /\ AgentInv /\ LinkInv /\ (kills = 0 => OwnInv /\ NatInv /\ ExitInv)

-----------------------------------------------------------------------------
(* What one command does *)

\* Where an application is, and what it does next.
LEMMA ActiveText ==
  ASSUME TypeOK, NEW a \in Appliers, IsActive(a)
  PROVE  /\ run[a].plan \in DOMAIN Plans /\ run[a].at \in Nat
         /\ Stage(a) \in Int /\ -1 <= Stage(a) /\ Stage(a) <= LastStage(run[a].plan)
         /\ run[a].at < Len(Plans[run[a].plan]) <=> Stage(a) < LastStage(run[a].plan)
         /\ Command(a) = StageCommand(run[a].plan, Stage(a))
<1>1. /\ run[a].plan \in DOMAIN Plans /\ run[a].at \in Nat /\ run[a].at # 0
      /\ run[a].at <= Len(Plans[run[a].plan])
  BY DEF TypeOK, IsActive
<1>. DEFINE plan == run[a].plan
<1>2. /\ Base[plan] \in {0, 2}
      /\ Len(Plans[plan]) = Base[plan] + LastStage(plan)
      /\ \A i \in 1..Len(Plans[plan]) : Plans[plan][i] = StageCommand(plan, i - Base[plan])
  BY <1>1, PlanText
<1>3. LastStage(plan) \in {8, 10}
  BY DEF LastStage
<1>4. Command(a) = StageCommand(plan, Stage(a))
  BY <1>1, <1>2, <1>3 DEF Command, Stage
<1>. QED BY <1>1, <1>2, <1>3, <1>4 DEF Stage

Is(a, op, pref, table) == Op(a) = op /\ Pref(a) = pref /\ Table(a) = table

LEMMA IsCommand ==
  ASSUME NEW a, NEW op, NEW pref, NEW table
  PROVE  /\ Command(a) = Rule(op, pref, table) => Is(a, op, pref, table)
         /\ Command(a) = Cmd(op, table) => Is(a, op, "", table)
<1>1. ASSUME NEW c, NEW p, c = [op |-> op, pref |-> p, table |-> table]
      PROVE  c.op = op /\ c.pref = p /\ c.table = table
  BY <1>1
<1>2. ASSUME Command(a) = Rule(op, pref, table) PROVE Is(a, op, pref, table)
  BY <1>1, <1>2, Zenon DEF Is, Op, Pref, Table, Rule
<1>3. ASSUME Command(a) = Cmd(op, table) PROVE Is(a, op, "", table)
  BY <1>1, <1>3, Zenon DEF Is, Op, Pref, Table, Cmd
<1>. QED BY <1>2, <1>3

LEMMA ScriptCommands ==
  ASSUME TypeOK, NEW a \in Appliers, IsActive(a), DoesScript(a)
  PROVE  /\ Stage(a) \in -1..10
         /\ Stage(a) = -1 => Is(a, "flush", "", "wan")
         /\ Stage(a) = 0 => Is(a, "set", "", "exit")
         /\ Stage(a) = 1 => Is(a, "scrub", "exit", "")
         /\ Stage(a) = 2 => Is(a, "flush", "", "200")
         /\ Stage(a) = 3 => Is(a, "route", "", "wan")
         /\ Stage(a) = 4 => Is(a, "route", "", "main")
         /\ Stage(a) = 5 => Is(a, "scrub", "own", "")
         /\ Stage(a) = 6 => Is(a, "add", "own", "wan")
         /\ Stage(a) = 7 => Is(a, "scrub", "exit_fwd", "")
         /\ Stage(a) = 8 => Is(a, "add", "exit_fwd", "main")
         /\ Stage(a) = 9 => Is(a, "nat-", "", "")
         /\ Stage(a) = 10 => Is(a, "nat+", "", "")
<1>1. /\ Stage(a) \in -1..10
      /\ Command(a) = StageCommand(run[a].plan, Stage(a))
      /\ run[a].plan \in Scripts /\ run[a].plan \notin {"advertise_go", "agent_go"}
  BY ActiveText DEF DoesScript, LastStage, Scripts
<1>2. /\ Stage(a) = -1 => Command(a) = Cmd("flush", "wan")
      /\ Stage(a) = 0 => Command(a) = Cmd("set", "exit")
      /\ Stage(a) > 0 => Command(a) = ScriptPlan[Stage(a)]
  BY <1>1 DEF StageCommand
<1>. HIDE DEF StageCommand
<1>3. /\ Stage(a) = -1 => Is(a, "flush", "", "wan")
      /\ Stage(a) = 0 => Is(a, "set", "", "exit")
  BY <1>2, IsCommand
<1>a. /\ Stage(a) = 1 => Command(a) = ScriptPlan[1]
      /\ Stage(a) = 2 => Command(a) = ScriptPlan[2]
      /\ Stage(a) = 3 => Command(a) = ScriptPlan[3]
      /\ Stage(a) = 4 => Command(a) = ScriptPlan[4]
      /\ Stage(a) = 5 => Command(a) = ScriptPlan[5]
      /\ Stage(a) = 6 => Command(a) = ScriptPlan[6]
      /\ Stage(a) = 7 => Command(a) = ScriptPlan[7]
      /\ Stage(a) = 8 => Command(a) = ScriptPlan[8]
      /\ Stage(a) = 9 => Command(a) = ScriptPlan[9]
      /\ Stage(a) = 10 => Command(a) = ScriptPlan[10]
  BY <1>1, <1>2
<1>4. /\ Stage(a) = 1 => Is(a, "scrub", "exit", "")
      /\ Stage(a) = 2 => Is(a, "flush", "", "200")
      /\ Stage(a) = 3 => Is(a, "route", "", "wan")
      /\ Stage(a) = 4 => Is(a, "route", "", "main")
      /\ Stage(a) = 5 => Is(a, "scrub", "own", "")
  BY <1>a, ScriptText, IsCommand
<1>5. /\ Stage(a) = 6 => Is(a, "add", "own", "wan")
      /\ Stage(a) = 7 => Is(a, "scrub", "exit_fwd", "")
      /\ Stage(a) = 8 => Is(a, "add", "exit_fwd", "main")
      /\ Stage(a) = 9 => Is(a, "nat-", "", "")
      /\ Stage(a) = 10 => Is(a, "nat+", "", "")
  BY <1>a, ScriptText, IsCommand
<1>. QED BY <1>1, <1>3, <1>4, <1>5

LEMMA AgentCommands ==
  ASSUME TypeOK, NEW a \in Appliers, IsActive(a), ~DoesScript(a)
  PROVE  /\ Stage(a) \in -1..8
         /\ Stage(a) = -1 => Is(a, "flush", "", "wan")
         /\ Stage(a) = 0 => Is(a, "set", "", "exit")
         /\ Stage(a) = 1 => IF run[a].plan = "advertise_go" THEN Is(a, "set", "", "exit")
                            ELSE Is(a, "need", "", "wg0") \/ Is(a, "read", "", "wg0")
         /\ Stage(a) = 2 => Is(a, "del", "own", "main")
         /\ Stage(a) = 3 => Is(a, "add", "own", "main")
         /\ Stage(a) = 4 => Is(a, "del", "exit", "200")
         /\ Stage(a) = 5 => Is(a, "add", "exit", "200")
         /\ Stage(a) = 6 => Is(a, "route", "", "200")
         /\ Stage(a) = 7 => Is(a, "nat-", "", "")
         /\ Stage(a) = 8 => Is(a, "nat+", "", "")
<1>1. /\ Stage(a) \in -1..8
      /\ Command(a) = StageCommand(run[a].plan, Stage(a))
      /\ run[a].plan \notin Scripts
  BY ActiveText DEF DoesScript, LastStage
<1>2. /\ Stage(a) = -1 => Command(a) = Cmd("flush", "wan")
      /\ Stage(a) = 0 => Command(a) = Cmd("set", "exit")
      /\ Stage(a) = 1 => Command(a) = IF run[a].plan = "advertise_go" THEN Cmd("set", "exit")
                                      ELSE IF run[a].plan = "agent_go" THEN Cmd("read", "wg0")
                                      ELSE AgentPlan[1]
      /\ Stage(a) > 1 => Command(a) = AgentPlan[Stage(a)]
  BY <1>1 DEF StageCommand
<1>. HIDE DEF StageCommand
<1>3. /\ Stage(a) = -1 => Is(a, "flush", "", "wan")
      /\ Stage(a) = 0 => Is(a, "set", "", "exit")
      /\ Stage(a) = 1 => IF run[a].plan = "advertise_go" THEN Is(a, "set", "", "exit")
                         ELSE Is(a, "need", "", "wg0") \/ Is(a, "read", "", "wg0")
  BY <1>1, <1>2, AgentText, IsCommand
<1>a. /\ Stage(a) = 2 => Command(a) = AgentPlan[2]
      /\ Stage(a) = 3 => Command(a) = AgentPlan[3]
      /\ Stage(a) = 4 => Command(a) = AgentPlan[4]
      /\ Stage(a) = 5 => Command(a) = AgentPlan[5]
      /\ Stage(a) = 6 => Command(a) = AgentPlan[6]
      /\ Stage(a) = 7 => Command(a) = AgentPlan[7]
      /\ Stage(a) = 8 => Command(a) = AgentPlan[8]
  BY <1>1, <1>2
<1>4. /\ Stage(a) = 2 => Is(a, "del", "own", "main")
      /\ Stage(a) = 3 => Is(a, "add", "own", "main")
      /\ Stage(a) = 4 => Is(a, "del", "exit", "200")
      /\ Stage(a) = 5 => Is(a, "add", "exit", "200")
  BY <1>a, AgentText, IsCommand
<1>5. /\ Stage(a) = 6 => Is(a, "route", "", "200")
      /\ Stage(a) = 7 => Is(a, "nat-", "", "")
      /\ Stage(a) = 8 => Is(a, "nat+", "", "")
  BY <1>a, AgentText, IsCommand
<1>. QED BY <1>1, <1>3, <1>4, <1>5


\* The other way round: where a command of some kind is.
LEMMA CommandsByOp ==
  ASSUME TypeOK, NEW a \in Appliers, IsActive(a)
  PROVE  /\ Op(a) \in {"del", "scrub", "add"} => Pref(a) \in Prefs
         /\ Op(a) \in {"add", "route"} => Table(a) \in Tables
         /\ Op(a) \in {"del", "scrub"} =>
               /\ Pref(a) = "own" => Stage(a) = IF DoesScript(a) THEN 5 ELSE 2
               /\ Pref(a) = "exit" => Stage(a) = IF DoesScript(a) THEN 1 ELSE 4
         /\ Op(a) \in {"del", "scrub", "add"} /\ Pref(a) = "exit_fwd" =>
               DoesScript(a) /\ Stage(a) \in 7..8
         /\ Op(a) = "flush" => Table(a) # "main"
         /\ Op(a) = "flush" /\ Table(a) = "200" => DoesScript(a) /\ Stage(a) = 2
         /\ Op(a) = "nat-" => Stage(a) + 1 = LastStage(run[a].plan)
<1>0. "own" \in Prefs /\ "exit" \in Prefs /\ "exit_fwd" \in Prefs
      /\ "main" \in Tables /\ "wan" \in Tables /\ "200" \in Tables
  BY DEF Prefs, Tables
<1>1. CASE DoesScript(a)
  <2>0. Stage(a) \in -1..10 /\ LastStage(run[a].plan) = 10
    BY <1>1, ScriptCommands DEF DoesScript, LastStage
  <2>1. \/ Stage(a) = -1 \/ Stage(a) = 0 \/ Stage(a) = 1 \/ Stage(a) = 2 \/ Stage(a) = 3 \/ Stage(a) = 4
        \/ Stage(a) = 5 \/ Stage(a) = 6 \/ Stage(a) = 7 \/ Stage(a) = 8 \/ Stage(a) = 9 \/ Stage(a) = 10
    BY <2>0
  <2>2. CASE Stage(a) = -1
    BY <1>0, <1>1, <2>0, <2>2, ScriptCommands DEF Is
  <2>3. CASE Stage(a) = 0
    BY <1>0, <1>1, <2>0, <2>3, ScriptCommands DEF Is
  <2>4. CASE Stage(a) = 1
    BY <1>0, <1>1, <2>0, <2>4, ScriptCommands DEF Is
  <2>5. CASE Stage(a) = 2
    BY <1>0, <1>1, <2>0, <2>5, ScriptCommands DEF Is
  <2>6. CASE Stage(a) = 3
    BY <1>0, <1>1, <2>0, <2>6, ScriptCommands DEF Is
  <2>7. CASE Stage(a) = 4
    BY <1>0, <1>1, <2>0, <2>7, ScriptCommands DEF Is
  <2>8. CASE Stage(a) = 5
    BY <1>0, <1>1, <2>0, <2>8, ScriptCommands DEF Is
  <2>9. CASE Stage(a) = 6
    BY <1>0, <1>1, <2>0, <2>9, ScriptCommands DEF Is
  <2>10. CASE Stage(a) = 7
    <3>1. Is(a, "scrub", "exit_fwd", "")
      BY <1>1, <2>10, ScriptCommands
    <3>2. Stage(a) \in 7..8
      BY <2>0, <2>10
    <3>. QED BY <1>0, <1>1, <3>1, <3>2 DEF Is
  <2>11. CASE Stage(a) = 8
    <3>1. Is(a, "add", "exit_fwd", "main")
      BY <1>1, <2>11, ScriptCommands
    <3>. QED BY <1>0, <1>1, <2>0, <2>11, <3>1 DEF Is
  <2>12. CASE Stage(a) = 9
    <3>1. Is(a, "nat-", "", "")
      BY <1>1, <2>12, ScriptCommands
    <3>2. Stage(a) + 1 = LastStage(run[a].plan)
      BY <2>0, <2>12
    <3>. QED BY <1>0, <1>1, <3>1, <3>2 DEF Is
  <2>13. CASE Stage(a) = 10
    BY <1>0, <1>1, <2>0, <2>13, ScriptCommands DEF Is
  <2>. QED BY <2>1, <2>2, <2>3, <2>4, <2>5, <2>6, <2>7, <2>8, <2>9, <2>10, <2>11, <2>12, <2>13
<1>2. CASE ~DoesScript(a)
  <2>0. Stage(a) \in -1..8 /\ LastStage(run[a].plan) = 8
    BY <1>2, AgentCommands DEF DoesScript, LastStage
  <2>1. \/ Stage(a) = -1 \/ Stage(a) = 0 \/ Stage(a) = 1 \/ Stage(a) = 2 \/ Stage(a) = 3 \/ Stage(a) = 4
        \/ Stage(a) = 5 \/ Stage(a) = 6 \/ Stage(a) = 7 \/ Stage(a) = 8
    BY <2>0
  <2>2. CASE Stage(a) = -1
    BY <1>0, <1>2, <2>0, <2>2, AgentCommands DEF Is
  <2>3. CASE Stage(a) = 0
    BY <1>0, <1>2, <2>0, <2>3, AgentCommands DEF Is
  <2>4. CASE Stage(a) = 1
    BY <1>0, <1>2, <2>0, <2>4, AgentCommands DEF Is
  <2>5. CASE Stage(a) = 2
    BY <1>0, <1>2, <2>0, <2>5, AgentCommands DEF Is
  <2>6. CASE Stage(a) = 3
    BY <1>0, <1>2, <2>0, <2>6, AgentCommands DEF Is
  <2>7. CASE Stage(a) = 4
    BY <1>0, <1>2, <2>0, <2>7, AgentCommands DEF Is
  <2>8. CASE Stage(a) = 5
    BY <1>0, <1>2, <2>0, <2>8, AgentCommands DEF Is
  <2>9. CASE Stage(a) = 6
    BY <1>0, <1>2, <2>0, <2>9, AgentCommands DEF Is
  <2>10. CASE Stage(a) = 7
    <3>1. Is(a, "nat-", "", "")
      BY <1>2, <2>10, AgentCommands
    <3>2. Stage(a) + 1 = LastStage(run[a].plan)
      BY <2>0, <2>10
    <3>. QED BY <1>0, <1>2, <3>1, <3>2 DEF Is
  <2>11. CASE Stage(a) = 8
    BY <1>0, <1>2, <2>0, <2>11, AgentCommands DEF Is
  <2>. QED BY <2>1, <2>2, <2>3, <2>4, <2>5, <2>6, <2>7, <2>8, <2>9, <2>10, <2>11
<1>. QED BY <1>1, <1>2

\* The list of rules of one preference, with one more or one less.
LEMMA OneMore ==
  ASSUME NEW list \in Seq(Tables), IsInjective(list), NEW t \in Tables, ~Contains(list, t)
  PROVE  Append(list, t) \in Seq(Tables) /\ Append(list, t) # <<>> /\ IsInjective(Append(list, t))
<1>1. /\ Append(list, t) \in Seq(Tables) /\ Len(Append(list, t)) = Len(list) + 1
      /\ DOMAIN Append(list, t) = 1..(Len(list) + 1)
      /\ \A i \in 1..Len(list) : Append(list, t)[i] = list[i]
      /\ Append(list, t)[Len(list) + 1] = t
  BY AppendProperties
<1>2. \A i \in 1..Len(list) : list[i] # t
  BY DEF Contains
<1>3. \A i, j \in 1..Len(list) : list[i] = list[j] => i = j
  BY DEF IsInjective
<1>4. ASSUME NEW i \in 1..(Len(list) + 1), NEW j \in 1..(Len(list) + 1),
             Append(list, t)[i] = Append(list, t)[j]
      PROVE  i = j
  <2>1. \A k \in 1..(Len(list) + 1) : k \in 1..Len(list) \/ k = Len(list) + 1
    OBVIOUS
  <2>. QED BY <1>1, <1>2, <1>3, <1>4, <2>1
<1>5. Append(list, t) # <<>>
  BY AppendProperties
<1>. QED BY <1>1, <1>4, <1>5 DEF IsInjective

LEMMA OneLess ==
  ASSUME NEW list \in Seq(Tables), IsInjective(list), NEW t
  PROVE  Without(list, t) \in Seq(Tables) /\ IsInjective(Without(list, t))
<1>1. CASE ~Contains(list, t)
  BY <1>1 DEF Without
<1>2. CASE Contains(list, t)
  <2>. DEFINE i == CHOOSE i \in 1..Len(list) : list[i] = t
              left == SubSeq(list, 1, i - 1)
              right == SubSeq(list, i + 1, Len(list))
  <2>1. i \in 1..Len(list)
    BY <1>2 DEF Contains
  <2>2. Without(list, t) = left \o right
    BY <1>2 DEF Without, RemoveAt
  <2>. HIDE DEF i
  <2>3. left \in Seq(Tables) /\ Len(left) = i - 1 /\ \A j \in 1..(i - 1) : left[j] = list[j]
    BY <2>1
  <2>4. /\ right \in Seq(Tables) /\ Len(right) = Len(list) - i
        /\ \A j \in 1..(Len(list) - i) : right[j] = list[i + j]
    BY <2>1
  <2>. HIDE DEF left, right
  <2>5. /\ left \o right \in Seq(Tables)
        /\ Len(left \o right) = Len(left) + Len(right)
        /\ \A j \in 1..Len(left) + Len(right) :
              (left \o right)[j] = IF j <= Len(left) THEN left[j] ELSE right[j - Len(left)]
    BY <2>3, <2>4, ConcatProperties, Zenon
  <2>. DEFINE less == left \o right
  <2>6. less \in Seq(Tables) /\ Len(less) = Len(list) - 1 /\ DOMAIN less = 1..(Len(list) - 1)
    BY <2>1, <2>3, <2>4, <2>5
  <2>7. \A j \in 1..(Len(list) - 1) : less[j] = IF j < i THEN list[j] ELSE list[j + 1]
    <3>. SUFFICES ASSUME NEW j \in 1..(Len(list) - 1)
                  PROVE  less[j] = IF j < i THEN list[j] ELSE list[j + 1]
      OBVIOUS
    <3>1. less[j] = IF j <= i - 1 THEN left[j] ELSE right[j - (i - 1)]
      BY <2>1, <2>3, <2>4, <2>5
    <3>2. CASE j < i
      BY <3>1, <3>2, <2>1, <2>3
    <3>3. CASE ~(j < i)
      <4>1. j - (i - 1) \in 1..(Len(list) - i) /\ i + (j - (i - 1)) = j + 1
        BY <3>3, <2>1
      <4>. QED BY <3>1, <3>3, <2>1, <2>4, <4>1
    <3>. QED BY <3>2, <3>3
  <2>. HIDE DEF less
  <2>8. \A j, k \in 1..Len(list) : list[j] = list[k] => j = k
    BY DEF IsInjective
  <2>9. \A j, k \in 1..(Len(list) - 1) : less[j] = less[k] => j = k
    BY <2>1, <2>7, <2>8
  <2>10. Without(list, t) = less
    BY <2>2 DEF less
  <2>. QED BY <2>6, <2>9, <2>10 DEF IsInjective
<1>. QED BY <1>1, <1>2


\* A command that is not refused, or whose refusal is passed over: what becomes of
\* the rules of each preference, whichever list it belongs to.
LEMMA RulesKept ==
  ASSUME TypeOK, NEW a \in Appliers, IsActive(a)
  PROVE  /\ RulesAfter(a) \in [Prefs -> Seq(Tables)]
         /\ \A p \in Prefs : IsInjective(RulesAfter(a)[p])
         /\ \A p \in Prefs : p # Pref(a) => RulesAfter(a)[p] = rules[p]
         /\ Op(a) \notin {"del", "scrub", "add"} => RulesAfter(a) = rules
         /\ Op(a) = "add" => RulesAfter(a)[Pref(a)] # <<>>
<1>. USE DEF TypeOK
<1>1. /\ Op(a) \in {"del", "scrub", "add"} => Pref(a) \in Prefs
      /\ Op(a) = "add" => Table(a) \in Tables
  BY CommandsByOp
<1>2. CASE Op(a) = "del"
  <2>1. RulesAfter(a) = [rules EXCEPT ![Pref(a)] = Without(rules[Pref(a)], Table(a))]
    BY <1>2 DEF RulesAfter
  <2>2. /\ Without(rules[Pref(a)], Table(a)) \in Seq(Tables)
        /\ IsInjective(Without(rules[Pref(a)], Table(a)))
    BY <1>1, <1>2, OneLess
  <2>. QED BY <1>1, <1>2, <2>1, <2>2
<1>3. CASE Op(a) = "scrub"
  <2>1. RulesAfter(a) = [rules EXCEPT ![Pref(a)] = <<>>]
    BY <1>3 DEF RulesAfter
  <2>2. <<>> \in Seq(Tables) /\ IsInjective(<<>>)
    BY DEF IsInjective
  <2>. QED BY <1>1, <1>3, <2>1, <2>2
<1>4. CASE Op(a) = "add"
  <2>0. rules[Pref(a)] \in Seq(Tables) /\ IsInjective(rules[Pref(a)])
    BY <1>1, <1>4
  <2>1. CASE IsRefused(a)
    <3>1. RulesAfter(a) = rules
      BY <1>4, <2>1 DEF RulesAfter
    <3>2. Contains(rules[Pref(a)], Table(a))
      BY <1>4, <2>1 DEF IsRefused
    <3>3. rules[Pref(a)] # <<>>
      BY <2>0, <3>2 DEF Contains
    <3>. QED BY <1>1, <1>4, <3>1, <3>3
  <2>2. CASE ~IsRefused(a)
    <3>1. RulesAfter(a) = [rules EXCEPT ![Pref(a)] = Append(rules[Pref(a)], Table(a))]
      BY <1>4, <2>2 DEF RulesAfter
    <3>2. ~Contains(rules[Pref(a)], Table(a))
      BY <1>4, <2>2 DEF IsRefused
    <3>3. /\ Append(rules[Pref(a)], Table(a)) \in Seq(Tables)
          /\ Append(rules[Pref(a)], Table(a)) # <<>>
          /\ IsInjective(Append(rules[Pref(a)], Table(a)))
      BY <1>1, <1>4, <2>0, <3>2, OneMore
    <3>. QED BY <1>1, <1>4, <3>1, <3>3
  <2>. QED BY <2>1, <2>2
<1>5. CASE Op(a) \notin {"del", "scrub", "add"}
  <2>1. RulesAfter(a) = rules
    BY <1>5 DEF RulesAfter
  <2>. QED BY <1>5, <2>1
<1>. QED BY <1>2, <1>3, <1>4, <1>5

\* ... and of what the invariant is about, by the stage of the application.
LEMMA Effects ==
  ASSUME TypeOK, NEW a \in Appliers, IsActive(a), IsRefused(a) => ~IsFatal(a), Effect(a)
  PROVE  /\ rules' \in [Prefs -> Seq(Tables)] /\ \A p \in Prefs : IsInjective(rules'[p])
         /\ routes' \subseteq Tables /\ nat' \in BOOLEAN /\ advertised' \in BOOLEAN
         /\ AtAddOwn(a) => rules'["own"] # <<>>
         /\ rules'["own"] = <<>> => rules["own"] = <<>> \/ Stage(a) = IF DoesScript(a) THEN 5 ELSE 2
         /\ ~DoesScript(a) /\ Stage(a) = 5 => rules'["exit"] # <<>>
         /\ rules'["exit"] = <<>> => rules["exit"] = <<>> \/ Stage(a) = IF DoesScript(a) THEN 1 ELSE 4
         /\ rules'["exit_fwd"] = rules["exit_fwd"] \/ (DoesScript(a) /\ Stage(a) \in 7..8)
         /\ "main" \in routes => "main" \in routes'
         /\ DoesScript(a) /\ Stage(a) = 4 /\ wgUp => "main" \in routes'
         /\ "200" \in routes /\ "200" \notin routes' => DoesScript(a) /\ Stage(a) = 2
         /\ ~DoesScript(a) /\ Stage(a) = 6 /\ wgUp => "200" \in routes'
         /\ AtNat(a) => nat'
         /\ nat /\ ~nat' => Stage(a) + 1 = LastStage(run[a].plan)
         /\ advertised => advertised'
         /\ Advertises(a) /\ Stage(a) = (IF run[a].plan = "advertise_go" THEN 1 ELSE 0) => advertised'
<1>1. /\ rules' = RulesAfter(a) /\ routes' = RoutesAfter(a)
      /\ nat' = ((nat \/ Op(a) = "nat+") /\ Op(a) # "nat-")
      /\ advertised' = (advertised \/ (Op(a) = "set" /\ tsUp))
      /\ routes \subseteq Tables /\ "own" \in Prefs /\ "exit" \in Prefs /\ "exit_fwd" \in Prefs
  BY DEF Effect, TypeOK, Prefs
<1>2. /\ rules' \in [Prefs -> Seq(Tables)] /\ \A p \in Prefs : IsInjective(rules'[p])
      /\ \A p \in Prefs : p # Pref(a) => rules'[p] = rules[p]
      /\ Op(a) \notin {"del", "scrub", "add"} => rules' = rules
      /\ Op(a) = "add" => rules'[Pref(a)] # <<>>
  BY <1>1, RulesKept
<1>3. Op(a) = "set" => tsUp
  BY DEF IsRefused, IsFatal
<1>4. /\ Op(a) = "route" /\ (Table(a) = "wan" \/ wgUp) => routes' = routes \cup {Table(a)}
      /\ Op(a) = "flush" => routes' = routes \ {Table(a)}
      /\ Op(a) \notin {"route", "flush"} => routes' = routes
      /\ routes \subseteq routes' \/ Op(a) = "flush"
      /\ routes' \subseteq routes \/ (Op(a) = "route" /\ routes' = routes \cup {Table(a)})
  BY <1>1 DEF RoutesAfter
<1>5. nat' \in BOOLEAN /\ advertised' \in BOOLEAN
  BY <1>1 DEF TypeOK
<1>6. routes' \subseteq Tables
  BY <1>1, <1>4, CommandsByOp
<1>7. AtAddOwn(a) => rules'["own"] # <<>>
  <2>1. AtAddOwn(a) => Op(a) = "add" /\ Pref(a) = "own"
    BY ScriptCommands, AgentCommands DEF AtAddOwn, Is
  <2>. QED BY <1>2, <2>1
<1>8. /\ rules'["own"] = <<>> => rules["own"] = <<>> \/ Stage(a) = IF DoesScript(a) THEN 5 ELSE 2
      /\ rules'["exit"] = <<>> => rules["exit"] = <<>> \/ Stage(a) = IF DoesScript(a) THEN 1 ELSE 4
      /\ rules'["exit_fwd"] = rules["exit_fwd"] \/ (DoesScript(a) /\ Stage(a) \in 7..8)
  <2>1. ASSUME NEW p \in Prefs, rules'[p] # rules[p]
        PROVE  Op(a) \in {"del", "scrub", "add"} /\ Pref(a) = p
    BY <1>2, <2>1
  <2>2. ASSUME NEW p \in Prefs, rules'[p] = <<>>, rules[p] # <<>>
        PROVE  Op(a) \in {"del", "scrub"} /\ Pref(a) = p
    BY <1>2, <2>1, <2>2
  <2>. QED BY <1>1, <2>1, <2>2, CommandsByOp
<1>9. ~DoesScript(a) /\ Stage(a) = 5 => rules'["exit"] # <<>>
  <2>1. ~DoesScript(a) /\ Stage(a) = 5 => Op(a) = "add" /\ Pref(a) = "exit"
    BY AgentCommands DEF Is
  <2>. QED BY <1>2, <2>1
<1>10. /\ "main" \in routes => "main" \in routes'
       /\ "200" \in routes /\ "200" \notin routes' => DoesScript(a) /\ Stage(a) = 2
  BY <1>4, CommandsByOp
<1>11. DoesScript(a) /\ Stage(a) = 4 /\ wgUp => "main" \in routes'
  BY <1>4, ScriptCommands DEF Is
<1>12. ~DoesScript(a) /\ Stage(a) = 6 /\ wgUp => "200" \in routes'
  BY <1>4, AgentCommands DEF Is
<1>13. /\ AtNat(a) => nat'
       /\ nat /\ ~nat' => Stage(a) + 1 = LastStage(run[a].plan)
  <2>1. AtNat(a) => Op(a) = "nat+"
    BY ScriptCommands, AgentCommands DEF AtNat, Is, LastStage, DoesScript
  <2>. QED BY <1>1, <2>1, CommandsByOp
<1>14. /\ advertised => advertised'
       /\ Advertises(a) /\ Stage(a) = (IF run[a].plan = "advertise_go" THEN 1 ELSE 0) => advertised'
  <2>1. Stage(a) = (IF run[a].plan = "advertise_go" THEN 1 ELSE 0) => Op(a) = "set"
    BY ScriptCommands, AgentCommands DEF Is, DoesScript, Scripts
  <2>. QED BY <1>1, <1>3, <2>1
<1>. QED BY <1>2, <1>5, <1>6, <1>7, <1>8, <1>9, <1>10, <1>11, <1>12, <1>13, <1>14

\* Nobody is refused what he owes, unless another has done it.
LEMMA RefusedOwesNothing ==
  ASSUME TypeOK, NEW a \in Appliers, IsActive(a), IsRefused(a)
  PROVE  /\ AtAddOwn(a) => rules["own"] # <<>>
         /\ OwesExit(a) => rules["exit"] # <<>>
         /\ ~OwesTable(a) /\ ~AtNat(a)
<1>1. \/ Op(a) = "add" /\ Contains(rules[Pref(a)], Table(a))
      \/ Op(a) = "route" /\ Table(a) = "200"
      \/ Op(a) \in {"need", "set"}
  BY DEF IsRefused
<1>2. Op(a) = "add" /\ Pref(a) \in Prefs => rules[Pref(a)] # <<>>
  BY <1>1 DEF TypeOK, Contains
<1>3. "own" \in Prefs /\ "exit" \in Prefs
  BY DEF Prefs
<1>4. AtAddOwn(a) => Op(a) = "add" /\ Pref(a) = "own"
  BY ScriptCommands, AgentCommands DEF AtAddOwn, Is
<1>5. AtNat(a) => Op(a) = "nat+"
  BY ScriptCommands, AgentCommands DEF AtNat, Is, LastStage, DoesScript
<1>6. CASE DoesScript(a)
  <2>1. OwesExit(a) => Stage(a) = 2 \/ Stage(a) = 3 \/ Stage(a) = 4
    BY <1>6 DEF OwesExit
  <2>2. OwesExit(a) => Op(a) = "flush" \/ (Op(a) = "route" /\ Table(a) # "200")
    BY <1>6, <2>1, ScriptCommands DEF Is
  <2>3. OwesTable(a) => OwesExit(a)
    BY DEF OwesTable, OwesExit
  <2>. QED BY <1>1, <1>2, <1>3, <1>4, <1>5, <2>2, <2>3
<1>7. CASE ~DoesScript(a)
  <2>1. ~OwesTable(a)
    BY <1>7 DEF OwesTable
  <2>2. OwesExit(a) => Op(a) = "add" /\ Pref(a) = "exit"
    BY <1>7, AgentCommands DEF OwesExit, Is
  <2>. QED BY <1>1, <1>2, <1>3, <1>4, <1>5, <2>1, <2>2
<1>. QED BY <1>6, <1>7


-----------------------------------------------------------------------------
(* One command preserves the invariant *)

\* An application that another one's step leaves alone.
LEMMA SameApplication ==
  ASSUME NEW b, run'[b] = run[b]
  PROVE  /\ IsActive(b)' <=> IsActive(b)
         /\ Stage(b)' = Stage(b) /\ (DoesScript(b)' <=> DoesScript(b))
         /\ Advertises(b)' <=> Advertises(b)
         /\ AtAddOwn(b)' <=> AtAddOwn(b)
         /\ PastAddOwn(b)' <=> PastAddOwn(b)
         /\ AtNat(b)' <=> AtNat(b)
         /\ OwesExit(b)' <=> OwesExit(b)
         /\ OwesTable(b)' <=> OwesTable(b)
         /\ PastSet(b)' <=> PastSet(b)
BY DEF IsActive, Stage, DoesScript, Advertises, AtAddOwn, PastAddOwn, AtNat, OwesExit, OwesTable, PastSet

\* Where a step leaves the application itself.
LEMMA NextStage ==
  ASSUME TypeOK, NEW a \in Appliers, Step(a)
  PROVE  /\ IsActive(a) /\ Effect(a) /\ (IsRefused(a) => ~IsFatal(a))
         /\ \A b \in Appliers : b # a => run'[b] = run[b]
         /\ wgUp' = wgUp /\ kills' = kills
         /\ Stage(a) \in Int /\ LastStage(run[a].plan) = IF DoesScript(a) THEN 10 ELSE 8
         /\ \/ /\ Stage(a) < LastStage(run[a].plan)
               /\ IsActive(a)' /\ Stage(a)' = Stage(a) + 1
               /\ run'[a].plan = run[a].plan /\ run'[a].wg = run[a].wg
               /\ run'[a].at = run[a].at + 1
               /\ DoesScript(a)' <=> DoesScript(a)
               /\ UNCHANGED <<agent, flow, applied>>
            \/ /\ Stage(a) = LastStage(run[a].plan)
               /\ run'[a] = Idle /\ ~IsActive(a)'
               /\ Answer(a, "ready")
               /\ applied' = (applied \/ IsEffective(a))
<1>1. IsActive(a) /\ Effect(a) /\ (IsRefused(a) => ~IsFatal(a)) /\ wgUp' = wgUp /\ kills' = kills
  BY DEF Step, bounds
<1>2. /\ run[a].plan \in DOMAIN Plans /\ run[a].at \in Nat
      /\ Stage(a) \in Int /\ Stage(a) <= LastStage(run[a].plan)
      /\ run[a].at < Len(Plans[run[a].plan]) <=> Stage(a) < LastStage(run[a].plan)
  BY <1>1, ActiveText
<1>3. LastStage(run[a].plan) = IF DoesScript(a) THEN 10 ELSE 8
  BY DEF LastStage, DoesScript
<1>4. run \in [Appliers -> [plan : DOMAIN Plans, at : Nat, wg : BOOLEAN]]
  BY DEF TypeOK
<1>5. CASE Stage(a) < LastStage(run[a].plan)
  <2>1. run' = [run EXCEPT ![a].at = @ + 1] /\ UNCHANGED <<agent, flow, applied>>
    BY <1>2, <1>5 DEF Step
  <2>2. /\ run'[a].at = run[a].at + 1 /\ run'[a].plan = run[a].plan /\ run'[a].wg = run[a].wg
        /\ \A b \in Appliers : b # a => run'[b] = run[b]
    BY <1>4, <2>1
  <2>3. Base[run[a].plan] \in Int
    BY <1>2, PlanText
  <2>4. Stage(a)' = Stage(a) + 1 /\ IsActive(a)' /\ (DoesScript(a)' <=> DoesScript(a))
    BY <1>2, <2>2, <2>3 DEF Stage, IsActive, DoesScript
  <2>. QED BY <1>1, <1>2, <1>3, <1>5, <2>1, <2>2, <2>4
<1>6. CASE ~(Stage(a) < LastStage(run[a].plan))
  <2>1. /\ run' = [run EXCEPT ![a] = Idle] /\ Answer(a, "ready")
        /\ applied' = (applied \/ IsEffective(a))
    BY <1>2, <1>6 DEF Step
  <2>2. run'[a] = Idle /\ \A b \in Appliers : b # a => run'[b] = run[b]
    BY <1>4, <2>1
  <2>3. ~IsActive(a)'
    BY <2>2 DEF IsActive, Idle
  <2>4. Stage(a) = LastStage(run[a].plan)
    BY <1>2, <1>3, <1>6
  <2>. QED BY <1>1, <1>2, <1>3, <2>1, <2>2, <2>3, <2>4
<1>. QED BY <1>5, <1>6

LEMMA GoesOn ==
  ASSUME TypeOK, NEW a \in Appliers, Step(a), Stage(a) < 8
  PROVE  IsActive(a)' /\ Stage(a)' = Stage(a) + 1 /\ (DoesScript(a)' <=> DoesScript(a))
<1>1. Stage(a) \in Int /\ LastStage(run[a].plan) \in {8, 10}
  BY NextStage
<1>2. Stage(a) # LastStage(run[a].plan)
  BY <1>1
<1>. QED BY <1>2, NextStage

LEMMA StepOwn ==
  ASSUME TypeOK, OwnInv, NEW a \in Appliers, Step(a)
  PROVE  OwnInv'
<1>1. SUFFICES ASSUME applied' \/ (\E b \in Appliers : PastAddOwn(b)'), rules'["own"] = <<>>
               PROVE  \E b \in Appliers : AtAddOwn(b)'
  BY DEF OwnInv
<1>2. ~AtAddOwn(a)
      /\ (rules["own"] = <<>> \/ Stage(a) = IF DoesScript(a) THEN 5 ELSE 2)
  BY <1>1, NextStage, Effects
<1>3. CASE Stage(a) = IF DoesScript(a) THEN 5 ELSE 2
  <2>1. AtAddOwn(a)'
    BY <1>3, NextStage DEF AtAddOwn
  <2>. QED BY <2>1
<1>4. CASE rules["own"] = <<>>
  <2>a. Stage(a) = LastStage(run[a].plan) => PastAddOwn(a)
    BY NextStage DEF PastAddOwn
  <2>1. applied' => applied \/ PastAddOwn(a)
    BY <2>a, NextStage
  <2>2. PastAddOwn(a)' => PastAddOwn(a)
    BY <1>2, NextStage DEF PastAddOwn, AtAddOwn
  <2>3. \A b \in Appliers : PastAddOwn(b)' => PastAddOwn(b)
    BY <2>2, NextStage, SameApplication
  <2>4. PICK c \in Appliers : AtAddOwn(c)
    BY <1>1, <1>4, <2>1, <2>3 DEF OwnInv
  <2>5. AtAddOwn(c)'
    BY <1>2, <2>4, NextStage, SameApplication
  <2>. QED BY <2>5
<1>. QED BY <1>2, <1>3, <1>4

LEMMA StepNat ==
  ASSUME TypeOK, NatInv, NEW a \in Appliers, Step(a)
  PROVE  NatInv'
<1>1. SUFFICES ASSUME applied', ~nat'
               PROVE  \E b \in Appliers : AtNat(b)'
  BY DEF NatInv
<1>2. ~AtNat(a) /\ (nat => Stage(a) + 1 = LastStage(run[a].plan))
  BY <1>1, NextStage, Effects
<1>3. Stage(a) < LastStage(run[a].plan) /\ applied
  BY <1>1, <1>2, NextStage DEF AtNat
<1>4. CASE nat
  <2>1. AtNat(a)'
    BY <1>2, <1>3, <1>4, NextStage DEF AtNat
  <2>. QED BY <2>1
<1>5. CASE ~nat
  <2>1. PICK c \in Appliers : AtNat(c)
    BY <1>3, <1>5 DEF NatInv
  <2>2. AtNat(c)'
    BY <1>2, <2>1, NextStage, SameApplication
  <2>. QED BY <2>2
<1>. QED BY <1>4, <1>5

LEMMA StepLink ==
  ASSUME TypeOK, LinkInv, NEW a \in Appliers, Step(a)
  PROVE  LinkInv'
<1>1. \A b \in Appliers : IsActive(b)' => IsActive(b) /\ run'[b].wg = run[b].wg
  BY NextStage, SameApplication
<1>2. "main" \in routes => "main" \in routes'
  BY NextStage, Effects
<1>3. ASSUME NEW b \in Appliers, IsActive(b)', run'[b].wg
      PROVE  wgUp' /\ (DoesScript(b)' /\ Stage(b)' > 4 => "main" \in routes')
  <2>a. IsActive(b) /\ run[b].wg
    BY <1>1, <1>3
  <2>b. wgUp /\ (DoesScript(b) /\ Stage(b) > 4 => "main" \in routes)
    BY <2>a DEF LinkInv
  <2>1. wgUp'
    BY <2>b, NextStage
  <2>2. CASE b # a
    <3>1. (DoesScript(b)' <=> DoesScript(b)) /\ Stage(b)' = Stage(b)
      BY <2>2, NextStage, SameApplication
    <3>. QED BY <1>2, <2>b, <2>1, <3>1
  <2>3. CASE b = a
    <3>1. SUFFICES ASSUME DoesScript(a)', Stage(a)' > 4 PROVE "main" \in routes'
      BY <2>1, <2>3
    <3>2. DoesScript(a) /\ (Stage(a) = 4 \/ Stage(a) > 4)
      BY <1>3, <2>3, <3>1, NextStage
    <3>3. Stage(a) = 4 => "main" \in routes'
      BY <2>b, <3>2, NextStage, Effects
    <3>4. Stage(a) > 4 => "main" \in routes
      BY <2>b, <2>3, <3>2
    <3>. QED BY <1>2, <3>2, <3>3, <3>4
  <2>. QED BY <2>2, <2>3
<1>4. ASSUME applied' PROVE wgUp' /\ \A b \in Appliers : IsActive(b)' => run'[b].wg
  <2>1. CASE applied
    BY <1>1, <2>1, NextStage DEF LinkInv
  <2>2. CASE ~applied
    <3>1. IsEffective(a) /\ IsActive(a)
      BY <1>4, <2>2, NextStage
    <3>2. \A b \in Appliers : IsActive(b) => run[b].wg
      BY <3>1 DEF IsEffective
    <3>. QED BY <1>1, <3>1, <3>2, NextStage DEF LinkInv
  <2>. QED BY <2>1, <2>2
<1>. QED BY <1>3, <1>4 DEF LinkInv


\* As long as wg0 is up, whoever owes the rule of exit traffic or its table delivers,
\* or makes wg0 the default.
LEMMA StepKeepsExit ==
  ASSUME TypeOK, NEW a \in Appliers, Step(a), wgUp, "main" \notin routes'
  PROVE  (ExitKept => ExitKept') /\ (TableKept => TableKept')
<1>1. /\ ~DoesScript(a) /\ Stage(a) = 5 => rules'["exit"] # <<>>
      /\ rules'["exit"] = <<>> => rules["exit"] = <<>> \/ Stage(a) = IF DoesScript(a) THEN 1 ELSE 4
      /\ ~(DoesScript(a) /\ Stage(a) = 4)
      /\ "200" \in routes /\ "200" \notin routes' => DoesScript(a) /\ Stage(a) = 2
  BY NextStage, Effects
<1>2. ASSUME ExitKept, rules'["exit"] = <<>> PROVE \E b \in Appliers : OwesExit(b)'
  <2>1. CASE rules["exit"] # <<>>
    <3>0. Stage(a) = IF DoesScript(a) THEN 1 ELSE 4
      BY <1>1, <1>2, <2>1
    <3>1. /\ IsActive(a)' /\ (DoesScript(a)' <=> DoesScript(a))
          /\ Stage(a)' = IF DoesScript(a) THEN 2 ELSE 5
      <4>1. Stage(a) < 8
        BY <3>0
      <4>2. IsActive(a)' /\ Stage(a)' = Stage(a) + 1 /\ (DoesScript(a)' <=> DoesScript(a))
        BY <4>1, GoesOn
      <4>. QED BY <3>0, <4>2
    <3>2. OwesExit(a)'
      BY <3>1 DEF OwesExit
    <3>. QED BY <3>2
  <2>2. CASE rules["exit"] = <<>>
    <3>1. PICK c \in Appliers : OwesExit(c)
      BY <2>2, <1>2 DEF ExitKept
    <3>2. CASE c = a
      <4>0. IF DoesScript(a) THEN Stage(a) \in 2..4 ELSE Stage(a) = 5
        BY <3>1, <3>2 DEF OwesExit
      <4>1. DoesScript(a) /\ (Stage(a) = 2 \/ Stage(a) = 3)
        BY <1>1, <1>2, <4>0
      <4>b. Stage(a) < 8
        BY <4>1
      <4>c. IsActive(a)' /\ Stage(a)' = Stage(a) + 1 /\ (DoesScript(a)' <=> DoesScript(a))
        BY <4>b, GoesOn
      <4>a. IsActive(a)' /\ DoesScript(a)' /\ Stage(a)' \in 2..4
        BY <4>1, <4>c
      <4>2. OwesExit(a)'
        BY <4>a DEF OwesExit
      <4>. QED BY <4>2
    <3>3. CASE c # a
      <4>1. OwesExit(c)'
        BY <3>1, <3>3, NextStage, SameApplication
      <4>. QED BY <4>1
    <3>. QED BY <3>2, <3>3
  <2>. QED BY <2>1, <2>2
<1>3. ASSUME TableKept, "200" \notin routes' PROVE \E b \in Appliers : OwesTable(b)'
  <2>1. CASE "200" \in routes
    <3>0. DoesScript(a) /\ Stage(a) = 2
      BY <1>1, <1>3, <2>1
    <3>a. Stage(a) < 8
      BY <3>0
    <3>b. IsActive(a)' /\ Stage(a)' = Stage(a) + 1 /\ (DoesScript(a)' <=> DoesScript(a))
      BY <3>a, GoesOn
    <3>1. IsActive(a)' /\ DoesScript(a)' /\ Stage(a)' \in 3..4
      BY <3>0, <3>b
    <3>2. OwesTable(a)'
      BY <3>1 DEF OwesTable
    <3>. QED BY <3>2
  <2>2. CASE "200" \notin routes
    <3>1. PICK c \in Appliers : OwesTable(c)
      BY <2>2, <1>3 DEF TableKept
    <3>2. CASE c = a
      <4>0. DoesScript(a) /\ Stage(a) \in 3..4
        BY <3>1, <3>2 DEF OwesTable
      <4>1. DoesScript(a) /\ Stage(a) = 3
        BY <1>1, <4>0
      <4>b. Stage(a) < 8
        BY <4>1
      <4>c. IsActive(a)' /\ Stage(a)' = Stage(a) + 1 /\ (DoesScript(a)' <=> DoesScript(a))
        BY <4>b, GoesOn
      <4>a. IsActive(a)' /\ DoesScript(a)' /\ Stage(a)' \in 3..4
        BY <4>1, <4>c
      <4>2. OwesTable(a)'
        BY <4>a DEF OwesTable
      <4>. QED BY <4>2
    <3>3. CASE c # a
      <4>1. OwesTable(c)'
        BY <3>1, <3>3, NextStage, SameApplication
      <4>. QED BY <4>1
    <3>. QED BY <3>2, <3>3
  <2>. QED BY <2>1, <2>2
<1>. QED BY <1>2, <1>3 DEF ExitKept, TableKept

LEMMA StepExit ==
  ASSUME TypeOK, LinkInv, ExitInv, NEW a \in Appliers, Step(a)
  PROVE  ExitInv'
<1>1. SUFFICES ASSUME "main" \notin routes'
               PROVE  /\ applied' => rules'["exit_fwd"] = <<>> /\ ExitKept' /\ TableKept'
                      /\ \A b \in Appliers : IsActive(b)' /\ ~DoesScript(b)' /\ run'[b].wg =>
                            (Stage(b)' > 5 => ExitKept') /\ (Stage(b)' > 6 => TableKept')
  BY DEF ExitInv
<1>2. /\ "main" \notin routes
      /\ ~DoesScript(a) /\ Stage(a) = 5 => rules'["exit"] # <<>>
      /\ ~DoesScript(a) /\ Stage(a) = 6 /\ wgUp => "200" \in routes'
      /\ rules'["exit_fwd"] = rules["exit_fwd"] \/ (DoesScript(a) /\ Stage(a) \in 7..8)
  BY <1>1, NextStage, Effects
<1>3. wgUp => (ExitKept => ExitKept') /\ (TableKept => TableKept')
  BY <1>1, StepKeepsExit
<1>4. run[a].wg => wgUp /\ ~(DoesScript(a) /\ Stage(a) > 4)
  BY <1>2, NextStage DEF LinkInv
<1>5. ASSUME applied' PROVE rules'["exit_fwd"] = <<>> /\ ExitKept' /\ TableKept'
  <2>1. CASE applied
    <3>1. wgUp /\ run[a].wg
      BY <2>1, NextStage DEF LinkInv
    <3>2. rules'["exit_fwd"] = rules["exit_fwd"]
      BY <1>2, <1>4, <3>1, NextStage
    <3>. QED BY <1>2, <1>3, <2>1, <3>1, <3>2 DEF ExitInv
  <2>2. CASE ~applied
    <3>1. IsEffective(a) /\ Stage(a) = LastStage(run[a].plan)
      BY <1>5, <2>2, NextStage
    <3>2. run[a].wg /\ wgUp /\ ~DoesScript(a) /\ Stage(a) = 8
      BY <1>4, <3>1, NextStage DEF IsEffective
    <3>3. rules["exit_fwd"] = <<>>
      BY <3>1, <3>2 DEF IsEffective, DoesScript, Scripts
    <3>a. Stage(a) > 5 /\ Stage(a) > 6
      BY <3>2
    <3>b. IsActive(a)
      BY NextStage
    <3>4. ExitKept /\ TableKept
      BY <1>2, <3>2, <3>a, <3>b DEF ExitInv
    <3>. QED BY <1>2, <1>3, <3>2, <3>3, <3>4
  <2>. QED BY <2>1, <2>2
<1>6. ASSUME NEW b \in Appliers, IsActive(b)', ~DoesScript(b)', run'[b].wg
      PROVE  (Stage(b)' > 5 => ExitKept') /\ (Stage(b)' > 6 => TableKept')
  <2>1. CASE b # a
    <3>1. IsActive(b) /\ ~DoesScript(b) /\ run[b].wg /\ Stage(b)' = Stage(b)
      BY <1>6, <2>1, NextStage, SameApplication
    <3>2. wgUp
      BY <3>1 DEF LinkInv
    <3>. QED BY <1>2, <1>3, <3>1, <3>2 DEF ExitInv
  <2>2. CASE b = a
    <3>1. IsActive(a) /\ ~DoesScript(a) /\ run[a].wg /\ Stage(a)' = Stage(a) + 1
      BY <1>6, <2>2, NextStage
    <3>2. wgUp
      BY <1>4, <3>1
    <3>3. /\ Stage(a) > 5 => ExitKept
          /\ Stage(a) > 6 => TableKept
      BY <1>2, <3>1 DEF ExitInv
    <3>4. /\ Stage(a) = 5 => ExitKept'
          /\ Stage(a) = 6 => TableKept'
      BY <1>2, <3>1, <3>2 DEF ExitKept, TableKept
    <3>5. Stage(a) \in Int
      BY NextStage
    <3>. QED BY <1>3, <2>2, <3>1, <3>2, <3>3, <3>4, <3>5
  <2>. QED BY <2>1, <2>2
<1>. QED BY <1>5, <1>6

LEMMA StepAgent ==
  ASSUME TypeOK, AgentInv, NEW a \in Appliers, Step(a)
  PROVE  AgentInv'
<1>1. /\ advertised => advertised'
      /\ Advertises(a) /\ Stage(a) = (IF run[a].plan = "advertise_go" THEN 1 ELSE 0) => advertised'
  BY NextStage, Effects
<1>2. ASSUME NEW b \in Appliers, PastSet(b)' PROVE advertised'
  <2>1. CASE b # a
    BY <1>1, <1>2, <2>1, NextStage, SameApplication DEF AgentInv
  <2>2. CASE b = a
    <3>1. /\ Advertises(a) /\ IsActive(a)
          /\ Stage(a) + 1 > (IF run[a].plan = "advertise_go" THEN 1 ELSE 0)
      BY <1>2, <2>2, NextStage DEF PastSet, Advertises
    <3>2. \/ Stage(a) = (IF run[a].plan = "advertise_go" THEN 1 ELSE 0)
          \/ Stage(a) > (IF run[a].plan = "advertise_go" THEN 1 ELSE 0)
      BY <3>1, NextStage
    <3>. QED BY <1>1, <3>1, <3>2 DEF AgentInv, PastSet
  <2>. QED BY <2>1, <2>2
<1>3. ASSUME IsActive("boot")' PROVE agent' = "restoring"
  <2>0. "boot" \in Appliers
    BY DEF Appliers
  <2>1. IsActive("boot")
    BY <1>3, <2>0, NextStage, SameApplication
  <2>2. CASE a = "boot"
    BY <1>3, <2>1, <2>2, NextStage DEF AgentInv
  <2>3. CASE a # "boot"
    BY <2>1, <2>3, NextStage DEF AgentInv, Answer
  <2>. QED BY <2>2, <2>3
<1>4. ASSUME NEW h \in Handlers, IsActive(h)' PROVE Advertises(h)'
  <2>0. h \in Appliers
    BY DEF Appliers
  <2>1. CASE h # a
    BY <1>4, <2>0, <2>1, NextStage, SameApplication DEF AgentInv
  <2>2. CASE h = a
    BY <1>4, <2>2, NextStage DEF AgentInv, Advertises
  <2>. QED BY <2>1, <2>2
<1>5. ASSUME flow' \in {"ready", "booting"} PROVE advertised'
  <2>1. CASE flow' = flow
    BY <1>1, <1>5, <2>1 DEF AgentInv, ReadyAdvertised
  <2>2. CASE flow' # flow
    <3>1. a \in Handlers /\ Stage(a) = LastStage(run[a].plan)
      BY <2>2, NextStage DEF Answer
    <3>2. PastSet(a)
      BY <3>1, NextStage DEF PastSet, AgentInv
    <3>. QED BY <1>1, <3>2 DEF AgentInv
  <2>. QED BY <2>1, <2>2
<1>. QED BY <1>2, <1>3, <1>4, <1>5 DEF AgentInv, ReadyAdvertised

LEMMA StepTypes ==
  ASSUME TypeOK, NEW a \in Appliers, Step(a)
  PROVE  TypeOK'
<1>1. /\ rules' \in [Prefs -> Seq(Tables)] /\ \A p \in Prefs : IsInjective(rules'[p])
      /\ routes' \subseteq Tables /\ nat' \in BOOLEAN /\ advertised' \in BOOLEAN
  BY NextStage, Effects
<1>2. UNCHANGED <<lang, script, wgUp, tsUp, calls, reboots, kills>>
  BY DEF Step, bounds
<1>3. /\ agent' \in {"down", "restoring", "serving"}
      /\ flow' \in {"finalize", "advertising", "fallback", "ready", "error", "booting"}
      /\ applied' \in BOOLEAN
  BY NextStage DEF TypeOK, Answer, IsEffective
<1>4. \A b \in Appliers : run'[b].at <= Len(Plans[run'[b].plan])
  <2>1. \A b \in Appliers : b # a => run'[b].at <= Len(Plans[run'[b].plan])
    BY NextStage DEF TypeOK
  <2>2. CASE Stage(a) < LastStage(run[a].plan)
    <3>1. run[a].at < Len(Plans[run[a].plan]) /\ run[a].at \in Nat /\ run[a].plan \in DOMAIN Plans
      BY <2>2, NextStage, ActiveText
    <3>2. Len(Plans[run[a].plan]) \in Nat
      BY <3>1, PlanText DEF LastStage
    <3>3. run'[a].at <= Len(Plans[run'[a].plan])
      BY <2>2, <3>1, <3>2, NextStage
    <3>. QED BY <2>1, <3>3
  <2>3. CASE ~(Stage(a) < LastStage(run[a].plan))
    <3>1. run'[a].at = 0 /\ run'[a].plan = "agent"
      BY <2>3, NextStage DEF Idle
    <3>2. Len(Plans.agent) = 8
      BY AgentText DEF Plans
    <3>. QED BY <2>1, <3>1, <3>2
  <2>. QED BY <2>2, <2>3
<1>5. run' \in [Appliers -> [plan : DOMAIN Plans, at : Nat, wg : BOOLEAN]]
  <2>1. run \in [Appliers -> [plan : DOMAIN Plans, at : Nat, wg : BOOLEAN]]
    BY DEF TypeOK
  <2>2. Idle \in [plan : DOMAIN Plans, at : Nat, wg : BOOLEAN]
    BY DEF Idle, Plans
  <2>3. run' = [run EXCEPT ![a].at = @ + 1] \/ run' = [run EXCEPT ![a] = Idle]
    BY DEF Step
  <2>. QED BY <2>1, <2>2, <2>3
<1>. QED BY <1>1, <1>2, <1>3, <1>4, <1>5 DEF TypeOK

LEMMA StepKeeps ==
  ASSUME IInv, NEW a \in Appliers, Step(a)
  PROVE  IInv'
<1>1. TypeOK' /\ AgentInv' /\ LinkInv'
  BY StepTypes, StepAgent, StepLink DEF IInv
<1>2. kills' = 0 => OwnInv' /\ NatInv' /\ ExitInv'
  BY NextStage, StepOwn, StepNat, StepExit DEF IInv
<1>. QED BY <1>1, <1>2 DEF IInv

-----------------------------------------------------------------------------
(* An application that ends half-way *)

Ends(a) == run' = [run EXCEPT ![a] = Idle]

LEMMA EndStage ==
  ASSUME TypeOK, NEW a \in Appliers, Ends(a)
  PROVE  /\ ~IsActive(a)'
         /\ \A b \in Appliers : b # a => run'[b] = run[b]
         /\ \A b \in Appliers : IsActive(b)' => b # a
<1>1. run \in [Appliers -> [plan : DOMAIN Plans, at : Nat, wg : BOOLEAN]]
  BY DEF TypeOK
<1>2. run'[a] = Idle /\ \A b \in Appliers : b # a => run'[b] = run[b]
  BY <1>1 DEF Ends
<1>3. ~IsActive(a)'
  BY <1>2 DEF IsActive, Idle
<1>. QED BY <1>2, <1>3

\* What it leaves of the rest of the invariant, whatever it leaves undone.
LEMMA EndKeeps ==
  ASSUME TypeOK, AgentInv, LinkInv, NEW a \in Appliers, Ends(a),
         UNCHANGED <<wgUp, vm, applied>>,
         agent' = IF a = "boot" THEN "serving" ELSE agent,
         flow' = flow \/ flow' = "fallback"
  PROVE  AgentInv' /\ LinkInv'
<1>0. UNCHANGED <<rules, routes, nat, advertised>>
  BY DEF vm
<1>1. \A b \in Appliers : IsActive(b)' =>
         /\ b # a /\ IsActive(b) /\ run'[b] = run[b]
         /\ (PastSet(b)' <=> PastSet(b)) /\ (Advertises(b)' <=> Advertises(b))
         /\ (DoesScript(b)' <=> DoesScript(b)) /\ Stage(b)' = Stage(b)
  BY EndStage, SameApplication
<1>2. \A b \in Appliers : PastSet(b)' => IsActive(b)'
  BY DEF PastSet
<1>3. \A b \in Appliers : PastSet(b)' => advertised'
  BY <1>0, <1>1, <1>2 DEF AgentInv
<1>4. IsActive("boot")' => agent' = "restoring"
  <2>1. "boot" \in Appliers
    BY DEF Appliers
  <2>. QED BY <1>1, <2>1 DEF AgentInv
<1>5. \A h \in Handlers : IsActive(h)' => Advertises(h)'
  <2>1. \A h \in Handlers : h \in Appliers
    BY DEF Appliers
  <2>. QED BY <1>1, <2>1 DEF AgentInv
<1>6. flow' \in {"ready", "booting"} => advertised'
  BY <1>0 DEF AgentInv, ReadyAdvertised
<1>7. \A b \in Appliers : IsActive(b)' /\ run'[b].wg =>
         wgUp' /\ (DoesScript(b)' /\ Stage(b)' > 4 => "main" \in routes')
  BY <1>0, <1>1 DEF LinkInv
<1>8. applied' => wgUp' /\ \A b \in Appliers : IsActive(b)' => run'[b].wg
  BY <1>0, <1>1 DEF LinkInv
<1>. QED BY <1>3, <1>4, <1>5, <1>6, <1>7, <1>8 DEF AgentInv, LinkInv, ReadyAdvertised

\* One that was refused owes nothing that is missing.
LEMMA RefusedKeeps ==
  ASSUME TypeOK, OwnInv, NatInv, ExitInv, NEW a \in Appliers, IsActive(a), IsRefused(a),
         Ends(a), UNCHANGED <<vm, applied>>
  PROVE  OwnInv' /\ NatInv' /\ ExitInv'
<1>0. UNCHANGED <<rules, routes, nat, advertised>> /\ applied' = applied
  BY DEF vm
<1>1. /\ AtAddOwn(a) => rules["own"] # <<>>
      /\ OwesExit(a) => rules["exit"] # <<>>
      /\ ~OwesTable(a) /\ ~AtNat(a)
  BY RefusedOwesNothing
<1>2. \A b \in Appliers : b # a =>
         /\ (IsActive(b)' <=> IsActive(b)) /\ (PastAddOwn(b)' <=> PastAddOwn(b))
         /\ (AtAddOwn(b)' <=> AtAddOwn(b)) /\ (AtNat(b)' <=> AtNat(b))
         /\ (OwesExit(b)' <=> OwesExit(b)) /\ (OwesTable(b)' <=> OwesTable(b))
         /\ (DoesScript(b)' <=> DoesScript(b)) /\ Stage(b)' = Stage(b) /\ run'[b] = run[b]
  BY EndStage, SameApplication
<1>3. ~IsActive(a)' /\ ~PastAddOwn(a)'
  BY EndStage DEF PastAddOwn
<1>4. OwnInv'
  <2>1. SUFFICES ASSUME applied' \/ (\E b \in Appliers : PastAddOwn(b)'), rules'["own"] = <<>>
                 PROVE  \E b \in Appliers : AtAddOwn(b)'
    BY DEF OwnInv
  <2>2. applied \/ \E b \in Appliers : PastAddOwn(b)
    BY <1>0, <1>2, <1>3, <2>1
  <2>3. PICK c \in Appliers : AtAddOwn(c)
    BY <1>0, <2>1, <2>2 DEF OwnInv
  <2>4. c # a
    BY <1>0, <1>1, <2>1, <2>3
  <2>. QED BY <1>2, <2>3, <2>4
<1>5. NatInv'
  <2>1. SUFFICES ASSUME applied', ~nat' PROVE \E b \in Appliers : AtNat(b)'
    BY DEF NatInv
  <2>2. PICK c \in Appliers : AtNat(c)
    BY <1>0, <2>1 DEF NatInv
  <2>. QED BY <1>1, <1>2, <2>2
<1>6. ExitKept => ExitKept'
  <2>1. SUFFICES ASSUME ExitKept, rules'["exit"] = <<>> PROVE \E b \in Appliers : OwesExit(b)'
    BY DEF ExitKept
  <2>2. PICK c \in Appliers : OwesExit(c)
    BY <1>0, <2>1 DEF ExitKept
  <2>3. c # a
    BY <1>0, <1>1, <2>1, <2>2
  <2>. QED BY <1>2, <2>2, <2>3
<1>7. TableKept => TableKept'
  <2>1. SUFFICES ASSUME TableKept, "200" \notin routes' PROVE \E b \in Appliers : OwesTable(b)'
    BY DEF TableKept
  <2>2. PICK c \in Appliers : OwesTable(c)
    BY <1>0, <2>1 DEF TableKept
  <2>3. c # a
    BY <1>1, <2>2
  <2>. QED BY <1>2, <2>2, <2>3
<1>8. ExitInv'
  <2>1. SUFFICES ASSUME "main" \notin routes'
                 PROVE  /\ applied' => rules'["exit_fwd"] = <<>> /\ ExitKept' /\ TableKept'
                        /\ \A b \in Appliers : IsActive(b)' /\ ~DoesScript(b)' /\ run'[b].wg =>
                              (Stage(b)' > 5 => ExitKept') /\ (Stage(b)' > 6 => TableKept')
    BY DEF ExitInv
  <2>2. applied' => rules'["exit_fwd"] = <<>> /\ ExitKept' /\ TableKept'
    BY <1>0, <1>6, <1>7, <2>1 DEF ExitInv
  <2>3. ASSUME NEW b \in Appliers, IsActive(b)', ~DoesScript(b)', run'[b].wg
        PROVE  (Stage(b)' > 5 => ExitKept') /\ (Stage(b)' > 6 => TableKept')
    <3>1. IsActive(b) /\ ~DoesScript(b) /\ run[b].wg /\ Stage(b)' = Stage(b)
      BY <1>2, <1>3, <2>3
    <3>2. (Stage(b) > 5 => ExitKept) /\ (Stage(b) > 6 => TableKept)
      BY <1>0, <2>1, <3>1 DEF ExitInv
    <3>. QED BY <1>6, <1>7, <3>1, <3>2
  <2>. QED BY <2>2, <2>3
<1>. QED BY <1>4, <1>5, <1>8

LEMMA EndTypes ==
  ASSUME TypeOK, NEW a \in Appliers, Ends(a)
  PROVE  /\ run' \in [Appliers -> [plan : DOMAIN Plans, at : Nat, wg : BOOLEAN]]
         /\ \A b \in Appliers : run'[b].at <= Len(Plans[run'[b].plan])
<1>1. /\ run \in [Appliers -> [plan : DOMAIN Plans, at : Nat, wg : BOOLEAN]]
      /\ \A b \in Appliers : run[b].at <= Len(Plans[run[b].plan])
  BY DEF TypeOK
<1>2. Idle \in [plan : DOMAIN Plans, at : Nat, wg : BOOLEAN] /\ Idle.at = 0 /\ Idle.plan = "agent"
  BY DEF Idle, Plans
<1>3. Len(Plans.agent) = 8
  BY AgentText DEF Plans
<1>4. run'[a] = Idle /\ \A b \in Appliers : b # a => run'[b] = run[b]
  BY <1>1 DEF Ends
<1>5. run' \in [Appliers -> [plan : DOMAIN Plans, at : Nat, wg : BOOLEAN]]
  BY <1>1, <1>2 DEF Ends
<1>6. \A b \in Appliers : run'[b].at <= Len(Plans[run'[b].plan])
  BY <1>1, <1>2, <1>3, <1>4
<1>. QED BY <1>5, <1>6

LEMMA AbortKeeps ==
  ASSUME IInv, NEW a \in Appliers, Abort(a)
  PROVE  IInv'
<1>1. TypeOK /\ AgentInv /\ LinkInv
  BY DEF IInv
<1>2. /\ IsActive(a) /\ IsRefused(a) /\ Ends(a)
      /\ UNCHANGED <<lang, script, wgUp, tsUp, vm, applied, bounds>>
      /\ agent' = IF a = "boot" THEN "serving" ELSE agent
      /\ flow' = flow \/ flow' = "fallback"
  BY DEF Abort, Answer, Ends
<1>3. AgentInv' /\ LinkInv'
  BY <1>1, <1>2, EndKeeps
<1>4. kills' = 0 => OwnInv' /\ NatInv' /\ ExitInv'
  BY <1>1, <1>2, RefusedKeeps DEF IInv, bounds
<1>5. TypeOK'
  BY <1>1, <1>2, EndTypes DEF TypeOK, vm, bounds
<1>. QED BY <1>3, <1>4, <1>5 DEF IInv

LEMMA KilledKeeps ==
  ASSUME IInv, NEW a \in Appliers, Killed(a)
  PROVE  IInv'
<1>1. TypeOK /\ AgentInv /\ LinkInv
  BY DEF IInv
<1>2. /\ Ends(a) /\ reboots + kills < MaxFaults /\ kills' = kills + 1
      /\ UNCHANGED <<lang, script, wgUp, tsUp, vm, applied, calls, reboots>>
      /\ agent' = IF a = "boot" THEN "serving" ELSE agent
      /\ flow' = flow \/ flow' = "fallback"
  BY DEF Killed, Answer, Ends
<1>3. AgentInv' /\ LinkInv'
  BY <1>1, <1>2, EndKeeps
<1>4. /\ kills' \in Nat /\ kills' # 0 /\ reboots' \in Nat /\ reboots' + kills' <= MaxFaults
  BY <1>1, <1>2, BoundsAssumption DEF TypeOK
<1>5. TypeOK'
  BY <1>1, <1>2, <1>4, EndTypes DEF TypeOK, vm
<1>. QED BY <1>3, <1>4, <1>5 DEF IInv

-----------------------------------------------------------------------------
(* An application that starts, and everything that starts none *)

Starts(a, plan) == run' = [run EXCEPT ![a] = [plan |-> plan, at |-> 1, wg |-> wgUp]]

\* It has done nothing yet, and owes nothing.
LEMMA StartStage ==
  ASSUME TypeOK, NEW a \in Appliers, NEW plan \in DOMAIN Plans, Starts(a, plan)
  PROVE  /\ run' \in [Appliers -> [plan : DOMAIN Plans, at : Nat, wg : BOOLEAN]]
         /\ \A b \in Appliers : run'[b].at <= Len(Plans[run'[b].plan])
         /\ \A b \in Appliers : b # a => run'[b] = run[b]
         /\ run'[a].plan = plan /\ run'[a].wg = wgUp
         /\ Stage(a)' \in {-1, 1} /\ ~PastAddOwn(a)' /\ ~PastSet(a)'
<1>1. /\ run \in [Appliers -> [plan : DOMAIN Plans, at : Nat, wg : BOOLEAN]]
      /\ \A b \in Appliers : run[b].at <= Len(Plans[run[b].plan])
      /\ wgUp \in BOOLEAN
  BY DEF TypeOK
<1>. DEFINE new == [plan |-> plan, at |-> 1, wg |-> wgUp]
<1>2. new \in [plan : DOMAIN Plans, at : Nat, wg : BOOLEAN]
  BY <1>1
<1>3. new.plan = plan /\ new.at = 1 /\ new.wg = wgUp
  OBVIOUS
<1>4. run' = [run EXCEPT ![a] = new]
  BY DEF Starts
<1>. HIDE DEF new
<1>5. /\ run' \in [Appliers -> [plan : DOMAIN Plans, at : Nat, wg : BOOLEAN]]
      /\ run'[a] = new /\ \A b \in Appliers : b # a => run'[b] = run[b]
  BY <1>1, <1>2, <1>4
<1>6. Len(Plans[plan]) >= 1 /\ Base[plan] \in {0, 2}
  BY PlanText DEF LastStage
<1>7. \A b \in Appliers : run'[b].at <= Len(Plans[run'[b].plan])
  BY <1>1, <1>3, <1>5, <1>6
<1>8. Stage(a)' = 1 - Base[plan]
  BY <1>3, <1>5 DEF Stage
<1>9. Stage(a)' \in {-1, 1} /\ ~PastAddOwn(a)'
  BY <1>6, <1>8 DEF PastAddOwn
<1>10. ~PastSet(a)'
  <2>1. CASE plan = "advertise_go"
    BY <1>3, <1>5, <1>9, <2>1 DEF PastSet
  <2>2. CASE plan \in {"advertise_agent", "advertise_script"}
    <3>1. Base[plan] = 2
      BY <2>2 DEF Base
    <3>2. Stage(a)' = -1
      BY <1>8, <3>1
    <3>. QED BY <1>3, <1>5, <2>2, <3>2 DEF PastSet
  <2>3. CASE plan \notin {"advertise_agent", "advertise_script", "advertise_go"}
    <3>1. ~Advertises(a)'
      BY <1>3, <1>5, <2>3 DEF Advertises
    <3>. QED BY <3>1 DEF PastSet
  <2>. QED BY <2>1, <2>2, <2>3
<1>. QED BY <1>3, <1>5, <1>7, <1>9, <1>10

LEMMA StartKeeps ==
  ASSUME AgentInv, LinkInv, TypeOK, NEW a \in Appliers, NEW plan \in DOMAIN Plans, ~IsActive(a),
         Starts(a, plan), UNCHANGED <<wgUp, vm, applied, kills>>,
         kills = 0 => OwnInv /\ NatInv /\ ExitInv,
         a = "boot" => agent' = "restoring",
         a # "boot" => agent' = agent,
         a \in Handlers => plan \in {"advertise_agent", "advertise_script", "advertise_go"},
         flow' \in {"ready", "booting"} => flow \in {"ready", "booting"}
  PROVE  AgentInv' /\ LinkInv' /\ (kills' = 0 => OwnInv' /\ NatInv' /\ ExitInv')
<1>0. UNCHANGED <<rules, routes, nat, advertised, wgUp, applied, kills>>
  BY DEF vm
<1>1. \A b \in Appliers : b # a =>
         /\ (IsActive(b)' <=> IsActive(b)) /\ run'[b] = run[b]
         /\ (PastSet(b)' <=> PastSet(b)) /\ (Advertises(b)' <=> Advertises(b))
         /\ (PastAddOwn(b)' <=> PastAddOwn(b))
         /\ (AtAddOwn(b)' <=> AtAddOwn(b)) /\ (AtNat(b)' <=> AtNat(b))
         /\ (OwesExit(b)' <=> OwesExit(b)) /\ (OwesTable(b)' <=> OwesTable(b))
         /\ (DoesScript(b)' <=> DoesScript(b)) /\ Stage(b)' = Stage(b)
  BY StartStage, SameApplication
<1>2. /\ run'[a].plan = plan /\ run'[a].wg = wgUp
      /\ Stage(a)' \in {-1, 1} /\ ~PastAddOwn(a)' /\ ~PastSet(a)'
  BY StartStage
<1>3. ~AtAddOwn(a) /\ ~AtNat(a) /\ ~OwesExit(a) /\ ~OwesTable(a)
  BY DEF AtAddOwn, AtNat, OwesExit, OwesTable
<1>4. AgentInv'
  <2>1. \A b \in Appliers : PastSet(b)' => advertised'
    BY <1>0, <1>1, <1>2 DEF AgentInv
  <2>2. IsActive("boot")' => agent' = "restoring"
    <3>1. "boot" \in Appliers
      BY DEF Appliers
    <3>. QED BY <1>1, <3>1 DEF AgentInv
  <2>3. \A h \in Handlers : IsActive(h)' => Advertises(h)'
    <3>1. \A h \in Handlers : h \in Appliers
      BY DEF Appliers
    <3>2. a \in Handlers => Advertises(a)'
      BY <1>2 DEF Advertises
    <3>. QED BY <1>1, <3>1, <3>2 DEF AgentInv
  <2>4. flow' \in {"ready", "booting"} => advertised'
    BY <1>0 DEF AgentInv, ReadyAdvertised
  <2>. QED BY <2>1, <2>2, <2>3, <2>4 DEF AgentInv, ReadyAdvertised
<1>5. LinkInv'
  <2>1. \A b \in Appliers : IsActive(b)' /\ run'[b].wg =>
           wgUp' /\ (DoesScript(b)' /\ Stage(b)' > 4 => "main" \in routes')
    BY <1>0, <1>1, <1>2 DEF LinkInv
  <2>2. ASSUME applied' PROVE wgUp' /\ \A b \in Appliers : IsActive(b)' => run'[b].wg
    <3>1. wgUp /\ \A b \in Appliers : IsActive(b) => run[b].wg
      BY <1>0, <2>2 DEF LinkInv
    <3>2. run'[a].wg
      BY <1>2, <3>1
    <3>3. \A b \in Appliers : b # a /\ IsActive(b)' => run'[b].wg
      BY <1>1, <3>1
    <3>. QED BY <1>0, <3>1, <3>2, <3>3
  <2>. QED BY <2>1, <2>2 DEF LinkInv
<1>6. ASSUME OwnInv PROVE OwnInv'
  <2>1. SUFFICES ASSUME applied' \/ (\E b \in Appliers : PastAddOwn(b)'), rules'["own"] = <<>>
                 PROVE  \E b \in Appliers : AtAddOwn(b)'
    BY DEF OwnInv
  <2>2. applied \/ \E b \in Appliers : PastAddOwn(b)
    BY <1>0, <1>1, <1>2, <2>1
  <2>3. PICK c \in Appliers : AtAddOwn(c)
    BY <1>0, <1>6, <2>1, <2>2 DEF OwnInv
  <2>. QED BY <1>1, <1>3, <2>3
<1>7. ASSUME NatInv PROVE NatInv'
  <2>1. SUFFICES ASSUME applied', ~nat' PROVE \E b \in Appliers : AtNat(b)'
    BY DEF NatInv
  <2>2. PICK c \in Appliers : AtNat(c)
    BY <1>0, <1>7, <2>1 DEF NatInv
  <2>. QED BY <1>1, <1>3, <2>2
<1>8. ASSUME ExitInv PROVE ExitInv'
  <2>1. (ExitKept => ExitKept') /\ (TableKept => TableKept')
    BY <1>0, <1>1, <1>3 DEF ExitKept, TableKept
  <2>2. SUFFICES ASSUME "main" \notin routes'
                 PROVE  /\ applied' => rules'["exit_fwd"] = <<>> /\ ExitKept' /\ TableKept'
                        /\ \A b \in Appliers : IsActive(b)' /\ ~DoesScript(b)' /\ run'[b].wg =>
                              (Stage(b)' > 5 => ExitKept') /\ (Stage(b)' > 6 => TableKept')
    BY DEF ExitInv
  <2>3. applied' => rules'["exit_fwd"] = <<>> /\ ExitKept' /\ TableKept'
    BY <1>0, <1>8, <2>1, <2>2 DEF ExitInv
  <2>4. ASSUME NEW b \in Appliers, IsActive(b)', ~DoesScript(b)', run'[b].wg
        PROVE  (Stage(b)' > 5 => ExitKept') /\ (Stage(b)' > 6 => TableKept')
    <3>1. CASE b = a
      BY <1>2, <3>1
    <3>2. CASE b # a
      <4>1. IsActive(b) /\ ~DoesScript(b) /\ run[b].wg /\ Stage(b)' = Stage(b)
        BY <1>1, <2>4, <3>2
      <4>2. (Stage(b) > 5 => ExitKept) /\ (Stage(b) > 6 => TableKept)
        BY <1>0, <1>8, <2>2, <4>1 DEF ExitInv
      <4>. QED BY <2>1, <4>1, <4>2
    <3>. QED BY <3>1, <3>2
  <2>. QED BY <2>3, <2>4
<1>. QED BY <1>0, <1>4, <1>5, <1>6, <1>7, <1>8

\* The VM restarts: nothing is there, and nobody owes anything.
LEMMA BootKeeps ==
  ASSUME IInv, Boot, flow' \in {"ready", "booting"} => flow \in {"ready", "booting"},
         flow' \in {"finalize", "advertising", "fallback", "ready", "error", "booting"}
  PROVE  IInv'
<1>1. TypeOK /\ AgentInv
  BY DEF IInv
<1>2. /\ rules' = [p \in Prefs |-> <<>>] /\ routes' = {} /\ nat' = FALSE
      /\ wgUp' = FALSE /\ tsUp' = FALSE /\ run' = [a \in Appliers |-> Idle]
      /\ agent' = "down" /\ applied' = FALSE /\ reboots' = reboots + 1
      /\ reboots + kills < MaxFaults
      /\ UNCHANGED <<lang, script, advertised, calls, kills>>
  BY DEF Boot
<1>3. Idle \in [plan : DOMAIN Plans, at : Nat, wg : BOOLEAN] /\ Idle.at = 0 /\ Idle.plan = "agent"
  BY DEF Idle, Plans
<1>4. Len(Plans.agent) = 8
  BY AgentText DEF Plans
<1>5. \A b \in Appliers : run'[b] = Idle /\ ~IsActive(b)'
  BY <1>2, <1>3 DEF IsActive
<1>6. TypeOK'
  <2>1. rules' \in [Prefs -> Seq(Tables)] /\ \A p \in Prefs : IsInjective(rules'[p])
    <3>1. <<>> \in Seq(Tables) /\ IsInjective(<<>>)
      BY DEF IsInjective
    <3>. QED BY <1>2, <3>1
  <2>2. /\ run' \in [Appliers -> [plan : DOMAIN Plans, at : Nat, wg : BOOLEAN]]
        /\ \A b \in Appliers : run'[b].at <= Len(Plans[run'[b].plan])
    <3>. DEFINE all == [plan : DOMAIN Plans, at : Nat, wg : BOOLEAN]
    <3>1. Idle \in all
      BY <1>3
    <3>. HIDE DEF all
    <3>2. run' \in [Appliers -> all]
      BY <1>2, <3>1
    <3>3. \A b \in Appliers : run'[b].at = 0 /\ run'[b].plan = "agent"
      BY <1>3, <1>5
    <3>4. \A b \in Appliers : run'[b].at <= Len(Plans[run'[b].plan])
      BY <1>4, <3>3
    <3>. QED BY <3>2, <3>4 DEF all
  <2>3. reboots' \in Nat /\ kills' \in Nat /\ reboots' + kills' <= MaxFaults
    BY <1>1, <1>2, BoundsAssumption DEF TypeOK
  <2>. QED BY <1>1, <1>2, <2>1, <2>2, <2>3 DEF TypeOK
<1>7. AgentInv'
  <2>1. \A b \in Appliers : ~IsActive(b)' /\ ~PastSet(b)'
    BY <1>5 DEF PastSet
  <2>2. "boot" \in Appliers /\ \A h \in Handlers : h \in Appliers
    BY DEF Appliers
  <2>3. flow' \in {"ready", "booting"} => advertised'
    BY <1>1, <1>2 DEF AgentInv, ReadyAdvertised
  <2>. QED BY <2>1, <2>2, <2>3 DEF AgentInv, ReadyAdvertised
<1>8. LinkInv' /\ OwnInv' /\ NatInv' /\ ExitInv'
  <2>1. \A b \in Appliers : ~IsActive(b)' /\ ~PastAddOwn(b)'
    BY <1>5 DEF PastAddOwn
  <2>2. LinkInv'
    BY <1>2, <2>1 DEF LinkInv
  <2>3. OwnInv' /\ NatInv'
    BY <1>2, <2>1 DEF OwnInv, NatInv
  <2>4. ExitInv'
    BY <1>2, <2>1 DEF ExitInv
  <2>. QED BY <2>2, <2>3, <2>4
<1>. QED BY <1>6, <1>7, <1>8 DEF IInv

\* Steps that run no command: links come up, preferences are set.
LEMMA OtherKeeps ==
  ASSUME AgentInv, LinkInv, kills = 0 => OwnInv /\ NatInv /\ ExitInv,
         UNCHANGED <<rules, routes, nat, run, applied, kills>>,
         wgUp => wgUp', advertised => advertised',
         agent' = agent \/ agent = "down",
         flow' \in {"ready", "booting"} => advertised'
  PROVE  AgentInv' /\ LinkInv' /\ (kills' = 0 => OwnInv' /\ NatInv' /\ ExitInv')
<1>1. /\ \A b : /\ (IsActive(b)' <=> IsActive(b)) /\ (PastSet(b)' <=> PastSet(b))
                /\ (Advertises(b)' <=> Advertises(b)) /\ (PastAddOwn(b)' <=> PastAddOwn(b))
                /\ (AtAddOwn(b)' <=> AtAddOwn(b)) /\ (AtNat(b)' <=> AtNat(b))
                /\ (OwesExit(b)' <=> OwesExit(b)) /\ (OwesTable(b)' <=> OwesTable(b))
                /\ (DoesScript(b)' <=> DoesScript(b)) /\ Stage(b)' = Stage(b)
  BY SameApplication
<1>2. AgentInv'
  BY <1>1 DEF AgentInv, ReadyAdvertised
<1>3. LinkInv'
  BY <1>1 DEF LinkInv
<1>4. (OwnInv => OwnInv') /\ (NatInv => NatInv')
  BY <1>1 DEF OwnInv, NatInv
<1>5. (ExitKept' <=> ExitKept) /\ (TableKept' <=> TableKept)
  BY <1>1 DEF ExitKept, TableKept
<1>6. ExitInv => ExitInv'
  BY <1>1, <1>5 DEF ExitInv
<1>. QED BY <1>2, <1>3, <1>4, <1>6

-----------------------------------------------------------------------------
(* The invariant is inductive *)

LEMMA StartTypes ==
  ASSUME TypeOK, NEW a \in Appliers, NEW plan \in DOMAIN Plans, Starts(a, plan),
         UNCHANGED <<lang, script, wgUp, tsUp, vm, applied, reboots, kills>>,
         calls' \in 0..MaxCalls,
         agent' = agent \/ agent' = "restoring",
         flow' = flow \/ flow' \in {"advertising", "ready"}
  PROVE  TypeOK'
<1>1. /\ run' \in [Appliers -> [plan : DOMAIN Plans, at : Nat, wg : BOOLEAN]]
      /\ \A b \in Appliers : run'[b].at <= Len(Plans[run'[b].plan])
  BY StartStage
<1>. QED BY <1>1 DEF TypeOK, vm

\* What the guards of the actions that start an application give.
LEMMA StartCases ==
  ASSUME IInv, NEW a \in Appliers, NEW plan \in DOMAIN Plans, ~IsActive(a), Start(a, plan),
         UNCHANGED <<lang, script, wgUp, tsUp, vm, applied, reboots, kills>>,
         calls' \in 0..MaxCalls,
         IF a = "boot" THEN agent' = "restoring" ELSE agent' = agent,
         a \in Handlers => plan \in {"advertise_agent", "advertise_script", "advertise_go"},
         \/ flow' = flow
         \/ flow' = "advertising"
         \/ flow = "booting" /\ flow' = "ready"
  PROVE  IInv'
<1>1. TypeOK /\ AgentInv /\ LinkInv /\ (kills = 0 => OwnInv /\ NatInv /\ ExitInv)
  BY DEF IInv
<1>2. Starts(a, plan)
  BY DEF Start, Starts
<1>3. TypeOK'
  BY <1>1, <1>2, StartTypes
<1>4. flow' \in {"ready", "booting"} => flow \in {"ready", "booting"}
  OBVIOUS
<1>5. AgentInv' /\ LinkInv' /\ (kills' = 0 => OwnInv' /\ NatInv' /\ ExitInv')
  BY <1>1, <1>2, <1>4, StartKeeps
<1>. QED BY <1>3, <1>5 DEF IInv

LEMMA InitInv == Init => IInv
<1>. SUFFICES ASSUME Init PROVE IInv
  OBVIOUS
<1>1. Idle \in [plan : DOMAIN Plans, at : Nat, wg : BOOLEAN] /\ Idle.at = 0 /\ Idle.plan = "agent"
  BY DEF Idle, Plans
<1>2. Len(Plans.agent) = 8
  BY AgentText DEF Plans
<1>3. \A b \in Appliers : run[b] = Idle /\ ~IsActive(b)
  BY <1>1 DEF Init, IsActive
<1>4. TypeOK
  <2>1. rules \in [Prefs -> Seq(Tables)] /\ \A p \in Prefs : IsInjective(rules[p])
    <3>1. <<>> \in Seq(Tables) /\ IsInjective(<<>>)
      BY DEF IsInjective
    <3>. QED BY <3>1 DEF Init
  <2>2. /\ run \in [Appliers -> [plan : DOMAIN Plans, at : Nat, wg : BOOLEAN]]
        /\ \A b \in Appliers : run[b].at <= Len(Plans[run[b].plan])
    <3>. DEFINE all == [plan : DOMAIN Plans, at : Nat, wg : BOOLEAN]
    <3>1. Idle \in all
      BY <1>1
    <3>. HIDE DEF all
    <3>2. run \in [Appliers -> all]
      BY <3>1 DEF Init
    <3>3. \A b \in Appliers : run[b].at = 0 /\ run[b].plan = "agent"
      BY <1>1, <1>3
    <3>4. \A b \in Appliers : run[b].at <= Len(Plans[run[b].plan])
      BY <1>2, <3>3
    <3>. QED BY <3>2, <3>4 DEF all
  <2>3. calls \in 0..MaxCalls /\ reboots \in Nat /\ kills \in Nat /\ reboots + kills <= MaxFaults
    BY BoundsAssumption DEF Init
  <2>4. /\ lang \in {"go", "python"} /\ script \in BOOLEAN
        /\ wgUp \in BOOLEAN /\ tsUp \in BOOLEAN /\ advertised \in BOOLEAN
        /\ routes \subseteq Tables /\ nat \in BOOLEAN
        /\ agent \in {"down", "restoring", "serving"}
        /\ flow \in {"finalize", "advertising", "fallback", "ready", "error", "booting"}
        /\ applied \in BOOLEAN
    BY DEF Init
  <2>. QED BY <2>1, <2>2, <2>3, <2>4 DEF TypeOK
<1>5. \A b \in Appliers : ~IsActive(b) /\ ~PastSet(b) /\ ~PastAddOwn(b)
  BY <1>3 DEF PastSet, PastAddOwn
<1>6. AgentInv
  <2>1. "boot" \in Appliers /\ \A h \in Handlers : h \in Appliers
    BY DEF Appliers
  <2>. QED BY <1>5, <2>1 DEF Init, AgentInv, ReadyAdvertised
<1>7. LinkInv /\ OwnInv /\ NatInv /\ ExitInv
  BY <1>5 DEF Init, LinkInv, OwnInv, NatInv, ExitInv
<1>. QED BY <1>4, <1>6, <1>7 DEF IInv

LEMMA NextKeeps == IInv /\ [Next]_vars => IInv'
<1>. SUFFICES ASSUME IInv, [Next]_vars PROVE IInv'
  OBVIOUS
<1>0. /\ TypeOK /\ AgentInv /\ LinkInv /\ (kills = 0 => OwnInv /\ NatInv /\ ExitInv)
      /\ ReadyAdvertised
      /\ {"boot", "daemon", "exec"} \subseteq Appliers /\ Handlers \subseteq Appliers
      /\ \A h \in Handlers : h \notin {"boot", "daemon", "exec"}
  BY HandlersAssumption DEF IInv, AgentInv, Appliers
<1>p. /\ {"script", "advertise_script", "advertise_agent", "advertise_go"} \subseteq DOMAIN Plans
      /\ ForwardingPlan \in DOMAIN Plans /\ AdvertisePlan \in DOMAIN Plans
      /\ AdvertisePlan \in {"advertise_agent", "advertise_script", "advertise_go"}
  BY DEF ForwardingPlan, AdvertisePlan, Plans
<1>1. ASSUME NEW a \in Appliers, Step(a) PROVE IInv'
  BY <1>1, StepKeeps
<1>2. ASSUME NEW a \in Appliers, Abort(a) PROVE IInv'
  BY <1>2, AbortKeeps
<1>3. ASSUME NEW a \in Appliers, Killed(a) PROVE IInv'
  BY <1>3, KilledKeeps
<1>4. CASE Tick
  <2>1. /\ ~IsActive("daemon") /\ Start("daemon", "script") /\ agent' = agent /\ flow' = flow
        /\ UNCHANGED <<lang, script, wgUp, tsUp, vm, applied, reboots, kills>>
        /\ calls' \in 0..MaxCalls
    BY <1>0, <1>4 DEF Tick, bounds, TypeOK
  <2>. QED BY <1>0, <1>p, <2>1, StartCases
<1>5. CASE WgUp
  <2>1. /\ UNCHANGED <<rules, routes, nat, run, applied, kills, advertised, agent, flow>>
        /\ UNCHANGED <<lang, script, tsUp, calls, reboots>> /\ wgUp' = TRUE
    BY <1>5 DEF WgUp, vm, bounds
  <2>2. TypeOK'
    BY <1>0, <2>1 DEF TypeOK
  <2>. QED BY <1>0, <2>1, <2>2, OtherKeeps DEF IInv, ReadyAdvertised
<1>6. CASE TsUp
  <2>1. /\ UNCHANGED <<rules, routes, nat, run, applied, kills, agent, flow>>
        /\ UNCHANGED <<lang, script, wgUp, calls, reboots>> /\ tsUp' = TRUE /\ advertised' = TRUE
    BY <1>6 DEF TsUp, bounds
  <2>2. TypeOK'
    BY <1>0, <2>1 DEF TypeOK
  <2>. QED BY <1>0, <2>1, <2>2, OtherKeeps DEF IInv
<1>7. CASE AgentStart
  <2>1. /\ agent = "down" /\ flow' = flow
        /\ UNCHANGED <<lang, script, wgUp, tsUp, vm, applied, reboots, kills>>
        /\ calls' = calls /\ calls' \in 0..MaxCalls
    BY <1>0, <1>7 DEF AgentStart, bounds, TypeOK
  <2>2. CASE Start("boot", ForwardingPlan) /\ agent' = "restoring"
    <3>1. Start("boot", ForwardingPlan) /\ agent' = "restoring"
      BY <2>2
    <3>2. ~IsActive("boot")
      BY <1>0, <2>1 DEF AgentInv
    <3>. QED BY <1>0, <1>p, <2>1, <3>1, <3>2, StartCases
  <2>3. CASE agent' = "serving" /\ run' = run
    <3>1. agent' = "serving" /\ run' = run
      BY <2>3
    <3>2. TypeOK'
      BY <1>0, <2>1, <3>1 DEF TypeOK, vm
    <3>. QED BY <1>0, <2>1, <3>1, <3>2, OtherKeeps DEF IInv, ReadyAdvertised, vm
  <2>. QED BY <1>7, <2>2, <2>3 DEF AgentStart
<1>8. CASE Reboot
  <2>1. flow' = flow \/ flow' = "fallback"
    BY <1>8 DEF Reboot
  <2>. QED BY <1>0, <1>8, <2>1, BootKeeps DEF Reboot, TypeOK
<1>9. ASSUME NEW h \in Handlers, Advertise(h) PROVE IInv'
  <2>1. /\ ~IsActive(h) /\ Start(h, AdvertisePlan) /\ agent' = agent
        /\ flow' = flow \/ flow' = "advertising"
        /\ UNCHANGED <<lang, script, wgUp, tsUp, vm, applied, reboots, kills>>
        /\ calls < MaxCalls /\ calls' = calls + 1
    BY <1>9 DEF Advertise, Call
  <2>2. calls' \in 0..MaxCalls
    BY <1>0, <2>1, BoundsAssumption DEF TypeOK
  <2>3. h \in Appliers /\ h # "boot"
    BY <1>0
  <2>. QED BY <1>p, <2>1, <2>2, <2>3, StartCases
<1>10. CASE NoAnswer
  <2>1. /\ UNCHANGED <<rules, routes, nat, run, applied, kills, agent, advertised>>
        /\ UNCHANGED <<lang, script, wgUp, tsUp, calls, reboots>> /\ flow' = "fallback"
    BY <1>10 DEF NoAnswer, vm, bounds
  <2>2. TypeOK'
    BY <1>0, <2>1 DEF TypeOK
  <2>. QED BY <1>0, <2>1, <2>2, OtherKeeps DEF IInv
<1>11. CASE Fallback
  <2>1. /\ UNCHANGED <<rules, routes, nat, run, applied, kills, agent>>
        /\ UNCHANGED <<lang, script, wgUp, tsUp, calls, reboots>>
        /\ advertised' = (advertised \/ tsUp) /\ flow' = IF tsUp THEN "ready" ELSE "error"
    BY <1>11 DEF Fallback, bounds
  <2>2. TypeOK'
    BY <1>0, <2>1 DEF TypeOK
  <2>. QED BY <1>0, <2>1, <2>2, OtherKeeps DEF IInv
<1>12. CASE RunExitViaWg
  <2>1. /\ ~IsActive("exec") /\ Start("exec", "script") /\ agent' = agent /\ flow' = flow
        /\ UNCHANGED <<lang, script, wgUp, tsUp, vm, applied, reboots, kills>>
        /\ calls < MaxCalls /\ calls' = calls + 1
    BY <1>12 DEF RunExitViaWg, Call
  <2>2. calls' \in 0..MaxCalls
    BY <1>0, <2>1, BoundsAssumption DEF TypeOK
  <2>. QED BY <1>0, <1>p, <2>1, <2>2, StartCases
<1>13. CASE Restart
  BY <1>13, BootKeeps DEF Restart
<1>14. CASE PostReboot
  <2>1. /\ ~IsActive("exec") /\ Start("exec", "script") /\ agent' = agent
        /\ flow = "booting" /\ flow' = "ready"
        /\ UNCHANGED <<lang, script, wgUp, tsUp, vm, applied, reboots, kills>>
        /\ calls' \in 0..MaxCalls
    BY <1>0, <1>14 DEF PostReboot, bounds, TypeOK
  <2>. QED BY <1>0, <1>p, <2>1, StartCases
<1>15. CASE PostRebootFails
  <2>1. /\ UNCHANGED <<rules, routes, nat, run, applied, kills, agent, advertised>>
        /\ UNCHANGED <<lang, script, wgUp, tsUp, calls, reboots>>
        /\ flow = "booting" /\ flow' = "ready"
    BY <1>15 DEF PostRebootFails, vm, bounds
  <2>2. TypeOK'
    BY <1>0, <2>1 DEF TypeOK
  <2>. QED BY <1>0, <2>1, <2>2, OtherKeeps DEF IInv, ReadyAdvertised
<1>16. CASE UNCHANGED vars
  <2>1. /\ UNCHANGED <<rules, routes, nat, run, applied, kills, agent, advertised, flow>>
        /\ UNCHANGED <<lang, script, wgUp, tsUp, calls, reboots>>
    BY <1>16 DEF vars
  <2>2. TypeOK'
    BY <1>0, <2>1 DEF TypeOK
  <2>. QED BY <1>0, <2>1, <2>2, OtherKeeps DEF IInv, ReadyAdvertised
<1>. QED
  BY <1>1, <1>2, <1>3, <1>4, <1>5, <1>6, <1>7, <1>8, <1>9, <1>10, <1>11, <1>12, <1>13, <1>14,
     <1>15, <1>16 DEF Next

LEMMA Inductive == Spec => []IInv
<1>1. Init => IInv
  BY InitInv
<1>2. IInv /\ [Next]_vars => IInv'
  BY NextKeeps
<1>. QED BY <1>1, <1>2, PTL DEF Spec

-----------------------------------------------------------------------------
(* What follows from it *)

\* An application that owes the rule of exit traffic, or is on its way to the default
\* route, is one that rewrites.
LEMMA OwesIsRewriting ==
  ASSUME TypeOK, NEW a \in Appliers, OwesExit(a)
  PROVE  IsRewriting(a)
<1>1. /\ IsActive(a) /\ run[a].plan \in DOMAIN Plans /\ run[a].at \in Nat
      /\ IF DoesScript(a) THEN Stage(a) \in 2..4 ELSE Stage(a) = 5
  BY DEF OwesExit, TypeOK
<1>. DEFINE plan == run[a].plan
            k == IF DoesScript(a) THEN 4 ELSE 5
            i == Base[plan] + k
<1>2. /\ Base[plan] \in {0, 2}
      /\ Len(Plans[plan]) = Base[plan] + LastStage(plan)
      /\ \A j \in 1..Len(Plans[plan]) : Plans[plan][j] = StageCommand(plan, j - Base[plan])
  BY <1>1, PlanText
<1>3. LastStage(plan) \in {8, 10} /\ run[a].at = Base[plan] + Stage(a)
  BY <1>1, <1>2 DEF LastStage, Stage
<1>4. i \in run[a].at..Len(Plans[plan]) /\ i \in 1..Len(Plans[plan]) /\ i - Base[plan] = k
  BY <1>1, <1>2, <1>3
<1>5. Plans[plan][i] = StageCommand(plan, k)
  BY <1>2, <1>4
<1>6. CASE DoesScript(a)
  <2>1. StageCommand(plan, 4) = ScriptPlan[4]
    BY <1>6 DEF StageCommand, DoesScript, Scripts
  <2>2. Plans[plan][i] = Cmd("route", "main")
    BY <1>5, <1>6, <2>1, ScriptText
  <2>. QED BY <1>1, <1>4, <2>2 DEF IsRewriting
<1>7. CASE ~DoesScript(a)
  <2>1. StageCommand(plan, 5) = AgentPlan[5]
    BY <1>7 DEF StageCommand, DoesScript
  <2>2. Replace("exit", "200")[2] = Rule("add", "exit", "200")
    BY DEF Replace, Rule
  <2>3. Plans[plan][i] = Replace("exit", "200")[2]
    BY <1>5, <1>7, <2>1, <2>2, AgentText
  <2>. QED BY <1>1, <1>4, <2>3 DEF IsRewriting
<1>. QED BY <1>6, <1>7

\* The state keeps its shapes; an application is always within its list, and no
\* preference holds the same rule twice, whatever commands are refused.
THEOREM TypeCorrect == Spec => []TypeOK
<1>1. IInv => TypeOK
  BY DEF IInv
<1>. QED BY <1>1, Inductive, PTL

\* Once routing has been applied, exit traffic leaves by eth0 only while an application
\* that will end that is under way: two lists that take each other's rules apart, in
\* any order, never leave exit traffic to the provider's address.
THEOREM NoLeak == Spec => []LeaksOnlyRewriting
<1>1. ASSUME IInv PROVE LeaksOnlyRewriting
  <2>1. SUFFICES ASSUME applied, kills = 0, ExitPath = "eth0"
                 PROVE  \E a \in Appliers : IsRewriting(a)
    BY DEF LeaksOnlyRewriting
  <2>2. "main" \notin routes
        /\ ~(rules["exit_fwd"] = <<>> /\ rules["exit"] # <<>> /\ "200" \in routes)
    BY <2>1 DEF ExitPath, MainDefault
  <2>3. rules["exit_fwd"] = <<>> /\ ExitKept /\ TableKept
    BY <1>1, <2>1, <2>2 DEF IInv, ExitInv
  <2>4. \A b \in Appliers : OwesTable(b) => OwesExit(b)
    BY DEF OwesTable, OwesExit
  <2>5. PICK c \in Appliers : OwesExit(c)
    BY <2>2, <2>3, <2>4 DEF ExitKept, TableKept
  <2>. QED BY <1>1, <2>5, OwesIsRewriting DEF IInv
<1>. QED BY <1>1, Inductive, PTL

\* When nothing is under way and nothing was killed, exit traffic is routed and
\* masqueraded, and the gateway's replies have a rule.
THEOREM WholeWhenQuiet == Spec => []QuietIsWhole
<1>1. ASSUME IInv PROVE QuietIsWhole
  <2>1. SUFFICES ASSUME applied, kills = 0, \A a \in Appliers : ~IsActive(a)
                 PROVE  ExitPath = "wg0" /\ nat /\ rules["own"] # <<>>
    BY DEF QuietIsWhole
  <2>2. \A b \in Appliers : ~AtAddOwn(b) /\ ~AtNat(b) /\ ~OwesExit(b) /\ ~OwesTable(b)
    BY <2>1 DEF AtAddOwn, AtNat, OwesExit, OwesTable
  <2>3. nat /\ rules["own"] # <<>>
    BY <1>1, <2>1, <2>2 DEF IInv, NatInv, OwnInv
  <2>4. "main" \notin routes => rules["exit_fwd"] = <<>> /\ rules["exit"] # <<>> /\ "200" \in routes
    BY <1>1, <2>1, <2>2 DEF IInv, ExitInv, ExitKept, TableKept
  <2>5. ExitPath = "wg0"
    BY <2>4 DEF ExitPath, MainDefault
  <2>. QED BY <2>3, <2>5
<1>. QED BY <1>1, Inductive, PTL

\* A gateway is READY only once it advertises itself as an exit node, by its agent, by
\* its login or by the fallback, and no reboot loses it.
THEOREM AdvertisedWhenReady == Spec => []ReadyAdvertised
<1>1. IInv => ReadyAdvertised
  BY DEF IInv, AgentInv
<1>. QED BY <1>1, Inductive, PTL
=============================================================================
