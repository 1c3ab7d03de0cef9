----------------------------- MODULE ConfigClient ------------------------------
(***************************************************************************)
(* The programs that configure something (rules in rulesd, forwarding,     *)
(* router advertisements, load balance groups, ports), and those that       *)
(* print a state.  Each is a straight line of library calls, which may all  *)
(* fail, with an early return, a goto or nothing at all behind each, and at *)
(* most a loop or two; here it is a sequence of steps, and what follows a   *)
(* failure is a field of the step.  Other clients change the same           *)
(* configuration meanwhile.                                                 *)
(***************************************************************************)
EXTENDS Integers, Sequences, FiniteSets

CONSTANTS N,          \* rounds of a loop: the rules of nfm_sample_rules_fill; interfaces,
                      \* settings, fields of a key, cards or ports
          NEntries    \* TCAM entries a range of ports expands to

ASSUME ConfigAssumption == N \in Nat /\ NEntries \in Nat

-------------------------------------------------------------------------------
(* The programs. *)

\* A step and what its failure leads to: "goto" is goto fail of main, "free" the
\* fail label of add_rule and then that of main, "return" an exit that closes
\* nothing, "dump" the end of read_rule, "skip" the end of the iteration, "ignored" the
\* next step, "later" the next step too, but ret is tested further on.  A function that
\* atexit calls to close the handle is like a label of main.
Call(op, failure) == [op |-> op, failure |-> failure]
Must(op) == Call(op, "goto")

\* A loop: the steps between the two are done for each of N rules, settings or ports.
ForEach == Call("for", "never")
EndFor == Call("end", "never")

\* Mutant: add_rule returns at once when the action cannot be built.
AddRuleReturns(checked) ==
  <<Must("key"), Must("action"), Must("call"),
    Call("add", IF checked THEN "goto" ELSE "ignored"), Call("free", "never")>>

\* add_rule: key data and an action are allocated, set up, added as a rule, freed.
AddRule(checked) ==
  <<Must("key"), Call("action", "free"), Call("call", "free"),
    Call("add", IF checked THEN "free" ELSE "ignored"), Call("free", "never")>>

Open == Call("init", "return")
CloseChecked == Must("close")
CloseUnchecked == Call("close", "ignored")

\* nfm_sample_rules_fill tests every rule it adds, but add_rule always succeeds.
Fill == <<Open, Must("call"), Must("flush"), ForEach>> \o AddRule(FALSE)
        \o <<EndFor, Must("commit"), CloseUnchecked>>

\* nfm_sample_rules_pass
Pass == <<Open, Must("call"), Must("flush")>> \o AddRule(FALSE)
        \o <<Must("commit"), CloseUnchecked>>

\* Mutant: the configuration, and with it the old rules, is not reset.
ViaHostKeepsRules == <<Open, Must("call"), Must("call")>> \o AddRule(TRUE)
                     \o <<Must("commit"), Must("call"), CloseChecked>>

\* nfm_sample_rules_via_host: reset the configuration, set the key size and the
\* configuration, add, commit, dump.
ViaHost == <<Open, Must("flush"), Must("call"), Must("call")>> \o AddRule(TRUE)
           \o <<Must("commit"), Must("call"), CloseChecked>>

\* nfm_sample_rules_via_host_v6 does not look at the results of setting the key.
ViaHostV6 == <<Open, Must("flush"), Must("call"), Must("call"),
               Must("key"), Call("field", "ignored"), Call("action", "free"),
               Call("call", "free"), Call("add", "free"), Call("free", "never"),
               Must("commit"), Must("call"), CloseChecked>>

\* nfm_sample_rules_via_host_v6 -r: read_rule, whose failure is only reported.
ReadRule == <<Open, Call("cursor", "ignored"), Call("key", "dump"), Call("action", "dump"),
              Call("call", "ignored"), Call("read", "ignored"), Call("call", "ignored"),
              Call("free", "never"), Must("call"), CloseChecked>>

\* nfm_sample_rules_ports: two rules with one action, read back one entry at a time.
Ports == <<Open, Must("call"), Must("flush"), Must("action"), Must("call"),
           Call("key", "return"), Must("call"), Must("add"), Call("freekey", "never"),
           Call("key", "return"), Must("call"), Must("add"), Call("freekey", "never"),
           Call("freeaction", "never"), Must("commit"),
           Must("key"), Must("action"), Must("verify"), Must("call"), CloseChecked>>

\* nfm_sample_rules_keys sets, reads and compares one field of a key after another:
\* two addresses, which are converted first, other fields, two ranges of ports, which
\* are not read back.
TestField == <<Call("call", "free"), Call("call", "free"), Call("call", "free")>>
TestAddress == <<Call("call", "free")>> \o TestField
SetPorts == <<Call("call", "free"), Call("call", "free")>>
Keys == <<Open, Must("call"), Must("key")>> \o TestAddress \o TestAddress
        \o <<ForEach>> \o TestField \o <<EndFor>> \o SetPorts
        \o <<Call("freekey", "never"), CloseChecked>>

\* nfm_sample_rules_actions does so with an action and goes on after a difference;
\* its last read must fail, and its status is looked at again after the close.
Actions == <<Open, Must("call"), Call("action", "return"), Must("call"),
             Call("compare", "never"), Call("call", "return"), Must("call"),
             Call("compare", "never"), Call("mustfail", "never"), CloseUnchecked,
             Call("testret", "never")>>

\* nfm_sample_configure_forwarding -m -f: clear, a domain, the interfaces with their
\* address space attached to it, commit, then the MTU and the frame type of each.
Forwarding == <<Open, Must("flush"), Must("call"),
                ForEach, Must("call"), Must("call"), Must("add"), EndFor, Must("commit"),
                ForEach, Must("set"), Must("set"), EndFor, Call("close", "return")>>

\* display_prefixes of nfm_sample_nd_adverts asks how many prefixes there are and then
\* for them, and prints what it has; whether it was answered is for main to test.
DisplayPrefixes == <<Must("call"), Call("ask", "later"), Call("use", "never")>>

\* nfm_sample_nd_adverts with settings, each read back; a prefix is the last of them.
NdAdverts == <<Open, ForEach, Must("set"), Must("call"), EndFor>> \o DisplayPrefixes
             \o <<Call("testret", "never"), Call("close", "return")>>

\* ... or with one end of the advertisement interval and not the other.
NdAdvertsHalf == <<Open, Must("set"), Must("call"), Call("quit", "return")>>

\* nfm_sample_l2_static_entry
StaticEntry == <<Open, Must("set"), Call("close", "return")>>

\* nfm_sample_ha_nmsb_config: two load balance groups, read back, then in a second
\* session two TCAM rules that use them.
CreateLoadBalanceGroups == <<Must("set"), Must("set"), Must("call"), Must("call")>>
CreateTcamRules == <<Must("call"), Must("call"), Must("set"), Must("call"), Must("set")>>
HaNmsb == <<Open>> \o CreateLoadBalanceGroups \o <<CloseUnchecked, Open>> \o CreateTcamRules

\* nfm_sample_peg35_nmsb_config copies group 1 to group 2, reads that, compares.
Peg35 == <<Open, Must("call"), Must("set"), Must("call"), Must("call"), CloseUnchecked>>

\* nfm_sample_bump_port -b
BumpPort == <<Open, Must("set"), Must("set"), CloseUnchecked>>

\* nfm_sample_indtbl expects no handle for a card that does not exist, and does not look
\* whether it was told the first and the last port, the bounds of its loop.
Indtbl == <<Must("call"), Open, Must("flush"),
            Call("ask", "ignored"), Call("use", "never"),
            Call("ask", "ignored"), Call("use", "never"),
            ForEach, Must("set"), EndFor, CloseUnchecked>>

\* nfm_sample_lb -c -S -p
LoadBalance == <<Call("flush", "return"), Call("set", "return"), Call("call", "return")>>

\* nfm_sample_load_balance.sh for one card: rules --flush, the ARP rule, nfm_sample_lb -c,
\* -S and -p, the rule that uses the group.  The shell goes on whatever fails.
LoadBalanceScript ==
  <<Call("flush", "ignored"), Call("set", "ignored"), Call("clear", "ignored"),
    Call("set", "ignored"), Call("call", "ignored"), Call("set", "ignored")>>

\* nfm_sample_ifid with an interface ID to set, and without.
IfidSet == <<Open, Must("set"), CloseUnchecked>>
IfidGet == <<Open, Must("ask"), Call("use", "never"), CloseUnchecked>>

\* nfm_sample_ha_api -p -s -v -i
HaApi == <<Call("set", "return"), Call("call", "return"), Call("call", "return"),
           Call("set", "return")>>

-------------------------------------------------------------------------------
(* The programs that print.  "ask" has the library fill in a variable for the next
   port, counter or card, "use" prints it or works with it. *)

\* nfm_sample_platform: the number of NFEs and switch cards, the ports, then each one.
Platform == <<Call("call", "return"), Call("call", "return"), Call("call", "return"),
              Call("call", "return"), ForEach, Call("ask", "return"), Call("use", "never"),
              Call("call", "return"), EndFor>>

\* ... and with a switch card: the cards, three questions of each, then the ports.
PlatformNmsb ==
  <<Call("call", "return"), Call("call", "return"), Call("call", "return"),
    Call("call", "return"), Call("call", "return"),
    ForEach, Call("ask", "return"), Call("ask", "return"), Call("ask", "return"),
    Call("use", "never"), EndFor, Call("call", "return"), Call("call", "return"),
    ForEach, Call("ask", "return"), Call("ask", "return"), Call("ask", "return"),
    Call("use", "never"), Call("call", "return"), EndFor>>

\* nfm_sample_portstats
Portstats == <<Call("ask", "return"), Call("use", "never")>>

\* nfm_sample_neigh_entries
NeighEntries == <<Open, Must("ask"), Call("close", "return"), Call("use", "never")>>

\* nfm_sample_log prints nothing of the card, but has three calls to set that up.
Log == <<Call("call", "return"), Call("call", "return"), Call("call", "return")>>

\* nfm_sample_dump_ifids: the conversion of a port is not tested, the dump is; none of
\* the early returns closes the handle, and SIGINT does.
DumpIfids == <<Call("call", "return"), Call("call", "return"), Call("call", "return"), Open,
               ForEach, Call("ask", "ignored"), Call("use", "never"), Call("call", "return"),
               EndFor, CloseUnchecked>>

\* Mutant: a counter that cannot be read is printed all the same.
CntrL2L3Prints == <<ForEach, Call("ask", "ignored"), Call("use", "never"), EndFor>>

\* nfm_sample_cntr_l2_l3: a counter that cannot be read is reported as that.
CntrL2L3 == <<ForEach, Call("ask", "skip"), Call("use", "never"), EndFor>>

\* nfm_sample_ipsec -g -c
Ipsec == <<Open, ForEach, Call("ask", "skip"), Call("use", "never"), EndFor,
           Call("set", "ignored"), CloseUnchecked>>

\* nfm_sample_get_ports: on each card look for the group that has the host -- the last
\* one found stays where there is none -- and then for it in all rules.
GetPorts == <<ForEach, Call("call", "return"), Call("ask", "ignored"), Open,
              Call("cursor", "ignored"), Must("key"), Must("action"), Call("use", "never"),
              Must("read"), Call("call", "ignored"), CloseUnchecked, EndFor>>

\* nfm_sample_ha_flowsync -t: the flow mask of each NFE, into a buffer whose size is an
\* argument in and out; the flows in it are sent through a packet device.
HaFlowsync == <<Open, ForEach, Call("resize", "skip"), Call("call", "skip"),
                Call("call", "ignored"), EndFor, CloseUnchecked>>

\* nfm_sample_monitor_me waits for one message of the monitor of the microengines.
MonitorMe == <<Call("call", "ignored"), Call("await", "ignored"), Call("call", "ignored")>>

Script == [fill |-> Fill, pass |-> Pass, via_host |-> ViaHost,
           via_host_v6 |-> ViaHostV6, read_rule |-> ReadRule,
           ports |-> Ports, keys |-> Keys, actions |-> Actions,
           forwarding |-> Forwarding, nd_adverts |-> NdAdverts,
           nd_adverts_half |-> NdAdvertsHalf, static_entry |-> StaticEntry,
           ha_nmsb |-> HaNmsb, peg35 |-> Peg35, bump_port |-> BumpPort, indtbl |-> Indtbl,
           lb |-> LoadBalance, load_balance |-> LoadBalanceScript, ha_api |-> HaApi,
           ifid_set |-> IfidSet, ifid_get |-> IfidGet, platform |-> Platform,
           platform_nmsb |-> PlatformNmsb,
           portstats |-> Portstats, neigh_entries |-> NeighEntries, log |-> Log,
           dump_ifids |-> DumpIfids, cntr_l2_l3 |-> CntrL2L3, ipsec |-> Ipsec,
           get_ports |-> GetPorts, ha_flowsync |-> HaFlowsync, monitor_me |-> MonitorMe]
Programs == DOMAIN Script

\* What a program means to put in force, in this order: rules, interfaces, settings.
Intended(program) ==
  CASE program \in {"fill", "nd_adverts", "indtbl"}                          -> 1 .. N
    [] program = "forwarding"                                                -> 1 .. 3 * N
    [] program = "ha_nmsb"                                                   -> 1 .. 4
    [] program = "load_balance"                                              -> 1 .. 3
    [] program \in {"ports", "bump_port", "ha_api"}                          -> {1, 2}
    [] program \in {"pass", "via_host", "via_host_v6", "nd_adverts_half", "static_entry",
                    "peg35", "lb", "ifid_set", "ipsec"}                      -> {1}
    [] OTHER                                                                 -> {}

\* The part of it that only the commit puts in force.
Committed(program) ==
  CASE program \in {"fill", "forwarding"}                -> 1 .. N
    [] program \in {"pass", "via_host", "via_host_v6"}   -> {1}
    [] program = "ports"                                 -> {1, 2}
    [] OTHER                                             -> {}

-------------------------------------------------------------------------------
VARIABLES
  prog,       \* the program that runs
  pc,         \* the step it is at; 0 is its label fail
  i,          \* the round its loop is in
  status,     \* its exit status, 1 for any but 0; Running before
  rh,         \* the handle of the library is open
  closes,     \* how often it was closed (history)
  kds, acts,  \* key data and actions allocated and not freed
  number,     \* its additions and settings so far
  added,      \* added and not committed
  hw,         \* in force; 0 is an earlier configuration
  groups,     \* beside it the load balance groups of an earlier load_balance
  final_result, failing,  \* final_result of rules_actions, ret to be tested later
  compared,   \* i of rules_ports
  asked,      \* its questions so far
  kept,       \* the question that what the program holds answers; 0 is as it began
  uses,       \* the questions and answers it printed or worked with (history)
  unread,     \* rules its cursor has not read
  broken,     \* whether the cursor only returns errors from now on
  bad, ignored, closefailed, disturbed, interrupted  \* what went wrong (history)

resources == <<rh, closes, kds, acts>>
rules == <<number, added, hw, groups>>
results == <<final_result, failing, compared>>
answers == <<asked, kept, uses>>
cursor == <<unread, broken>>
troubles == <<bad, ignored, closefailed, disturbed, interrupted>>
reading == <<answers, cursor>>
vars == <<prog, pc, i, status, resources, rules, results, reading, troubles>>

Running == -1
Step == Script[prog][pc]
At(ops) == status = Running /\ pc \in 1 .. Len(Script[prog]) /\ Step.op \in ops
Continue == pc' = pc + 1 /\ UNCHANGED i

\* Where the loop that it is in, or at, ends and begins: sets of one step.
LoopEnd == {k \in pc .. Len(Script[prog]) :
              /\ Script[prog][k].op = "end"
              /\ \A j \in pc .. k - 1 : Script[prog][j].op # "end"}
LoopHead == {k \in 1 .. pc : /\ Script[prog][k].op = "for"
                             /\ \A j \in k + 1 .. pc : Script[prog][j].op # "for"}

Others == -1  \* a rule of another client

TypeOK == /\ prog \in Programs /\ pc \in 0 .. Len(Script[prog]) + 1 /\ i \in 0 .. N
          /\ status \in {Running, 0, 1}
          /\ rh \in BOOLEAN /\ closes \in 0 .. 2
          /\ kds \in 0 .. N + 2 /\ acts \in 0 .. N + 2
          /\ number \in Nat
          /\ added \subseteq Intended(prog) /\ hw \subseteq Intended(prog) \union {0, Others}
          /\ groups \in BOOLEAN
          /\ final_result \in {0, 1} /\ failing \in BOOLEAN
          /\ compared \in 0 .. 3 * NEntries
          /\ asked \in Nat /\ kept \in Nat /\ uses \subseteq Nat \X Nat
          /\ unread \in 0 .. N /\ broken \in BOOLEAN
          /\ {bad, ignored, closefailed, disturbed, interrupted} \subseteq BOOLEAN

Init == /\ prog \in Programs /\ pc = 1 /\ i = 0 /\ status = Running
        /\ rh = FALSE /\ closes = 0 /\ kds = 0 /\ acts = 0
        /\ number = 0 /\ added = {} /\ hw \in {{}, {0}}
        /\ groups \in (IF prog = "load_balance" THEN BOOLEAN ELSE {FALSE})
        /\ final_result = 0 /\ failing = FALSE /\ compared = 0
        /\ asked = 0 /\ kept = 0 /\ uses = {} /\ unread = 0 /\ broken = FALSE
        /\ bad = FALSE /\ ignored = FALSE /\ closefailed = FALSE /\ disturbed = FALSE
        /\ interrupted = FALSE

-------------------------------------------------------------------------------
(* A call that succeeds. *)

\* Calls that change nothing the program or its properties tell apart.
Plain ==
  /\ At({"call", "field"})
  /\ Continue
  /\ UNCHANGED <<prog, status, resources, rules, results, reading, troubles>>

\* The first or the last port of indtbl is whatever was in the variable.
Unbounded == prog = "indtbl" /\ ignored

\* for (i = 0; i < n; i++).  Bound: a loop with unknown bounds ends after N rounds, too.
Loop ==
  /\ At({"for"})
  /\ \/ i < N /\ pc' = pc + 1 /\ i' = i + 1
     \/ (i = N \/ Unbounded) /\ pc' \in {k + 1 : k \in LoopEnd} /\ i' = 0
  /\ UNCHANGED <<prog, status, resources, rules, results, reading, troubles>>

LoopBack ==
  /\ At({"end"})
  /\ pc' \in LoopHead
  /\ UNCHANGED <<prog, i, status, resources, rules, results, reading, troubles>>

OpenHandle ==
  /\ At({"init"})
  /\ Continue
  /\ rh' = TRUE /\ closes' = 0
  /\ UNCHANGED <<prog, status, kds, acts, rules, results, reading, troubles>>

Allocate ==
  /\ At({"key", "action"})
  /\ Continue
  /\ kds' = IF Step.op = "key" THEN kds + 1 ELSE kds
  /\ acts' = IF Step.op = "action" THEN acts + 1 ELSE acts
  /\ UNCHANGED <<prog, status, rh, closes, rules, results, reading, troubles>>

Free ==
  /\ At({"free", "freekey", "freeaction"})
  /\ Continue
  /\ kds' = IF Step.op = "freeaction" THEN kds ELSE kds - 1
  /\ acts' = IF Step.op = "freekey" THEN acts ELSE acts - 1
  /\ UNCHANGED <<prog, status, rh, closes, rules, results, reading, troubles>>

\* ns_rule_flush_hw, ns_rules_config_reset, ns_fwd_clear, ns_indtbl_l2_init_table,
\* nfm_lb_set_dests with zeros
Flush ==
  /\ At({"flush"})
  /\ Continue
  /\ hw' = {}
  /\ UNCHANGED <<prog, status, resources, number, added, groups, results, reading, troubles>>

\* nfm_sample_lb -c of the script, which leaves the rules alone
Clear ==
  /\ At({"clear"})
  /\ Continue
  /\ groups' = FALSE
  /\ UNCHANGED <<prog, status, resources, number, added, hw, results, reading, troubles>>

\* Mutant: rules go to the hardware as they are added.
AddAtOnce ==
  /\ At({"add"})
  /\ Continue
  /\ number' = number + 1 /\ hw' = hw \union {number'}
  /\ UNCHANGED <<prog, status, resources, added, groups, results, reading, troubles>>

\* ns_rule_add_rule, ns_fwd_attach_log_intf
Add ==
  /\ At({"add"})
  /\ Continue
  /\ number' = number + 1 /\ added' = added \union {number'}
  /\ UNCHANGED <<prog, status, resources, hw, groups, results, reading, troubles>>

\* A setting that no commit follows is in force at once.
Set ==
  /\ At({"set"})
  /\ Continue
  /\ number' = number + 1 /\ hw' = hw \union {number'}
  /\ UNCHANGED <<prog, status, resources, added, groups, results, reading, troubles>>

\* ns_rule_commit_rulesdb, ns_fwd_commit.  One that fails leaves nothing in force.
Commit ==
  /\ At({"commit"})
  /\ Continue
  /\ hw' = hw \union added /\ added' = {}
  /\ UNCHANGED <<prog, status, resources, number, groups, results, reading, troubles>>

Close ==
  /\ At({"close"})
  /\ Continue
  /\ rh' = FALSE /\ closes' = closes + 1
  /\ UNCHANGED <<prog, status, kds, acts, rules, results, reading, troubles>>

-------------------------------------------------------------------------------
(* What the checking programs compare. *)

\* rules_ports reads the entries of the rules in force until the end of file, and
\* fails at the first that differs from expected[i].
Entries == NEntries * Cardinality(hw)

Verify ==
  /\ At({"verify"})
  /\ \/ compared >= Entries /\ pc' = pc + 1 /\ UNCHANGED <<compared, bad>>
     \/ compared < Entries /\ compared' = compared + 1 /\ UNCHANGED <<pc, bad>>
     \/ compared < Entries /\ pc' = 0 /\ bad' = TRUE /\ UNCHANGED compared
  /\ UNCHANGED <<prog, i, status, resources, rules, final_result, failing, reading, ignored,
                 closefailed, disturbed, interrupted>>

\* rules_actions: a field that differs, or a call that must fail and does not.
Compare ==
  /\ At({"compare", "mustfail"})
  /\ Continue
  /\ \E right \in BOOLEAN :
       /\ final_result' = IF right THEN final_result ELSE 1
       /\ failing' = (right /\ Step.op = "mustfail")
       /\ bad' = (bad \/ ~right)
  /\ UNCHANGED <<prog, status, resources, rules, compared, reading, ignored, closefailed,
                 disturbed, interrupted>>

\* ... and its test of ret after ns_rules_close, which still is that of the read; the
\* test of what display_prefixes of nd_adverts returns.
TestRet ==
  /\ At({"testret"})
  /\ pc' = IF failing THEN 0 ELSE pc + 1
  /\ UNCHANGED <<prog, i, status, resources, rules, results, reading, troubles>>

-------------------------------------------------------------------------------
(* Questions, and loops without a count. *)

\* The library fills in the variable, or for ha_flowsync the buffer and its size.
Ask ==
  /\ At({"ask", "resize"})
  /\ Continue
  /\ asked' = asked + 1 /\ kept' = asked'
  /\ uses' = IF Step.op = "resize" THEN uses \union {<<0, kept>>} ELSE uses
  /\ UNCHANGED <<prog, status, resources, rules, results, cursor, troubles>>

Use ==
  /\ At({"use"})
  /\ Continue
  /\ uses' = uses \union {<<asked, kept>>}
  /\ UNCHANGED <<prog, status, resources, rules, results, asked, kept, cursor, troubles>>

\* Bound: rulesd holds at most N rules.
OpenCursor ==
  /\ At({"cursor"})
  /\ Continue
  /\ unread' \in 0 .. N /\ broken' = FALSE
  /\ UNCHANGED <<prog, status, resources, rules, results, answers, troubles>>

\* Mutant: the loop reads the first rule again and again.
ReadEntryAgain ==
  /\ At({"read"}) /\ ~broken /\ unread > 0
  /\ UNCHANGED vars

\* A rule is read; read_rule stops when it is the one it looks for.
ReadEntry ==
  /\ At({"read"}) /\ ~broken /\ unread > 0
  /\ unread' = unread - 1
  /\ (pc' = pc \/ (prog = "read_rule" /\ pc' = pc + 1))
  /\ UNCHANGED <<prog, i, status, resources, rules, results, answers, broken, troubles>>

ReadEof ==
  /\ At({"read"}) /\ ~broken /\ unread = 0
  /\ Continue
  /\ UNCHANGED <<prog, status, resources, rules, results, reading, troubles>>

\* A message of the monitor arrives; until then monitor_me asks again.
Await ==
  /\ At({"await"})
  /\ Continue
  /\ UNCHANGED <<prog, status, resources, rules, results, reading, troubles>>

-------------------------------------------------------------------------------
(* A call that fails, and the ends. *)

\* The number of the step that dumps the rules, after read_rule.
DumpStep == Len(Script[prog]) - 1

Fail ==
  /\ At({"init", "key", "action", "call", "field", "flush", "add", "set", "commit",
         "close", "verify", "quit", "ask", "resize", "cursor", "read", "clear"})
  /\ Step.failure # "never"
  /\ Step.op = "read" => Step.failure # "ignored" /\ (broken \/ unread > 0)
  /\ bad' = (bad \/ Step.failure \notin {"ignored", "skip"})
  /\ ignored' = (ignored \/ (Step.failure = "ignored"
                            /\ \/ Step.op \in {"add", "field", "set", "flush", "clear"}
                               \/ Step.op = "ask" /\ prog = "indtbl"))
  /\ closefailed' = (closefailed \/ Step.op = "close")
  /\ closes' = IF Step.op = "close" THEN closes + 1 ELSE closes
  /\ number' = IF Step.op \in {"add", "set"} THEN number + 1 ELSE number
  /\ asked' = IF Step.op \in {"ask", "resize"} THEN asked + 1 ELSE asked
  /\ failing' = (failing \/ Step.failure = "later")
  /\ CASE Step.failure \in {"ignored", "later"} -> pc' = pc + 1
       [] Step.failure = "skip"                 -> pc' \in LoopEnd
       [] Step.failure = "dump"                 -> pc' = DumpStep
       [] Step.failure \in {"goto", "free"}     -> pc' = 0
       [] OTHER                                 -> UNCHANGED pc
  /\ status' = IF Step.failure = "return" THEN 1 ELSE Running
  /\ kds' = IF Step.failure \in {"free", "dump"} THEN 0 ELSE kds
  /\ acts' = IF Step.failure \in {"free", "dump"} THEN 0 ELSE acts
  /\ broken' = (broken \/ Step.op = "cursor")
  /\ UNCHANGED <<prog, i, rh, added, hw, groups, final_result, compared, kept, uses, unread,
                 disturbed, interrupted>>

\* The label at the end of main, or the function that atexit calls: the handle, if
\* any, is closed, whatever that returns, and the exit status, which for
\* rules_actions only says whether the fields were right.
Bail ==
  /\ status = Running /\ pc = 0
  /\ rh' = FALSE /\ closes' = closes + 1
  /\ status' = IF prog = "actions" THEN final_result ELSE 1
  /\ UNCHANGED <<prog, pc, i, kds, acts, rules, results, reading, troubles>>

Finish ==
  /\ status = Running /\ pc = Len(Script[prog]) + 1
  /\ status' = final_result
  /\ UNCHANGED <<prog, pc, i, resources, rules, results, reading, troubles>>

\* Another client resets the configuration, as rules_via_host does,
OthersFlush ==
  /\ status = Running /\ hw # {}
  /\ hw' = {} /\ disturbed' = TRUE
  /\ UNCHANGED <<prog, pc, i, status, resources, number, added, groups, results, reading, bad,
                 ignored, closefailed, interrupted>>

\* or adds a rule to it, which matters to the one that reads them all back.
OthersAdd ==
  /\ status = Running /\ prog = "ports" /\ Others \notin hw
  /\ hw' = hw \union {Others} /\ disturbed' = TRUE
  /\ UNCHANGED <<prog, pc, i, status, resources, number, added, groups, results, reading, bad,
                 ignored, closefailed, interrupted>>

\* rulesd goes away under a cursor.
RulesdFails ==
  /\ At({"read"}) /\ ~broken
  /\ broken' = TRUE
  /\ UNCHANGED <<prog, pc, i, status, resources, rules, results, answers, unread, troubles>>

\* SIGINT or SIGTERM: dump_ifids closes its handle if it ever had one, and exits.
Interrupt ==
  /\ status = Running /\ prog = "dump_ifids"
  /\ status' = 1 /\ interrupted' = TRUE
  /\ rh' = FALSE /\ closes' = IF rh \/ closes > 0 THEN closes + 1 ELSE closes
  /\ UNCHANGED <<prog, pc, i, kds, acts, rules, results, reading, bad, ignored, closefailed,
                 disturbed>>

Proceed == \/ Plain \/ Loop \/ LoopBack \/ OpenHandle \/ Allocate \/ Free \/ Flush \/ Clear
           \/ Add \/ Set \/ Commit \/ Close \/ Verify \/ Compare \/ TestRet \/ Ask \/ Use
           \/ OpenCursor \/ ReadEntry \/ ReadEof \/ Fail \/ Bail \/ Finish

Next == Proceed \/ Await \/ OthersFlush \/ OthersAdd \/ RulesdFails \/ Interrupt

\* The program runs; nobody has to send it a message.
Spec == Init /\ [][Next]_vars /\ WF_vars(Proceed)

-------------------------------------------------------------------------------
(* Correctness. *)

Replaces == prog \in {"fill", "pass", "via_host", "via_host_v6", "ports", "forwarding",
                      "indtbl", "lb", "load_balance"}

\* nfm_sample_rules_ports: "Confirm that the rules we wrote are the rules in the
\* rulesd".  It reads within expected[], and status 0 says that it read all of it.
ConfirmationIsComplete ==
  prog = "ports" /\ ~disturbed =>
    compared <= 2 * NEntries /\ (status = 0 => compared = 2 * NEntries)

\* A program that exits with 0 has put all in force that it was told to and met no
\* failure, where it looks for one; and where it means to replace the old
\* configuration nothing of that is left, unless another client interfered.  It does not
\* look in rules_fill and rules_pass when they add, in via_host_v6 at a field, in ipsec,
\* in the script at anything, and in indtbl at the bounds of its loop, so that indtbl may
\* have set no port at all (ignored).  rules_actions exits with 0 after calls that
\* failed, read_rule of rules_via_host_v6 after a failed allocation.
SuccessMeansInstalled ==
  /\ status = 0 => ~bad \/ prog \in {"actions", "read_rule"}
  /\ status = 0 /\ Intended(prog) # {} /\ ~ignored /\ ~disturbed =>
       hw \ {0} = Intended(prog) /\ (0 \in hw => ~Replaces) /\ ~groups
  /\ ConfirmationIsComplete

\* Wherever a program fails and whoever resets: never is a part in force of what it
\* commits, nor anything old beside it, nor a group of the script beside the old ones
\* (its second setting); and what it sets one by one is in force up
\* to some point, after what it commits.
NeverHalfInstalled ==
  ~ignored =>
    LET new == hw \intersect Committed(prog)
    IN /\ new \in {{}, Committed(prog)}
       /\ 0 \in hw /\ Replaces => hw \subseteq {0, Others}
       /\ groups => 2 \notin hw
       /\ ~disturbed => \A n \in hw \ {0} : 1 .. n \subseteq hw

\* Programs that build rules in add_rule free what it allocated, and all programs
\* close their handle, whatever fails.  The exceptions: get_ports never frees its key
\* and action, and the early returns of some and the end of ha_nmsb_config close nothing.
NothingLeaked ==
  status # Running =>
    /\ prog \notin {"ports", "actions", "get_ports"} => kds = 0 /\ acts = 0
    /\ \/ ~rh \/ (closefailed /\ closes >= 1)
       \/ status = 1 /\ prog \in {"ports", "actions", "nd_adverts_half", "dump_ifids", "get_ports"}
       \/ status = 0 /\ prog = "ha_nmsb"

\* A handle is closed a second time only when the first time failed; except by
\* rules_actions, exactly when its last test went well, and by the handler of
\* dump_ifids, whose handle is not reset.
ClosesOnce ==
  closes = 2 => closefailed \/ (prog = "actions" /\ failing) \/ interrupted

ResourcesInv == TypeOK /\ NothingLeaked /\ ClosesOnce

\* What a program prints or works with is the answer to the question it asked last,
\* and a buffer it offers has its own size.  get_ports, dump_ifids and indtbl do not look
\* whether they were answered, nd_adverts looks after it has printed, and ha_flowsync does
\* not set the size again: there it is an earlier one, or what the variable began with,
\* never one that was not asked yet.
PrintsWhatItAsked ==
  \A use \in uses :
    \/ use[1] = use[2]
    \/ (prog \in {"get_ports", "dump_ifids", "nd_adverts", "indtbl"} /\ use[2] < use[1])
    \/ prog = "ha_flowsync"

\* Every program comes to an end, unless it reads rules from a rulesd that fails
\* again and again, or waits for a message that does not come.
Stuck == (broken /\ At({"read"})) \/ At({"await"})
Ends == <>(status # Running \/ Stuck)
===============================================================================
