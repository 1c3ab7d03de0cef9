-------------------------------- MODULE Monitor --------------------------------
(***************************************************************************)
(* nfm_sample_monitor.c: the loop that probes the switch card and every    *)
(* NFE once a second and logs what it finds wrong, while things break and  *)
(* are repaired between any two probes.  Some probes need what another one *)
(* is about: nothing on an NFE's ARM answers without the IP connection.    *)
(* Its pid is in a file of a fixed name, which a second monitor that is     *)
(* started uses as well.                                                    *)
(***************************************************************************)
EXTENDS Integers, Sequences, FiniteSets

CONSTANTS NNfes,      \* NFEs present
          MaxNfes,    \* MAX_NFES, the NFEs the arrays of the loop have room for
          MaxFaults,  \* bound: things wrong at one time
          MaxChanges  \* bound: faults that come or go during one sweep

ASSUME MonitorAssumption ==
  MaxNfes \in Nat /\ NNfes \in 0 .. MaxNfes /\ MaxFaults \in Nat /\ MaxChanges \in Nat

-------------------------------------------------------------------------------
(* What can be wrong. *)

Cards == 0 .. NNfes - 1
SwitchCard == -1
Host == -2
Daemons == {"swicthd", "portd", "failoverd"}

\* "missing" is the switch card, "arm" its ARM; without an "address" the monitor
\* cannot ping it.  The exception daemon is one for all cards.  "info": the query
\* of the buffer pools fails.
SwitchFaults == {"missing", "arm", "address"} \union Daemons
CardFaults ==
  {"pd", "ip", "me", "ep", "rulesd", "temp", "nfm", "tcam", "info", "hostpool", "nfepool"}
Faults ==
  (SwitchFaults \X {SwitchCard}) \union {<<"exceptiond", Host>>} \union (CardFaults \X Cards)

VARIABLES
  pc, c,        \* the next probe, and the NFE it is for
  notdone,
  nfes,         \* how many NFEs the monitor believes there are; never initialised
  down,         \* swicthd, portd, failoverd: those that did not open
  heartbeats,   \* heartbeats[c], 0 or not; never initialised
  faults,       \* what is wrong now
  changes,      \* how often that changed in this sweep
  log,          \* the messages of this sweep
  always, ever, \* what was wrong all through this sweep, or at some time of it (history)
  pidfile,      \* "none", "empty", "lost" (empty, as the pid did not get to the disk), or whose
                \* it is: "us" with our pid in it, "other", "stale" of one that crashed
  other         \* a second monitor: "none", "started", "wrote" its pid, "ended"

locals == <<c, down, heartbeats>>
world == <<faults, changes, always, ever>>
kept == <<nfes, other>>
pids == <<pidfile, kept>>
vars == <<pc, locals, notdone, log, world, pids>>

Switch(kind) == <<kind, SwitchCard>> \in faults

\* Every probe of a card that is not there fails.
Card(kind) == <<kind, c>> \in faults \/ c \notin Cards
Report(kinds, where) == log' = log \union (kinds \X {where})

Openings == <<"swicthd", "portd", "failoverd">>
Simple == <<"rulesd", "exceptiond", "temp", "nfm", "tcam">>
Opening == {"unlink", "open", "write", "close"}
Startup == Opening \union {"nfes"}
Over == {"exit", "crashed"}
CardProbes == {"pd", "ip", "me", "ep", "pools"} \union {Simple[k] : k \in DOMAIN Simple}
Locations == Startup \union Over \union Daemons \union CardProbes
             \union {"loop", "devices", "ping", "sleep"}
\* Messages are about faults, of any card there may seem to be.
Messages ==
  (SwitchFaults \X {SwitchCard}) \union ((CardFaults \union {"exceptiond"}) \X (0 .. MaxNfes - 1))

TypeOK == /\ pc \in Locations /\ c \in 0 .. MaxNfes /\ notdone \in {0, 1}
          /\ nfes \in 0 .. MaxNfes + 1
          /\ (pc \in CardProbes => c < nfes) /\ (pc \in CardProbes \ {"pd"} => c < MaxNfes)
          /\ down \subseteq Daemons /\ heartbeats \in {0, 1}
          /\ faults \subseteq Faults /\ changes \in 0 .. MaxChanges
          /\ always \subseteq ever /\ ever \subseteq Faults
          /\ log \subseteq Messages
          /\ pidfile \in {"none", "empty", "lost", "us", "other", "stale"}
          /\ other \in {"none", "started", "wrote", "ended"}

Init == /\ pc = "unlink" /\ pidfile \in {"none", "stale"} /\ other = "none"
        /\ c = 0 /\ notdone = 1 /\ nfes \in 0 .. MaxNfes + 1
        /\ down = {} /\ heartbeats = 0
        /\ faults = {} /\ changes = 0 /\ always = {} /\ ever = {}
        /\ log = {}

-------------------------------------------------------------------------------
(* The start. *)

\* Whatever pidfile there is is removed, and only then the options are looked at; with
\* -h, and with a signal before there are handlers, that is all.
Start ==
  /\ pc = "unlink"
  /\ pidfile' = "none"
  /\ pc' \in {"open", "exit"}
  /\ UNCHANGED <<locals, notdone, log, world, kept>>

\* exit, from here on, calls exitfunc.
Exit == pc' = "exit" /\ pidfile' = "none"

OpenPidfile ==
  /\ pc = "open"
  /\ \/ pc' = "write" /\ pidfile' = "empty"
     \/ Exit
  /\ UNCHANGED <<locals, notdone, log, world, kept>>

\* fprintf leaves the pid in the buffer of the stream.
WritePidfile ==
  /\ pc = "write"
  /\ \/ pc' = "close" /\ UNCHANGED pidfile
     \/ Exit
  /\ UNCHANGED <<locals, notdone, log, world, kept>>

\* Where the pid gets to: the file that was opened may have been removed, or replaced,
\* in the meantime.
Written == CASE pidfile = "none"  -> {"none"}
             [] pidfile = "other" -> {"us", "other"}
             [] OTHER             -> {"us"}

\* fclose writes the buffer, and its result is not looked at: on a full disk an empty
\* file stays empty.
ClosePidfile ==
  /\ pc = "close"
  /\ pc' = "nfes"
  /\ pidfile' \in Written \union {IF pidfile = "empty" THEN "lost" ELSE pidfile}
  /\ UNCHANGED <<locals, notdone, log, world, kept>>

\* nfm_get_nfes_present, whose result is not looked at either: when it fails, nfes
\* stays what it happens to be.
GetNfes ==
  /\ pc = "nfes"
  /\ pc' = "loop"
  /\ nfes' \in {NNfes, nfes}
  /\ UNCHANGED <<locals, notdone, log, world, pidfile, other>>

-------------------------------------------------------------------------------
(* The loop and the switch card. *)

\* The loop over the cards begins, and there may be none.
FirstProbe == IF nfes = 0 THEN "sleep" ELSE "pd"

\* Mutant: exitfunc is not registered.
LoopNoExitfunc ==
  /\ pc = "loop"
  /\ pc' = IF notdone = 1 THEN "devices" ELSE "exit"
  /\ log' = {} /\ changes' = 0 /\ always' = faults /\ ever' = faults
  /\ UNCHANGED <<locals, notdone, faults, pids>>

\* while (notdone)
Loop ==
  /\ pc = "loop"
  /\ IF notdone = 1 THEN pc' = "devices" /\ UNCHANGED pidfile ELSE Exit
  /\ log' = {} /\ changes' = 0 /\ always' = faults /\ ever' = faults
  /\ UNCHANGED <<locals, notdone, faults, kept>>

\* Mutant: swicthd, portd and failoverd are not set to 0 first.
DevicesKeepsDown ==
  /\ pc = "devices"
  /\ \/ Switch("missing") /\ pc' = FirstProbe /\ Report({"missing"}, SwitchCard)
     \/ ~Switch("missing") /\ pc' = "swicthd" /\ UNCHANGED log
  /\ c' = 0
  /\ UNCHANGED <<down, heartbeats, notdone, world, pids>>

\* check_nmsb_daemons: without the card no daemon is tried.
Devices ==
  /\ pc = "devices"
  /\ \/ Switch("missing") /\ pc' = FirstProbe /\ Report({"missing"}, SwitchCard)
     \/ ~Switch("missing") /\ pc' = "swicthd" /\ UNCHANGED log
  /\ down' = {} /\ c' = 0
  /\ UNCHANGED <<heartbeats, notdone, world, pids>>

OpenDaemon(k) ==
  /\ pc = Openings[k]
  /\ pc' = IF k = 3 THEN "ping" ELSE Openings[k + 1]
  /\ down' = IF Switch(pc) \/ Switch("arm") THEN down \union {pc} ELSE down
  /\ UNCHANGED <<c, heartbeats, notdone, log, world, pids>>

\* With all three daemons down the ARM itself is tried, if its address is known.
Ping ==
  /\ pc = "ping"
  /\ pc' = FirstProbe
  /\ IF down = Daemons /\ ~Switch("address") /\ Switch("arm")
     THEN Report({"arm"}, SwitchCard) ELSE Report(down, SwitchCard)
  /\ UNCHANGED <<locals, notdone, world, pids>>

-------------------------------------------------------------------------------
(* The probes of one NFE. *)

ArmFails == Card("pd") \/ Card("ip")

\* Mutant: a card whose platform daemon is down is not looked at further.
PlatformDaemonOnly ==
  /\ pc = "pd" /\ c < MaxNfes
  /\ IF ArmFails THEN pc' = "ip" /\ heartbeats' \in {0, 1}
                 ELSE pc' = "pools" /\ heartbeats' = IF Card("me") THEN 1 ELSE 0
  /\ UNCHANGED <<c, down, notdone, log, world, pids>>

\* check_platform_daemon_and_me: heartbeats[c] is what it happened to be when the
\* daemon does not open or the read fails.
PlatformDaemon ==
  /\ pc = "pd" /\ c < MaxNfes
  /\ IF ArmFails THEN pc' = "ip" /\ heartbeats' \in {0, 1}
                 ELSE pc' = "me" /\ heartbeats' = IF Card("me") THEN 1 ELSE 0
  /\ UNCHANGED <<c, down, notdone, log, world, pids>>

\* With more NFEs than the arrays have room for, heartbeats[c] is not in heartbeats.
\* What the process does then is not modelled: it is taken to end.
Overrun ==
  /\ pc = "pd" /\ c = MaxNfes
  /\ pc' = "crashed"
  /\ UNCHANGED <<locals, notdone, log, world, pids>>

\* check_NFE_ip tells whose fault it is.  A card that is not there has no address, and
\* what is pinged may answer.
Ip ==
  /\ pc = "ip"
  /\ pc' = "me"
  /\ \E kind \in {"ip", "pd"} :
       /\ c \in Cards => (kind = "ip" <=> Card("ip"))
       /\ Report({kind}, c)
  /\ UNCHANGED <<locals, notdone, world, pids>>

Heartbeats ==
  /\ pc = "me"
  /\ pc' = "ep"
  /\ Report(IF heartbeats # 0 THEN {"me"} ELSE {}, c)
  /\ UNCHANGED <<locals, notdone, world, pids>>

\* check_platform_endpoints is -1, like counters that are not 0, when the platform
\* daemon does not open.
Endpoints ==
  /\ pc = "ep"
  /\ pc' = Simple[1]
  /\ Report(IF Card("ep") \/ ArmFails THEN {"ep"} ELSE {}, c)
  /\ UNCHANGED <<locals, notdone, world, pids>>

\* rulesd, the exception daemon, the temperature, the NFM and the TCAM daemon.
SimpleProbe(k) ==
  /\ pc = Simple[k]
  /\ pc' = IF k = Len(Simple) THEN "pools" ELSE Simple[k + 1]
  /\ Report(IF IF pc = "exceptiond" THEN <<pc, Host>> \in faults ELSE Card(pc) THEN {pc} ELSE {}, c)
  /\ UNCHANGED <<locals, notdone, world, pids>>

NextCard == IF c + 1 < nfes THEN c' = c + 1 /\ pc' = "pd" ELSE pc' = "sleep" /\ UNCHANGED c

\* The result of nfm_get_nfd_msg_info is not looked at: without it the numbers are
\* whatever they are, and a total of 0 ends the process.
Pools ==
  /\ pc = "pools"
  /\ \/ /\ ~Card("info")
        /\ Report({kind \in {"hostpool", "nfepool"} : Card(kind)}, c)
        /\ NextCard
     \/ /\ Card("info")
        /\ \E kinds \in SUBSET {"hostpool", "nfepool"} : Report(kinds, c)
        /\ NextCard
     \/ /\ Card("info")
        /\ pc' = "crashed" /\ UNCHANGED <<c, log>>
  /\ UNCHANGED <<down, heartbeats, notdone, world, pids>>

Sleep ==
  /\ pc = "sleep"
  /\ pc' = "loop"
  /\ UNCHANGED <<locals, notdone, log, world, pids>>

Sigint ==
  /\ pc \notin Over \union {"unlink"}
  /\ notdone' = 0
  /\ UNCHANGED <<pc, locals, log, world, pids>>

-------------------------------------------------------------------------------
(* Things break and are repaired. *)

\* Bound: what went wrong at the start, and a second monitor, count as much as a fault.
Room ==
  LET beside == <<pidfile = "lost", nfes # NNfes, other # "none">>
  IN  Cardinality(faults) + Cardinality({k \in DOMAIN beside : beside[k]}) < MaxFaults

Change(newFaults) ==
  /\ faults' = newFaults
  /\ always' = always \intersect newFaults
  /\ ever' = ever \union newFaults

Break(f) == f \notin faults /\ Room /\ Change(faults \union {f})
Repair(f) == f \in faults /\ Change(faults \ {f})

WorldChanges ==
  /\ pc \notin Startup \union Over /\ changes < MaxChanges
  /\ \E f \in Faults : Break(f) \/ Repair(f)
  /\ changes' = changes + 1
  /\ UNCHANGED <<pc, locals, notdone, log, pids>>

-------------------------------------------------------------------------------
(* A second monitor is started, and ends with exitfunc or without.  Bound: once. *)

Other(from, to, files) ==
  /\ other \in from /\ pc \notin Over
  /\ other' = to /\ pidfile' \in files
  /\ UNCHANGED <<pc, locals, notdone, log, world, nfes>>

OtherStarts == Room /\ Other({"none"}, "started", {"none"})
OtherWrites == Other({"started"}, "wrote", {"other"})
OtherEnds == Other({"started", "wrote"}, "ended", {"none"})
OtherCrashes == Other({"started", "wrote"}, "ended", {pidfile})

Next == \/ Start \/ OpenPidfile \/ WritePidfile \/ ClosePidfile \/ GetNfes
        \/ OtherStarts \/ OtherWrites \/ OtherEnds \/ OtherCrashes
        \/ Loop \/ Devices \/ Ping \/ PlatformDaemon \/ Overrun \/ Ip \/ Heartbeats \/ Endpoints
        \/ Pools \/ Sleep \/ Sigint
        \/ \E k \in DOMAIN Openings : OpenDaemon(k)
        \/ \E k \in DOMAIN Simple : SimpleProbe(k)
        \/ WorldChanges

Spec == Init /\ [][Next]_vars

-------------------------------------------------------------------------------
(* Correctness. *)

\* What keeps a fault from being seen or from being called by its name.
Masks(kind) == CASE kind \in Daemons               -> {"missing", "arm"}
                 [] kind = "arm"                   -> {"missing", "address"}
                 [] kind = "pd"                    -> {"ip"}
                 [] kind = "me"                    -> {"pd", "ip"}
                 [] kind \in {"hostpool", "nfepool"} -> {"info"}
                 [] OTHER                          -> {}

\* Whatever was wrong during all of a sweep is in the log at its end, on whichever
\* card, whatever else was wrong, unless one of its masks was wrong meanwhile, or the
\* monitor, whose query for the number of NFEs failed, does not know of the card.
FaultIsReported ==
  pc = "sleep" => \A f \in always :
    \/ f[1] \in {"address", "info"}
    \/ \E kind \in Masks(f[1]) : <<kind, f[2]>> \in ever
    \/ \A where \in IF f[2] = Host THEN Cards ELSE {f[2]} : where >= nfes \/ <<f[1], where>> \in log

\* What else a message may come from.
Confused(kind) == CASE kind \in Daemons               -> {"arm"}
                    [] kind = "pd"                    -> {"ip"}
                    [] kind \in {"me", "ep"}          -> {"pd", "ip"}
                    [] kind \in {"hostpool", "nfepool"} -> {"info"}
                    [] OTHER                          -> {}

\* Nothing is logged of the switch card or an NFE that is there unless it, or a fault
\* it is confused with on the same card, was wrong at some time of this sweep: nothing
\* is left over from an earlier one.
NoFalseAlarm ==
  \A m \in log : \/ m \in ever
                 \/ m[1] = "exceptiond" /\ <<"exceptiond", Host>> \in ever
                 \/ \E kind \in Confused(m[1]) : <<kind, m[2]>> \in ever
                 \/ m[1] # "exceptiond" /\ m[2] \notin Cards \union {SwitchCard}

LogInv == TypeOK /\ NoFalseAlarm

\* The pidfile names the monitor as long as it runs, or is empty if its fclose failed
\* unnoticed, and does not name it after it ended in order; no pid is left of one that
\* crashed before -- unless a second monitor was started meanwhile, if only for its -h:
\* that removes the file, and so does the end of either.
PidfileIsHonest ==
  /\ pc # "unlink" => pidfile # "stale"
  /\ pc = "exit" => pidfile # "us"
  /\ pc \notin Opening \union Over /\ other = "none" => pidfile \in {"us", "lost"}

\* "Some microengine is not running", says the comment on the message that the
\* heartbeats did not tick.
HeartbeatAlarmIsTrue == \A card \in Cards : <<"me", card>> \in log => <<"me", card>> \in ever
===============================================================================
