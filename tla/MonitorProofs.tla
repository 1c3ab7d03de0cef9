----------------------------- MODULE MonitorProofs -----------------------------
(***************************************************************************)
(* The two programs that watch over others.                                *)
(*                                                                         *)
(* The monitor, for any number of NFEs and any number it believes there    *)
(* are, with any number of faults that come and go at any time: at every   *)
(* point of a sweep, each fault whose probe is past and that has been      *)
(* there since the sweep began is in the log or masked, and what is in the *)
(* log, or about to be, is there for a reason.  The pidfile is its own, or *)
(* empty, until a second monitor is started.                               *)
(*                                                                         *)
(* The supervisor, for any list of services and any limit: the count the   *)
(* script keeps is the number of failed starts in a row, except while the  *)
(* last failure has not been counted yet, and it never passes the limit.   *)
(* From that follows that a service is given up exactly once and exactly   *)
(* at the limit.                                                           *)
(***************************************************************************)
EXTENDS Monitor, Supervisor, TLAPS

-------------------------------------------------------------------------------
(* The monitor. *)

\* Where in the loop over the cards a location is, and where a fault is past its probe.
Place(l) == CASE l = "pd"     -> 1 [] l = "ip"         -> 2 [] l = "me"   -> 3
              [] l = "ep"     -> 4 [] l = "rulesd"     -> 5 [] l = "exceptiond" -> 6
              [] l = "temp"   -> 7 [] l = "nfm"        -> 8 [] l = "tcam" -> 9
              [] l = "pools"  -> 10 [] l = "sleep"     -> 11
              [] OTHER        -> 0
Due(kind) == CASE kind \in {"pd", "ip"} -> 2 [] kind = "me"   -> 3 [] kind = "ep"  -> 4
               [] kind = "rulesd"       -> 5 [] kind = "exceptiond" -> 6
               [] kind = "temp"         -> 7 [] kind = "nfm"  -> 8 [] kind = "tcam" -> 9
               [] OTHER                 -> 10

AtSwitch == Daemons \union {"ping"}

\* The loop variable and the history are in order.
Bookkeeping ==
  /\ pc \in AtSwitch => c = 0
  /\ pc = "sleep" => \A x \in Cards : x < nfes => x <= c
  /\ always \subseteq faults /\ faults \subseteq ever

\* What the next messages rest on.
Reasons ==
  /\ pc \in AtSwitch => \A d \in down : \/ <<d, SwitchCard>> \in ever
                                         \/ <<"arm", SwitchCard>> \in ever
  /\ pc = "ip" /\ c \in Cards => <<"pd", c>> \in ever \/ <<"ip", c>> \in ever
  /\ pc \in {"ip", "me"} /\ heartbeats # 0 /\ c \in Cards =>
       \E kind \in {"me", "pd", "ip"} : <<kind, c>> \in ever

\* What has been noticed and not logged yet.
Tried(d) == \/ pc = "ping"
            \/ pc = "portd" /\ d = "swicthd"
            \/ pc = "failoverd" /\ d \in {"swicthd", "portd"}
Noticed ==
  /\ \A d \in Daemons : Tried(d) /\ (\/ <<d, SwitchCard>> \in always
                                     \/ <<"arm", SwitchCard>> \in always) => d \in down
  /\ pc \in AtSwitch => <<"missing", SwitchCard>> \notin always
  /\ pc \in {"ip", "me"} /\ <<"me", c>> \in always =>
       heartbeats # 0 \/ <<"pd", c>> \in ever \/ <<"ip", c>> \in ever

Reported(kind, x) == \/ kind \in {"address", "info"}
                     \/ \E mask \in Masks(kind) : <<mask, x>> \in ever
                     \/ <<kind, x>> \in log

Past(x, due) == /\ x < nfes
                /\ (x < c /\ Place(pc) > 0) \/ (x = c /\ Place(pc) > due)

SwitchReported ==
  Place(pc) > 0 => \A kind \in SwitchFaults :
                     <<kind, SwitchCard>> \in always => Reported(kind, SwitchCard)
CardsReported ==
  \A kind \in CardFaults, x \in Cards :
    Past(x, Due(kind)) /\ <<kind, x>> \in always => Reported(kind, x)
HostReported ==
  \A x \in Cards :
    Past(x, 6) /\ <<"exceptiond", Host>> \in always => <<"exceptiond", x>> \in log

Progress == Noticed /\ SwitchReported /\ CardsReported /\ HostReported
IInv == TypeOK /\ Bookkeeping /\ Reasons /\ NoFalseAlarm /\ Progress

-------------------------------------------------------------------------------
(* A step within a sweep only adds to the log and to what was ever wrong, and takes *)
(* away from what always was.                                                       *)

Onward == /\ always' \subseteq always /\ ever \subseteq ever' /\ log \subseteq log'
          /\ UNCHANGED nfes

LEMMA ReportedStays ==
  ASSUME Onward, NEW kind, NEW x, Reported(kind, x) PROVE Reported(kind, x)'
  BY DEF Onward, Reported

LEMMA DueBounds == \A kind : Due(kind) \in 2 .. 10
  BY DEF Due

LEMMA PlaceBounds == \A l : Place(l) \in 0 .. 11
  BY DEF Place

LEMMA Probing ==
  /\ CardProbes = {"pd", "ip", "me", "ep", "pools", "rulesd", "exceptiond", "temp", "nfm", "tcam"}
  /\ \A l : /\ l \in CardProbes <=> Place(l) \in 1 .. 10
            /\ l \in CardProbes \ {"pd"} <=> Place(l) \in 2 .. 10
<1>1. {Simple[k] : k \in DOMAIN Simple} = {"rulesd", "exceptiond", "temp", "nfm", "tcam"}
  BY DEF Simple
<1>2. CardProbes = {"pd", "ip", "me", "ep", "pools", "rulesd", "exceptiond", "temp", "nfm", "tcam"}
  BY <1>1 DEF CardProbes
<1>3. \A l \in CardProbes : l # "pd" => Place(l) \in 2 .. 10
  BY <1>2 DEF Place
<1>4. \A l : l \notin CardProbes => Place(l) \in {0, 11}
  BY <1>2 DEF Place
<1>5. ASSUME NEW l
      PROVE  /\ l \in CardProbes <=> Place(l) \in 1 .. 10
             /\ l \in CardProbes \ {"pd"} <=> Place(l) \in 2 .. 10
  <2>1. CASE l \notin CardProbes
    BY <1>4, <2>1
  <2>2. CASE l \in CardProbes /\ l = "pd"
    <3>1. Place(l) = 1
      BY <2>2 DEF Place
    <3> QED BY <2>2, <3>1
  <2>3. CASE l \in CardProbes /\ l # "pd"
    <3>1. Place(l) \in 2 .. 10
      BY <1>3, <2>3
    <3> QED BY <2>3, <3>1
  <2> QED BY <2>1, <2>2, <2>3
<1> QED BY <1>2, <1>5

\* So only the faults whose probe a step passes are of interest.
LEMMA CardsStep ==
  ASSUME MonitorAssumption, IInv, Onward, Place(pc) \in 1 .. 10,
         \/ c' = c /\ Place(pc') > 0
         \/ c' = c + 1 /\ Place(pc') = 1 /\ Place(pc) = 10,
         \A kind \in CardFaults, x \in Cards :
           ( /\ x = c /\ <<kind, x>> \in always'
             /\ Due(kind) >= Place(pc)
             /\ Place(pc') > Due(kind) \/ Place(pc) = 10 ) => Reported(kind, x)'
  PROVE  CardsReported'
<1> SUFFICES ASSUME NEW kind \in CardFaults, NEW x \in Cards, Past(x, Due(kind))',
                    <<kind, x>> \in always'
             PROVE  Reported(kind, x)'
  BY DEF CardsReported
<1>0. /\ c \in Int /\ x \in Int /\ Due(kind) \in 2 .. 10 /\ Place(pc') \in Int
      /\ <<kind, x>> \in always
  BY DueBounds, PlaceBounds DEF MonitorAssumption, IInv, TypeOK, Cards, Onward
<1>1. CASE Past(x, Due(kind))
  BY <1>0, <1>1, ReportedStays DEF IInv, Progress, CardsReported
<1>2. CASE ~Past(x, Due(kind))
  <2>1. x = c /\ Due(kind) >= Place(pc) /\ (Place(pc') > Due(kind) \/ Place(pc) = 10)
    BY <1>0, <1>2 DEF Past, Onward
  <2> QED BY <2>1
<1> QED BY <1>1, <1>2

LEMMA HostStep ==
  ASSUME MonitorAssumption, IInv, Onward, Place(pc) \in 1 .. 10,
         \/ c' = c /\ Place(pc') > 0
         \/ c' = c + 1 /\ Place(pc') = 1 /\ Place(pc) = 10,
         Place(pc) = 6 \/ Place(pc') <= 6 \/ Place(pc) > 6,
         Place(pc) = 6 /\ <<"exceptiond", Host>> \in always' => <<"exceptiond", c>> \in log'
  PROVE  HostReported'
<1> SUFFICES ASSUME NEW x \in Cards, Past(x, 6)', <<"exceptiond", Host>> \in always'
             PROVE  <<"exceptiond", x>> \in log'
  BY DEF HostReported
<1>0. /\ c \in Int /\ x \in Int /\ Place(pc') \in Int
      /\ <<"exceptiond", Host>> \in always
  BY PlaceBounds DEF MonitorAssumption, IInv, TypeOK, Cards, Onward
<1>1. CASE Past(x, 6)
  BY <1>0, <1>1 DEF IInv, Progress, HostReported, Onward
<1>2. CASE ~Past(x, 6)
  BY <1>0, <1>2 DEF Past, Onward
<1> QED BY <1>1, <1>2

Explains(m) == \/ m \in ever
               \/ m[1] = "exceptiond" /\ <<"exceptiond", Host>> \in ever
               \/ \E kind \in Confused(m[1]) : <<kind, m[2]>> \in ever
               \/ m[1] # "exceptiond" /\ m[2] \notin Cards \union {SwitchCard}

LEMMA AlarmStep ==
  ASSUME NoFalseAlarm, UNCHANGED ever, \A m \in log' : m \in log \/ Explains(m)
  PROVE  NoFalseAlarm'
  BY DEF NoFalseAlarm, Explains

LEMMA SwitchStep ==
  ASSUME SwitchReported, Onward, Place(pc) > 0 PROVE SwitchReported'
  BY ReportedStays DEF SwitchReported, Onward

\* A step that stays where it is, or leaves the sweep.
LEMMA StandStill ==
  ASSUME MonitorAssumption, IInv, Onward, UNCHANGED <<pc, locals>>
  PROVE  Progress' /\ Reasons'
<1>1. Noticed'
  BY DEF IInv, Progress, Noticed, Tried, Onward, locals
<1>2. SwitchReported'
  BY ReportedStays DEF IInv, Progress, SwitchReported, Onward
<1>3. CardsReported'
  <2> SUFFICES ASSUME NEW kind \in CardFaults, NEW x \in Cards, Past(x, Due(kind))',
                      <<kind, x>> \in always'
               PROVE  Reported(kind, x)'
    BY DEF CardsReported
  <2>1. Past(x, Due(kind)) /\ <<kind, x>> \in always
    BY DEF Past, Onward, locals
  <2> QED BY <2>1, ReportedStays DEF IInv, Progress, CardsReported
<1>4. HostReported'
  BY DEF IInv, Progress, HostReported, Past, Onward, locals
<1>5. Reasons'
  BY DEF IInv, Reasons, Onward, locals
<1> QED BY <1>1, <1>2, <1>3, <1>4, <1>5 DEF Progress

LEMMA Away ==
  ASSUME pc' \in {"open", "write", "close", "nfes", "loop", "devices", "exit", "crashed"}
  PROVE  Progress' /\ Reasons'
<1>1. Place(pc') = 0 /\ pc' \notin AtSwitch /\ pc' \notin {"ip", "me"}
  BY DEF Place, AtSwitch, Daemons
<1>2. \A x : \A due \in 2 .. 10 : ~Past(x, due)'
  BY <1>1 DEF Past
<1>3. CardsReported'
  BY <1>2, DueBounds DEF CardsReported
<1> QED BY <1>1, <1>2, <1>3
        DEF Progress, Reasons, Noticed, Tried, SwitchReported, HostReported, AtSwitch

\* The loop over the cards begins with none of them probed.
LEMMA CardsBegin ==
  ASSUME MonitorAssumption, IInv, pc' = FirstProbe, c' = 0, UNCHANGED nfes
  PROVE  CardsReported' /\ HostReported' /\ pc' \notin AtSwitch \union {"ip", "me"}
<1>1. \A x \in Cards : \A due \in 2 .. 10 : ~Past(x, due)'
  BY DEF MonitorAssumption, FirstProbe, Past, Cards, Place, IInv, TypeOK
<1> QED BY <1>1, DueBounds
        DEF CardsReported, HostReported, FirstProbe, AtSwitch, Daemons

-------------------------------------------------------------------------------
(* The steps. *)

LEMMA InitIInv == ASSUME MonitorAssumption, Init PROVE IInv
  BY DueBounds
     DEF MonitorAssumption, Init, IInv, TypeOK, Bookkeeping, Reasons, NoFalseAlarm, Progress,
         Noticed, Tried, SwitchReported, CardsReported, HostReported, Past, Place, AtSwitch,
         Daemons, Locations, Opening, Startup, Simple, CardProbes, Messages

\* The pidfile and the signal, and the start and end of a sweep.
LEMMA AroundIInv ==
  ASSUME MonitorAssumption, IInv,
         \/ Start \/ OpenPidfile \/ WritePidfile \/ ClosePidfile \/ GetNfes
         \/ Sleep \/ Loop \/ Overrun \/ Sigint
         \/ OtherStarts \/ OtherWrites \/ OtherEnds \/ OtherCrashes
  PROVE  IInv'
<1> USE DEF Exit, pids, kept, world, locals
<1>1. CASE \/ Start \/ OpenPidfile \/ WritePidfile \/ ClosePidfile \/ GetNfes
           \/ Sleep \/ Overrun
  <2>1. /\ pc' \in {"open", "write", "close", "nfes", "loop", "exit", "crashed"}
        /\ pidfile' \in {"none", "empty", "lost", "us", "other", "stale"}
        /\ nfes' \in 0 .. MaxNfes + 1
        /\ UNCHANGED <<locals, notdone, log, world, other>>
    BY <1>1 DEF MonitorAssumption, IInv, TypeOK, Start, OpenPidfile, WritePidfile, Written,
                ClosePidfile, GetNfes, Sleep, Overrun
  <2>2. Progress' /\ Reasons'
    BY <2>1, Away
  <2>3. TypeOK'
    <3>1. pc' \in Locations /\ pc' \notin CardProbes
      BY <2>1, Probing DEF Locations, Opening, Startup, Over
    <3> QED BY <2>1, <3>1 DEF IInv, TypeOK
  <2>4. Bookkeeping' /\ NoFalseAlarm'
    BY <2>1 DEF IInv, Bookkeeping, NoFalseAlarm, Place, AtSwitch, Daemons
  <2> QED BY <2>2, <2>3, <2>4 DEF IInv
<1>2. CASE Loop
  <2>1. Progress' /\ Reasons'
    BY <1>2, Away DEF Loop
  <2>2. TypeOK'
    <3>1. pc' \in Locations /\ pc' \notin CardProbes
      BY <1>2, Probing DEF Loop, Locations, Over
    <3> QED BY <1>2, <3>1 DEF MonitorAssumption, IInv, TypeOK, Loop
  <2>3. Bookkeeping' /\ NoFalseAlarm'
    BY <1>2 DEF IInv, Bookkeeping, NoFalseAlarm, Loop, AtSwitch, Daemons
  <2> QED BY <2>1, <2>2, <2>3 DEF IInv
<1>3. CASE Sigint \/ OtherStarts \/ OtherWrites \/ OtherEnds \/ OtherCrashes
  <2>1. /\ UNCHANGED <<pc, locals, log, world, nfes>>
        /\ notdone' \in {0, 1}
        /\ pidfile' \in {"none", "empty", "lost", "us", "other", "stale"}
        /\ other' \in {"none", "started", "wrote", "ended"}
    BY <1>3 DEF IInv, TypeOK, Sigint, Other, OtherStarts, OtherWrites, OtherEnds,
                OtherCrashes
  <2>2. Progress' /\ Reasons'
    BY <2>1, StandStill DEF Onward
  <2>3. TypeOK'
    BY <2>1 DEF IInv, TypeOK
  <2>4. Bookkeeping' /\ NoFalseAlarm'
    BY <2>1 DEF IInv, Bookkeeping, NoFalseAlarm
  <2> QED BY <2>2, <2>3, <2>4 DEF IInv
<1> QED BY <1>1, <1>2, <1>3

\* Things break and are repaired.
LEMMA ChangeIInv == ASSUME MonitorAssumption, IInv, WorldChanges PROVE IInv'
<1>1. PICK newFaults \in SUBSET Faults : Change(newFaults)
  BY DEF IInv, TypeOK, WorldChanges, Break, Repair
<1>2. Onward /\ UNCHANGED <<pc, locals, notdone, log, pids>>
  BY <1>1 DEF WorldChanges, Change, Onward, pids, kept
<1>3. Progress' /\ Reasons'
  BY <1>2, StandStill
<1>4. TypeOK'
  BY <1>1, <1>2 DEF MonitorAssumption, IInv, TypeOK, WorldChanges, Change, locals, pids, kept
<1>5. Bookkeeping' /\ NoFalseAlarm'
  BY <1>1, <1>2 DEF IInv, Bookkeeping, NoFalseAlarm, Change, locals, pids, kept
<1> QED BY <1>3, <1>4, <1>5 DEF IInv

\* The switch card.
LEMMA SwitchIInv ==
  ASSUME MonitorAssumption, IInv,
         Devices \/ Ping \/ \E k \in DOMAIN Openings : OpenDaemon(k)
  PROVE  IInv'
<1> USE DEF pids, kept, world, locals, Report, Switch, SwitchCard
<1>0. always \subseteq faults /\ faults \subseteq ever /\ down \subseteq Daemons
  BY DEF IInv, TypeOK, Bookkeeping
<1>1. CASE Devices
  <2>1. CASE Switch("missing")
    <3>1. /\ pc' = FirstProbe /\ c' = 0
          /\ log' = log \union {<<"missing", SwitchCard>>}
          /\ <<"missing", SwitchCard>> \in ever
          /\ down' = {} /\ UNCHANGED <<heartbeats, notdone, world, pids>>
      BY <1>0, <1>1, <2>1 DEF Devices
    <3>2. CardsReported' /\ HostReported' /\ pc' \notin AtSwitch \union {"ip", "me"}
      BY <3>1, CardsBegin
    <3>3. SwitchReported'
      BY <3>1 DEF SwitchReported, SwitchFaults, Daemons, Reported, Masks
    <3>4. Noticed' /\ Reasons'
      BY <3>2 DEF Noticed, Reasons, Tried, AtSwitch, Daemons
    <3>5. TypeOK'
      <4>1. /\ pc' \in Locations /\ pc' \notin CardProbes \ {"pd"}
            /\ pc' \in CardProbes => 0 < nfes
        BY <3>1, Probing DEF MonitorAssumption, IInv, TypeOK, FirstProbe, Locations
      <4> QED BY <3>1, <4>1 DEF MonitorAssumption, IInv, TypeOK, SwitchFaults, Messages
    <3>6. Bookkeeping' /\ NoFalseAlarm'
      BY <3>1, <3>2 DEF MonitorAssumption, IInv, TypeOK, Bookkeeping, NoFalseAlarm,
                        FirstProbe, Cards
    <3> QED BY <3>2, <3>3, <3>4, <3>5, <3>6 DEF IInv, Progress
  <2>2. CASE ~Switch("missing")
    <3>1. /\ pc' = "swicthd" /\ c' = 0 /\ down' = {}
          /\ <<"missing", SwitchCard>> \notin always
          /\ UNCHANGED <<log, heartbeats, notdone, world, pids>>
      BY <1>0, <1>1, <2>2 DEF Devices
    <3>2. Progress' /\ Reasons'
      <4>1. Place(pc') = 0 /\ \A x : \A due \in 2 .. 10 : ~Past(x, due)'
        BY <3>1 DEF Place, Past
      <4>2. CardsReported'
        BY <4>1, DueBounds DEF CardsReported
      <4> QED BY <3>1, <4>1, <4>2
              DEF Progress, Reasons, Noticed, Tried, SwitchReported, HostReported
    <3>3. TypeOK'
      <4>1. pc' \in Locations /\ pc' \notin CardProbes
        BY <3>1, Probing DEF Locations, Daemons
      <4> QED BY <3>1, <4>1 DEF MonitorAssumption, IInv, TypeOK
    <3>4. Bookkeeping' /\ NoFalseAlarm'
      BY <3>1 DEF IInv, Bookkeeping, NoFalseAlarm
    <3> QED BY <3>2, <3>3, <3>4 DEF IInv
  <2> QED BY <2>1, <2>2
<1>2. CASE \E k \in DOMAIN Openings : OpenDaemon(k)
  <2>1. /\ pc \in Daemons
        /\ \/ pc = "swicthd" /\ pc' = "portd"
           \/ pc = "portd" /\ pc' = "failoverd"
           \/ pc = "failoverd" /\ pc' = "ping"
        /\ down' = IF Switch(pc) \/ Switch("arm") THEN down \union {pc} ELSE down
        /\ UNCHANGED <<c, heartbeats, notdone, log, world, pids>>
    BY <1>2 DEF Openings, OpenDaemon, Daemons
  <2>2. Noticed'
    BY <1>0, <2>1 DEF IInv, Progress, Noticed, Tried, Daemons, AtSwitch
  <2>3. Reasons'
    BY <1>0, <2>1 DEF IInv, Reasons, Daemons, AtSwitch
  <2>4. Place(pc') = 0 /\ \A x : \A due \in 2 .. 10 : ~Past(x, due)'
    BY <2>1 DEF Place, Past
  <2>5. SwitchReported' /\ CardsReported' /\ HostReported'
    BY <2>4, DueBounds DEF SwitchReported, CardsReported, HostReported
  <2>6. TypeOK' /\ Bookkeeping' /\ NoFalseAlarm'
    BY <2>1, <2>4, Probing
       DEF IInv, TypeOK, Bookkeeping, NoFalseAlarm, AtSwitch, Daemons, Locations
  <2> QED BY <2>2, <2>3, <2>5, <2>6 DEF IInv, Progress
<1>3. CASE Ping
  <2>1. /\ pc = "ping" /\ c = 0 /\ pc' = FirstProbe /\ c' = 0
        /\ UNCHANGED <<locals, notdone, world, pids>>
        /\ <<"missing", SwitchCard>> \notin always
        /\ \A d \in Daemons : (\/ <<d, SwitchCard>> \in always
                               \/ <<"arm", SwitchCard>> \in always) => d \in down
        /\ \A d \in down : \/ <<d, SwitchCard>> \in ever
                           \/ <<"arm", SwitchCard>> \in ever
    BY <1>3 DEF Ping, IInv, Bookkeeping, Progress, Noticed, Reasons, Tried, AtSwitch
  <2>2. CardsReported' /\ HostReported' /\ pc' \notin AtSwitch \union {"ip", "me"}
    BY <2>1, CardsBegin
  <2>3. Noticed' /\ Reasons'
    BY <2>2 DEF Noticed, Reasons, Tried, AtSwitch, Daemons
  <2>4. /\ SwitchReported' /\ NoFalseAlarm'
        /\ log' \subseteq log \union (SwitchFaults \X {SwitchCard})
    <3>1. CASE down = Daemons /\ ~Switch("address") /\ Switch("arm")
      <4>1. /\ log' = log \union {<<"arm", SwitchCard>>}
            /\ <<"arm", SwitchCard>> \in ever
        BY <1>0, <1>3, <3>1 DEF Ping
      <4>2. SwitchReported'
        BY <2>1, <4>1 DEF SwitchReported, SwitchFaults, Daemons, Reported, Masks
      <4> QED BY <2>1, <4>1, <4>2 DEF IInv, NoFalseAlarm, SwitchFaults
    <3>2. CASE ~(down = Daemons /\ ~Switch("address") /\ Switch("arm"))
      <4>1. log' = log \union (down \X {SwitchCard})
        BY <1>3, <3>2 DEF Ping
      <4>2. SwitchReported'
        <5>1. <<"arm", SwitchCard>> \in always => <<"address", SwitchCard>> \in ever
          BY <1>0, <2>1, <3>2
        <5> QED BY <2>1, <4>1, <5>1
                DEF SwitchReported, SwitchFaults, Daemons, Reported, Masks
      <4>3. NoFalseAlarm'
        <5>1. \A d \in Daemons : Confused(d) = {"arm"}
          BY DEF Confused, Daemons
        <5> QED BY <1>0, <2>1, <4>1, <5>1 DEF IInv, NoFalseAlarm
      <4> QED BY <1>0, <4>1, <4>2, <4>3 DEF SwitchFaults
    <3> QED BY <3>1, <3>2
  <2>5. TypeOK'
    <3>1. /\ pc' \in Locations /\ pc' \notin CardProbes \ {"pd"}
          /\ pc' \in CardProbes => 0 < nfes
      BY <2>1, Probing DEF MonitorAssumption, IInv, TypeOK, FirstProbe, Locations
    <3> QED BY <2>1, <2>4, <3>1 DEF MonitorAssumption, IInv, TypeOK, Messages
  <2>6. Bookkeeping'
    BY <2>1, <2>2 DEF MonitorAssumption, IInv, TypeOK, Bookkeeping, FirstProbe, Cards
  <2> QED BY <2>2, <2>3, <2>4, <2>5, <2>6 DEF IInv, Progress
<1> QED BY <1>1, <1>2, <1>3

\* The probes of one NFE: each is followed by the next, or by the next card.
LEMMA CardIInv ==
  ASSUME MonitorAssumption, IInv,
         \/ PlatformDaemon \/ Ip \/ Heartbeats \/ Endpoints
         \/ \E k \in DOMAIN Simple : SimpleProbe(k)
  PROVE  IInv'
<1> USE DEF pids, kept, world, locals, Report, Card
<1>0. /\ always \subseteq faults /\ faults \subseteq ever /\ faults \subseteq Faults
      /\ Place(pc) \in 2 .. 9 => c < MaxNfes
      /\ c \in Nat
  BY Probing DEF MonitorAssumption, IInv, TypeOK, Bookkeeping
<1>1. ASSUME Onward, Place(pc) \in 1 .. 9, c < MaxNfes, c' = c, down' = down, notdone' = notdone,
             heartbeats' \in {0, 1}, UNCHANGED <<world, pids>>,
             pc' \in {"ip", "me", "ep", "pools"} \union {Simple[k] : k \in DOMAIN Simple},
             Place(pc') \in 1 .. 10, pc' \notin AtSwitch,
             log' \subseteq log \union (CardFaults \X {c}) \union {<<"exceptiond", c>>}
      PROVE  TypeOK' /\ Bookkeeping' /\ SwitchReported'
  <2>1. c \in 0 .. MaxNfes - 1 /\ c < nfes
    BY <1>0, <1>1, Probing DEF MonitorAssumption, IInv, TypeOK
  <2>2. TypeOK'
    <3>1. log' \subseteq Messages
      BY <1>1, <2>1 DEF IInv, TypeOK, Messages
    <3>2. pc' \in Locations
      BY <1>1 DEF Locations, CardProbes
    <3> QED BY <1>1, <2>1, <3>1, <3>2 DEF IInv, TypeOK
  <2>3. Bookkeeping'
    BY <1>1 DEF IInv, Bookkeeping, Place
  <2>4. SwitchReported'
    BY <1>1, SwitchStep DEF IInv, Progress
  <2> QED BY <2>2, <2>3, <2>4
<1>2. CASE PlatformDaemon
  <2>1. /\ pc = "pd" /\ Place(pc) = 1 /\ c < MaxNfes /\ Onward
        /\ UNCHANGED <<c, down, notdone, log, world, pids>>
        /\ heartbeats' \in {0, 1}
    BY <1>2 DEF PlatformDaemon, Onward, Place
  <2>2. CASE ArmFails
    <3>1. pc' = "ip" /\ Place(pc') = 2 /\ pc' \notin AtSwitch
      BY <1>2, <2>2 DEF PlatformDaemon, Place, AtSwitch, Daemons
    <3>2. TypeOK' /\ Bookkeeping' /\ SwitchReported'
      BY <1>1, <2>1, <3>1
    <3>3. CardsReported' /\ HostReported'
      BY <2>1, <3>1, CardsStep, HostStep, DueBounds
    <3>4. <<"me", c>> \in always => c \in Cards
      BY <1>0 DEF Faults, SwitchFaults, Daemons
    <3>5. c \in Cards => <<"pd", c>> \in ever \/ <<"ip", c>> \in ever
      BY <1>0, <2>2 DEF ArmFails
    <3>6. Noticed' /\ Reasons'
      BY <2>1, <3>1, <3>4, <3>5 DEF Noticed, Reasons, Tried
    <3> QED BY <2>1, <3>2, <3>3, <3>6 DEF IInv, Progress, NoFalseAlarm
  <2>3. CASE ~ArmFails
    <3>1. /\ pc' = "me" /\ Place(pc') = 3 /\ pc' \notin AtSwitch
          /\ heartbeats' = IF Card("me") THEN 1 ELSE 0
          /\ <<"pd", c>> \notin always /\ <<"ip", c>> \notin always
      BY <1>0, <1>2, <2>3 DEF PlatformDaemon, Place, AtSwitch, Daemons, ArmFails
    <3>2. TypeOK' /\ Bookkeeping' /\ SwitchReported'
      BY <1>1, <2>1, <3>1
    <3>3. \A kind \in CardFaults : Due(kind) < 3 => kind \in {"pd", "ip"}
      BY DEF Due, CardFaults
    <3>4. CardsReported' /\ HostReported'
      BY <2>1, <3>1, <3>3, CardsStep, HostStep
    <3>5. Noticed' /\ Reasons'
      BY <1>0, <2>1, <3>1 DEF Noticed, Reasons, Tried
    <3> QED BY <2>1, <3>2, <3>4, <3>5 DEF IInv, Progress, NoFalseAlarm
  <2> QED BY <2>2, <2>3
<1>3. CASE Ip
  <2>1. /\ pc = "ip" /\ Place(pc) = 2 /\ pc' = "me" /\ Place(pc') = 3
        /\ pc' \notin AtSwitch /\ c < MaxNfes /\ Onward
        /\ UNCHANGED <<locals, notdone, world, pids>>
    BY <1>0, <1>3 DEF Ip, Onward, Place, AtSwitch, Daemons
  <2>a. PICK said \in {"ip", "pd"} :
          /\ log' = log \union {<<said, c>>}
          /\ c \in Cards => (said = "ip" <=> <<"ip", c>> \in faults)
    BY <1>3 DEF Ip
  <2>2. TypeOK' /\ Bookkeeping' /\ SwitchReported'
    BY <1>1, <2>1, <2>a DEF CardFaults, IInv, TypeOK
  <2>3. CardsReported'
    <3>1. \A kind \in CardFaults : Due(kind) < 3 => kind \in {"pd", "ip"}
      BY DEF Due, CardFaults
    <3>2. ASSUME NEW kind \in {"pd", "ip"}, NEW x \in Cards, x = c, <<kind, x>> \in always'
          PROVE  Reported(kind, x)'
      BY <1>0, <2>1, <2>a, <3>2 DEF Reported, Masks, Daemons
    <3> QED BY <2>1, <3>1, <3>2, CardsStep
  <2>4. HostReported'
    BY <2>1, HostStep
  <2>5. NoFalseAlarm'
    <3>1. c \in Cards =>
            /\ said = "ip" => <<"ip", c>> \in ever
            /\ <<"pd", c>> \in ever \/ <<"ip", c>> \in ever
      BY <1>0, <2>1, <2>a DEF IInv, Reasons
    <3>2. "ip" \in Confused("pd")
      BY DEF Confused, Daemons
    <3>3. c # SwitchCard
      BY <1>0 DEF SwitchCard
    <3>4. Explains(<<said, c>>)
      BY <3>1, <3>2, <3>3 DEF Explains
    <3> QED BY <2>1, <2>a, <3>4, AlarmStep DEF IInv
  <2>6. Noticed' /\ Reasons'
    BY <2>1 DEF IInv, Progress, Noticed, Reasons, Tried
  <2> QED BY <2>2, <2>3, <2>4, <2>5, <2>6 DEF IInv, Progress
<1>4. CASE Heartbeats
  <2>1. /\ pc = "me" /\ Place(pc) = 3 /\ pc' = "ep" /\ Place(pc') = 4
        /\ pc' \notin AtSwitch /\ c < MaxNfes /\ Onward
        /\ log' = log \union ((IF heartbeats # 0 THEN {"me"} ELSE {}) \X {c})
        /\ UNCHANGED <<locals, notdone, world, pids>>
    BY <1>0, <1>4 DEF Heartbeats, Onward, Place, AtSwitch, Daemons
  <2>2. TypeOK' /\ Bookkeeping' /\ SwitchReported'
    BY <1>1, <2>1 DEF CardFaults, IInv, TypeOK
  <2>3. CardsReported'
    <3>1. \A kind \in CardFaults : Due(kind) = 3 => kind = "me"
      BY DEF Due, CardFaults
    <3>2. ASSUME NEW x \in Cards, x = c, <<"me", x>> \in always'
          PROVE  Reported("me", x)'
      <4>1. heartbeats # 0 \/ <<"pd", c>> \in ever \/ <<"ip", c>> \in ever
        BY <2>1, <3>2 DEF IInv, Progress, Noticed
      <4> QED BY <2>1, <3>2, <4>1 DEF Reported, Masks, Daemons
    <3>3. \A kind \in CardFaults : Due(kind) < 4 /\ Due(kind) >= 3 => kind = "me"
      BY <3>1, DueBounds
    <3> QED BY <2>1, <3>2, <3>3, CardsStep
  <2>4. HostReported'
    BY <2>1, HostStep
  <2>5. NoFalseAlarm'
    <3>1. \A m \in log' : m \in log \/ (m = <<"me", c>> /\ heartbeats # 0)
      BY <2>1
    <3>2. heartbeats # 0 /\ c \in Cards => \E kind \in {"me", "pd", "ip"} : <<kind, c>> \in ever
      BY <2>1 DEF IInv, Reasons
    <3>3. Confused("me") = {"pd", "ip"} /\ c # SwitchCard
      BY <1>0 DEF Confused, Daemons, SwitchCard
    <3>4. heartbeats # 0 => Explains(<<"me", c>>)
      BY <3>2, <3>3 DEF Explains
    <3> QED BY <2>1, <3>1, <3>4, AlarmStep DEF IInv
  <2>6. Noticed' /\ Reasons'
    BY <2>1 DEF Noticed, Reasons, Tried
  <2> QED BY <2>2, <2>3, <2>4, <2>5, <2>6 DEF IInv, Progress
<1>5. CASE Endpoints
  <2>1. /\ pc = "ep" /\ Place(pc) = 4 /\ pc' = "rulesd" /\ Place(pc') = 5
        /\ pc' \notin AtSwitch /\ c < MaxNfes /\ Onward
        /\ log' = log \union ((IF Card("ep") \/ ArmFails THEN {"ep"} ELSE {}) \X {c})
        /\ UNCHANGED <<locals, notdone, world, pids>>
    BY <1>0, <1>5 DEF Endpoints, Onward, Place, AtSwitch, Daemons, Simple
  <2>2. TypeOK' /\ Bookkeeping' /\ SwitchReported'
    <3>1. pc' \in {Simple[k] : k \in DOMAIN Simple}
      BY <1>5 DEF Endpoints, Simple
    <3> QED BY <1>1, <2>1, <3>1 DEF CardFaults, IInv, TypeOK
  <2>3. CardsReported'
    <3>1. \A kind \in CardFaults : Due(kind) < 5 /\ Due(kind) >= 4 => kind = "ep"
      BY DEF Due, CardFaults
    <3>2. ASSUME NEW x \in Cards, x = c, <<"ep", x>> \in always' PROVE Reported("ep", x)'
      BY <1>0, <2>1, <3>2 DEF Reported
    <3> QED BY <2>1, <3>1, <3>2, CardsStep
  <2>4. HostReported'
    BY <2>1, HostStep
  <2>5. NoFalseAlarm'
    <3>1. \A m \in log' : m \in log \/ (m = <<"ep", c>> /\ (Card("ep") \/ ArmFails))
      BY <2>1
    <3>2. Confused("ep") = {"pd", "ip"} /\ c # SwitchCard
      BY <1>0 DEF Confused, Daemons, SwitchCard
    <3>3. Card("ep") \/ ArmFails => Explains(<<"ep", c>>)
      BY <1>0, <3>2 DEF Explains, ArmFails
    <3> QED BY <2>1, <3>1, <3>3, AlarmStep DEF IInv
  <2>6. Noticed' /\ Reasons'
    BY <2>1 DEF Noticed, Reasons, Tried
  <2> QED BY <2>2, <2>3, <2>4, <2>5, <2>6 DEF IInv, Progress
<1>6. CASE \E k \in DOMAIN Simple : SimpleProbe(k)
  <2>1. PICK k \in 1 .. 5 : SimpleProbe(k)
    BY <1>6 DEF Simple
  <2>2. /\ pc = Simple[k] /\ Place(pc) = k + 4 /\ Place(pc') = k + 5
        /\ pc' \in {"pools"} \union {Simple[j] : j \in DOMAIN Simple}
        /\ pc \in {"rulesd", "exceptiond", "temp", "nfm", "tcam"}
        /\ pc' \notin AtSwitch \union {"ip", "me"}
        /\ k = 2 <=> pc = "exceptiond"
    BY <2>1 DEF SimpleProbe, Simple, Place, AtSwitch, Daemons
  <2>3. /\ UNCHANGED <<locals, notdone, world, pids>> /\ c < MaxNfes /\ Onward
        /\ log' = log \union
             ((IF IF pc = "exceptiond" THEN <<pc, Host>> \in faults ELSE Card(pc)
               THEN {pc} ELSE {}) \X {c})
    BY <1>0, <2>1, <2>2 DEF SimpleProbe, Onward
  <2>4. TypeOK' /\ Bookkeeping' /\ SwitchReported'
    BY <1>1, <2>2, <2>3 DEF CardFaults, IInv, TypeOK
  <2>5. CardsReported'
    <3>1. \A kind \in CardFaults : Due(kind) < k + 5 /\ Due(kind) >= k + 4 => kind = pc
      BY <2>2 DEF Due, CardFaults, Place
    <3>2. ASSUME NEW x \in Cards, x = c, <<pc, x>> \in always
          PROVE  <<pc, x>> \in log'
      <4>1. pc # "exceptiond"
        BY <1>0, <3>2 DEF Faults, CardFaults, SwitchCard, Host
      <4> QED BY <1>0, <2>3, <3>2, <4>1
    <3>3. ASSUME NEW kind \in CardFaults, NEW x \in Cards, x = c, <<kind, x>> \in always',
                 Due(kind) < k + 5, Due(kind) >= k + 4
          PROVE  Reported(kind, x)'
      BY <2>3, <3>1, <3>2, <3>3 DEF Reported
    <3> QED BY <2>2, <2>3, <3>3, CardsStep
  <2>6. HostReported'
    <3>1. Place(pc) = 6 /\ <<"exceptiond", Host>> \in always' => <<"exceptiond", c>> \in log'
      BY <1>0, <2>2, <2>3
    <3> QED BY <2>2, <2>3, <3>1, HostStep
  <2>7. NoFalseAlarm'
    <3>1. \A m \in log' :
            \/ m \in log
            \/ /\ m = <<pc, c>>
               /\ IF pc = "exceptiond" THEN <<pc, Host>> \in faults ELSE Card(pc)
      BY <2>3
    <3>2. (IF pc = "exceptiond" THEN <<pc, Host>> \in faults ELSE Card(pc)) => Explains(<<pc, c>>)
      BY <1>0 DEF Explains, SwitchCard
    <3> QED BY <2>3, <3>1, <3>2, AlarmStep DEF IInv
  <2>8. Noticed' /\ Reasons'
    BY <2>2 DEF Noticed, Reasons, Tried, AtSwitch, Daemons
  <2> QED BY <2>4, <2>5, <2>6, <2>7, <2>8 DEF IInv, Progress
<1> QED BY <1>2, <1>3, <1>4, <1>5, <1>6

\* The buffer pools, and on to the next card.
LEMMA PoolsIInv == ASSUME MonitorAssumption, IInv, Pools PROVE IInv'
<1> USE DEF pids, kept, world, locals, Report, Card
<1>0. /\ always \subseteq faults /\ faults \subseteq ever /\ Place(pc) = 10
      /\ c \in 0 .. MaxNfes - 1 /\ c < nfes /\ nfes \in 0 .. MaxNfes + 1
      /\ pc = "pools" /\ UNCHANGED <<down, heartbeats, notdone, world, pids>>
  BY DEF MonitorAssumption, IInv, TypeOK, CardProbes, Bookkeeping, Pools, Place
<1>1. CASE pc' = "crashed" /\ UNCHANGED <<c, log>>
  <2>1. Progress' /\ Reasons'
    BY <1>1, Away
  <2>2. TypeOK'
    <3>1. pc' \in Locations /\ pc' \notin CardProbes
      BY <1>1, Probing DEF Locations, Over
    <3> QED BY <1>0, <1>1, <3>1 DEF IInv, TypeOK
  <2>3. Bookkeeping' /\ NoFalseAlarm'
    BY <1>0, <1>1 DEF IInv, Bookkeeping, NoFalseAlarm, AtSwitch, Daemons
  <2> QED BY <2>1, <2>2, <2>3 DEF IInv
<1>2. CASE NextCard
  <2>1. PICK kinds \in SUBSET {"hostpool", "nfepool"} :
          /\ log' = log \union (kinds \X {c})
          /\ ~Card("info") => kinds = {kind \in {"hostpool", "nfepool"} : Card(kind)}
    <3>1. CASE ~Card("info")
      BY <3>1 DEF Pools
    <3>2. CASE Card("info") /\ pc' # "crashed"
      BY <3>2 DEF Pools
    <3> QED BY <1>2, <3>1, <3>2 DEF NextCard
  <2>2. /\ Onward /\ c' \in 0 .. MaxNfes
        /\ \/ c' = c + 1 /\ pc' = "pd" /\ Place(pc') = 1 /\ c' < nfes
           \/ /\ c' = c /\ pc' = "sleep" /\ Place(pc') = 11
              /\ \A x \in Cards : x < nfes => x <= c
        /\ pc' \notin AtSwitch \union {"ip", "me"}
    BY <1>0, <1>2, <2>1 DEF MonitorAssumption, NextCard, Place, Onward, Cards, AtSwitch, Daemons
  <2>3. TypeOK'
    <3>1. log' \subseteq Messages
      <4>1. kinds \X {c} \subseteq CardFaults \X (0 .. MaxNfes - 1)
        BY <1>0, <2>1 DEF CardFaults
      <4> QED BY <2>1, <4>1 DEF IInv, TypeOK, Messages
    <3>2. pc' \in Locations /\ pc' \notin CardProbes \ {"pd"}
      BY <2>2, Probing DEF Locations, CardProbes
    <3>3. pc' \in CardProbes => c' < nfes'
      BY <1>0, <2>2, Probing
    <3> QED BY <1>0, <2>2, <3>1, <3>2, <3>3 DEF IInv, TypeOK
  <2>4. Bookkeeping'
    BY <1>0, <2>2 DEF IInv, Bookkeeping, Place
  <2>5. SwitchReported'
    BY <1>0, <2>2, SwitchStep DEF IInv, Progress
  <2>6. CardsReported'
    <3>1. \A kind \in CardFaults : Due(kind) >= 10 => kind \in {"info", "hostpool", "nfepool"}
      BY DEF Due, CardFaults
    <3>2. ASSUME NEW kind \in {"info", "hostpool", "nfepool"}, NEW x \in Cards, x = c,
                 <<kind, x>> \in always'
          PROVE  Reported(kind, x)'
      BY <1>0, <2>1, <3>2 DEF Reported, Masks, Daemons
    <3> QED BY <1>0, <2>2, <3>1, <3>2, CardsStep
  <2>7. HostReported'
    BY <1>0, <2>2, HostStep
  <2>8. NoFalseAlarm'
    <3>1. c \in Cards => \A kind \in kinds : <<kind, c>> \in ever \/ <<"info", c>> \in ever
      BY <1>0, <2>1
    <3>2. \A kind \in kinds : Confused(kind) = {"info"}
      BY <2>1 DEF Confused, Daemons
    <3>3. \A m \in log' : m \in log \/ \E kind \in kinds : m = <<kind, c>>
      <4>1. \A m \in kinds \X {c} : m = <<m[1], c>> /\ m[1] \in kinds
        OBVIOUS
      <4> QED BY <2>1, <4>1
    <3>4. ASSUME NEW kind \in kinds PROVE Explains(<<kind, c>>)
      BY <1>0, <2>1, <3>1, <3>2 DEF Explains, SwitchCard
    <3> QED BY <1>0, <3>3, <3>4, AlarmStep DEF IInv
  <2>9. Noticed' /\ Reasons'
    BY <2>2 DEF Noticed, Reasons, Tried, AtSwitch, Daemons
  <2> QED BY <2>3, <2>4, <2>5, <2>6, <2>7, <2>8, <2>9 DEF IInv, Progress
<1> QED BY <1>1, <1>2 DEF Pools

LEMMA NextIInv == ASSUME MonitorAssumption, IInv, [Next]_vars PROVE IInv'
<1>1. CASE UNCHANGED vars
  <2>1. Progress' /\ Reasons'
    BY <1>1, StandStill DEF vars, Onward, world, pids, kept
  <2>2. TypeOK'
    BY <1>1 DEF IInv, TypeOK, vars, world, locals, pids, kept
  <2>3. Bookkeeping' /\ NoFalseAlarm'
    BY <1>1 DEF IInv, Bookkeeping, NoFalseAlarm, vars, world, locals, pids, kept
  <2> QED BY <2>1, <2>2, <2>3 DEF IInv
<1> QED BY <1>1, AroundIInv, ChangeIInv, SwitchIInv, CardIInv, PoolsIInv DEF Next

THEOREM InvariantHolds == ASSUME MonitorAssumption PROVE Spec => []IInv
<1>1. Init => IInv
  BY InitIInv
<1>2. IInv /\ [Next]_vars => IInv'
  BY NextIInv
<1> QED BY <1>1, <1>2, PTL DEF Spec

-------------------------------------------------------------------------------
(* What follows from it. *)

\* Nothing is logged that was right, apart from what a fault is mistaken for.
THEOREM LogIsTrue == ASSUME MonitorAssumption PROVE Spec => []LogInv
<1>1. IInv => LogInv
  BY DEF IInv, LogInv
<1> QED BY <1>1, InvariantHolds, PTL

\* What is wrong for a whole sweep is in its log, for any number of NFEs that the
\* monitor knows of.
THEOREM LogIsComplete == ASSUME MonitorAssumption PROVE Spec => []FaultIsReported
<1>1. ASSUME IInv, pc = "sleep", NEW f \in always
      PROVE  \/ f[1] \in {"address", "info"}
             \/ \E kind \in Masks(f[1]) : <<kind, f[2]>> \in ever
             \/ \A where \in IF f[2] = Host THEN Cards ELSE {f[2]} :
                  where >= nfes \/ <<f[1], where>> \in log
  <2>0. /\ f \in Faults /\ Place(pc) = 11 /\ \A x \in Cards : x < nfes => x <= c
        /\ c \in Int /\ Cards \subseteq Int /\ nfes \in Int
    BY <1>1 DEF MonitorAssumption, IInv, TypeOK, Bookkeeping, Place, Cards
  <2>1. \A x \in Cards : x >= nfes \/ \A due \in 2 .. 10 : Past(x, due)
    BY <2>0 DEF Past
  <2>2. CASE f \in SwitchFaults \X {SwitchCard}
    <3>1. Reported(f[1], f[2]) /\ f[2] # Host
      BY <1>1, <2>0, <2>2 DEF IInv, Progress, SwitchReported, SwitchCard, Host
    <3> QED BY <3>1 DEF Reported
  <2>3. CASE f \in CardFaults \X Cards
    <3>1. f[2] >= nfes \/ Reported(f[1], f[2])
      <4>1. PICK kind \in CardFaults, x \in Cards : f = <<kind, x>>
        BY <2>3
      <4>2. x >= nfes \/ Past(x, Due(kind))
        BY <2>1, DueBounds
      <4>3. x >= nfes \/ Reported(kind, x)
        BY <1>1, <4>1, <4>2 DEF IInv, Progress, CardsReported
      <4> QED BY <4>1, <4>3
    <3>2. f[2] # Host
      BY <2>3 DEF MonitorAssumption, Host, Cards
    <3> QED BY <3>1, <3>2 DEF Reported
  <2>4. CASE f = <<"exceptiond", Host>>
    <3>1. \A x \in Cards : x >= nfes \/ <<"exceptiond", x>> \in log
      <4>1. \A x \in Cards : x >= nfes \/ Past(x, 6)
        BY <2>1
      <4> QED BY <1>1, <2>4, <4>1 DEF IInv, Progress, HostReported
    <3> QED BY <2>4, <3>1
  <2> QED BY <2>0, <2>2, <2>3, <2>4 DEF Faults
<1>2. IInv => FaultIsReported
  BY <1>1 DEF FaultIsReported
<1> QED BY <1>2, InvariantHolds, PTL

\* The pidfile names the monitor, or is empty as the disk was full, unless a second one
\* interferes.
THEOREM PidfileHolds == Spec => []PidfileIsHonest
<1> DEFINE Opened == pc \in {"write", "close"} /\ other = "none" => pidfile = "empty"
<1> USE DEF Opening, Over, kept
<1>1. Init => PidfileIsHonest /\ Opened
  BY DEF Init, PidfileIsHonest
<1>2. PidfileIsHonest /\ Opened /\ [Next]_vars => (PidfileIsHonest /\ Opened)'
  <2> SUFFICES ASSUME PidfileIsHonest, Opened, [Next]_vars
               PROVE  (PidfileIsHonest /\ Opened)'
    OBVIOUS
  <2>1. CASE Start \/ OpenPidfile \/ WritePidfile \/ ClosePidfile \/ GetNfes
    BY <2>1 DEF PidfileIsHonest, Start, OpenPidfile, WritePidfile, ClosePidfile, Written,
                GetNfes, Exit
  <2>2. CASE OtherStarts \/ OtherWrites \/ OtherEnds \/ OtherCrashes
    BY <2>2 DEF PidfileIsHonest, Other, OtherStarts, OtherWrites, OtherEnds, OtherCrashes
  <2>3. CASE Loop
    BY <2>3 DEF PidfileIsHonest, Loop, Exit, pids
  <2>4. ASSUME UNCHANGED pids, pc \notin Opening \union Over,
               pc' \notin Opening \union {"exit"}
        PROVE  (PidfileIsHonest /\ Opened)'
    BY <2>4 DEF PidfileIsHonest, pids
  <2>5. CASE \/ Devices \/ Ping \/ PlatformDaemon \/ Overrun \/ Ip \/ Heartbeats \/ Endpoints
             \/ Pools \/ Sleep
    BY <2>4, <2>5 DEF Devices, Ping, PlatformDaemon, Overrun, Ip, Heartbeats, Endpoints,
                      Pools, Sleep, NextCard, FirstProbe, Simple
  <2>6. CASE \E k \in DOMAIN Openings : OpenDaemon(k)
    BY <2>4, <2>6 DEF OpenDaemon, Openings
  <2>7. CASE \E k \in DOMAIN Simple : SimpleProbe(k)
    BY <2>4, <2>7 DEF SimpleProbe, Simple
  <2>8. CASE Sigint \/ WorldChanges \/ UNCHANGED vars
    BY <2>8 DEF PidfileIsHonest, Sigint, WorldChanges, vars, pids
  <2> QED BY <2>1, <2>2, <2>3, <2>5, <2>6, <2>7, <2>8 DEF Next
<1> QED BY <1>1, <1>2, PTL DEF Spec

-------------------------------------------------------------------------------
(* The supervisor. *)

\* The count and the two histories agree.
Tallied ==
  \A s \in Services :
    /\ streak[s] = IF stmt = "tally" /\ svc = s THEN failcount[s] + 1 ELSE failcount[s]
    /\ givenUp[s] = IF failcount[s] = MaxAttempts THEN 1 ELSE 0

\* A start command runs only for a service that may still be tried.
MayStillTry == stmt \in {"start", "tally"} => failcount[svc] < MaxAttempts

Supervising == SupervisorTypeOK /\ Tallied /\ MayStillTry

LEMMA InitSupervising == ASSUME SupervisorAssumption, SupervisorInit PROVE Supervising
  BY DEF SupervisorAssumption, SupervisorInit, Supervising, SupervisorTypeOK, Tallied, MayStillTry,
         Services

LEMMA NextSupervising ==
  ASSUME SupervisorAssumption, Supervising, [SupervisorNext]_supervisorVars PROVE Supervising'
<1> USE DEF Services
<1>1. CASE Sweep
  BY <1>1 DEF SupervisorAssumption, Supervising, SupervisorTypeOK, Tallied, MayStillTry, Sweep
<1>2. CASE Probe
  <2>0. svc \in Services /\ 0 \in 0 .. MaxAttempts
    BY DEF SupervisorAssumption, Supervising, SupervisorTypeOK
  <2>1. CASE alive[svc]
    <3>1. /\ failcount' = [failcount EXCEPT ![svc] = 0]
          /\ streak' = [streak EXCEPT ![svc] = 0]
          /\ givenUp' = [givenUp EXCEPT ![svc] = 0]
          /\ stmt' = "advance"
          /\ UNCHANGED <<svc, running, alive>>
      BY <1>2, <2>1 DEF Probe
    <3>2. SupervisorTypeOK'
      BY <2>0, <3>1 DEF Supervising, SupervisorTypeOK
    <3>3. Tallied'
      BY <1>2, <2>0, <3>1 DEF SupervisorAssumption, Supervising, SupervisorTypeOK, Tallied, Probe
    <3>4. MayStillTry'
      BY <3>1 DEF MayStillTry
    <3> QED BY <3>2, <3>3, <3>4 DEF Supervising
  <2>2. CASE ~alive[svc]
    <3>1. /\ stmt' \in {"start", "advance"}
          /\ stmt' = "start" => failcount[svc] # MaxAttempts
          /\ stmt = "probe"
          /\ UNCHANGED <<svc, running, alive, failcount, streak, givenUp>>
      BY <1>2, <2>2 DEF Probe
    <3> QED BY <2>0, <3>1
            DEF SupervisorAssumption, Supervising, SupervisorTypeOK, Tallied, MayStillTry
  <2> QED BY <2>1, <2>2
<1>3. CASE StartService
  <2>1. SupervisorTypeOK'
    <3>1. CASE UNCHANGED streak
      <4>1. PICK up \in BOOLEAN :
              alive' = [alive EXCEPT ![svc] = alive[svc] \/ up] \/ UNCHANGED alive
        BY <1>3 DEF StartService
      <4>2. alive' \in [Services -> BOOLEAN]
        BY <4>1, Zenon DEF Supervising, SupervisorTypeOK
      <4> QED BY <1>3, <3>1, <4>2 DEF Supervising, SupervisorTypeOK, StartService
    <3>2. CASE /\ streak' = [streak EXCEPT ![svc] = streak[svc] + 1]
               /\ stmt' = "tally"
               /\ UNCHANGED alive
      <4>1. /\ svc \in Services /\ streak \in [Services -> Nat] /\ streak[svc] + 1 \in Nat
        BY SMTT(40) DEF Supervising, SupervisorTypeOK
      <4>2. streak' \in [Services -> Nat]
        BY <3>2, <4>1
      <4>3. UNCHANGED <<svc, running, failcount, givenUp>>
        BY <1>3 DEF StartService
      <4> QED BY <3>2, <4>2, <4>3 DEF Supervising, SupervisorTypeOK
    <3> QED BY <1>3, <3>1, <3>2 DEF StartService
  <2>2. Tallied'
    BY <1>3, SMTT(40) DEF Supervising, SupervisorTypeOK, Tallied, StartService
  <2>3. MayStillTry'
    BY <1>3 DEF Supervising, SupervisorTypeOK, MayStillTry, StartService
  <2> QED BY <2>1, <2>2, <2>3 DEF Supervising
<1>4. CASE Tally
  <2>1. /\ svc \in Services
        /\ failcount[svc] \in 0 .. MaxAttempts
        /\ failcount[svc] + 1 \in 0 .. MaxAttempts
    BY <1>4, SMTT(40) DEF SupervisorAssumption, Supervising, SupervisorTypeOK, MayStillTry, Tally
  <2>2. SupervisorTypeOK'
    <3>1. failcount' \in [Services -> 0 .. MaxAttempts]
      BY <1>4, <2>1 DEF Supervising, SupervisorTypeOK, Tally
    <3>2. givenUp' \in [Services -> Nat]
      <4>1. givenUp[svc] \in Nat /\ givenUp[svc] + 1 \in Nat
        BY <2>1 DEF Supervising, SupervisorTypeOK
      <4> QED BY <1>4, <4>1 DEF Supervising, SupervisorTypeOK, Tally
    <3> QED BY <1>4, <3>1, <3>2 DEF Supervising, SupervisorTypeOK, Tally
  <2>3. Tallied'
    BY <1>4, <2>1, SMTT(40) DEF SupervisorAssumption, Supervising, SupervisorTypeOK, Tallied, Tally
  <2>4. MayStillTry'
    BY <1>4 DEF MayStillTry, Tally
  <2> QED BY <2>2, <2>3, <2>4 DEF Supervising
<1>5. CASE Advance
  BY <1>5 DEF SupervisorAssumption, Supervising, SupervisorTypeOK, Tallied, MayStillTry, Advance
<1>6. CASE Terminate
  BY <1>6 DEF Supervising, SupervisorTypeOK, Tallied, MayStillTry, Terminate
<1>7. ASSUME NEW s \in Services, Die(s) \/ StartedByHand(s) PROVE Supervising'
  BY <1>7 DEF Supervising, SupervisorTypeOK, Tallied, MayStillTry, Die, StartedByHand
<1>8. CASE UNCHANGED supervisorVars
  BY <1>8 DEF Supervising, SupervisorTypeOK, Tallied, MayStillTry, supervisorVars
<1> QED BY <1>1, <1>2, <1>3, <1>4, <1>5, <1>6, <1>7, <1>8 DEF SupervisorNext, Step

LEMMA Supervised == ASSUME SupervisorAssumption PROVE SupervisorSpec => []Supervising
<1>1. SupervisorInit => Supervising
  BY InitSupervising, SupervisorAssumption
<1>2. Supervising /\ [SupervisorNext]_supervisorVars => Supervising'
  BY NextSupervising, SupervisorAssumption
<1> QED BY <1>1, <1>2, PTL DEF SupervisorSpec

-------------------------------------------------------------------------------
\* Type correctness: in particular failcount_<name> stays within the limit.
THEOREM SupervisorTyped == SupervisorSpec => []SupervisorTypeOK
<1>1. Supervising => SupervisorTypeOK
  BY DEF Supervising
<1> QED BY <1>1, Supervised, SupervisorAssumption, PTL

\* A service is given up exactly after MaxAttempts failed starts in a row, the
\* log says so once, and no start is tried beyond that.
THEOREM SupervisorGivesUpOnce == SupervisorSpec => []GivesUpExactlyOnce
<1>1. Supervising => GivesUpExactlyOnce
  BY SupervisorAssumption
     DEF SupervisorAssumption, Supervising, SupervisorTypeOK, Tallied, MayStillTry,
         GivesUpExactlyOnce, Services
<1> QED BY <1>1, Supervised, SupervisorAssumption, PTL
===============================================================================
