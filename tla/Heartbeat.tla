------------------------------- MODULE Heartbeat -------------------------------
(***************************************************************************)
(* nfm_sample_heartbeat.c: Count heartbeats to one appliance, or Count     *)
(* broadcasts to all of them, counted in global variables by single        *)
(* statements.  SIGINT runs heartbeat_result between any two of them,      *)
(* which reports from whatever the counters say and exits.                 *)
(***************************************************************************)
EXTENDS Integers, FiniteSetsExt

CONSTANTS Count,            \* hb_opts->count
          Cells,            \* entries of hb_s.hb_dest, in the order of the loops
          Times,            \* round-trip times an appliance may take
          DefaultTimeout    \* DEFAULT_TIMEOUT, the first value of lowest_rrt

ASSUME HeartbeatAssumption == /\ Count \in Nat
                              /\ Cells \in Nat
                              /\ Times \subseteq Nat \ {0}
                              /\ DefaultTimeout \in Nat

Lost == -1      \* an entry whose appliance did not answer
NoReport == [loss |-> -1, of |-> -1, acks |-> -1, avg |-> -1, max |-> -1, min |-> -1]

VARIABLES
  broadcast,        \* -b
  pc,               \* the next statement
  i, hbs, heartbeat_acks, round_trip_time, highest_rrt, lowest_rrt, acc_rtt,
  hb_s, cell,       \* the reply to a broadcast, the entry the loops are at
  report,           \* what heartbeat_result printed
  interrupted,      \* ... for SIGINT (history)
  stale,            \* a broadcast failed, its reply was counted anyway (history)
  seen, answers, losses  \* times, answers and failures looked at (history)

counts == <<hbs, heartbeat_acks, highest_rrt, lowest_rrt, acc_rtt>>
outcome == <<report, interrupted>>
history == <<stale, seen, answers, losses>>
vars == <<broadcast, pc, i, counts, round_trip_time, hb_s, cell, outcome, history>>

Locations == {"loop", "cell", "high", "low", "acc", "ack", "i", "hbs", "exit", "crashed"}
Ended == pc \in {"exit", "crashed"}

TypeOK == /\ broadcast \in BOOLEAN /\ interrupted \in BOOLEAN /\ stale \in BOOLEAN
          /\ pc \in Locations
          /\ i \in 0 .. Count
          /\ hbs \in Nat /\ heartbeat_acks \in Nat /\ acc_rtt \in Nat
          /\ round_trip_time \in Times \union {0}
          /\ highest_rrt \in Times \union {0}
          /\ lowest_rrt \in Times \union {DefaultTimeout}
          /\ hb_s \in [1 .. Cells -> Times \union {0, Lost}]
          /\ cell \in 1 .. Cells + 1
          /\ seen \subseteq Times /\ answers \in Nat /\ losses \in Nat

Init == /\ broadcast \in BOOLEAN
        /\ pc = "loop"
        /\ i = 0 /\ hbs = 0 /\ heartbeat_acks = 0 /\ round_trip_time = 0
        /\ highest_rrt = 0 /\ lowest_rrt = DefaultTimeout /\ acc_rtt = 0
        /\ hb_s = [c \in 1 .. Cells |-> 0] /\ cell = 1
        /\ report = NoReport
        /\ interrupted = FALSE /\ stale = FALSE
        /\ seen = {} /\ answers = 0 /\ losses = 0

-------------------------------------------------------------------------------
(* heartbeat_result. *)

\* Mutant: the loss is not clipped at zero.
ResultUnclipped(signalled) ==
  /\ interrupted' = signalled
  /\ \/ /\ heartbeat_acks > 0 /\ hbs = 0
        /\ pc' = "crashed"
        /\ UNCHANGED report
     \/ /\ ~(heartbeat_acks > 0 /\ hbs = 0)
        /\ pc' = "exit"
        /\ report' = IF heartbeat_acks = 0
                     THEN [NoReport EXCEPT !.loss = hbs]
                     ELSE [loss |-> hbs - heartbeat_acks, of |-> hbs,
                           acks |-> heartbeat_acks, avg |-> acc_rtt \div heartbeat_acks,
                           max |-> highest_rrt, min |-> lowest_rrt]
  /\ UNCHANGED <<broadcast, i, counts, round_trip_time, hb_s, cell, history>>

\* The percentage of a report with answers is divided by hbs, and the process
\* dies of SIGFPE when that is zero.
Result(signalled) ==
  /\ interrupted' = signalled
  /\ \/ /\ heartbeat_acks > 0 /\ hbs = 0
        /\ pc' = "crashed"
        /\ UNCHANGED report
     \/ /\ ~(heartbeat_acks > 0 /\ hbs = 0)
        /\ pc' = "exit"
        /\ report' = IF heartbeat_acks = 0
                     THEN [NoReport EXCEPT !.loss = hbs]
                     ELSE [loss |-> Max({0, hbs - heartbeat_acks}), of |-> hbs,
                           acks |-> heartbeat_acks, avg |-> acc_rtt \div heartbeat_acks,
                           max |-> highest_rrt, min |-> lowest_rrt]
  /\ UNCHANGED <<broadcast, i, counts, round_trip_time, hb_s, cell, history>>

Sigint == ~Ended /\ Result(TRUE)

-------------------------------------------------------------------------------
(* send_heartbeat. *)

\* The histories: what is counted after a failed broadcast was not measured.
Looked(at) == /\ seen' = IF at \in Times THEN seen \union {at} ELSE seen
              /\ answers' = IF at \in Times /\ ~stale THEN answers + 1 ELSE answers
              /\ losses' = IF at = Lost /\ ~stale THEN losses + 1 ELSE losses
              /\ UNCHANGED stale

\* ns_cluster_heartbeat_send answers with a time or fails.
Send ==
  /\ pc = "loop" /\ ~broadcast /\ i < Count
  /\ \E at \in Times \union {Lost} :
       /\ Looked(at)
       /\ round_trip_time' = IF at = Lost THEN round_trip_time ELSE at
       /\ pc' = IF at = Lost THEN "i" ELSE "high"
  /\ UNCHANGED <<broadcast, i, counts, hb_s, cell, outcome>>

RaiseHighest ==
  /\ pc = "high"
  /\ highest_rrt' = Max({highest_rrt, round_trip_time})
  /\ pc' = "low"
  /\ UNCHANGED <<broadcast, i, hbs, heartbeat_acks, lowest_rrt, acc_rtt,
                 round_trip_time, hb_s, cell, outcome, history>>

LowerLowest ==
  /\ pc = "low"
  /\ lowest_rrt' = Min({lowest_rrt, round_trip_time})
  /\ pc' = "acc"
  /\ UNCHANGED <<broadcast, i, hbs, heartbeat_acks, highest_rrt, acc_rtt,
                 round_trip_time, hb_s, cell, outcome, history>>

\* Mutant: the sum is overwritten.
AccumulateOverwrites ==
  /\ pc = "acc"
  /\ acc_rtt' = round_trip_time
  /\ pc' = "ack"
  /\ UNCHANGED <<broadcast, i, hbs, heartbeat_acks, highest_rrt, lowest_rrt,
                 round_trip_time, hb_s, cell, outcome, history>>

Accumulate ==
  /\ pc = "acc"
  /\ acc_rtt' = acc_rtt + round_trip_time
  /\ pc' = "ack"
  /\ UNCHANGED <<broadcast, i, hbs, heartbeat_acks, highest_rrt, lowest_rrt,
                 round_trip_time, hb_s, cell, outcome, history>>

\* heartbeat_acks++, and on to i++ or to the next entry of the broadcast.
CountAck ==
  /\ pc = "ack"
  /\ heartbeat_acks' = heartbeat_acks + 1
  /\ pc' = IF broadcast THEN "cell" ELSE "i"
  /\ UNCHANGED <<broadcast, i, hbs, highest_rrt, lowest_rrt, acc_rtt,
                 round_trip_time, hb_s, cell, outcome, history>>

\* i++; a broadcast has counted its hbs already.
CountRound ==
  /\ pc = "i"
  /\ i' = i + 1
  /\ pc' = IF broadcast THEN "loop" ELSE "hbs"
  /\ UNCHANGED <<broadcast, counts, round_trip_time, hb_s, cell, outcome, history>>

\* Mutant: a heartbeat that failed is not counted.
CountHeartbeatAnswered ==
  /\ pc = "hbs"
  /\ hbs' = IF hbs < heartbeat_acks THEN hbs + 1 ELSE hbs
  /\ pc' = "loop"
  /\ UNCHANGED <<broadcast, i, heartbeat_acks, highest_rrt, lowest_rrt, acc_rtt,
                 round_trip_time, hb_s, cell, outcome, history>>

CountHeartbeat ==
  /\ pc = "hbs"
  /\ hbs' = hbs + 1
  /\ pc' = "loop"
  /\ UNCHANGED <<broadcast, i, heartbeat_acks, highest_rrt, lowest_rrt, acc_rtt,
                 round_trip_time, hb_s, cell, outcome, history>>

-------------------------------------------------------------------------------
(* send_heartbeat_broadcast. *)

\* ns_cluster_heartbeat_broadcast; when it fails hb_s is read all the same, and
\* holds what an earlier broadcast or part of this one left there.
Broadcast ==
  /\ pc = "loop" /\ broadcast /\ i < Count
  /\ hb_s' \in [1 .. Cells -> Times \union {0, Lost}]
  /\ \E ok \in BOOLEAN : stale' = (stale \/ ~ok)
  /\ cell' = 1
  /\ pc' = "cell"
  /\ UNCHANGED <<broadcast, i, counts, round_trip_time, outcome, seen, answers, losses>>

\* Mutant: only a failed entry is counted as a heartbeat.
NextCellCountsFailures ==
  /\ pc = "cell" /\ cell <= Cells
  /\ Looked(hb_s[cell])
  /\ hbs' = IF hb_s[cell] = Lost THEN hbs + 1 ELSE hbs
  /\ round_trip_time' = IF hb_s[cell] \in Times THEN hb_s[cell] ELSE round_trip_time
  /\ pc' = IF hb_s[cell] \in Times THEN "high" ELSE "cell"
  /\ cell' = cell + 1
  /\ UNCHANGED <<broadcast, i, heartbeat_acks, highest_rrt, lowest_rrt, acc_rtt, hb_s, outcome>>

\* One entry: 0 is no appliance, a negative time a failure.
NextCell ==
  /\ pc = "cell" /\ cell <= Cells
  /\ Looked(hb_s[cell])
  /\ hbs' = IF hb_s[cell] = 0 THEN hbs ELSE hbs + 1
  /\ round_trip_time' = IF hb_s[cell] \in Times THEN hb_s[cell] ELSE round_trip_time
  /\ pc' = IF hb_s[cell] \in Times THEN "high" ELSE "cell"
  /\ cell' = cell + 1
  /\ UNCHANGED <<broadcast, i, heartbeat_acks, highest_rrt, lowest_rrt, acc_rtt, hb_s, outcome>>

LastCell ==
  /\ pc = "cell" /\ cell > Cells
  /\ pc' = "i"
  /\ UNCHANGED <<broadcast, i, counts, round_trip_time, hb_s, cell, outcome, history>>

\* The loops end at Count, and main reports.
Finish == pc = "loop" /\ i = Count /\ Result(FALSE)

Step == \/ Send \/ RaiseHighest \/ LowerLowest \/ Accumulate \/ CountAck
        \/ CountRound \/ CountHeartbeat \/ Broadcast \/ NextCell \/ LastCell \/ Finish

Next == Step \/ Sigint

Spec == Init /\ [][Next]_vars

-------------------------------------------------------------------------------
(* Correctness. *)

Printed == pc = "exit" /\ report.acks > 0

\* A run that was left alone reports every heartbeat once: the answers, the
\* failures and their sum are those of the library, as long as no broadcast failed.
FinalReportExact ==
  pc = "exit" /\ ~interrupted /\ ~stale =>
    /\ report.loss = losses
    /\ answers > 0 => report.acks = answers /\ report.of = answers + losses

\* Wherever SIGINT lands, the loss, which is the exit status, is the true one or
\* off by the one heartbeat that is being counted, as long as no broadcast failed.
InterruptedReportOffByOne ==
  pc = "exit" /\ ~stale => report.loss \in {losses - 1, losses, losses + 1} /\ report.loss >= 0

\* Every report with answers, interrupted or not, has min <= max, both of them
\* times that were measured; only the minimum may be DefaultTimeout instead.
RangeIsMeasured ==
  Printed => /\ report.min <= report.max
             /\ report.max \in seen
             /\ report.min \in seen \union {DefaultTimeout}

\* A run that was left alone reports the true maximum, the true minimum unless
\* all answers took longer than DefaultTimeout, and an average between the two.
AverageWithinRange ==
  Printed /\ ~interrupted =>
    /\ report.max = Max(seen)
    /\ report.min = Min(seen \union {DefaultTimeout})
    /\ report.min <= report.avg /\ report.avg <= report.max

StatisticsInv == TypeOK /\ RangeIsMeasured /\ AverageWithinRange

\* The percentage can only divide by zero when SIGINT lands between counting
\* the first answer and counting its heartbeat; a broadcast is safe from it.
CrashOnlyInFirstAck ==
  pc = "crashed" => interrupted /\ ~broadcast /\ hbs = 0 /\ heartbeat_acks = 1

\* The handler copes with a signal between heartbeat_acks++ and hbs++: "hbs is
\* incremented after heartbeat_ack, so can be < 0", says its comment.
SurvivesSigint == pc # "crashed"
===============================================================================
