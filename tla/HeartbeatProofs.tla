---------------------------- MODULE HeartbeatProofs ----------------------------
(***************************************************************************)
(* For any number of heartbeats and of appliances and any round-trip       *)
(* times: before each statement the counters are what has been looked at,  *)
(* less what is being counted, and the extremes and the sum enclose what   *)
(* was measured; so whatever a report may be off by is known, wherever     *)
(* SIGINT lands.                                                           *)
(***************************************************************************)
EXTENDS Heartbeat, TLAPS

\* An answer, or a heartbeat, has been looked at and is not counted yet.
Pending == pc \in {"high", "low", "acc", "ack"}
Uncounted == ~broadcast /\ (Pending \/ pc \in {"i", "hbs"})
One(b) == IF b THEN 1 ELSE 0

Counted ==
  /\ ~broadcast => ~stale /\ pc # "cell"
  /\ broadcast => pc # "hbs"
  /\ Pending \/ pc \in {"cell", "i"} => i < Count
  /\ ~stale => /\ hbs + One(Uncounted) = answers + losses
               /\ heartbeat_acks + One(Pending) = answers
  /\ broadcast => heartbeat_acks + One(Pending) <= hbs

Enclosed ==
  /\ Pending => round_trip_time \in seen
  /\ highest_rrt \in seen \union {0}
  /\ lowest_rrt \in seen \union {DefaultTimeout}
  /\ lowest_rrt <= DefaultTimeout
  /\ \A t \in seen : /\ t <= highest_rrt \/ (pc = "high" /\ t = round_trip_time)
                     /\ lowest_rrt <= t \/ (pc \in {"high", "low"} /\ t = round_trip_time)
  /\ heartbeat_acks > 0 => highest_rrt > 0 /\ lowest_rrt <= highest_rrt

\* The answers in the sum.
Summed == heartbeat_acks + One(pc = "ack")
SumEnclosed == Summed * lowest_rrt <= acc_rtt /\ acc_rtt <= Summed * highest_rrt

Reports == /\ FinalReportExact /\ InterruptedReportOffByOne /\ RangeIsMeasured
           /\ AverageWithinRange /\ CrashOnlyInFirstAck

IInv == TypeOK /\ Reports /\ (~Ended => Counted /\ Enclosed /\ SumEnclosed)

-------------------------------------------------------------------------------
(* Extremes, products and quotients. *)

LEMMA MaxOf ==
  ASSUME NEW S \in SUBSET Int, NEW m \in S, \A x \in S : m >= x PROVE Max(S) = m
<1>1. \A x \in S : (\A y \in S : x >= y) => x = m
  OBVIOUS
<1> QED BY <1>1 DEF Max

LEMMA MinOf ==
  ASSUME NEW S \in SUBSET Int, NEW m \in S, \A x \in S : m <= x PROVE Min(S) = m
<1>1. \A x \in S : (\A y \in S : x <= y) => x = m
  OBVIOUS
<1> QED BY <1>1 DEF Min

LEMMA MaxOfTwo == ASSUME NEW a \in Int, NEW b \in Int
                  PROVE  Max({a, b}) = IF a >= b THEN a ELSE b
<1>1. CASE a >= b
  BY <1>1, MaxOf
<1>2. CASE ~(a >= b)
  BY <1>2, MaxOf
<1> QED BY <1>1, <1>2

LEMMA MinOfTwo == ASSUME NEW a \in Int, NEW b \in Int
                  PROVE  Min({a, b}) = IF a <= b THEN a ELSE b
<1>1. CASE a <= b
  BY <1>1, MinOf
<1>2. CASE ~(a <= b)
  BY <1>2, MinOf
<1> QED BY <1>1, <1>2

LEMMA Product == ASSUME NEW n \in Nat, NEW a \in Nat, NEW b \in Nat, a <= b
                 PROVE  n * a <= n * b
  OBVIOUS

LEMMA OneMore == ASSUME NEW n \in Nat, NEW a \in Nat PROVE (n + 1) * a = n * a + a
  OBVIOUS

LEMMA Quotient ==
  ASSUME NEW n \in Nat \ {0}, NEW lo \in Nat, NEW hi \in Nat, NEW sum \in Nat,
         n * lo <= sum, sum <= n * hi
  PROVE  lo <= sum \div n /\ sum \div n <= hi
<1> DEFINE q == sum \div n
<1>1. q \in Nat /\ n * q <= sum /\ sum < n * (q + 1)
  OBVIOUS
<1> HIDE DEF q
<1>2. lo < q + 1
  <2> SUFFICES ASSUME lo >= q + 1 PROVE FALSE
    BY <1>1
  <2>1. n * (q + 1) <= n * lo
    BY <1>1, Product
  <2> QED BY <1>1, <2>1
<1>3. q < hi + 1
  <2> SUFFICES ASSUME q >= hi + 1 PROVE FALSE
    BY <1>1
  <2>1. n * (hi + 1) <= n * q
    BY <1>1, Product
  <2>2. n * (hi + 1) = n * hi + n
    OBVIOUS
  <2> QED BY <1>1, <2>1, <2>2
<1>4. lo <= q /\ q <= hi
  BY <1>1, <1>2, <1>3
<1> QED BY <1>4 DEF q

-------------------------------------------------------------------------------
(* The reports. *)

LEMMA Numbers ==
  ASSUME HeartbeatAssumption, TypeOK
  PROVE  /\ Times \subseteq Nat \ {0} /\ Lost \notin Times /\ DefaultTimeout \in Nat
         /\ hbs \in Nat /\ heartbeat_acks \in Nat /\ acc_rtt \in Nat /\ answers \in Nat
         /\ losses \in Nat /\ highest_rrt \in Nat /\ lowest_rrt \in Nat
         /\ round_trip_time \in Nat /\ seen \subseteq Nat \ {0}
  BY DEF HeartbeatAssumption, TypeOK, Lost

\* heartbeat_result reports what the counters say.
LEMMA ResultIsRight ==
  ASSUME HeartbeatAssumption, TypeOK, ~Ended, Counted, Enclosed, SumEnclosed,
         NEW signalled \in BOOLEAN, Result(signalled),
         ~signalled => pc = "loop"
  PROVE  TypeOK' /\ Reports' /\ Ended'
<1>0. /\ interrupted' = signalled
      /\ UNCHANGED <<broadcast, i, counts, round_trip_time, hb_s, cell, history>>
      /\ pc' \in {"exit", "crashed"}
  BY DEF Result
<1>1. TypeOK' /\ Ended'
  BY <1>0 DEF TypeOK, Ended, Locations, counts, history
<1>2. CASE heartbeat_acks > 0 /\ hbs = 0
  <2>1. pc' = "crashed"
    BY <1>2 DEF Result
  <2>2. ~broadcast /\ heartbeat_acks = 1 /\ pc # "loop"
    BY <1>2, Numbers DEF Counted, One, Uncounted, Pending
  <2> QED BY <1>0, <1>1, <1>2, <2>1, <2>2
          DEF Reports, FinalReportExact, InterruptedReportOffByOne, RangeIsMeasured,
              AverageWithinRange, CrashOnlyInFirstAck, Printed, counts
<1>3. CASE heartbeat_acks = 0
  <2>1. pc' = "exit" /\ report' = [NoReport EXCEPT !.loss = hbs]
    BY <1>3 DEF Result
  <2>2. report'.loss = hbs /\ report'.acks = -1
    BY <2>1 DEF NoReport
  <2>3. ~stale => hbs \in {losses - 1, losses, losses + 1} /\ (pc = "loop" => hbs = losses)
    BY <1>3, Numbers DEF Counted, One, Uncounted, Pending
  <2>4. ~stale /\ pc = "loop" => answers = 0
    BY <1>3, Numbers DEF Counted, One, Pending
  <2> QED BY <1>0, <1>1, <2>1, <2>2, <2>3, <2>4, Numbers
          DEF Reports, FinalReportExact, InterruptedReportOffByOne, RangeIsMeasured,
              AverageWithinRange, CrashOnlyInFirstAck, Printed, counts, history
<1>4. CASE heartbeat_acks > 0 /\ hbs > 0
  <2>1. /\ pc' = "exit"
        /\ report' = [loss |-> Max({0, hbs - heartbeat_acks}), of |-> hbs,
                      acks |-> heartbeat_acks, avg |-> acc_rtt \div heartbeat_acks,
                      max |-> highest_rrt, min |-> lowest_rrt]
    BY <1>4, Numbers DEF Result
  <2>2. /\ report'.loss = Max({0, hbs - heartbeat_acks}) /\ report'.of = hbs
        /\ report'.acks = heartbeat_acks /\ report'.avg = acc_rtt \div heartbeat_acks
        /\ report'.max = highest_rrt /\ report'.min = lowest_rrt
    BY <2>1
  <2>3. report'.loss = IF heartbeat_acks <= hbs THEN hbs - heartbeat_acks ELSE 0
    <3>1. hbs - heartbeat_acks \in Int
      BY Numbers
    <3>2. Max({0, hbs - heartbeat_acks})
            = IF 0 >= hbs - heartbeat_acks THEN 0 ELSE hbs - heartbeat_acks
      BY <3>1, MaxOfTwo
    <3> QED BY <2>2, <3>2, Numbers
  <2>4. FinalReportExact'
    <3>1. pc = "loop" /\ ~stale => hbs = answers + losses /\ heartbeat_acks = answers
      BY Numbers DEF Counted, One, Uncounted, Pending
    <3> QED BY <1>0, <2>2, <2>3, <3>1, Numbers DEF FinalReportExact, history
  <2>5. InterruptedReportOffByOne'
    <3>1. ~stale => report'.loss \in {losses - 1, losses, losses + 1} /\ report'.loss >= 0
      BY <2>3, Numbers DEF Counted, One, Uncounted, Pending
    <3> QED BY <1>0, <3>1 DEF InterruptedReportOffByOne, history
  <2>6. RangeIsMeasured'
    BY <1>0, <1>4, <2>2, Numbers DEF RangeIsMeasured, Enclosed, history
  <2>7. AverageWithinRange'
    <3> SUFFICES ASSUME pc = "loop"
                 PROVE  /\ report'.max = Max(seen)
                        /\ report'.min = Min(seen \union {DefaultTimeout})
                        /\ report'.min <= report'.avg /\ report'.avg <= report'.max
      BY <1>0 DEF AverageWithinRange, history
    <3>1. highest_rrt \in seen /\ \A t \in seen : highest_rrt >= t
      BY <1>4, Numbers DEF Enclosed
    <3>2. Max(seen) = highest_rrt
      BY <3>1, MaxOf, Numbers
    <3>3. /\ lowest_rrt \in seen \union {DefaultTimeout}
          /\ \A t \in seen \union {DefaultTimeout} : lowest_rrt <= t
          /\ seen \union {DefaultTimeout} \subseteq Int
      BY Numbers DEF Enclosed
    <3>4. Min(seen \union {DefaultTimeout}) = lowest_rrt
      BY <3>3, MinOf
    <3>5. heartbeat_acks * lowest_rrt <= acc_rtt /\ acc_rtt <= heartbeat_acks * highest_rrt
      BY Numbers DEF SumEnclosed, Summed, One
    <3>6. lowest_rrt <= acc_rtt \div heartbeat_acks /\ acc_rtt \div heartbeat_acks <= highest_rrt
      BY <1>4, <3>5, Quotient, Numbers
    <3> QED BY <2>2, <3>2, <3>4, <3>6
  <2>8. CrashOnlyInFirstAck'
    BY <2>1 DEF CrashOnlyInFirstAck
  <2> QED BY <1>1, <2>4, <2>5, <2>6, <2>7, <2>8 DEF Reports
<1> QED BY <1>1, <1>2, <1>3, <1>4, Numbers

-------------------------------------------------------------------------------
(* The steps. *)

LEMMA InitIInv == ASSUME HeartbeatAssumption, Init PROVE IInv
<1>1. TypeOK
  <2>1. /\ 0 \in 0 .. Count /\ 1 \in 1 .. Cells + 1
        /\ [k \in 1 .. Cells |-> 0] \in [1 .. Cells -> Times \union {0, Lost}]
    BY DEF HeartbeatAssumption
  <2> QED BY <2>1 DEF HeartbeatAssumption, Init, TypeOK, Locations
<1>2. Reports
  BY DEF Init, Reports, FinalReportExact, InterruptedReportOffByOne, RangeIsMeasured,
         AverageWithinRange, CrashOnlyInFirstAck, Printed
<1>3. Counted /\ Enclosed
  BY DEF HeartbeatAssumption, Init, Counted, Enclosed, One, Uncounted, Pending
<1>4. SumEnclosed
  BY DEF HeartbeatAssumption, Init, SumEnclosed, Summed, One
<1> QED BY <1>1, <1>2, <1>3, <1>4 DEF IInv

Running == pc' \in Locations \ {"exit", "crashed"}

LEMMA TypeStep == ASSUME HeartbeatAssumption, IInv, Step, ~Finish PROVE TypeOK' /\ Running
<1> USE DEF Locations, Running, counts, history, outcome, Ended
<1>0. TypeOK /\ (~Ended => Counted)
  BY DEF IInv
<1>1. CASE Send
  BY <1>0, <1>1 DEF Send, Looked, TypeOK
<1>2. CASE RaiseHighest
  <2>1. Max({highest_rrt, round_trip_time}) \in {highest_rrt, round_trip_time}
    BY <1>0, MaxOfTwo, Numbers
  <2> QED BY <1>0, <1>2, <2>1 DEF RaiseHighest, TypeOK
<1>3. CASE LowerLowest
  <2>1. pc = "low" /\ Pending /\ round_trip_time \in Times
    <3>1. pc = "low" /\ Pending /\ ~Ended
      BY <1>3 DEF LowerLowest, Pending
    <3> QED BY <3>1 DEF IInv, Enclosed, TypeOK
  <2>2. Min({lowest_rrt, round_trip_time}) \in {lowest_rrt, round_trip_time}
    BY <1>0, MinOfTwo, Numbers
  <2> QED BY <1>0, <1>3, <2>1, <2>2 DEF LowerLowest, TypeOK
<1>4. CASE Accumulate
  BY <1>0, <1>4, Numbers DEF Accumulate, TypeOK
<1>5. CASE CountAck
  BY <1>0, <1>5 DEF CountAck, TypeOK
<1>6. CASE CountRound
  BY <1>0, <1>6 DEF CountRound, TypeOK, Counted, HeartbeatAssumption
<1>7. CASE CountHeartbeat
  BY <1>0, <1>7 DEF CountHeartbeat, TypeOK
<1>8. CASE Broadcast
  BY <1>0, <1>8 DEF Broadcast, TypeOK, HeartbeatAssumption
<1>9. CASE NextCell
  <2>1. cell \in 1 .. Cells /\ cell' \in 1 .. Cells + 1
    BY <1>0, <1>9 DEF NextCell, TypeOK, HeartbeatAssumption
  <2>2. /\ hbs' \in Nat /\ pc' \in {"high", "cell"}
        /\ round_trip_time' \in Times \union {0}
        /\ UNCHANGED <<broadcast, i, heartbeat_acks, highest_rrt, lowest_rrt, acc_rtt, hb_s,
                       interrupted, stale>>
    BY <1>0, <1>9 DEF NextCell, Looked, TypeOK
  <2>3. answers' \in Nat /\ losses' \in Nat
    BY <1>0, <1>9 DEF NextCell, Looked, TypeOK
  <2>4. seen' \subseteq Times
    BY <1>0, <1>9 DEF NextCell, Looked, TypeOK
  <2> QED BY <1>0, <2>1, <2>2, <2>3, <2>4 DEF TypeOK
<1>10. CASE LastCell
  BY <1>0, <1>10 DEF LastCell, TypeOK
<1> QED BY <1>1, <1>2, <1>3, <1>4, <1>5, <1>6, <1>7, <1>8, <1>9, <1>10 DEF Step

LEMMA CountedStep ==
  ASSUME HeartbeatAssumption, TypeOK, TypeOK', Counted, Step, ~Finish PROVE Counted'
<1> USE Numbers DEF Counted, One, Uncounted, Pending, counts, history, outcome
<1>1. CASE Send
  BY <1>1 DEF Send, Looked
<1>2. CASE RaiseHighest
  BY <1>2 DEF RaiseHighest
<1>3. CASE LowerLowest
  BY <1>3 DEF LowerLowest
<1>4. CASE Accumulate
  BY <1>4 DEF Accumulate
<1>5. CASE CountAck
  BY <1>5 DEF CountAck
<1>6. CASE CountRound
  BY <1>6 DEF CountRound
<1>7. CASE CountHeartbeat
  BY <1>7 DEF CountHeartbeat
<1>8. CASE Broadcast
  BY <1>8 DEF Broadcast
<1>9. CASE NextCell
  <2>1. hb_s[cell] \in Times \union {0, Lost}
    BY <1>9 DEF NextCell, TypeOK, HeartbeatAssumption
  <2>2. 0 \notin Times \union {Lost} /\ Lost \notin Times
    BY DEF Lost
  <2> QED BY <1>9, <2>1, <2>2 DEF NextCell, Looked
<1>10. CASE LastCell
  BY <1>10 DEF LastCell
<1> QED BY <1>1, <1>2, <1>3, <1>4, <1>5, <1>6, <1>7, <1>8, <1>9, <1>10 DEF Step

LEMMA EnclosedStep ==
  ASSUME HeartbeatAssumption, TypeOK, TypeOK', Enclosed, Step, ~Finish PROVE Enclosed'
<1> USE Numbers DEF Enclosed, Pending, counts, history, outcome
<1>1. CASE Send
  BY <1>1 DEF Send, Looked
<1>2. CASE RaiseHighest
  <2>1. highest_rrt' = IF highest_rrt >= round_trip_time THEN highest_rrt ELSE round_trip_time
    BY <1>2, MaxOfTwo DEF RaiseHighest
  <2> QED BY <1>2, <2>1 DEF RaiseHighest
<1>3. CASE LowerLowest
  <2>1. lowest_rrt' = IF lowest_rrt <= round_trip_time THEN lowest_rrt ELSE round_trip_time
    BY <1>3, MinOfTwo DEF LowerLowest
  <2> QED BY <1>3, <2>1 DEF LowerLowest
<1>4. CASE Accumulate
  BY <1>4 DEF Accumulate
<1>5. CASE CountAck
  BY <1>5 DEF CountAck
<1>6. CASE CountRound
  BY <1>6 DEF CountRound
<1>7. CASE CountHeartbeat
  BY <1>7 DEF CountHeartbeat
<1>8. CASE Broadcast
  BY <1>8 DEF Broadcast
<1>9. CASE NextCell
  BY <1>9 DEF NextCell, Looked
<1>10. CASE LastCell
  BY <1>10 DEF LastCell
<1> QED BY <1>1, <1>2, <1>3, <1>4, <1>5, <1>6, <1>7, <1>8, <1>9, <1>10 DEF Step

LEMMA SumStep ==
  ASSUME HeartbeatAssumption, TypeOK, TypeOK', Enclosed, SumEnclosed, Step, ~Finish
  PROVE  SumEnclosed'
<1> USE DEF counts, history, outcome
<1>0. Summed \in Nat
  BY Numbers DEF Summed, One
<1>1. CASE RaiseHighest
  <2>1. highest_rrt <= highest_rrt' /\ highest_rrt' \in Nat
    BY <1>1, MaxOfTwo, Numbers DEF RaiseHighest
  <2>2. Summed * highest_rrt <= Summed * highest_rrt'
    BY <1>0, <2>1, Product, Numbers
  <2>3. Summed' = Summed /\ lowest_rrt' = lowest_rrt /\ acc_rtt' = acc_rtt
    BY <1>1 DEF RaiseHighest, Summed, One
  <2> QED BY <1>0, <2>1, <2>2, <2>3, Numbers DEF SumEnclosed
<1>2. CASE LowerLowest
  <2>1. lowest_rrt' <= lowest_rrt /\ lowest_rrt' \in Nat
    BY <1>2, MinOfTwo, Numbers DEF LowerLowest
  <2>2. Summed * lowest_rrt' <= Summed * lowest_rrt
    BY <1>0, <2>1, Product, Numbers
  <2>3. Summed' = Summed /\ highest_rrt' = highest_rrt /\ acc_rtt' = acc_rtt
    BY <1>2 DEF LowerLowest, Summed, One
  <2> QED BY <1>0, <2>1, <2>2, <2>3, Numbers DEF SumEnclosed
<1>3. CASE Accumulate
  <2>1. /\ Summed' = Summed + 1 /\ acc_rtt' = acc_rtt + round_trip_time
        /\ UNCHANGED <<highest_rrt, lowest_rrt>>
    BY <1>3, Numbers DEF Accumulate, Summed, One
  <2>2. lowest_rrt <= round_trip_time /\ round_trip_time <= highest_rrt
    BY <1>3 DEF Accumulate, Enclosed, Pending
  <2>3. /\ (Summed + 1) * lowest_rrt = Summed * lowest_rrt + lowest_rrt
        /\ (Summed + 1) * highest_rrt = Summed * highest_rrt + highest_rrt
    BY <1>0, OneMore, Numbers
  <2> QED BY <1>0, <2>1, <2>2, <2>3, Numbers DEF SumEnclosed
<1>4. CASE CountAck
  <2>1. Summed' = Summed /\ UNCHANGED <<highest_rrt, lowest_rrt, acc_rtt>>
    BY <1>4, Numbers DEF CountAck, Summed, One
  <2> QED BY <2>1 DEF SumEnclosed
<1>5. CASE Send \/ CountRound \/ CountHeartbeat \/ Broadcast \/ NextCell \/ LastCell
  <2>1. Summed' = Summed /\ UNCHANGED <<highest_rrt, lowest_rrt, acc_rtt>>
    BY <1>5 DEF Send, CountRound, CountHeartbeat, Broadcast, NextCell, LastCell, Summed, One
  <2> QED BY <2>1 DEF SumEnclosed
<1> QED BY <1>1, <1>2, <1>3, <1>4, <1>5 DEF Step

LEMMA NextIInv == ASSUME HeartbeatAssumption, IInv, [Next]_vars PROVE IInv'
<1>1. CASE Step /\ ~Finish
  <2>1. ~Ended
    BY <1>1 DEF Ended, Step, Send, RaiseHighest, LowerLowest, Accumulate, CountAck, CountRound,
                CountHeartbeat, Broadcast, NextCell, LastCell
  <2>2. TypeOK' /\ ~Ended'
    BY <1>1, TypeStep DEF Running, Ended
  <2>3. Reports'
    BY <2>2 DEF Ended, Reports, FinalReportExact, InterruptedReportOffByOne, RangeIsMeasured,
                AverageWithinRange, CrashOnlyInFirstAck, Printed
  <2>4. Counted' /\ Enclosed' /\ SumEnclosed'
    BY <1>1, <2>1, <2>2, CountedStep, EnclosedStep, SumStep DEF IInv
  <2> QED BY <2>2, <2>3, <2>4 DEF IInv
<1>2. CASE Finish
  BY <1>2, ResultIsRight DEF Finish, IInv, Ended
<1>3. CASE Sigint
  BY <1>3, ResultIsRight DEF Sigint, IInv
<1>4. CASE UNCHANGED vars
  <2> USE <1>4 DEF vars, counts, history, outcome
  <2>1. TypeOK' /\ Reports' /\ (Ended' <=> Ended)
    BY DEF IInv, TypeOK, Reports, FinalReportExact, InterruptedReportOffByOne,
           RangeIsMeasured, AverageWithinRange, CrashOnlyInFirstAck, Printed, Ended
  <2>2. /\ Counted => Counted'
        /\ Enclosed => Enclosed'
        /\ SumEnclosed => SumEnclosed'
    BY DEF Counted, Enclosed, SumEnclosed, Summed, One, Uncounted, Pending
  <2> QED BY <2>1, <2>2 DEF IInv
<1> QED BY <1>1, <1>2, <1>3, <1>4 DEF Next

THEOREM InvariantHolds == ASSUME HeartbeatAssumption PROVE Spec => []IInv
<1>1. Init => IInv
  BY InitIInv
<1>2. IInv /\ [Next]_vars => IInv'
  BY NextIInv
<1> QED BY <1>1, <1>2, PTL DEF Spec

-------------------------------------------------------------------------------
(* What follows from it. *)

\* The range and the average that are printed are those of the times measured.
THEOREM StatisticsAreRight == ASSUME HeartbeatAssumption PROVE Spec => []StatisticsInv
<1>1. IInv => StatisticsInv
  BY DEF IInv, Reports, StatisticsInv
<1> QED BY <1>1, InvariantHolds, PTL

\* A run left alone reports what the library said, for any count of heartbeats.
THEOREM FinalReport == ASSUME HeartbeatAssumption PROVE Spec => []FinalReportExact
<1>1. IInv => FinalReportExact
  BY DEF IInv, Reports
<1> QED BY <1>1, InvariantHolds, PTL

\* SIGINT makes the loss wrong by one heartbeat at most.
THEOREM InterruptedReport == ASSUME HeartbeatAssumption PROVE Spec => []InterruptedReportOffByOne
<1>1. IInv => InterruptedReportOffByOne
  BY DEF IInv, Reports
<1> QED BY <1>1, InvariantHolds, PTL

\* There is one place only where it kills the program.
THEOREM OneCrash == ASSUME HeartbeatAssumption PROVE Spec => []CrashOnlyInFirstAck
<1>1. IInv => CrashOnlyInFirstAck
  BY DEF IInv, Reports
<1> QED BY <1>1, InvariantHolds, PTL
===============================================================================
