---------------------------- MODULE CountersProofs -----------------------------
(***************************************************************************)
(* For any number of polls, of tries and of rows and columns: the channel  *)
(* is empty when a part begins that sends, so an answer that is received   *)
(* is the one to the last request, and that was for the item of this part. *)
(***************************************************************************)
EXTENDS Counters, TLAPS

Items == {0} \union DOMAIN Plan

Types == TypeOK /\ asked \in Seq(Items) /\ way \intersect ready = {}

\* The status, and the part that main is at.
Control == /\ step \in {"init", "do", "recv"} => status = Running
           /\ step = "init" => t = 1 /\ way \union ready = {}
           /\ step = "recv" => t \in DOMAIN Plan
                               /\ Kind \in {"single", "poll", "cleanup", "line"}
           /\ status = 0 => t = Parts + 1

\* The last request was for the item that is received next.
RightItem ==
  /\ step = "recv" \/ (step = "do" /\ t = 4) =>
       (seq_no \in way \union ready => asked[seq_no] = Item)
  /\ status = Running => way \union ready \subseteq {seq_no}
  /\ step = "do" /\ t # 4 => way \union ready = {}

\* Whatever main is past has been printed.
PrintedSoFar ==
  /\ \A p \in printed : p[2] = p[1] \/ p[1] \in Regions
  /\ \A k \in DOMAIN Plan \ 2 .. 4 : k < t => \E p \in printed : p[1] = k

\* The requests sent before part k.
Sent(k) == IF k <= 2 THEN 0
           ELSE IF k = 3 THEN 1
           ELSE IF k <= FirstLine THEN Polls + 2
           ELSE IF k <= AfterRows THEN Polls + 2 + k - FirstLine
           ELSE IF k <= Parts THEN Polls + 1 + k - FirstLine
           ELSE Polls + 2 + NRows + NCols

\* A part sends one, and the poll one more for each answer.
Few == /\ step \in {"init", "do"} => Len(asked) <= Sent(t)
       /\ step = "recv" => /\ t = 3 => i < Polls /\ Len(asked) <= Sent(t) + 1 + i
                           /\ t = 4 => Len(asked) <= Sent(t)
                           /\ t \notin {3, 4} => Len(asked) <= Sent(t) + 1
                           /\ Kind = "line" => j < MaxTries

IInv == Types /\ Control /\ RightItem /\ PrintedSoFar /\ Few

-------------------------------------------------------------------------------
(* The parts of the plan. *)

LEMMA PlanParts ==
  ASSUME CountersAssumption
  PROVE  /\ Parts \in Nat /\ Parts >= 8 /\ DOMAIN Plan = 1 .. Parts
         /\ FirstLine \in 7 .. Parts /\ AfterRows \in FirstLine .. Parts
         /\ Plan[1] = "total" /\ Plan[2] = "single" /\ Plan[3] = "poll"
         /\ Plan[4] = "cleanup" /\ Plan[5] = "port"
         /\ \A k \in 6 .. Parts : Plan[k] \in {"region", "line"}
         /\ \A k \in 6 .. Parts : Plan[k] = "line" =>
              k >= FirstLine /\ k < Parts /\ k # AfterRows
<1> USE DEF CountersAssumption, Parts, FirstLine, AfterRows
<1>1. Parts \in Nat /\ Parts >= 8
  OBVIOUS
<1>2. \A k \in 1 .. Parts :
        Plan[k] = IF k <= 5 THEN <<"total", "single", "poll", "cleanup", "port">>[k]
                  ELSE IF k \in FirstLine .. Parts - 1 /\ k # AfterRows
                       THEN "line" ELSE "region"
  BY DEF Plan
<1>3. DOMAIN Plan = 1 .. Parts
  BY DEF Plan
<1>4. /\ Plan[1] = "total" /\ Plan[2] = "single" /\ Plan[3] = "poll"
      /\ Plan[4] = "cleanup" /\ Plan[5] = "port"
  BY <1>1, <1>2
<1> QED BY <1>1, <1>2, <1>3, <1>4

\* What a kind says of the number of the part.
LEMMA KindIsAt ==
  ASSUME CountersAssumption, NEW k \in 1 .. Parts
  PROVE  /\ Plan[k] = "total" => k = 1
         /\ Plan[k] = "single" => k = 2
         /\ Plan[k] = "poll" => k = 3
         /\ Plan[k] = "cleanup" => k = 4
         /\ Plan[k] = "port" => k = 5
         /\ Plan[k] \in {"region", "line"} => k >= 6
<1>1. k \in {1, 2, 3, 4, 5} \/ k \in 6 .. Parts
  BY PlanParts
<1> QED BY <1>1, PlanParts

\* A line may send one request more, and no part sends a negative number.
LEMMA SentGrows ==
  ASSUME CountersAssumption, NEW k \in 1 .. Parts
  PROVE  /\ Sent(k) \in Nat /\ Sent(k + 1) \in Nat
         /\ Sent(k) <= Sent(k + 1)
         /\ Plan[k] = "line" => Sent(k) + 1 <= Sent(k + 1)
         /\ Sent(k + 1) <= Polls + 2 + NRows + NCols
<1>1. Plan[k] = "line" => k >= FirstLine /\ k < Parts /\ k # AfterRows
  BY KindIsAt, PlanParts
<1> QED BY <1>1 DEF Sent, CountersAssumption, Parts, FirstLine, AfterRows

-------------------------------------------------------------------------------
LEMMA InitIInv == CountersAssumption /\ Init => IInv
<1> SUFFICES ASSUME CountersAssumption, Init PROVE IInv
  OBVIOUS
<1>1. Types
  <2>1. asked \in Seq(Items) /\ Len(asked) = 0 /\ DOMAIN asked = {}
    BY DEF Init
  <2>2. t \in 1 .. Parts + 1
    BY PlanParts DEF Init
  <2>3. TypeOK
    <3>1. way \union ready \union lost \subseteq DOMAIN asked
      BY <2>1 DEF Init
    <3>2. seq_no \in 0 .. Len(asked) /\ Len(asked) <= Polls + 2 + NRows + NCols
      BY <2>1 DEF Init, CountersAssumption
    <3>3. i \in 0 .. Polls /\ j \in 0 .. MaxTries
      BY DEF Init, CountersAssumption
    <3>4. msg_h \in BOOLEAN /\ broken \in BOOLEAN
      BY DEF Init
    <3>5. raw \in {Nothing, 0} \union DOMAIN Plan /\ status \in {Running, 0, 1}
      BY DEF Init
    <3>6. step \in {"init", "do", "recv", "exit", "done"}
      BY DEF Init
    <3> HIDE DEF Init
    <3> QED BY <2>2, <3>1, <3>2, <3>3, <3>4, <3>5, <3>6 DEF TypeOK
  <2> QED BY <2>1, <2>3 DEF Init, Types
<1>2. Control /\ RightItem /\ PrintedSoFar
  BY PlanParts DEF Init, Control, RightItem, PrintedSoFar, Running
<1>3. Few
  BY DEF Init, Few, Sent
<1> QED BY <1>1, <1>2, <1>3 DEF IInv

\* A request is remembered under its number for the item of this part.
LEMMA Asking ==
  ASSUME CountersAssumption, IInv, t \in 1 .. Parts, Request
  PROVE  /\ Item \in Items /\ asked' \in Seq(Items)
         /\ Len(asked) \in Nat /\ Len(asked') = Len(asked) + 1
         /\ DOMAIN asked = 1 .. Len(asked) /\ DOMAIN asked' = 1 .. Len(asked) + 1
         /\ seq_no' = Len(asked) + 1 /\ asked'[seq_no'] = Item
         /\ seq_no' \notin way /\ seq_no' \notin ready
<1>1. Item \in Items
  BY PlanParts DEF Item, Items
<1>2. asked \in Seq(Items) /\ way \union ready \subseteq DOMAIN asked
  BY DEF IInv, Types, TypeOK
<1>3. asked' = Append(asked, Item) /\ seq_no' = Len(asked) + 1
  BY DEF Request
<1> HIDE DEF Item, Items
<1> QED BY <1>1, <1>2, <1>3

\* What is received is the answer for the item of this part, and the only one.
LEMMA Receiving ==
  ASSUME CountersAssumption, IInv, t \in 1 .. Parts, Received
  PROVE  /\ Item \in Items /\ raw' = Item /\ printed' = printed \union {<<Item, Item>>}
         /\ way = {} /\ ready' = {} /\ status = Running
<1>1. Item \in Items
  BY PlanParts DEF Item, Items
<1>2. asked[seq_no] = Item
  BY DEF Received, IInv, RightItem
<1>3. status = Running /\ way \union ready \subseteq {seq_no} /\ way \intersect ready = {}
  BY DEF Received, IInv, RightItem, Control, Types
<1> QED BY <1>1, <1>2, <1>3 DEF Received, Show

\* Printing keeps PrintedSoFar when the value is right, or the part is a region.
LEMMA Printing ==
  ASSUME CountersAssumption, PrintedSoFar, t \in 1 .. Parts, NEW v,
         printed' = printed \union {<<Item, v>>},
         v = Item \/ Item \in Regions,
         t' \in {t, t + 1}, t' = t + 1 => Item = t \/ t \in 2 .. 4
  PROVE  PrintedSoFar'
<1>1. \A p \in printed' : p[2] = p[1] \/ p[1] \in Regions
  BY DEF PrintedSoFar
<1>2. ASSUME NEW k \in DOMAIN Plan \ 2 .. 4, k < t' PROVE \E p \in printed' : p[1] = k
  <2>1. CASE k < t
    BY <1>2, <2>1 DEF PrintedSoFar
  <2>2. CASE ~(k < t)
    <3>1. k = t /\ t' = t + 1
      BY <1>2, <2>2, PlanParts
    <3>2. <<Item, v>>[1] = k /\ <<Item, v>> \in printed'
      BY <3>1
    <3> QED BY <3>2
  <2> QED BY <2>1, <2>2
<1> QED BY <1>1, <1>2 DEF PrintedSoFar, Regions

\* The types after a step that neither sends nor receives.
LEMMA TypesKept ==
  ASSUME CountersAssumption, Types, t \in 1 .. Parts, t' \in {t, t + 1},
         step' \in {"init", "do", "recv", "exit", "done"}, status' \in {status, 0, 1},
         j' \in 0 .. MaxTries, raw' \in {raw, Item},
         UNCHANGED <<i, seq_no, msg_h, asked, card>>
  PROVE  Types'
<1>1. raw' \in {Nothing, 0} \union DOMAIN Plan
  BY PlanParts DEF Item, Types, TypeOK
<1>2. t' \in 1 .. Parts + 1
  BY PlanParts
<1>3. /\ way' = way /\ ready' = ready /\ lost' = lost /\ asked' = asked
      /\ i' = i /\ seq_no' = seq_no /\ msg_h' = msg_h /\ broken' = broken
  BY DEF card
<1>4. status' \in {Running, 0, 1}
  BY DEF Types, TypeOK
<1>5. TypeOK'
  BY <1>1, <1>2, <1>3, <1>4 DEF Types, TypeOK
<1> QED BY <1>3, <1>5 DEF Types, Items

\* The conjuncts of IInv that a step of main may disturb, action by action.
LEMMA StepIInv == CountersAssumption /\ IInv /\ [Next]_vars => IInv'
<1> SUFFICES ASSUME CountersAssumption, IInv, [Next]_vars PROVE IInv'
  OBVIOUS
<1> USE DEF IInv
<1>1. ASSUME InitMessaging PROVE IInv'
  <2> USE <1>1 DEF At, InitMessaging, card
  <2>1. Types'
    BY PlanParts, KindIsAt DEF Types, TypeOK, Items, Item, Kind, Few, Running, CountersAssumption
  <2>2. Control'
    BY PlanParts, KindIsAt DEF Control, Types, TypeOK, Kind, Running
  <2>3. RightItem'
    BY PlanParts, KindIsAt DEF RightItem, Types, TypeOK, Control, Item, Kind, Running
  <2>4. PrintedSoFar'
    BY PlanParts DEF PrintedSoFar, Regions
  <2>5. Few'
    BY PlanParts, KindIsAt DEF Few, Sent, Types, TypeOK, Control, Kind, CountersAssumption,
                               Parts, FirstLine, AfterRows
  <2> QED BY <2>1, <2>2, <2>3, <2>4, <2>5
<1>2. ASSUME Read PROVE IInv'
  <2> USE <1>2 DEF At, Read, Stop, GoOn, Show, card
  <2>0. t \in 1 .. Parts /\ t \in {1, 5}
    BY PlanParts, KindIsAt DEF Kind
  <2>1. Types'
    <3>1. j' \in 0 .. MaxTries
      BY DEF Types, TypeOK
    <3>2. t' \in {t, t + 1} /\ step' \in {"do", "exit"} /\ status' \in {status, 1}
      OBVIOUS
    <3> QED BY <2>0, <3>1, <3>2, TypesKept
  <2>2. Control'
    <3>1. \/ step' = "do" /\ status' = status
          \/ step' = "exit" /\ status' = 1
      OBVIOUS
    <3>2. status = Running
      BY DEF Control
    <3> QED BY <3>1, <3>2 DEF Control, Running
  <2>3. RightItem'
    BY PlanParts, KindIsAt DEF RightItem, Types, TypeOK, Control, Item, Kind, Running
  <2>4. PrintedSoFar'
    <3>1. Item = t
      BY <2>0, KindIsAt DEF Item, Kind
    <3>2. CASE Stop(1)
      BY <3>2 DEF PrintedSoFar, Regions
    <3>3. CASE GoOn
      BY <2>0, <3>1, <3>3, Printing
    <3> QED BY <3>2, <3>3
  <2>5. Few'
    BY PlanParts, KindIsAt DEF Few, Sent, Types, TypeOK, Control, Kind, CountersAssumption,
                               Parts, FirstLine, AfterRows
  <2> QED BY <2>1, <2>2, <2>3, <2>4, <2>5
<1>3. ASSUME Region PROVE IInv'
  <2> USE <1>3 DEF At, Region, GoOn, Show, card
  <2>0. t \in 1 .. Parts /\ t >= 6
    BY PlanParts, KindIsAt DEF Kind
  <2>1. Types'
    <3>1. j' \in 0 .. MaxTries
      BY DEF Types, TypeOK
    <3>2. t' \in {t, t + 1} /\ step' \in {"do", "exit"} /\ status' \in {status, 1}
      OBVIOUS
    <3> QED BY <2>0, <3>1, <3>2, TypesKept
  <2>2. Control'
    BY PlanParts, KindIsAt DEF Control, Types, TypeOK, Kind, Running
  <2>3. RightItem'
    BY PlanParts, KindIsAt DEF RightItem, Types, TypeOK, Control, Item, Kind, Running
  <2>4. PrintedSoFar'
    <3>1. Item = t /\ Item \in Regions
      BY <2>0, PlanParts DEF Item, Kind, Regions
    <3> QED BY <2>0, <3>1, Printing
  <2>5. Few'
    <3>1. Sent(t) <= Sent(t + 1) /\ Sent(t)' = Sent(t + 1) /\ Sent(t) \in Nat
      BY <2>0, SentGrows DEF Sent, FirstLine, AfterRows, Parts
    <3> QED BY <2>0, <3>1, SentGrows DEF Few, Types, TypeOK, Control
  <2> QED BY <2>1, <2>2, <2>3, <2>4, <2>5
<1>4. ASSUME Send PROVE IInv'
  <2> USE <1>4 DEF At, Send, Request, Stop, card
  <2>0. t \in 1 .. Parts /\ t \in {2, 3}
    BY PlanParts, KindIsAt DEF Kind
  <2>1. Types'
    <3>1. CASE Request
      <4>1. Len(asked) + 1 <= Polls + 2 + NRows + NCols
        BY <2>0, SentGrows, PlanParts DEF Few, Sent, Types, TypeOK, Control, CountersAssumption, Kind,
             Parts, FirstLine, AfterRows
      <4>2. asked' \in Seq(Items) /\ way' \intersect ready' = {}
        BY <2>0, <3>1, Asking DEF Types, Items
      <4>3. /\ way' \union ready' \union lost' \subseteq DOMAIN asked'
            /\ seq_no' \in 0 .. Len(asked') /\ Len(asked') = Len(asked) + 1
        BY <2>0, <3>1, Asking DEF Types, TypeOK, Request
      <4>4. raw' \in {Nothing, 0} \union DOMAIN Plan
        BY <2>0 DEF Types, TypeOK, Items
      <4> QED BY <2>0, <4>1, <4>2, <4>3, <4>4 DEF Types, TypeOK, Items, Few, Running, CountersAssumption
    <3>2. CASE ~Request
      BY <2>0, <3>2 DEF Types, TypeOK, Items, Running, CountersAssumption
    <3> QED BY <3>1, <3>2
  <2>2. Control'
    BY PlanParts, KindIsAt DEF Control, Types, TypeOK, Kind, Running
  <2>3. RightItem'
    <3>1. CASE Request
      BY <2>0, <3>1, Asking, KindIsAt DEF RightItem, Types, TypeOK, Control, Item, Kind, Running
    <3>2. CASE ~Request
      BY <2>0, <3>2, KindIsAt DEF RightItem, Types, TypeOK, Control, Item, Kind, Running
    <3> QED BY <3>1, <3>2
  <2>4. PrintedSoFar'
    BY PlanParts DEF PrintedSoFar, Regions
  <2>5. Few'
    BY PlanParts, KindIsAt DEF Few, Sent, Types, TypeOK, Control, Kind, CountersAssumption,
                               Parts, FirstLine, AfterRows
  <2> QED BY <2>1, <2>2, <2>3, <2>4, <2>5
<1>5. ASSUME SendLine PROVE IInv'
  <2> USE <1>5 DEF At, SendLine, Request, card
  <2>0. t \in 1 .. Parts /\ t >= 6
    BY PlanParts, KindIsAt DEF Kind
  <2>1. Types'
    <3>1. CASE Request
      <4>1. Len(asked) + 1 <= Polls + 2 + NRows + NCols
        <5>1. Len(asked) <= Sent(t) /\ Len(asked) \in Nat
          BY DEF Few, Types
        <5>2. /\ Sent(t) \in Nat /\ Sent(t + 1) \in Nat /\ Sent(t) + 1 <= Sent(t + 1)
              /\ Sent(t + 1) <= Polls + 2 + NRows + NCols
          BY <2>0, SentGrows DEF Kind
        <5> QED BY <5>1, <5>2 DEF CountersAssumption
      <4>2. asked' \in Seq(Items) /\ way' \intersect ready' = {}
        BY <2>0, <3>1, Asking DEF Types, Items
      <4>3. /\ way' \union ready' \union lost' \subseteq DOMAIN asked'
            /\ seq_no' \in 0 .. Len(asked') /\ Len(asked') = Len(asked) + 1
        BY <2>0, <3>1, Asking DEF Types, TypeOK, Request
      <4>4. raw' \in {Nothing, 0} \union DOMAIN Plan
        BY <2>0 DEF Types, TypeOK, Items
      <4> QED BY <2>0, <4>1, <4>2, <4>3, <4>4 DEF Types, TypeOK, Items, Few, Running, CountersAssumption
    <3>2. CASE ~Request
      BY <2>0, <3>2 DEF Types, TypeOK, Items, Running, CountersAssumption
    <3> QED BY <3>1, <3>2
  <2>2. Control'
    BY PlanParts, KindIsAt DEF Control, Types, TypeOK, Kind, Running
  <2>3. RightItem'
    <3>1. way \union ready = {} /\ Item' = Item /\ step' = "recv"
      BY <2>0 DEF RightItem, Item, Kind
    <3>2. CASE Request
      BY <2>0, <3>1, <3>2, Asking DEF RightItem
    <3>3. CASE ~Request
      BY <3>1, <3>3 DEF RightItem
    <3> QED BY <3>2, <3>3
  <2>4. PrintedSoFar'
    BY PlanParts DEF PrintedSoFar, Regions
  <2>5. Few'
    <3>1. Sent(t)' = Sent(t) /\ Sent(t) \in Nat /\ Kind' = Kind
      BY <2>0, SentGrows DEF Sent, Kind
    <3>2. Len(asked') \in {Len(asked), Len(asked) + 1} /\ Len(asked) \in Nat
      BY <2>0, Asking DEF Types
    <3> QED BY <2>0, <3>1, <3>2 DEF Few, Types, TypeOK, Control, CountersAssumption
  <2> QED BY <2>1, <2>2, <2>3, <2>4, <2>5
<1>6. ASSUME CleanUp PROVE IInv'
  <2> USE <1>6 DEF At, CleanUp, main, card
  <2>1. Types'
    BY PlanParts, KindIsAt DEF Types, TypeOK, Items, Item, Kind, Few, Running, CountersAssumption
  <2>2. Control'
    BY PlanParts, KindIsAt DEF Control, Types, TypeOK, Kind, Running
  <2>3. RightItem'
    BY PlanParts, KindIsAt DEF RightItem, Types, TypeOK, Control, Item, Kind, Running
  <2>4. PrintedSoFar'
    BY PlanParts DEF PrintedSoFar, Regions
  <2>5. Few'
    BY PlanParts, KindIsAt DEF Few, Sent, Types, TypeOK, Control, Kind, CountersAssumption,
                               Parts, FirstLine, AfterRows
  <2> QED BY <2>1, <2>2, <2>3, <2>4, <2>5
<1>7. ASSUME RecvOk PROVE IInv'
  <2> USE <1>7 DEF At, RecvOk, Received, GoOn, Show, card
  <2>0. t \in 1 .. Parts /\ (t \in {2, 4} \/ t >= 6)
    BY PlanParts, KindIsAt DEF Kind
  <2>1. Types'
    <3>1. /\ t' = t + 1 /\ step' = "do" /\ status' = status
          /\ way' = {} /\ ready' = {} /\ raw' \in Items
      BY <2>0, Receiving DEF Items
    <3>2. raw' \in {Nothing, 0} \union DOMAIN Plan
      BY <3>1 DEF Items
    <3>3. lost \subseteq DOMAIN asked
      BY DEF Types, TypeOK
    <3>4. t' \in 1 .. Parts + 1
      BY <2>0, <3>1, PlanParts
    <3>5. TypeOK'
      <4>1. /\ i' = i /\ j' = j /\ seq_no' = seq_no /\ asked' = asked
            /\ msg_h' = msg_h /\ broken' = broken /\ lost' = lost
        OBVIOUS
      <4> QED BY <3>1, <3>2, <3>3, <3>4, <4>1 DEF Types, TypeOK
    <3> QED BY <3>1, <3>5 DEF Types, Items
  <2>2. Control'
    BY PlanParts, KindIsAt DEF Control, Types, TypeOK, Kind, Running
  <2>3. RightItem'
    BY PlanParts, KindIsAt DEF RightItem, Types, TypeOK, Control, Item, Kind, Running
  <2>4. PrintedSoFar'
    <3>1. Item = t \/ t \in 2 .. 4
      BY <2>0, KindIsAt DEF Item, Kind
    <3> QED BY <2>0, <3>1, Receiving, Printing
  <2>5. Few'
    <3>1. Sent(t)' = Sent(t + 1) /\ Sent(t) \in Nat /\ Sent(t + 1) \in Nat
      BY <2>0, SentGrows DEF Sent, FirstLine, AfterRows, Parts
    <3>2. t \notin {3, 4} => Sent(t) + 1 <= Sent(t + 1)
      <4>1. CASE t = 2
        BY <4>1 DEF Sent
      <4>2. CASE t # 2
        BY <2>0, <4>2, SentGrows, KindIsAt DEF Kind
      <4> QED BY <4>1, <4>2
    <3>3. t = 4 => Sent(t) <= Sent(t + 1)
      BY <2>0, SentGrows
    <3> QED BY <2>0, <3>1, <3>2, <3>3 DEF Few, Types, TypeOK, Control
  <2> QED BY <2>1, <2>2, <2>3, <2>4, <2>5
<1>8. ASSUME PollOk PROVE IInv'
  <2> USE <1>8 DEF At, PollOk, Received, Request, GoOn, Stop, Show, card
  <2>0. t \in 1 .. Parts /\ t = 3
    BY PlanParts, KindIsAt DEF Kind
  <2>1. Types'
    <3>1. CASE Request
      <4>1. Len(asked) + 1 <= Polls + 2 + NRows + NCols
        BY <2>0, SentGrows, PlanParts DEF Few, Sent, Types, TypeOK, Control, CountersAssumption, Kind,
             Parts, FirstLine, AfterRows
      <4>2. asked' \in Seq(Items) /\ way' \intersect ready' = {}
        BY <2>0, <3>1, Asking, Receiving DEF Types, Items
      <4>3. /\ way' \union ready' \union lost' \subseteq DOMAIN asked'
            /\ seq_no' \in 0 .. Len(asked') /\ Len(asked') = Len(asked) + 1
        BY <2>0, <3>1, Asking, Receiving DEF Types, TypeOK, Request
      <4>4. raw' \in {Nothing, 0} \union DOMAIN Plan
        BY <2>0, Receiving DEF Types, TypeOK, Items
      <4>5. i' \in 0 .. Polls
        <5>1. i < Polls /\ i \in 0 .. Polls /\ i' = i + 1
          BY <2>0, <3>1 DEF Few, Types, TypeOK
        <5> QED BY <5>1 DEF CountersAssumption
      <4>6. /\ t' \in {t, t + 1} /\ step' \in {"do", "recv", "exit"}
            /\ status' \in {status, 1}
        OBVIOUS
      <4>7. j' = j /\ msg_h' = msg_h /\ broken' = broken
        OBVIOUS
      <4>8. Len(asked') <= Polls + 2 + NRows + NCols /\ t' \in 1 .. Parts + 1
        BY <2>0, <4>1, <4>3, <4>6, PlanParts
      <4>9. TypeOK'
        BY <4>3, <4>4, <4>5, <4>6, <4>7, <4>8 DEF Types, TypeOK
      <4> QED BY <4>2, <4>9 DEF Types, Items
    <3>2. CASE ~Request
      BY <2>0, <3>2, Receiving DEF Types, TypeOK, Items, Running, CountersAssumption
    <3> QED BY <3>1, <3>2
  <2>2. Control'
    <3>1. /\ step' = "recv" => t' = 3 /\ status' = status
          /\ step' \in {"do", "recv"} => status' = status
          /\ step' \in {"do", "recv", "exit"} /\ status' \in {status, 1} /\ status = Running
      BY <2>0, Receiving
    <3>2. t' = 3 => t' \in DOMAIN Plan /\ Kind' = "poll"
      BY PlanParts DEF Kind
    <3> QED BY <3>1, <3>2 DEF Control, Running
  <2>3. RightItem'
    <3>1. CASE Request
      <4>1. way' = {seq_no'} /\ ready' = {} /\ asked'[seq_no'] = Item
        BY <2>0, <3>1, Asking, Receiving DEF Request
      <4>2. t' \in {3, 4} /\ Item = 0
        BY <2>0, PlanParts DEF Item, Kind
      <4>3. Item' = 0 /\ (step' = "do" => t' = 4)
        BY <2>0, <4>2, PlanParts DEF Item, Kind
      <4> QED BY <4>1, <4>2, <4>3 DEF RightItem
    <3>2. CASE ~Request
      BY <2>0, <3>2, Receiving, KindIsAt DEF RightItem, Types, TypeOK, Control, Item, Kind, Running
    <3> QED BY <3>1, <3>2
  <2>4. PrintedSoFar'
    <3>1. t' \in {t, t + 1}
      OBVIOUS
    <3> QED BY <2>0, <3>1, Receiving, Printing
  <2>5. Few'
    <3>1. i < Polls /\ Len(asked) <= Sent(3) + 1 + i /\ i \in Nat /\ Len(asked) \in Nat
      BY <2>0 DEF Few, Types, TypeOK
    <3>2. Sent(3) = 1 /\ Sent(4) = Polls + 2
      BY PlanParts DEF Sent
    <3>3. CASE Request
      <4>1. Len(asked') = Len(asked) + 1 /\ i' = i + 1
        BY <2>0, <3>3, Asking
      <4>2. \/ i' >= Polls /\ t' = 4 /\ step' = "do"
            \/ i' < Polls /\ t' = 3 /\ step' = "recv"
        BY <2>0, <3>1, <3>3, <4>1 DEF CountersAssumption
      <4>3. CASE t' = 4
        <5>1. step' = "do" /\ Sent(t)' = Polls + 2
          BY <3>2, <4>2, <4>3
        <5>2. Len(asked') <= Polls + 2
          BY <3>1, <3>2, <4>1 DEF CountersAssumption
        <5> QED BY <5>1, <5>2 DEF Few
      <4>4. CASE t' = 3
        <5>1. step' = "recv" /\ Sent(t)' = 1 /\ Kind' = "poll"
          BY <3>2, <4>2, <4>4, PlanParts DEF Kind
        <5>2. Len(asked') <= 1 + 1 + i'
          BY <3>1, <3>2, <4>1
        <5> QED BY <4>2, <4>4, <5>1, <5>2 DEF Few
      <4> QED BY <4>2, <4>3, <4>4
    <3>4. CASE ~Request
      BY <3>4 DEF Few
    <3> QED BY <3>3, <3>4
  <2> QED BY <2>1, <2>2, <2>3, <2>4, <2>5
<1>9. ASSUME RetryLine PROVE IInv'
  <2> USE <1>9 DEF At, RetryLine, Stop, card
  <2>0. t \in 1 .. Parts
    BY PlanParts
  <2>1. Types'
    <3>1. j' \in 0 .. MaxTries
      <4>1. j < MaxTries /\ j \in 0 .. MaxTries
        BY DEF Few, Types, TypeOK
      <4> QED BY <4>1 DEF CountersAssumption
    <3>2. t' = t /\ step' \in {"recv", "exit"} /\ status' \in {status, 1}
      OBVIOUS
    <3> QED BY <2>0, <3>1, <3>2, TypesKept
  <2>2. Control'
    BY PlanParts, KindIsAt DEF Control, Types, TypeOK, Kind, Running
  <2>3. RightItem'
    BY PlanParts, KindIsAt DEF RightItem, Types, TypeOK, Control, Item, Kind, Running
  <2>4. PrintedSoFar'
    BY PlanParts DEF PrintedSoFar, Regions
  <2>5. Few'
    BY PlanParts, KindIsAt DEF Few, Sent, Types, TypeOK, Control, Kind, CountersAssumption,
                               Parts, FirstLine, AfterRows
  <2> QED BY <2>1, <2>2, <2>3, <2>4, <2>5
<1>10. ASSUME RecvError PROVE IInv'
  <2> USE <1>10 DEF At, RecvError, Stop, card
  <2>1. Types'
    BY PlanParts, KindIsAt DEF Types, TypeOK, Items, Item, Kind, Few, Running, CountersAssumption
  <2>2. Control'
    BY PlanParts, KindIsAt DEF Control, Types, TypeOK, Kind, Running
  <2>3. RightItem'
    BY PlanParts, KindIsAt DEF RightItem, Types, TypeOK, Control, Item, Kind, Running
  <2>4. PrintedSoFar'
    BY PlanParts DEF PrintedSoFar, Regions
  <2>5. Few'
    BY PlanParts, KindIsAt DEF Few, Sent, Types, TypeOK, Control, Kind, CountersAssumption,
                               Parts, FirstLine, AfterRows
  <2> QED BY <2>1, <2>2, <2>3, <2>4, <2>5
<1>11. ASSUME Finish PROVE IInv'
  <2> USE <1>11 DEF At, Finish, Stop, card
  <2>1. Types'
    BY PlanParts, KindIsAt DEF Types, TypeOK, Items, Item, Kind, Few, Running, CountersAssumption
  <2>2. Control'
    BY PlanParts, KindIsAt DEF Control, Types, TypeOK, Kind, Running
  <2>3. RightItem'
    BY PlanParts, KindIsAt DEF RightItem, Types, TypeOK, Control, Item, Kind, Running
  <2>4. PrintedSoFar'
    BY PlanParts DEF PrintedSoFar, Regions
  <2>5. Few'
    BY PlanParts, KindIsAt DEF Few, Sent, Types, TypeOK, Control, Kind, CountersAssumption,
                               Parts, FirstLine, AfterRows
  <2> QED BY <2>1, <2>2, <2>3, <2>4, <2>5
<1>12. ASSUME AtExit PROVE IInv'
  <2> USE <1>12 DEF At, AtExit, card
  <2>1. Types'
    BY PlanParts, KindIsAt DEF Types, TypeOK, Items, Item, Kind, Few, Running, CountersAssumption
  <2>2. Control'
    BY PlanParts, KindIsAt DEF Control, Types, TypeOK, Kind, Running
  <2>3. RightItem'
    BY PlanParts, KindIsAt DEF RightItem, Types, TypeOK, Control, Item, Kind, Running
  <2>4. PrintedSoFar'
    BY PlanParts DEF PrintedSoFar, Regions
  <2>5. Few'
    BY PlanParts, KindIsAt DEF Few, Sent, Types, TypeOK, Control, Kind, CountersAssumption,
                               Parts, FirstLine, AfterRows
  <2> QED BY <2>1, <2>2, <2>3, <2>4, <2>5
<1>13. ASSUME Break PROVE IInv'
  <2> USE <1>13 DEF At, Break, main, card
  <2>1. Types'
    BY PlanParts, KindIsAt DEF Types, TypeOK, Items, Item, Kind, Few, Running, CountersAssumption
  <2>2. Control'
    BY PlanParts, KindIsAt DEF Control, Types, TypeOK, Kind, Running
  <2>3. RightItem'
    BY PlanParts, KindIsAt DEF RightItem, Types, TypeOK, Control, Item, Kind, Running
  <2>4. PrintedSoFar'
    BY PlanParts DEF PrintedSoFar, Regions
  <2>5. Few'
    BY PlanParts, KindIsAt DEF Few, Sent, Types, TypeOK, Control, Kind, CountersAssumption,
                               Parts, FirstLine, AfterRows
  <2> QED BY <2>1, <2>2, <2>3, <2>4, <2>5
<1>14. ASSUME NEW s \in DOMAIN asked, Answer(s) PROVE IInv'
  <2> USE <1>14 DEF At, Answer, main, card
  <2>1. Types'
    BY PlanParts, KindIsAt DEF Types, TypeOK, Items, Item, Kind, Few, Running, CountersAssumption
  <2>2. Control'
    BY PlanParts, KindIsAt DEF Control, Types, TypeOK, Kind, Running
  <2>3. RightItem'
    BY PlanParts, KindIsAt DEF RightItem, Types, TypeOK, Control, Item, Kind, Running
  <2>4. PrintedSoFar'
    BY PlanParts DEF PrintedSoFar, Regions
  <2>5. Few'
    BY PlanParts, KindIsAt DEF Few, Sent, Types, TypeOK, Control, Kind, CountersAssumption,
                               Parts, FirstLine, AfterRows
  <2> QED BY <2>1, <2>2, <2>3, <2>4, <2>5
<1>15. ASSUME NEW s \in DOMAIN asked, Lose(s) PROVE IInv'
  <2> USE <1>15 DEF At, Lose, main, card
  <2>1. Types'
    BY PlanParts, KindIsAt DEF Types, TypeOK, Items, Item, Kind, Few, Running, CountersAssumption
  <2>2. Control'
    BY PlanParts, KindIsAt DEF Control, Types, TypeOK, Kind, Running
  <2>3. RightItem'
    BY PlanParts, KindIsAt DEF RightItem, Types, TypeOK, Control, Item, Kind, Running
  <2>4. PrintedSoFar'
    BY PlanParts DEF PrintedSoFar, Regions
  <2>5. Few'
    BY PlanParts, KindIsAt DEF Few, Sent, Types, TypeOK, Control, Kind, CountersAssumption,
                               Parts, FirstLine, AfterRows
  <2> QED BY <2>1, <2>2, <2>3, <2>4, <2>5
<1>16. CASE UNCHANGED vars
  BY <1>16 DEF vars, Types, TypeOK, Control, RightItem, PrintedSoFar, Few, Kind, Item, Regions
<1> QED BY <1>1, <1>2, <1>3, <1>4, <1>5, <1>6, <1>7, <1>8, <1>9, <1>10, <1>11, <1>12, <1>13, <1>14, <1>15, <1>16 DEF Next, Main

-------------------------------------------------------------------------------
\* Every state of the reader of counters satisfies the invariant.
THEOREM InvariantHolds == Spec => []IInv
<1>1. CountersAssumption
  BY CountersAssumption
<1>2. Init => IInv
  BY <1>1, InitIInv
<1>3. IInv /\ [Next]_vars => IInv'
  BY <1>1, StepIInv
<1> QED BY <1>2, <1>3, PTL DEF Spec

\* Between the loops that receive, no request is on its way or unreceived, and in them
\* only the last one, for any number of polls, tries, rows and columns.
THEOREM ChannelIsClean == Spec => []ChannelInv
<1>1. CountersAssumption
  BY CountersAssumption
<1>2. IInv => ChannelInv
  <2> SUFFICES ASSUME IInv PROVE ChannelInv
    OBVIOUS
  <2>1. step = "do" /\ t <= Parts /\ Kind # "cleanup" => t # 4
    BY <1>1, PlanParts DEF Kind
  <2> QED BY <2>1 DEF IInv, Types, RightItem, ChannelInv, OneInFlight
<1> QED BY <1>2, InvariantHolds, PTL

\* What is printed for a counter or a line was answered to a request for it, and exit
\* status 0 means that all of them were.
THEOREM ValuesAreRight == Spec => []AnswersMatch
<1>1. CountersAssumption
  BY CountersAssumption
<1>2. IInv => AnswersMatch
  <2> SUFFICES ASSUME IInv PROVE AnswersMatch
    OBVIOUS
  <2>1. status = 0 => \A k \in DOMAIN Plan : k < t
    BY <1>1, PlanParts DEF IInv, Control
  <2> QED BY <2>1 DEF IInv, PrintedSoFar, AnswersMatch
<1> QED BY <1>2, InvariantHolds, PTL

===============================================================================
