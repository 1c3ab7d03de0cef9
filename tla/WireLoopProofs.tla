---------------------------- MODULE WireLoopProofs ----------------------------
(***************************************************************************)
(* Buffer ownership in the receive loops, for every pool, every number of  *)
(* programs and every mix of them.                                         *)
(***************************************************************************)
EXTENDS WireLoop, TLAPS

\* The inductive invariant.  NoBufferLeak needs to know that a program between
\* two packets has nothing in hand, and that is OwnsWhatItHandles; a buffer that
\* is queued or received has a host.
Addressed == \A b \in Buffers : buf[b].stage \in {"rx", "host"} => buf[b].host \in Hosts

OwnInv == TypeOK /\ Addressed /\ OwnsWhatItHandles /\ NoBufferLeak

\* A stopped program that can still reach receive has taken no packet since.
LateInv == \A h \in Hosts : /\ late[h] <= 1
                            /\ Run(h) => late[h] = 0
                            /\ pc[h] \in {"enter", "recv"} => late[h] = 0

LEMMA InitOwn == Init => OwnInv
  BY WireAssumption DEF Init, OwnInv, TypeOK, Addressed, OwnsWhatItHandles, NoBufferLeak,
     Holding, Free, Buffer, Stages, Locations

\* Types survive every step.
LEMMA NextType == TypeOK /\ [Next]_vars => TypeOK'
  <1> USE WireAssumption DEF TypeOK, Stages, Locations, Programs, Buffer, Free, Goto,
          hostVars, cardVars
  <1> SUFFICES ASSUME TypeOK, [Next]_vars PROVE TypeOK'
    OBVIOUS
  <1>1. ASSUME NEW h \in Hosts, OpenDevice(h) PROVE TypeOK'
    BY <1>1 DEF OpenDevice
  <1>2. ASSUME NEW h \in Hosts, Top(h) PROVE TypeOK'
    BY <1>2 DEF Top
  <1>3. ASSUME NEW h \in Hosts, EnterReceive(h) PROVE TypeOK'
    BY <1>3 DEF EnterReceive
  <1>4. ASSUME NEW h \in Hosts, ReceiveFail(h) PROVE TypeOK'
    BY <1>4 DEF ReceiveFail
  <1>5. ASSUME NEW h \in Hosts, ProcessPacket(h) PROVE TypeOK'
    <2>1. CASE UNCHANGED rejected
      BY <1>5, <2>1 DEF ProcessPacket
    <2>2. CASE /\ buf[pckt[h]].flow \in HttpFlows
               /\ pc' = [pc EXCEPT ![h] = "drop"]
               /\ rejected' \in {rejected, rejected \cup {buf[pckt[h]].flow}}
      <3>1. rejected' \subseteq Flows
        BY <2>2
      <3> QED  BY <1>5, <2>2, <3>1 DEF ProcessPacket
    <2> QED  BY <1>5, <2>1, <2>2 DEF ProcessPacket
  <1>6. ASSUME NEW h \in Hosts, TransmitOk(h) PROVE TypeOK'
    <2>1. buf' \in [Buffers -> Buffer]
      <3>1. CASE pckt[h] \in Buffers
        <4>1. [buf[pckt[h]] EXCEPT !.stage = "wire"] \in Buffer
          BY <3>1
        <4> QED  BY <1>6, <3>1, <4>1 DEF TransmitOk
      <3>2. CASE pckt[h] \notin Buffers
        BY <1>6, <3>2 DEF TransmitOk
      <3> QED  BY <3>1, <3>2
    <2>2. pc' \in [Hosts -> Locations]
      BY <1>6 DEF TransmitOk
    <2>3. UNCHANGED <<prog, running, interrupted, late, pckt, rejected>>
      BY <1>6 DEF TransmitOk
    <2> QED  BY <2>1, <2>2, <2>3
  <1>7. ASSUME NEW h \in Hosts, TransmitFail(h) PROVE TypeOK'
    BY <1>7 DEF TransmitFail
  <1>8. ASSUME NEW h \in Hosts, Destroy(h) PROVE TypeOK'
    BY <1>8 DEF Destroy
  <1>9. ASSUME NEW h \in Hosts, CloseDevice(h) PROVE TypeOK'
    BY <1>9 DEF CloseDevice
  <1>10. ASSUME NEW h \in Hosts, NEW b \in Buffers, ReceiveOk(h, b) PROVE TypeOK'
    BY <1>10 DEF ReceiveOk, AfterReceive, Run
  <1>11. ASSUME NEW h \in Hosts, SigTerm(h) PROVE TypeOK'
    BY <1>11 DEF SigTerm
  <1>12. ASSUME NEW b \in Buffers, WireDone(b) PROVE TypeOK'
    BY <1>12 DEF WireDone
  <1>13. ASSUME NEW h \in Hosts, NEW b \in Buffers, NEW f \in Flows, Arrive(h, b, f)
         PROVE TypeOK'
    BY <1>13 DEF Arrive
  <1>14. CASE UNCHANGED vars
    BY <1>14 DEF vars
  <1> QED
    BY <1>1, <1>2, <1>3, <1>4, <1>5, <1>6, <1>7, <1>8, <1>9, <1>10, <1>11, <1>12, <1>13,
       <1>14 DEF Next, HostStep

\* So does ownership.
LEMMA NextOwn == OwnInv /\ [Next]_vars => OwnInv'
  <1> SUFFICES ASSUME OwnInv, [Next]_vars PROVE OwnInv'
    OBVIOUS
  <1>t. TypeOK /\ TypeOK'
    BY NextType DEF OwnInv
  <1> DEFINE Own == Addressed /\ OwnsWhatItHandles /\ NoBufferLeak
  <1>o. Own
    BY DEF OwnInv
  <1> USE WireAssumption, <1>t, <1>o DEF TypeOK, Addressed, OwnsWhatItHandles,
          NoBufferLeak, Holding, Goto, hostVars, cardVars
  \* Steps that leave every buffer alone.
  <1>1. ASSUME NEW h \in Hosts,
               OpenDevice(h) \/ Top(h) \/ EnterReceive(h) \/ ReceiveFail(h) \/ SigTerm(h)
        PROVE Own'
    BY <1>1 DEF OpenDevice, Top, EnterReceive, ReceiveFail, SigTerm
  <1>2. ASSUME NEW h \in Hosts, ProcessPacket(h) PROVE Own'
    BY <1>2 DEF ProcessPacket
  <1>3. ASSUME NEW h \in Hosts, TransmitFail(h) PROVE Own'
    BY <1>3 DEF TransmitFail
  \* Steps that give a buffer back.
  <1>4. ASSUME NEW h \in Hosts, TransmitOk(h) PROVE Own'
    BY <1>4 DEF TransmitOk
  <1>5. ASSUME NEW h \in Hosts, Destroy(h) PROVE Own'
    BY <1>5 DEF Destroy, Free
  \* Steps of the card, and receive.
  <1>6. ASSUME NEW h \in Hosts, CloseDevice(h) PROVE Own'
    BY <1>6 DEF CloseDevice, Free, Queued
  <1>7. ASSUME NEW h \in Hosts, NEW b \in Buffers, ReceiveOk(h, b) PROVE Own'
    BY <1>7 DEF ReceiveOk, AfterReceive, Queued
  <1>8. ASSUME NEW b \in Buffers, WireDone(b) PROVE Own'
    BY <1>8 DEF WireDone, Free
  <1>9. ASSUME NEW h \in Hosts, NEW b \in Buffers, NEW f \in Flows, Arrive(h, b, f)
        PROVE Own'
    BY <1>9 DEF Arrive
  <1>10. ASSUME UNCHANGED vars PROVE Own'
    BY <1>10 DEF vars
  <1> HIDE DEF Own
  <1>11. Own'
    BY <1>1, <1>2, <1>3, <1>4, <1>5, <1>6, <1>7, <1>8, <1>9, <1>10 DEF Next, HostStep
  <1> QED
    BY <1>11 DEF OwnInv, Own

\* The loops are type correct for every number of buffers, programs and flows.
THEOREM WireTypeOK == Spec => []TypeOK
  <1>1. Init => TypeOK
    BY InitOwn DEF OwnInv
  <1> QED
    BY <1>1, NextType, PTL DEF Spec

LEMMA Ownership == Spec => []OwnInv
  BY InitOwn, NextOwn, PTL DEF Spec

\* No program transmits or destroys a buffer it does not own.
THEOREM WireOwns == Spec => []OwnsWhatItHandles
  <1>1. OwnInv => OwnsWhatItHandles
    BY DEF OwnInv
  <1> QED
    BY <1>1, Ownership, PTL

\* Only flowstats leaks buffers.
THEOREM WireNoLeak == Spec => []NoBufferLeak
  <1>1. OwnInv => NoBufferLeak
    BY DEF OwnInv
  <1> QED
    BY <1>1, Ownership, PTL

\* After a stop request a program handles at most one more packet.
THEOREM WireAtMostOne == Spec => []AtMostOneAfterStop
  <1>1. Init => LateInv
    BY DEF Init, LateInv
  <1>2. TypeOK /\ LateInv /\ [Next]_vars => LateInv'
    <2> SUFFICES ASSUME TypeOK, LateInv, [Next]_vars PROVE LateInv'
      OBVIOUS
    <2> USE DEF TypeOK, LateInv, Run, Goto, hostVars, cardVars
    <2>1. ASSUME NEW h \in Hosts, Top(h) PROVE LateInv'
      BY <2>1 DEF Top
    <2>2. ASSUME NEW h \in Hosts, NEW b \in Buffers, ReceiveOk(h, b) PROVE LateInv'
      BY <2>2 DEF ReceiveOk, AfterReceive
    <2>3. ASSUME NEW h \in Hosts, SigTerm(h) PROVE LateInv'
      BY <2>3 DEF SigTerm
    <2>4. ASSUME NEW h \in Hosts, OpenDevice(h) \/ EnterReceive(h) \/ ReceiveFail(h)
                                  \/ CloseDevice(h)
          PROVE LateInv'
      BY <2>4 DEF OpenDevice, EnterReceive, ReceiveFail, CloseDevice
    <2>5. ASSUME NEW h \in Hosts, ProcessPacket(h) \/ TransmitOk(h) \/ TransmitFail(h)
                                  \/ Destroy(h)
          PROVE LateInv'
      BY <2>5 DEF ProcessPacket, TransmitOk, TransmitFail, Destroy
    <2>6. CASE \/ \E b \in Buffers : WireDone(b)
               \/ \E h \in Hosts, b \in Buffers, f \in Flows : Arrive(h, b, f)
               \/ UNCHANGED vars
      BY <2>6 DEF WireDone, Arrive, vars
    <2> QED
      BY <2>1, <2>2, <2>3, <2>4, <2>5, <2>6 DEF Next, HostStep
  <1>3. LateInv => AtMostOneAfterStop
    BY DEF LateInv, AtMostOneAfterStop
  <1> QED
    BY <1>1, <1>2, <1>3, WireTypeOK, PTL DEF Spec

-------------------------------------------------------------------------------
(* The loops implement the buffer pool. *)

\* What each kind of step does to the abstract pool.
LEMMA RefineStep == OwnInv /\ [Next]_vars => [Pool!Next]_(Pool!vars)
  <1> SUFFICES ASSUME OwnInv, [Next]_vars PROVE [Pool!Next]_(Pool!vars)
    OBVIOUS
  <1> DEFINE careless == {h \in Hosts : prog[h] = "flowstats"}
             card == {b \in Buffers : buf[b].stage # "host"}
             held == [h \in Hosts |-> InHand(h)]
             Same == UNCHANGED <<careless, card, held, Dropped>>
  <1> USE WireAssumption DEF OwnInv, TypeOK, OwnsWhatItHandles, Addressed, InHand, Holding,
          Goto, hostVars, cardVars
  <1>same. ASSUME Same PROVE UNCHANGED Pool!vars
    BY <1>same DEF Pool!vars
  <1>1. ASSUME NEW h \in Hosts,
               OpenDevice(h) \/ Top(h) \/ EnterReceive(h) \/ ReceiveFail(h) \/ SigTerm(h)
               \/ ProcessPacket(h)
        PROVE Same
    <2>1. buf' = buf /\ prog' = prog
      BY <1>1 DEF OpenDevice, Top, EnterReceive, ReceiveFail, SigTerm, ProcessPacket
    <2>2. \A g \in Hosts : InHand(g)' = InHand(g)
      BY <1>1 DEF OpenDevice, Top, EnterReceive, ReceiveFail, SigTerm, ProcessPacket
    <2> QED
      BY <2>1, <2>2 DEF Dropped
  <1>2. ASSUME NEW h \in Hosts, TransmitFail(h) PROVE Same \/ Pool!Lose(h)
    <2>1. CASE prog[h] # "flowstats"
      <3>1. \A g \in Hosts : InHand(g)' = InHand(g)
        BY <1>2, <2>1 DEF TransmitFail
      <3> QED
        BY <1>2, <3>1 DEF TransmitFail, Dropped
    <2>2. CASE prog[h] = "flowstats"
      <3>1. /\ InHand(h) = pckt[h] /\ pckt[h] \in Buffers /\ buf[pckt[h]].stage = "host"
            /\ InHand(h)' = NoBuf
            /\ \A g \in Hosts \ {h} : InHand(g)' = InHand(g) /\ InHand(g) # pckt[h]
        BY <1>2, <2>2 DEF TransmitFail
      <3>2. held' = [held EXCEPT ![h] = NoBuf]
        BY <3>1
      <3>3. Dropped' = Dropped \cup {pckt[h]}
        BY <1>2, <3>1 DEF TransmitFail, Dropped
      <3>4. card' = card /\ careless' = careless
        BY <1>2 DEF TransmitFail
      <3> QED
        BY <2>2, <3>1, <3>2, <3>3, <3>4 DEF Pool!Lose
    <2> QED
      BY <2>1, <2>2
  <1>3. ASSUME NEW h \in Hosts, TransmitOk(h) \/ Destroy(h) PROVE Pool!Release(h)
    <2>1. /\ InHand(h) = pckt[h] /\ pckt[h] \in Buffers /\ buf[pckt[h]].stage = "host"
          /\ InHand(h)' = NoBuf
          /\ \A g \in Hosts \ {h} : InHand(g)' = InHand(g) /\ InHand(g) # pckt[h]
      BY <1>3 DEF TransmitOk, Destroy
    <2>2. /\ buf'[pckt[h]].stage # "host"
          /\ \A b \in Buffers \ {pckt[h]} : buf'[b] = buf[b]
          /\ prog' = prog
      BY <1>3, <2>1 DEF TransmitOk, Destroy, Free, Buffer, Stages
    <2>3. held' = [held EXCEPT ![h] = NoBuf]
      BY <2>1
    <2>4. card' = card \cup {pckt[h]}
      BY <2>1, <2>2
    <2>5. Dropped' = Dropped
      BY <2>1, <2>2 DEF Dropped
    <2> QED
      BY <2>1, <2>2, <2>3, <2>4, <2>5 DEF Pool!Release
  <1>4. ASSUME NEW h \in Hosts, NEW b \in Buffers, ReceiveOk(h, b) PROVE Pool!Deliver(h, b)
    <2>1. /\ InHand(h) = NoBuf /\ InHand(h)' = b
          /\ \A g \in Hosts \ {h} : InHand(g)' = InHand(g) /\ InHand(g) # b
      BY <1>4 DEF ReceiveOk, AfterReceive, Queued
    <2>2. /\ buf[b].stage = "rx" /\ buf'[b].stage = "host"
          /\ \A c \in Buffers \ {b} : buf'[c] = buf[c]
          /\ prog' = prog
      BY <1>4 DEF ReceiveOk, Queued, Buffer
    <2>3. held' = [held EXCEPT ![h] = b]
      BY <2>1
    <2>4. b \in card /\ card' = card \ {b}
      BY <2>2
    <2>5. Dropped' = Dropped
      BY <2>1, <2>2 DEF Dropped
    <2> QED
      BY <2>1, <2>2, <2>3, <2>4, <2>5 DEF Pool!Deliver
  <1>5. ASSUME \/ \E h \in Hosts : CloseDevice(h)
               \/ \E b \in Buffers : WireDone(b)
               \/ \E h \in Hosts, b \in Buffers, f \in Flows : Arrive(h, b, f)
        PROVE Same
    <2>1. \A c \in Buffers : \/ buf'[c] = buf[c]
                             \/ buf[c].stage # "host" /\ buf'[c].stage # "host"
      BY <1>5 DEF CloseDevice, WireDone, Arrive, Queued, Free
    <2>2. prog' = prog /\ \A g \in Hosts : InHand(g)' = InHand(g)
      BY <1>5 DEF CloseDevice, WireDone, Arrive
    <2> QED
      BY <2>1, <2>2 DEF Dropped
  <1>6. ASSUME UNCHANGED vars PROVE Same
    BY <1>6 DEF vars, Dropped
  <1> QED
    <2>1. CASE UNCHANGED vars
      BY <2>1, <1>6, <1>same
    <2>2. CASE \E h \in Hosts : TransmitFail(h) \/ TransmitOk(h) \/ Destroy(h)
                                \/ \E b \in Buffers : ReceiveOk(h, b)
      BY <2>2, <1>2, <1>3, <1>4, <1>same DEF Pool!Next
    <2> HIDE DEF Same
    <2> QED
      BY <2>1, <2>2, <1>1, <1>5, <1>same DEF Next, HostStep

\* The programs keep the buffer pool's promise: at most one buffer in each
\* program's hands, none in two, and none lost but by flowstats.
THEOREM WireImplementsPool == Spec => PoolSpec
  <1>1. Init => Pool!Init
    BY WireAssumption DEF Init, Pool!Init, InHand, Holding, Dropped, Free
  <1> QED
    BY <1>1, RefineStep, Ownership, PTL DEF Spec, PoolSpec, Pool!Spec

-------------------------------------------------------------------------------
\* A program that is about to drop what it received drops everything, or has seen
\* that the packet belongs to an HTTP flow.
DropInv == \A h \in Hosts :
  /\ pc[h] = "verdict" => prog[h] = "reject"
  /\ pc[h] = "drop" => \/ prog[h] = "drop"
                       \/ prog[h] = "reject" /\ buf[pckt[h]].flow \in HttpFlows

\* What a step does to a buffer that some program holds: only the program itself can
\* give it another flow or another stage.
LEMMA HeldKeepsFlow ==
  ASSUME OwnInv, [Next]_vars, NEW h \in Hosts, Holding(h), pc'[h] = pc[h]
  PROVE  buf'[pckt[h]] = buf[pckt[h]]
  <1> DEFINE b == pckt[h]
  <1>1. b \in Buffers /\ buf[b].stage = "host" /\ buf[b].host = h
    BY DEF OwnInv, OwnsWhatItHandles
  <1> USE DEF OwnInv, TypeOK, Goto, hostVars, cardVars
  <1> HIDE DEF b
  <1>2. ASSUME NEW g \in Hosts, TransmitOk(g) \/ Destroy(g) PROVE buf'[b] = buf[b]
    <2>1. Holding(g) /\ pc'[g] = "top"
      BY <1>2 DEF TransmitOk, Destroy, Holding
    <2>2. g # h
      BY <2>1 DEF Holding
    <2>3. pckt[g] # b
      BY <1>1, <2>1, <2>2 DEF OwnsWhatItHandles
    <2> QED
      BY <1>1, <1>2, <2>3 DEF TransmitOk, Destroy
  <1>3. ASSUME NEW g \in Hosts, CloseDevice(g) PROVE buf'[b] = buf[b]
    BY <1>1, <1>3 DEF CloseDevice, Queued
  <1>4. ASSUME NEW g \in Hosts, NEW c \in Buffers, ReceiveOk(g, c) PROVE buf'[b] = buf[b]
    BY <1>1, <1>4 DEF ReceiveOk, Queued
  <1>5. ASSUME NEW c \in Buffers, WireDone(c) PROVE buf'[b] = buf[b]
    BY <1>1, <1>5 DEF WireDone
  <1>6. ASSUME NEW g \in Hosts, NEW c \in Buffers, NEW f \in Flows, Arrive(g, c, f)
        PROVE  buf'[b] = buf[b]
    BY <1>1, <1>6 DEF Arrive
  <1>7. ASSUME NEW g \in Hosts,
               \/ OpenDevice(g) \/ Top(g) \/ EnterReceive(g) \/ ReceiveFail(g)
               \/ ProcessPacket(g) \/ TransmitFail(g) \/ SigTerm(g)
        PROVE  buf'[b] = buf[b]
    BY <1>7 DEF OpenDevice, Top, EnterReceive, ReceiveFail, ProcessPacket, TransmitFail, SigTerm
  <1>8. ASSUME UNCHANGED vars PROVE buf'[b] = buf[b]
    BY <1>8 DEF vars
  <1>9. buf'[b] = buf[b]
    BY <1>2, <1>3, <1>4, <1>5, <1>6, <1>7, <1>8 DEF Next, HostStep
  <1> QED
    BY <1>9 DEF b

\* How a program comes to its two decisions.
LEMMA NextDrop == OwnInv /\ DropInv /\ [Next]_vars => DropInv'
  <1> SUFFICES ASSUME OwnInv, DropInv, [Next]_vars, NEW h \in Hosts
               PROVE  /\ pc'[h] = "verdict" => prog'[h] = "reject"
                      /\ pc'[h] = "drop" => \/ prog'[h] = "drop"
                                            \/ /\ prog'[h] = "reject"
                                               /\ buf'[pckt'[h]].flow \in HttpFlows
    BY DEF DropInv
  <1> USE DEF OwnInv, TypeOK, Goto, hostVars, cardVars
  <1>0. prog' = prog
    BY DEF Next, HostStep, OpenDevice, Top, EnterReceive, ReceiveFail, ReceiveOk, ProcessPacket,
           TransmitOk, TransmitFail, Destroy, CloseDevice, SigTerm, WireDone, Arrive, vars
  <1>1. CASE pc'[h] = pc[h] /\ pckt'[h] = pckt[h]
    BY <1>0, <1>1, HeldKeepsFlow DEF DropInv, Holding
  <1>2. ASSUME NEW b \in Buffers, ReceiveOk(h, b)
        PROVE  /\ pc'[h] = "verdict" => prog[h] = "reject"
               /\ pc'[h] = "drop" => prog[h] = "drop"
    BY <1>2 DEF ReceiveOk, AfterReceive, Programs
  <1>3. ASSUME ProcessPacket(h), pc'[h] = "drop"
        PROVE  prog[h] = "reject" /\ buf'[pckt'[h]].flow \in HttpFlows
    BY <1>3 DEF ProcessPacket, DropInv
  <1>4. ASSUME pc'[h] \in {"verdict", "drop"}
        PROVE  \/ pc'[h] = pc[h] /\ pckt'[h] = pckt[h]
               \/ \E b \in Buffers : ReceiveOk(h, b)
               \/ ProcessPacket(h) /\ pc'[h] = "drop"
    <2>1. ASSUME NEW g \in Hosts, HostStep(g), g # h
          PROVE  pc'[h] = pc[h] /\ pckt'[h] = pckt[h]
      BY <2>1 DEF HostStep, OpenDevice, Top, EnterReceive, ReceiveFail, ReceiveOk, ProcessPacket,
                  TransmitOk, TransmitFail, Destroy, CloseDevice
    <2>2. ASSUME \/ OpenDevice(h) \/ Top(h) \/ EnterReceive(h) \/ ReceiveFail(h)
                 \/ TransmitOk(h) \/ TransmitFail(h) \/ Destroy(h) \/ CloseDevice(h)
          PROVE  FALSE
      BY <1>4, <2>2 DEF OpenDevice, Top, EnterReceive, ReceiveFail, TransmitOk, TransmitFail,
                        Destroy, CloseDevice
    <2>3. ASSUME ProcessPacket(h) PROVE pc'[h] = "drop"
      BY <1>4, <2>3 DEF ProcessPacket
    <2>4. ASSUME \/ \E g \in Hosts : SigTerm(g)
                 \/ \E b \in Buffers : WireDone(b)
                 \/ \E g \in Hosts, b \in Buffers, f \in Flows : Arrive(g, b, f)
                 \/ UNCHANGED vars
          PROVE  pc'[h] = pc[h] /\ pckt'[h] = pckt[h]
      BY <2>4 DEF SigTerm, WireDone, Arrive, vars
    <2> QED
      BY <2>1, <2>2, <2>3, <2>4 DEF Next, HostStep
  <1> QED
    BY <1>0, <1>1, <1>2, <1>3, <1>4

\* A packet goes back to the pool unsent only from a program that drops everything,
\* after a failed transmit, or because it belongs to an HTTP flow.
THEOREM WireDestroysForAReason == Spec => DestroyedForAReason
  <1> DEFINE Reason == \A b \in Buffers : (buf[b].stage = "host" /\ buf'[b].stage = "pool") =>
                         \/ prog[buf[b].host] = "drop"
                         \/ pc[buf[b].host] = "destroy"
                         \/ prog[buf[b].host] = "reject" /\ buf[b].flow \in HttpFlows
  <1>1. Init => DropInv
    BY DEF Init, DropInv
  <1>2. OwnInv /\ DropInv /\ [Next]_vars => [Reason]_vars
    <2> SUFFICES ASSUME OwnInv, DropInv, Next, NEW b \in Buffers,
                        buf[b].stage = "host", buf'[b].stage = "pool"
                 PROVE  \/ prog[buf[b].host] = "drop"
                        \/ pc[buf[b].host] = "destroy"
                        \/ prog[buf[b].host] = "reject" /\ buf[b].flow \in HttpFlows
      OBVIOUS
    <2> USE DEF OwnInv, TypeOK, hostVars, cardVars
    <2>1. ASSUME NEW h \in Hosts, Destroy(h), pckt[h] = b
          PROVE  \/ prog[buf[b].host] = "drop"
                 \/ pc[buf[b].host] = "destroy"
                 \/ prog[buf[b].host] = "reject" /\ buf[b].flow \in HttpFlows
      BY <2>1 DEF Destroy, DropInv, OwnsWhatItHandles, Holding
    <2>2. \E h \in Hosts : Destroy(h) /\ pckt[h] = b
      <3>1. ASSUME NEW h \in Hosts, HostStep(h) PROVE Destroy(h) /\ pckt[h] = b
        <4>1. CASE \/ OpenDevice(h) \/ Top(h) \/ EnterReceive(h) \/ ReceiveFail(h)
                   \/ ProcessPacket(h) \/ TransmitFail(h)
          BY <4>1 DEF OpenDevice, Top, EnterReceive, ReceiveFail, ProcessPacket, TransmitFail
        <4>2. CASE TransmitOk(h)
          <5>1. pckt[h] \in Buffers /\ buf[pckt[h]] \in Buffer
            BY <4>2 DEF TransmitOk, OwnsWhatItHandles, Holding
          <5> QED
            BY <4>2, <5>1 DEF TransmitOk, Buffer
        <4>3. CASE CloseDevice(h)
          BY <4>3 DEF CloseDevice, Queued
        <4>4. ASSUME NEW c \in Buffers, ReceiveOk(h, c) PROVE FALSE
          BY <4>4 DEF ReceiveOk, Queued
        <4>5. CASE Destroy(h)
          BY <4>5 DEF Destroy
        <4> QED
          BY <3>1, <4>1, <4>2, <4>3, <4>4, <4>5 DEF HostStep
      <3>2. ASSUME \/ \E g \in Hosts : SigTerm(g)
                   \/ \E c \in Buffers : WireDone(c)
                   \/ \E g \in Hosts, c \in Buffers, f \in Flows : Arrive(g, c, f)
            PROVE  FALSE
        BY <3>2 DEF SigTerm, WireDone, Arrive
      <3> QED
        BY <3>1, <3>2 DEF Next
    <2> QED
      BY <2>1, <2>2
  <1> HIDE DEF Reason
  <1>3. Spec => [][Reason]_vars
    BY <1>1, <1>2, NextDrop, Ownership, PTL DEF Spec
  <1> QED
    BY <1>3 DEF Reason, DestroyedForAReason
===============================================================================
