----------------------------- MODULE PlaybackProofs ----------------------------
(***************************************************************************)
(* For any set of addresses and any length of the capture: a side that has *)
(* been learned is never learned anew, so what an address sends leaves     *)
(* through the port of its side; as long as at most one pair was guessed,  *)
(* the known addresses lie on the sides their camps do; and all but one    *)
(* frame at a time has been sent.                                          *)
(***************************************************************************)
EXTENDS Playback, TLAPS

Known(a) == if_map[a] # Unknown
SelfAddressed(a) == \E h \in frames : h.source = h.dest /\ h.source = a

\* Ports are sides.
PortsAreSides ==
  \A f \in frames :
    IF cooked THEN f.port = if_map[FakeSource]
    ELSE f.port = if_map[f.source] \/ SelfAddressed(f.source)

\* Nothing is known before the first guess.
NothingBeforeGuess == fresh = 0 => \A a \in Key : ~Known(a)

\* The side tells the camp while only one pair was guessed.
SidesTellCamps ==
  ~cooked /\ fresh <= 1 =>
    \A camp \in SUBSET Address : Crosses(camp) =>
      \A a, b \in Address : Known(a) /\ Known(b) =>
        ((if_map[a] = if_map[b]) <=> (a \in camp <=> b \in camp))

\* A gateway is in the first frame, so no other pair is guessed.
OneGuessWithGateway ==
  ~cooked =>
    \A gateway \in Address : Crosses({gateway}) =>
      fresh <= 1 /\ (fresh = 1 => Known(gateway))

\* Where a packet can be.
PacketInHand ==
  /\ pc \notin {"done", "crashed"} => status = Running
  /\ pc \notin {"done", "crashed", "create", "transmit"} => unsent = 0
  /\ pc \in {"create", "transmit"} => unsent = 1
  /\ pc \notin {"done", "crashed", "transmit"} => p = "none"
  /\ pc = "transmit" => p = "own" \/ (failed /\ prog = "playback")
  /\ pc = "close" => left = 0
  /\ status = 0 => left = 0 /\ unsent = 0 /\ p = "none"

Sides == PortsAreSides /\ NothingBeforeGuess /\ SidesTellCamps /\ OneGuessWithGateway
IInv == TypeOK /\ PacketInHand /\ Sides

-------------------------------------------------------------------------------
(* What is learned from one frame. *)

\* A known address keeps its side, and the port of a frame is the side of its source.
LEMMA LearnKeepsSides ==
  ASSUME PlaybackAssumption, TypeOK, NEW s \in Key, NEW d \in Key
  PROVE  /\ Learn(s, d) \in [Key -> {0, 1, Unknown}]
         /\ \A a \in Key : Known(a) => Learn(s, d)[a] = if_map[a]
         /\ Learn(s, d)[s] \in {0, 1}
         /\ Port(s, d) \in {0, 1}
         /\ s # d => Port(s, d) = Learn(s, d)[s]
<1>0. if_map \in [Key -> {0, 1, Unknown}] /\ Unknown \notin {0, 1}
  BY DEF PlaybackAssumption, TypeOK
<1>1. CASE Known(s)
  BY <1>0, <1>1 DEF Learn, Port, BothUnknown, Known
<1>2. CASE ~Known(s) /\ Known(d)
  <2>1. Learn(s, d) = [if_map EXCEPT ![s] = 1 - if_map[d]] /\ 1 - if_map[d] \in {0, 1}
    BY <1>0, <1>2 DEF Learn, Known
  <2> QED BY <1>0, <1>2, <2>1 DEF Port, BothUnknown, Known
<1>3. CASE ~Known(s) /\ ~Known(d)
  <2>1. Learn(s, d) = [if_map EXCEPT ![s] = 0, ![d] = 1]
    BY <1>3 DEF Learn, Known
  <2> QED BY <1>0, <1>3, <2>1 DEF Port, BothUnknown, Known
<1> QED BY <1>1, <1>2, <1>3

-------------------------------------------------------------------------------
(* The invariant. *)

LEMMA InitIInv == ASSUME PlaybackAssumption, Init PROVE IInv
<1>1. TypeOK /\ PacketInHand
  <2>1. pc \in {"file", "options"} /\ if_map \in [Key -> {0, 1, Unknown}]
    BY DEF Init
  <2>2. TypeOK
    BY <2>1 DEF Init, TypeOK
  <2>3. PacketInHand
    BY <2>1 DEF Init, PacketInHand, Running
  <2> QED BY <2>2, <2>3
<1>2. \A a \in Key : ~Known(a)
  BY DEF Init, Known
<1>3. PortsAreSides /\ NothingBeforeGuess
  BY <1>2 DEF Init, PortsAreSides, NothingBeforeGuess
<1>4. SidesTellCamps /\ OneGuessWithGateway
  BY <1>2 DEF Init, SidesTellCamps, OneGuessWithGateway, Key
<1> QED BY <1>1, <1>3, <1>4 DEF IInv, Sides

\* A step that reads no frame leaves the sides alone.
LEMMA SidesKept ==
  ASSUME Sides, UNCHANGED <<cooked, if_map, frames, fresh>> PROVE Sides'
  BY DEF Sides, PortsAreSides, SelfAddressed, NothingBeforeGuess, SidesTellCamps,
         OneGuessWithGateway, Known, Crosses

\* A frame of an ordinary capture.
LEMMA ReadPlain ==
  ASSUME PlaybackAssumption, TypeOK, Sides, ~cooked, UNCHANGED cooked,
         NEW source \in Address, NEW dest \in Address, Process(source, dest, source, dest)
  PROVE  Sides'
<1> DEFINE new == [source |-> source, dest |-> dest, port |-> Port(source, dest)]
<1>0. /\ source \in Key /\ dest \in Key /\ Address \subseteq Key
      /\ frames' = frames \union {new}
      /\ if_map' = Learn(source, dest)
      /\ fresh' = IF BothUnknown(source, dest) THEN fresh + 1 ELSE fresh
      /\ fresh \in Nat
      /\ if_map \in [Key -> {0, 1, Unknown}]
      /\ Unknown \notin {0, 1}
      /\ new \in frames'
      /\ new.source = source /\ new.dest = dest /\ new.port = Port(source, dest)
  BY DEF PlaybackAssumption, TypeOK, Process, Key
<1>L. /\ if_map' \in [Key -> {0, 1, Unknown}]
      /\ \A a \in Key : Known(a) => if_map'[a] = if_map[a]
      /\ if_map'[source] \in {0, 1}
      /\ source # dest => Port(source, dest) = if_map'[source]
  BY <1>0, LearnKeepsSides
<1>C. \A camp : Crosses(camp)' => Crosses(camp) /\ ((source \in camp) # (dest \in camp))
  BY <1>0 DEF Crosses
<1>1. PortsAreSides'
  <2> SUFFICES ASSUME NEW f \in frames'
               PROVE  f.port = if_map'[f.source] \/ SelfAddressed(f.source)'
    BY DEF PortsAreSides
  <2>1. CASE f \in frames
    <3>1. f.source \in Key /\ f.port \in {0, 1}
      BY <2>1, <1>0 DEF TypeOK, Frame
    <3>2. CASE f.port = if_map[f.source]
      BY <1>0, <1>L, <3>1, <3>2 DEF Known
    <3>3. CASE SelfAddressed(f.source)
      BY <1>0, <3>3 DEF SelfAddressed
    <3> QED BY <2>1, <3>2, <3>3 DEF Sides, PortsAreSides
  <2>2. CASE f = new
    <3>1. CASE source = dest
      BY <1>0, <2>2, <3>1 DEF SelfAddressed
    <3>2. CASE source # dest
      BY <1>0, <1>L, <2>2, <3>2
    <3> QED BY <3>1, <3>2
  <2> QED BY <1>0, <2>1, <2>2
<1>2. NothingBeforeGuess' /\ fresh' # 0
  <2>1. fresh' # 0
    BY <1>0 DEF BothUnknown, Sides, NothingBeforeGuess, Known
  <2> QED BY <2>1 DEF NothingBeforeGuess
<1>3. SidesTellCamps'
  <2> SUFFICES ASSUME fresh' <= 1, NEW camp \in SUBSET Address, Crosses(camp)',
                      NEW a \in Address, NEW b \in Address, Known(a)', Known(b)'
               PROVE  (if_map'[a] = if_map'[b]) <=> (a \in camp <=> b \in camp)
    BY DEF SidesTellCamps
  <2>0. /\ fresh <= 1
        /\ Crosses(camp) /\ ((source \in camp) # (dest \in camp)) /\ source # dest
        /\ \A x, y \in Address : Known(x) /\ Known(y) =>
             ((if_map[x] = if_map[y]) <=> (x \in camp <=> y \in camp))
    BY <1>0, <1>C DEF Sides, SidesTellCamps
  <2>1. CASE Known(source)
    <3>1. if_map' = if_map
      BY <1>0, <2>1 DEF Learn, Known
    <3> QED BY <2>0, <3>1 DEF Known
  <2>2. CASE ~Known(source) /\ Known(dest)
    <3>1. if_map' = [if_map EXCEPT ![source] = 1 - if_map[dest]]
      BY <1>0, <2>2 DEF Learn, Known
    <3>2. if_map[dest] \in {0, 1}
      BY <1>0, <2>2 DEF Known
    <3>3. ASSUME NEW x \in Address, x # source, Known(x)'
          PROVE  /\ if_map'[x] = if_map[x] /\ Known(x) /\ if_map[x] \in {0, 1}
                 /\ (if_map'[source] = if_map'[x]) <=> (source \in camp <=> x \in camp)
      <4>1. if_map'[x] = if_map[x] /\ Known(x) /\ if_map[x] \in {0, 1}
        BY <1>0, <3>1, <3>3 DEF Known
      <4>2. if_map'[source] = 1 - if_map[dest]
        BY <1>0, <3>1
      <4>3. (if_map[dest] = if_map[x]) <=> (dest \in camp <=> x \in camp)
        BY <2>0, <2>2, <4>1
      <4>4. (if_map'[source] = if_map'[x]) <=> (if_map[dest] # if_map[x])
        BY <3>2, <4>1, <4>2
      <4> QED BY <2>0, <4>1, <4>3, <4>4
    <3>4. CASE a # source /\ b # source
      <4>1. Known(a) /\ Known(b) /\ if_map'[a] = if_map[a] /\ if_map'[b] = if_map[b]
        BY <3>3, <3>4
      <4> QED BY <2>0, <4>1
    <3> QED BY <3>3, <3>4
  <2>3. CASE ~Known(source) /\ ~Known(dest)
    <3>1. if_map' = [if_map EXCEPT ![source] = 0, ![dest] = 1]
      BY <1>0, <2>3 DEF Learn, Known
    <3>2. \A x \in Key : ~Known(x)
      BY <1>0, <2>3 DEF BothUnknown, Known, Sides, NothingBeforeGuess
    <3>3. a \in {source, dest} /\ b \in {source, dest}
      BY <1>0, <3>1, <3>2 DEF Known
    <3>4. if_map'[source] = 0 /\ if_map'[dest] = 1
      BY <1>0, <2>0, <3>1
    <3> QED BY <2>0, <3>3, <3>4
  <2> QED BY <2>1, <2>2, <2>3
<1>4. OneGuessWithGateway'
  <2> SUFFICES ASSUME NEW gateway \in Address, Crosses({gateway})'
               PROVE  fresh' <= 1 /\ (fresh' = 1 => Known(gateway)')
    BY DEF OneGuessWithGateway
  <2>0. /\ fresh <= 1 /\ (fresh = 1 => Known(gateway))
        /\ gateway \in {source, dest}
    BY <1>C DEF Sides, OneGuessWithGateway
  <2>1. CASE BothUnknown(source, dest)
    <3>1. fresh = 0 /\ fresh' = 1
      BY <1>0, <2>0, <2>1 DEF BothUnknown, Known
    <3>2. if_map' = [if_map EXCEPT ![source] = 0, ![dest] = 1]
      BY <1>0, <2>1 DEF Learn, BothUnknown
    <3>3. if_map'[gateway] \in {0, 1}
      BY <1>0, <2>0, <3>2
    <3> QED BY <1>0, <3>1, <3>3 DEF Known
  <2>2. CASE ~BothUnknown(source, dest)
    <3>1. fresh' = fresh
      BY <1>0, <2>2
    <3> QED BY <1>0, <1>L, <2>0, <3>1 DEF Known
  <2> QED BY <2>1, <2>2
<1> QED BY <1>1, <1>2, <1>3, <1>4 DEF Sides

\* A frame of a cooked capture.
LEMMA ReadCooked ==
  ASSUME PlaybackAssumption, TypeOK, Sides, cooked, UNCHANGED cooked,
         NEW source \in Address, NEW dest \in Address, NEW d \in FakeDests,
         Process(source, dest, FakeSource, d)
  PROVE  Sides'
<1>0. FakeSource \in Key /\ d \in Key /\ FakeSource # d
  BY DEF PlaybackAssumption, Key
<1>1. /\ if_map' = Learn(FakeSource, d)
      /\ \A a \in Key : Known(a) => if_map'[a] = if_map[a]
      /\ Port(FakeSource, d) = if_map'[FakeSource]
      /\ Unknown \notin {0, 1}
  BY <1>0, LearnKeepsSides DEF PlaybackAssumption, Process
<1>2. PortsAreSides'
  <2>1. \A f \in frames : f.port \in {0, 1} /\ f.port = if_map[FakeSource]
    BY DEF TypeOK, Frame, Sides, PortsAreSides
  <2>2. \A f \in frames : f.port = if_map'[FakeSource]
    BY <1>0, <1>1, <2>1 DEF Known
  <2> QED BY <1>1, <2>2 DEF PortsAreSides, Process
<1>3. NothingBeforeGuess'
  BY <1>0 DEF TypeOK, Sides, NothingBeforeGuess, Process, BothUnknown, Known
<1> QED BY <1>2, <1>3 DEF Sides, SidesTellCamps, OneGuessWithGateway

LEMMA NextIInv == ASSUME PlaybackAssumption, IInv, [Next]_vars PROVE IInv'
<1> USE DEF Goto, Exit, Running, history
<1>1. CASE Options
  <2>1. Sides'
    BY <1>1, SidesKept DEF IInv, Options
  <2> QED BY <1>1, <2>1 DEF IInv, TypeOK, PacketInHand, Options
<1>2. CASE OpenFile
  <2>1. Sides'
    BY <1>2, SidesKept DEF IInv, OpenFile
  <2> QED BY <1>2, <2>1 DEF IInv, TypeOK, PacketInHand, OpenFile
<1>3. CASE OpenDevice
  <2>1. Sides'
    BY <1>3, SidesKept DEF IInv, OpenDevice
  <2> QED BY <1>3, <2>1 DEF IInv, TypeOK, PacketInHand, OpenDevice
<1>4. CASE ReadFrame
  <2>1. PacketInHand'
    BY <1>4 DEF IInv, TypeOK, PacketInHand, ReadFrame
  <2>2. CASE prog = "l3_forward"
    <3>1. Sides'
      BY <1>4, <2>2, SidesKept DEF IInv, ReadFrame
    <3> QED BY <1>4, <2>1, <2>2, <3>1 DEF IInv, TypeOK, ReadFrame
  <2>3. CASE prog # "l3_forward"
    <3>1. PICK source, dest \in Address :
            IF cooked THEN \E d \in FakeDests : Process(source, dest, FakeSource, d)
            ELSE Process(source, dest, source, dest)
      BY <1>4, <2>3 DEF ReadFrame
    <3>2. ASSUME NEW s \in Key, NEW d \in Key, Process(source, dest, s, d)
          PROVE  TypeOK'
      <4>1. if_map' \in [Key -> {0, 1, Unknown}] /\ Port(s, d) \in {0, 1}
        BY <3>2, LearnKeepsSides DEF IInv, Process
      <4>2. frames' \subseteq Frame /\ fresh' \in Nat
        BY <3>2, <4>1 DEF IInv, TypeOK, Process, Frame
      <4> QED BY <1>4, <4>1, <4>2 DEF IInv, TypeOK, ReadFrame
    <3>3. CASE cooked
      <4>1. PICK d \in FakeDests : Process(source, dest, FakeSource, d)
        BY <3>1, <3>3
      <4>2. FakeSource \in Key /\ d \in Key
        BY DEF Key
      <4>3. Sides'
        BY <1>4, <3>3, <4>1, ReadCooked DEF IInv, ReadFrame
      <4> QED BY <2>1, <3>2, <4>1, <4>2, <4>3 DEF IInv
    <3>4. CASE ~cooked
      <4>1. source \in Key /\ dest \in Key
        BY DEF Key
      <4>2. Process(source, dest, source, dest)
        BY <3>1, <3>4
      <4>3. Sides'
        BY <1>4, <3>4, <4>2, ReadPlain DEF IInv, ReadFrame
      <4> QED BY <2>1, <3>2, <4>1, <4>2, <4>3 DEF IInv
    <3> QED BY <3>3, <3>4
  <2> QED BY <2>2, <2>3
<1>5. CASE EndOfCapture
  <2>1. Sides'
    BY <1>5, SidesKept DEF IInv, EndOfCapture
  <2> QED BY <1>5, <2>1 DEF IInv, TypeOK, PacketInHand, EndOfCapture
<1>6. CASE CreateOk
  <2>1. Sides'
    BY <1>6, SidesKept DEF IInv, CreateOk
  <2> QED BY <1>6, <2>1 DEF IInv, TypeOK, PacketInHand, CreateOk
<1>7. CASE CreateFail
  <2>1. Sides'
    BY <1>7, SidesKept DEF IInv, CreateFail
  <2>2. CASE prog = "l3_forward"
    BY <1>7, <2>1, <2>2 DEF IInv, TypeOK, PacketInHand, CreateFail
  <2>3. CASE prog = "playback"
    <3>1. CASE pc' = "crashed" /\ status' = 1 /\ UNCHANGED p
      BY <1>7, <2>1, <2>3, <3>1 DEF IInv, TypeOK, PacketInHand, CreateFail
    <3>2. CASE pc' = "transmit" /\ UNCHANGED status /\ p' = "stale"
      BY <1>7, <2>1, <2>3, <3>2 DEF IInv, TypeOK, PacketInHand, CreateFail
    <3> QED BY <1>7, <2>3, <3>1, <3>2 DEF CreateFail
  <2> QED BY <2>2, <2>3 DEF IInv, TypeOK
<1>8. CASE TransmitOk
  <2>1. Sides'
    BY <1>8, SidesKept DEF IInv, TransmitOk
  <2> QED BY <1>8, <2>1 DEF IInv, TypeOK, PacketInHand, TransmitOk
<1>9. CASE TransmitFail
  <2>1. Sides'
    BY <1>9, SidesKept DEF IInv, TransmitFail
  <2> QED BY <1>9, <2>1 DEF IInv, TypeOK, PacketInHand, TransmitFail
<1>10. CASE Close
  <2>1. Sides'
    BY <1>10, SidesKept DEF IInv, Close
  <2> QED BY <1>10, <2>1 DEF IInv, TypeOK, PacketInHand, Close
<1>11. CASE UNCHANGED vars
  <2>1. Sides'
    BY <1>11, SidesKept DEF IInv, vars
  <2> QED BY <1>11, <2>1 DEF IInv, TypeOK, PacketInHand, vars
<1> QED BY <1>1, <1>2, <1>3, <1>4, <1>5, <1>6, <1>7, <1>8, <1>9, <1>10, <1>11 DEF Next

THEOREM InvariantHolds == ASSUME PlaybackAssumption PROVE Spec => []IInv
<1>1. Init => IInv
  BY InitIInv
<1>2. IInv /\ [Next]_vars => IInv'
  BY NextIInv
<1> QED BY <1>1, <1>2, PTL DEF Spec

-------------------------------------------------------------------------------
(* What follows from it. *)

\* What an address sends leaves through one port, unless it sends to itself.
THEOREM OnePort == ASSUME PlaybackAssumption PROVE Spec => []OnePortPerAddress
<1>1. IInv => OnePortPerAddress
  BY DEF IInv, Sides, PortsAreSides, SelfAddressed, OnePortPerAddress
<1> QED BY <1>1, InvariantHolds, PTL

\* Two camps of any size are kept apart after at most one guess, and a single gateway
\* from any number of addresses behind it.
THEOREM CampsStayApart == ASSUME PlaybackAssumption PROVE Spec => []CampsApart
<1>1. ASSUME IInv PROVE CampsApart
  <2> SUFFICES ASSUME ~cooked, NEW camp \in SUBSET Address, Crosses(camp),
                      fresh <= 1 \/ \E gateway \in Address : camp = {gateway},
                      NEW f \in frames, NEW g \in frames
               PROVE  (f.port = g.port) <=> (f.source \in camp <=> g.source \in camp)
    BY DEF CampsApart
  <2>1. fresh <= 1
    BY <1>1 DEF IInv, Sides, OneGuessWithGateway
  <2>2. ASSUME NEW h \in frames
        PROVE  h.source \in Address /\ h.port = if_map[h.source] /\ Known(h.source)
    <3>1. h.source \in Address /\ h.port \in {0, 1}
      BY <1>1 DEF IInv, TypeOK, Frame
    <3>2. ~SelfAddressed(h.source)
      BY DEF SelfAddressed, Crosses
    <3> QED BY <1>1, <3>1, <3>2
            DEF IInv, Sides, PortsAreSides, Known, PlaybackAssumption
  <2> QED BY <1>1, <2>1, <2>2 DEF IInv, Sides, SidesTellCamps
<1> QED BY <1>1, InvariantHolds, PTL

\* An exit status of 0 means that every frame of the file was sent.
THEOREM ReplayIsComplete == ASSUME PlaybackAssumption PROVE Spec => []AllReplayed
<1>1. IInv => AllReplayed
  BY DEF IInv, PacketInHand, AllReplayed
<1> QED BY <1>1, InvariantHolds, PTL
===============================================================================
