---------------------------- MODULE LinkStateProofs ----------------------------
(***************************************************************************)
(* For any set of port groups, any number of NFEs and any number of        *)
(* changes: the last event on its way that turns the mirroring on or off   *)
(* fits the links, and with none on its way the callback has done what     *)
(* fits them; every handle is closed once and in time.                     *)
(***************************************************************************)
EXTENDS LinkState, SequenceTheorems, TLAPS

\* How far the main thread is.
BeforeMirror == {"openmon", "addmon", "nnfes", "mode", "openmirror"}
BeforeCb == BeforeMirror \union {"opencb"}
BeforeRegister == BeforeCb \union {"addgroups", "latching", "hysteresis", "register"}
Running == BeforeRegister \union {"interfaces", "poll", "sleep", "closeinterfaces", "closemon",
                                  "closecb"}

\* What is open at each place.
HandlesFollowMain ==
  /\ pc \in Running \ {"openmon", "closecb"} => mon_h \in {"none", "open"}
  /\ pc \in {"openmon"} \union (Locations \ Running) \union {"closecb"} => mon_h # "open"
  /\ pc \in BeforeMirror => mirror_h = "none"
  /\ pc # "exit" => mirror_h \in {"none", "open"}
  /\ pc = "exit" => mirror_h # "open"
  /\ pc \in BeforeCb => cb_h = "none"
  /\ pc \in Running => cb_h \in {"none", "open"}
  /\ pc \in {"closemirror", "exit"} => cb_h \in {"none", "closed"} /\ cbpc = "idle"
  /\ pc = "waitcb" => cb_h # "open"
  /\ pc \in BeforeRegister => ~registered
  /\ registered => pc \notin BeforeRegister

InterfacesFollowMain ==
  /\ pc \in BeforeRegister \union {"closemon", "closecb", "waitcb", "closemirror", "exit"} =>
       interfaces = {}
  /\ pc \in BeforeRegister => i = 0
  /\ i <= nnfes
  /\ interfaces \subseteq 0 .. nnfes - 1
  /\ pc = "interfaces" => interfaces \subseteq 0 .. i - 1
  /\ pc = "closeinterfaces" => interfaces \subseteq i .. nnfes - 1
  /\ pc \in {"poll", "sleep"} => i = 0

\* Without failures the handle that mirrors is open as long as events come.
MirrorIsOpen == ~failed /\ pc \notin BeforeMirror \union {"exit"} => mirror_h = "open"

\* Nothing happens before the callback is registered.
QuietBefore ==
  ~registered => /\ cbpc = "idle" /\ mirroring_enabled = 0 /\ ~mirroring /\ events = <<>>

\* The events that turn the mirroring on or off.
Decisive(e) == \/ e.kind \in {"PORT_GROUP_DOWN", "ALL_LINKS_UP"}
               \/ e.kind = "INITIAL_STATUS" /\ e.los
On(e) == e.kind # "ALL_LINKS_UP"

\* What the mirroring is, or will be when the callback that runs is over.
Effective == \/ cbpc \in {"activate", "enabled"}
             \/ cbpc = "idle" /\ mirroring_enabled = 1

CallbackInStep ==
  ~failed => /\ cbpc = "idle" => (mirroring <=> mirroring_enabled = 1)
             /\ cbpc = "enabled" => mirroring
             /\ cbpc = "disabled" => ~mirroring

EventsFit ==
  registered /\ cb_h = "open" /\ ~failed =>
    /\ (\A k \in 1 .. Len(events) : ~Decisive(events[k])) => (Effective <=> down # {})
    /\ \A k \in 1 .. Len(events) :
         Decisive(events[k]) /\ (\A j \in k + 1 .. Len(events) : ~Decisive(events[j])) =>
           (On(events[k]) <=> down # {})

Handles == HandlesFollowMain /\ InterfacesFollowMain /\ MirrorIsOpen
Mirroring == QuietBefore /\ CallbackInStep /\ EventsFit
IInv == TypeOK /\ Handles /\ Mirroring

-------------------------------------------------------------------------------
(* The queue of events. *)

Fits(s, on, lit) ==
  /\ (\A k \in 1 .. Len(s) : ~Decisive(s[k])) => (on <=> lit)
  /\ \A k \in 1 .. Len(s) :
       Decisive(s[k]) /\ (\A j \in k + 1 .. Len(s) : ~Decisive(s[j])) => (On(s[k]) <=> lit)

Notice == [kind : EventKinds, los : BOOLEAN]

\* Handling the first event keeps what the last decisive one says.
LEMMA TailFits ==
  ASSUME NEW s \in Seq(Notice), s # <<>>, NEW on \in BOOLEAN, NEW lit \in BOOLEAN,
         NEW after \in BOOLEAN, Fits(s, on, lit),
         after = IF Decisive(Head(s)) THEN On(Head(s)) ELSE on
  PROVE  Fits(Tail(s), after, lit)
<1>1. /\ Len(s) \in Nat /\ Len(s) >= 1 /\ Len(Tail(s)) = Len(s) - 1
      /\ Head(s) = s[1]
      /\ \A k \in 1 .. Len(Tail(s)) : Tail(s)[k] = s[k + 1]
  OBVIOUS
<1>2. ASSUME \A k \in 1 .. Len(Tail(s)) : ~Decisive(Tail(s)[k]) PROVE after <=> lit
  <2>1. \A j \in 2 .. Len(s) : ~Decisive(s[j])
    <3> SUFFICES ASSUME NEW j \in 2 .. Len(s) PROVE ~Decisive(s[j])
      OBVIOUS
    <3>1. j - 1 \in 1 .. Len(Tail(s)) /\ Tail(s)[j - 1] = s[j]
      BY <1>1
    <3> QED BY <1>2, <3>1
  <2>2. CASE Decisive(s[1])
    <3>1. On(s[1]) <=> lit
      BY <1>1, <2>1, <2>2 DEF Fits
    <3> QED BY <1>1, <2>2, <3>1
  <2>3. CASE ~Decisive(s[1])
    <3>1. \A j \in 1 .. Len(s) : ~Decisive(s[j])
      BY <1>1, <2>1, <2>3
    <3> QED BY <1>1, <2>3, <3>1 DEF Fits
  <2> QED BY <2>2, <2>3
<1>3. ASSUME NEW k \in 1 .. Len(Tail(s)), Decisive(Tail(s)[k]),
             \A j \in k + 1 .. Len(Tail(s)) : ~Decisive(Tail(s)[j])
      PROVE  On(Tail(s)[k]) <=> lit
  <2>1. k + 1 \in 1 .. Len(s) /\ Tail(s)[k] = s[k + 1]
    BY <1>1
  <2>2. \A j \in k + 2 .. Len(s) : ~Decisive(s[j])
    <3> SUFFICES ASSUME NEW j \in k + 2 .. Len(s) PROVE ~Decisive(s[j])
      OBVIOUS
    <3>1. j - 1 \in k + 1 .. Len(Tail(s)) /\ Tail(s)[j - 1] = s[j]
      BY <1>1
    <3> QED BY <1>3, <3>1
  <2> QED BY <1>1, <1>3, <2>1, <2>2 DEF Fits
<1> QED BY <1>2, <1>3 DEF Fits

\* New events that are decisive say it all.
LEMMA ConcatFits ==
  ASSUME NEW s \in Seq(Notice), NEW t \in Seq(Notice), NEW on \in BOOLEAN,
         NEW lit \in BOOLEAN, NEW before \in BOOLEAN,
         \/ /\ \E k \in 1 .. Len(t) : Decisive(t[k])
            /\ \A k \in 1 .. Len(t) : Decisive(t[k]) => (On(t[k]) <=> lit)
         \/ /\ \A k \in 1 .. Len(t) : ~Decisive(t[k])
            /\ Fits(s, on, lit)
  PROVE  Fits(s \o t, on, lit)
<1>1. /\ Len(s) \in Nat /\ Len(t) \in Nat /\ Len(s \o t) = Len(s) + Len(t)
      /\ \A k \in 1 .. Len(s) : (s \o t)[k] = s[k]
      /\ \A k \in 1 .. Len(t) : (s \o t)[Len(s) + k] = t[k] /\ Len(s) + k \in 1 .. Len(s \o t)
      /\ \A k \in Len(s) + 1 .. Len(s \o t) : (s \o t)[k] = t[k - Len(s)]
                                             /\ k - Len(s) \in 1 .. Len(t)
  BY ConcatProperties
<1>2. CASE /\ \E k \in 1 .. Len(t) : Decisive(t[k])
           /\ \A k \in 1 .. Len(t) : Decisive(t[k]) => (On(t[k]) <=> lit)
  <2>1. PICK last \in 1 .. Len(t) : Decisive(t[last])
    BY <1>2
  <2>2. Len(s) + last \in 1 .. Len(s \o t) /\ Decisive((s \o t)[Len(s) + last])
    BY <1>1, <2>1
  <2>3. ASSUME NEW k \in 1 .. Len(s \o t), Decisive((s \o t)[k]),
               \A j \in k + 1 .. Len(s \o t) : ~Decisive((s \o t)[j])
        PROVE  On((s \o t)[k]) <=> lit
    <3>1. k >= Len(s) + last
      BY <1>1, <2>1, <2>2, <2>3
    <3>2. k \in Len(s) + 1 .. Len(s \o t)
      BY <1>1, <2>1, <3>1
    <3> QED BY <1>1, <1>2, <2>3, <3>2
  <2> QED BY <2>2, <2>3 DEF Fits
<1>3. CASE (\A k \in 1 .. Len(t) : ~Decisive(t[k])) /\ Fits(s, on, lit)
  <2>1. \A k \in Len(s) + 1 .. Len(s \o t) : ~Decisive((s \o t)[k])
    BY <1>1, <1>3
  <2>2. ASSUME \A k \in 1 .. Len(s \o t) : ~Decisive((s \o t)[k]) PROVE on <=> lit
    <3>1. \A k \in 1 .. Len(s) : ~Decisive(s[k])
      BY <1>1, <2>2
    <3> QED BY <1>3, <3>1 DEF Fits
  <2>3. ASSUME NEW k \in 1 .. Len(s \o t), Decisive((s \o t)[k]),
               \A j \in k + 1 .. Len(s \o t) : ~Decisive((s \o t)[j])
        PROVE  On((s \o t)[k]) <=> lit
    <3>1. k \in 1 .. Len(s)
      <4>1. k \notin Len(s) + 1 .. Len(s \o t)
        BY <2>1, <2>3
      <4> QED BY <1>1, <4>1
    <3>2. \A j \in k + 1 .. Len(s) : ~Decisive(s[j])
      BY <1>1, <2>3, <3>1
    <3> QED BY <1>1, <1>3, <2>3, <3>1, <3>2 DEF Fits
  <2> QED BY <2>2, <2>3 DEF Fits
<1> QED BY <1>2, <1>3

-------------------------------------------------------------------------------
(* The main thread. *)

LEMMA InitIInv == ASSUME LinkStateAssumption, Init PROVE IInv
<1>1. TypeOK
  <2>1. pc \in Locations /\ events \in Seq([kind : EventKinds, los : BOOLEAN])
    BY DEF Init, Locations, Setup
  <2>2. i \in 0 .. NNfes /\ nnfes \in 0 .. NNfes /\ changes \in 0 .. MaxChanges
    BY DEF LinkStateAssumption, Init
  <2> QED BY <2>1, <2>2 DEF Init, TypeOK, Handle
<1>2. Handles
  BY DEF LinkStateAssumption, Init, Handles, HandlesFollowMain, InterfacesFollowMain,
         MirrorIsOpen, BeforeMirror, BeforeCb, BeforeRegister, Running, Locations, Setup
<1>3. Mirroring
  BY DEF Init, Mirroring, QuietBefore, CallbackInStep, EventsFit
<1> QED BY <1>1, <1>2, <1>3 DEF IInv

\* A step of main that leaves the callback and the events alone.
LEMMA MirroringKept ==
  ASSUME Mirroring, registered' = registered, UNCHANGED <<mirroring_enabled, cbpc, library>>,
         failed \in BOOLEAN, failed => failed', cb_h' = "open" => (registered => cb_h = "open")
  PROVE  Mirroring'
<1> USE DEF library
<1>1. QuietBefore' /\ CallbackInStep'
  BY DEF Mirroring, QuietBefore, CallbackInStep
<1>2. EventsFit'
  BY DEF Mirroring, EventsFit, Effective
<1> QED BY <1>1, <1>2 DEF Mirroring

\* The loops over the interfaces.
LEMMA InterfaceLoops ==
  ASSUME LinkStateAssumption, TypeOK, InterfacesFollowMain, OpenInterface \/ CloseInterfaces
  PROVE  /\ InterfacesFollowMain' /\ i' \in 0 .. NNfes
         /\ interfaces' \subseteq 0 .. NNfes - 1
         /\ pc' \in {"interfaces", "poll", "closeinterfaces", "closemon"}
<1>0. /\ i \in Nat /\ nnfes \in Nat /\ NNfes \in Nat /\ i <= nnfes /\ nnfes <= NNfes
      /\ nnfes' = nnfes
      /\ \A n \in interfaces : n \in Nat /\ n < nnfes
  BY DEF LinkStateAssumption, TypeOK, InterfacesFollowMain, OpenInterface, CloseInterfaces
<1>1. CASE OpenInterface /\ i < nnfes
  <2>1. /\ pc = "interfaces" /\ pc' = "interfaces" /\ i' = i + 1
        /\ interfaces' \subseteq interfaces \union {i}
        /\ \A n \in interfaces : n < i
    BY <1>0, <1>1 DEF OpenInterface, InterfacesFollowMain
  <2>2. \A n \in interfaces' : n \in Nat /\ n < i' /\ n < nnfes'
    BY <1>0, <1>1, <2>1
  <2> QED BY <1>0, <1>1, <2>1, <2>2
          DEF InterfacesFollowMain, BeforeRegister, BeforeCb, BeforeMirror
<1>2. CASE OpenInterface /\ i = nnfes
  <2>1. pc = "interfaces" /\ pc' = "poll" /\ i' = 0 /\ interfaces' = interfaces
    BY <1>0, <1>2 DEF OpenInterface
  <2> QED BY <1>0, <2>1 DEF InterfacesFollowMain, BeforeRegister, BeforeCb, BeforeMirror
<1>3. CASE CloseInterfaces /\ i < nnfes
  <2>1. /\ pc = "closeinterfaces" /\ pc' = "closeinterfaces" /\ i' = i + 1
        /\ interfaces' = interfaces \ {i}
        /\ \A n \in interfaces : n >= i
    BY <1>0, <1>3 DEF CloseInterfaces, InterfacesFollowMain
  <2>2. \A n \in interfaces' : n \in Nat /\ n >= i' /\ n < nnfes'
    BY <1>0, <2>1
  <2> QED BY <1>0, <1>3, <2>1, <2>2
          DEF InterfacesFollowMain, BeforeRegister, BeforeCb, BeforeMirror
<1>4. CASE CloseInterfaces /\ i = nnfes
  <2>1. /\ pc = "closeinterfaces" /\ pc' = "closemon" /\ i' = i
        /\ interfaces' = interfaces
        /\ \A n \in interfaces : n >= i
    BY <1>0, <1>4 DEF CloseInterfaces, InterfacesFollowMain
  <2>2. interfaces = {}
    BY <1>0, <1>4, <2>1
  <2> QED BY <1>0, <2>1, <2>2
          DEF InterfacesFollowMain, BeforeRegister, BeforeCb, BeforeMirror
<1> QED BY <1>0, <1>1, <1>2, <1>3, <1>4

LEMMA MainIInv == ASSUME LinkStateAssumption, IInv, Main PROVE IInv'
<1> USE DEF handles, At, Attempt, Shut
<1>0. /\ failed \in BOOLEAN /\ failed'  \in BOOLEAN
      /\ failed => failed'
  BY DEF Main, IInv, TypeOK, OpenMon, Configure, GetNfes, Mode, OpenMirror, OpenCb, Register,
         OpenInterface, Poll, CloseInterfaces, CloseMon, CloseCb, CloseMirror
<1>1. CASE ~Register
  <2>1. Mirroring'
    <3>1. /\ registered' = registered
          /\ UNCHANGED <<mirroring_enabled, cbpc, library>>
          /\ cb_h' = "open" => (registered => cb_h = "open")
      BY <1>1 DEF Main, OpenMon, Configure, GetNfes, Mode, OpenMirror, OpenCb, OpenInterface,
                  Poll, CloseInterfaces, CloseMon, CloseCb, CloseMirror, IInv, Handles,
                  HandlesFollowMain, BeforeRegister, BeforeCb
    <3> QED BY <1>0, <3>1, MirroringKept DEF IInv

  <2>2. TypeOK'
    <3> USE DEF IInv, TypeOK, Locations, Setup, Handle, library
    <3>1. CASE OpenMon
      BY <1>0, <3>1 DEF OpenMon, LinkStateAssumption
    <3>2. CASE Configure
      BY <1>0, <3>2 DEF Configure, LinkStateAssumption
    <3>3. CASE GetNfes
      BY <1>0, <3>3 DEF GetNfes, LinkStateAssumption
    <3>4. CASE Mode
      BY <1>0, <3>4 DEF Mode, LinkStateAssumption
    <3>5. CASE OpenMirror
      BY <1>0, <3>5 DEF OpenMirror, LinkStateAssumption
    <3>6. CASE OpenCb
      BY <1>0, <3>6 DEF OpenCb, LinkStateAssumption
    <3>7. CASE OpenInterface
      BY <1>0, <3>7, InterfaceLoops DEF OpenInterface, Handles
    <3>8. CASE Poll
      BY <1>0, <3>8, SMTT(40) DEF Poll, LinkStateAssumption
    <3>9. CASE CloseInterfaces
      BY <1>0, <3>9, InterfaceLoops, SMTT(40) DEF CloseInterfaces, Handles
    <3>10. CASE CloseMon
      BY <1>0, <3>10 DEF CloseMon, LinkStateAssumption
    <3>11. CASE CloseCb
      BY <1>0, <3>11 DEF CloseCb, LinkStateAssumption
    <3>12. CASE CloseMirror
      BY <1>0, <3>12 DEF CloseMirror, LinkStateAssumption
    <3> QED BY <1>1, <3>1, <3>2, <3>3, <3>4, <3>5, <3>6, <3>7, <3>8,
            <3>9, <3>10, <3>11, <3>12 DEF Main
  <2>3. Handles'
    <3>0. ~registered => cbpc = "idle"
      BY DEF IInv, Mirroring, QuietBefore
    <3> USE DEF IInv, TypeOK, Locations, Setup, Handle, library, Handles, HandlesFollowMain,
                InterfacesFollowMain, MirrorIsOpen, BeforeMirror, BeforeCb, BeforeRegister,
                Running
    <3>1. CASE OpenMon
      BY <1>0, <3>0, <3>1 DEF OpenMon, LinkStateAssumption
    <3>2. CASE Configure
      BY <1>0, <3>0, <3>2 DEF Configure, LinkStateAssumption
    <3>3. CASE GetNfes
      BY <1>0, <3>0, <3>3 DEF GetNfes, LinkStateAssumption
    <3>4. CASE Mode
      BY <1>0, <3>0, <3>4 DEF Mode, LinkStateAssumption
    <3>5. CASE OpenMirror
      BY <1>0, <3>0, <3>5 DEF OpenMirror, LinkStateAssumption
    <3>6. CASE OpenCb
      BY <1>0, <3>0, <3>6 DEF OpenCb, LinkStateAssumption
    <3>7. CASE OpenInterface
      <4>1. HandlesFollowMain' /\ MirrorIsOpen'
        BY <1>0, <3>0, <3>7 DEF OpenInterface
      <4>2. InterfacesFollowMain'
        BY <3>7, InterfaceLoops
      <4> QED BY <4>1, <4>2
    <3>8. CASE Poll
      BY <1>0, <3>0, <3>8 DEF Poll, LinkStateAssumption
    <3>9. CASE CloseInterfaces
      <4>1. HandlesFollowMain' /\ MirrorIsOpen'
        BY <1>0, <3>0, <3>9 DEF CloseInterfaces
      <4>2. InterfacesFollowMain'
        BY <3>9, InterfaceLoops
      <4> QED BY <4>1, <4>2
    <3>10. CASE CloseMon
      BY <1>0, <3>0, <3>10 DEF CloseMon, LinkStateAssumption
    <3>11. CASE CloseCb
      BY <1>0, <3>0, <3>11 DEF CloseCb, LinkStateAssumption
    <3>12. CASE CloseMirror
      BY <1>0, <3>0, <3>12 DEF CloseMirror, LinkStateAssumption
    <3> QED BY <1>1, <3>1, <3>2, <3>3, <3>4, <3>5, <3>6, <3>7, <3>8,
            <3>9, <3>10, <3>11, <3>12 DEF Main
  <2> QED BY <2>1, <2>2, <2>3 DEF IInv
<1>2. CASE Register
  <2>1. /\ pc = "register" /\ pc' = "interfaces" /\ ~registered
        /\ registered' \in BOOLEAN
        /\ registered' => events' = <<Event("INITIAL_STATUS")>> /\ cb_h = "open"
        /\ ~registered' => events' = events
        /\ UNCHANGED <<i, nnfes, g_running, handles, interfaces, mirroring_enabled, cbpc,
                       down, changes, mirroring>>
    BY <1>2 DEF Register, IInv, Handles, HandlesFollowMain, BeforeRegister, TypeOK, library
  <2>2. cbpc = "idle" /\ mirroring_enabled = 0 /\ ~mirroring /\ events = <<>>
    BY <2>1 DEF IInv, Mirroring, QuietBefore
  <2>3. TypeOK'
    <3>1. Event("INITIAL_STATUS") \in Notice
      BY DEF Event, Notice, EventKinds
    <3>2. <<Event("INITIAL_STATUS")>> \in Seq(Notice)
      BY <3>1
    <3>3. events \in Seq(Notice)
      BY DEF IInv, TypeOK, Notice
    <3>4. events' \in Seq([kind : EventKinds, los : BOOLEAN])
      BY <2>1, <3>2, <3>3 DEF Notice
    <3> QED BY <1>0, <2>1, <3>4 DEF IInv, TypeOK, Locations, Setup
  <2>4. Handles'
    BY <1>0, <2>1, <2>2 DEF IInv, Handles, HandlesFollowMain, InterfacesFollowMain, MirrorIsOpen,
            BeforeMirror, BeforeCb, BeforeRegister, Running, Locations, Setup
  <2>5. QuietBefore' /\ CallbackInStep'
    BY <2>1, <2>2 DEF QuietBefore, CallbackInStep
  <2>6. EventsFit'
    <3>1. CASE registered'
      <4>1. /\ Len(events') = 1 /\ events'[1] = Event("INITIAL_STATUS")
            /\ ~Effective' /\ down' = down
        BY <2>1, <2>2, <3>1 DEF Effective
      <4>2. Event("INITIAL_STATUS") = [kind |-> "INITIAL_STATUS", los |-> down # {}]
        BY DEF Event
      <4>3. /\ Decisive(Event("INITIAL_STATUS")) <=> down # {}
            /\ On(Event("INITIAL_STATUS"))
        <5>1. CASE down = {}
          <6>1. Event("INITIAL_STATUS") = [kind |-> "INITIAL_STATUS", los |-> FALSE]
            BY <4>2, <5>1
          <6> QED BY <5>1, <6>1 DEF Decisive, On
        <5>2. CASE down # {}
          <6>1. Event("INITIAL_STATUS") = [kind |-> "INITIAL_STATUS", los |-> TRUE]
            BY <4>2, <5>2
          <6> QED BY <5>2, <6>1 DEF Decisive, On
        <5> QED BY <5>1, <5>2
      <4>4. Decisive(events'[1]) <=> down' # {}
        BY <4>1, <4>3
      <4>5. On(events'[1])
        BY <4>1, <4>3
      <4> QED BY <4>1, <4>4, <4>5 DEF EventsFit
    <3>2. CASE ~registered'
      BY <3>2 DEF EventsFit
    <3> QED BY <3>1, <3>2
  <2> QED BY <2>3, <2>4, <2>5, <2>6 DEF IInv, Mirroring
<1> QED BY <1>1, <1>2

-------------------------------------------------------------------------------
(* The callback, the links and the signal. *)

\* They leave the main thread alone.
LEMMA HandlesKept ==
  ASSUME Handles, UNCHANGED <<pc, i, nnfes, handles, interfaces, registered>>,
         failed \in BOOLEAN, failed => failed',
         cbpc' # cbpc => registered /\ (cbpc # "idle" \/ cb_h = "open")
  PROVE  Handles'
<1> USE DEF handles
<1>1. HandlesFollowMain'
  BY DEF Handles, HandlesFollowMain
<1>2. InterfacesFollowMain' /\ MirrorIsOpen'
  BY DEF Handles, InterfacesFollowMain, MirrorIsOpen
<1> QED BY <1>1, <1>2 DEF Handles

LEMMA CallbackIInv == ASSUME LinkStateAssumption, IInv, Callback PROVE IInv'
<1> USE DEF mainvars, handles, Attempt
<1>0. /\ failed \in BOOLEAN /\ failed' \in BOOLEAN /\ (failed => failed')
      /\ UNCHANGED <<mainvars, down>>
      /\ registered
      /\ cbpc' # cbpc => (cbpc # "idle" \/ cb_h = "open")
  BY DEF Callback, Deliver, SetMirror, Remember, IInv, TypeOK, Mirroring, QuietBefore
<1>1. Handles' /\ QuietBefore'
  BY <1>0, HandlesKept DEF IInv, QuietBefore
<1>2. CASE Deliver
  <2>1. /\ cb_h = "open" /\ cbpc = "idle" /\ events \in Seq(Notice) /\ events # <<>>
        /\ cbpc' = Dispatch(Head(events)) /\ events' = Tail(events)
        /\ UNCHANGED <<mainvars, mirroring, mirroring_enabled, failed>>
        /\ mirroring_enabled \in {0, 1}
        /\ Head(events) \in Notice
        /\ Tail(events) \in Seq(Notice)
    BY <1>2, HeadTailProperties DEF Deliver, IInv, TypeOK, Notice
  <2>2. /\ cbpc' \in {"idle", "activate", "deactivate"}
        /\ Effective' = IF Decisive(Head(events)) THEN On(Head(events)) ELSE Effective
    BY <2>1 DEF Dispatch, Effective, Decisive, On, Notice, EventKinds
  <2>3. TypeOK'
    BY <2>1, <2>2 DEF IInv, TypeOK, Notice
  <2>4. CallbackInStep'
    BY <2>1, <2>2 DEF IInv, Mirroring, CallbackInStep
  <2>5. EventsFit'
    <3>1. CASE failed
      BY <2>1, <3>1 DEF EventsFit
    <3>2. CASE ~failed
      <4>1. Fits(events, Effective, down # {})
        BY <1>0, <2>1, <3>2 DEF IInv, Mirroring, EventsFit, Fits
      <4>2. Effective \in BOOLEAN /\ Effective' \in BOOLEAN /\ (down # {}) \in BOOLEAN
        BY DEF Effective
      <4>3. PICK after \in BOOLEAN : after = Effective'
        BY <4>2
      <4>4. Fits(Tail(events), after, down # {})
        BY <2>1, <2>2, <4>1, <4>2, <4>3, TailFits
      <4> QED BY <1>0, <2>1, <4>3, <4>4 DEF Fits, EventsFit
    <3> QED BY <3>1, <3>2 DEF IInv, TypeOK
  <2> QED BY <1>1, <2>3, <2>4, <2>5 DEF IInv, Mirroring
<1>3. CASE SetMirror
  <2>1. /\ \/ cbpc = "activate" /\ cbpc' = "enabled"
           \/ cbpc = "deactivate" /\ cbpc' = "disabled"
        /\ ~failed' => mirroring' = IF mirror_h = "open" THEN cbpc = "activate" ELSE mirroring
        /\ mirroring' \in BOOLEAN
        /\ UNCHANGED <<mainvars, mirroring_enabled, events>>
    BY <1>3 DEF SetMirror, IInv, TypeOK
  <2>2. ~failed' => ~failed /\ mirror_h = "open"
    BY <1>0, <2>1 DEF IInv, Handles, MirrorIsOpen, HandlesFollowMain, BeforeRegister, BeforeCb
  <2>3. TypeOK'
    BY <1>0, <2>1 DEF IInv, TypeOK
  <2>4. CallbackInStep'
    BY <2>1, <2>2 DEF CallbackInStep
  <2>5. EventsFit'
    BY <1>0, <2>1, <2>2 DEF IInv, Mirroring, EventsFit, Effective
  <2> QED BY <1>1, <2>3, <2>4, <2>5 DEF IInv, Mirroring
<1>4. CASE Remember
  <2>1. TypeOK'
    BY <1>4 DEF Remember, IInv, TypeOK
  <2>2. CallbackInStep'
    BY <1>4 DEF Remember, IInv, Mirroring, CallbackInStep
  <2>3. EventsFit'
    BY <1>4 DEF Remember, IInv, Mirroring, EventsFit, Effective
  <2> QED BY <1>1, <2>1, <2>2, <2>3 DEF IInv, Mirroring
<1> QED BY <1>2, <1>3, <1>4 DEF Callback

\* New events t that say what the links are now.
LEMMA NotifyFits ==
  ASSUME LinkStateAssumption, IInv, NEW t \in Seq(Notice), down' \in SUBSET Groups,
         changes' \in 0 .. MaxChanges,
         events' = IF registered /\ cb_h = "open" THEN events \o t ELSE events,
         UNCHANGED <<pc, i, nnfes, g_running, handles, interfaces, registered,
                     mirroring_enabled, cbpc, mirroring, failed>>,
         \/ /\ \E k \in 1 .. Len(t) : Decisive(t[k])
            /\ \A k \in 1 .. Len(t) : Decisive(t[k]) => (On(t[k]) <=> down' # {})
         \/ /\ \A k \in 1 .. Len(t) : ~Decisive(t[k])
            /\ down # {} <=> down' # {}
  PROVE  IInv'
<1>1. events \in Seq(Notice) /\ failed \in BOOLEAN
  BY DEF IInv, TypeOK, Notice
<1>2. TypeOK'
  <2>1. events' \in Seq(Notice)
    BY <1>1, ConcatProperties
  <2> QED BY <2>1 DEF IInv, TypeOK, Notice, handles
<1>3. Handles'
  BY <1>1, HandlesKept DEF IInv
<1>4. QuietBefore' /\ CallbackInStep'
  BY DEF IInv, Mirroring, QuietBefore, CallbackInStep
<1>5. EventsFit'
  <2>1. CASE registered /\ cb_h = "open" /\ ~failed
    <3>1. Fits(events, Effective, down # {})
      BY <2>1 DEF IInv, Mirroring, EventsFit, Fits
    <3>2. PICK on \in BOOLEAN : on = Effective
      BY DEF Effective
    <3>3. PICK lit \in BOOLEAN : lit = (down' # {})
      OBVIOUS
    <3>4. Fits(events \o t, on, lit)
      <4>1. CASE /\ \E k \in 1 .. Len(t) : Decisive(t[k])
                 /\ \A k \in 1 .. Len(t) : Decisive(t[k]) => (On(t[k]) <=> down' # {})
        BY <1>1, <3>3, <4>1, ConcatFits
      <4>2. CASE /\ \A k \in 1 .. Len(t) : ~Decisive(t[k])
                 /\ down # {} <=> down' # {}
        <5>1. Fits(events, on, lit)
          BY <3>1, <3>2, <3>3, <4>2 DEF Fits
        <5> QED BY <1>1, <4>2, <5>1, ConcatFits
      <4> QED BY <4>1, <4>2
    <3>5. Effective' = on /\ events' = events \o t
      BY <2>1, <3>2 DEF Effective
    <3> QED BY <3>3, <3>4, <3>5 DEF Fits, EventsFit
  <2>2. CASE ~(registered /\ cb_h = "open" /\ ~failed)
    BY <2>2 DEF EventsFit, handles
  <2> QED BY <2>1, <2>2
<1> QED BY <1>2, <1>3, <1>4, <1>5 DEF IInv, Mirroring

LEMMA LinksIInv ==
  ASSUME LinkStateAssumption, IInv, NEW g \in Groups, GroupFails(g) \/ GroupRecovers(g)
  PROVE  IInv'
<1>0. down' \in SUBSET Groups /\ changes' \in 0 .. MaxChanges
  BY DEF IInv, TypeOK, GroupFails, GroupRecovers, LinkStateAssumption
<1>1. \A kind \in EventKinds : /\ Event(kind) \in Notice /\ Event(kind).kind = kind
                               /\ kind = "PORT_GROUP_UP" => ~Decisive(Event(kind))
                               /\ kind = "PORT_GROUP_DOWN" =>
                                    Decisive(Event(kind)) /\ On(Event(kind))
                               /\ kind = "ALL_LINKS_UP" =>
                                    Decisive(Event(kind)) /\ ~On(Event(kind))
  BY DEF Event, Notice, EventKinds, Decisive, On
<1>2. CASE GroupFails(g)
  <2>1. /\ Notify(<<"PORT_GROUP_DOWN">>) /\ down' # {}
        /\ UNCHANGED <<pc, i, nnfes, g_running, handles, interfaces, registered,
                       mirroring_enabled, cbpc, mirroring, failed>>
    BY <1>2 DEF GroupFails
  <2> DEFINE t == <<Event("PORT_GROUP_DOWN")>>
  <2>2. [k \in DOMAIN <<"PORT_GROUP_DOWN">> |-> Event(<<"PORT_GROUP_DOWN">>[k])]
          = t
    OBVIOUS
  <2>3. events' = IF registered /\ cb_h = "open" THEN events \o t ELSE events
    BY <2>1, <2>2 DEF Notify
  <2>4. t \in Seq(Notice) /\ Len(t) = 1 /\ t[1] = Event("PORT_GROUP_DOWN")
    BY <1>1 DEF EventKinds
  <2>5. Decisive(t[1]) /\ On(t[1])
    BY <1>1, <2>4 DEF EventKinds
  <2> HIDE DEF t
  <2>6. /\ \E k \in 1 .. Len(t) : Decisive(t[k])
        /\ \A k \in 1 .. Len(t) : Decisive(t[k]) => (On(t[k]) <=> down' # {})
    BY <2>1, <2>4, <2>5
  <2> QED BY <1>0, <2>1, <2>3, <2>4, <2>6, NotifyFits
<1>3. CASE GroupRecovers(g) /\ down' = {}
  <2>1. /\ Notify(<<"PORT_GROUP_UP", "ALL_LINKS_UP">>)
        /\ UNCHANGED <<pc, i, nnfes, g_running, handles, interfaces, registered,
                       mirroring_enabled, cbpc, mirroring, failed>>
    BY <1>3 DEF GroupRecovers
  <2> DEFINE t == <<Event("PORT_GROUP_UP"), Event("ALL_LINKS_UP")>>
  <2>2. [k \in DOMAIN <<"PORT_GROUP_UP", "ALL_LINKS_UP">> |->
           Event(<<"PORT_GROUP_UP", "ALL_LINKS_UP">>[k])] = t
    OBVIOUS
  <2>3. events' = IF registered /\ cb_h = "open" THEN events \o t ELSE events
    BY <2>1, <2>2 DEF Notify
  <2>4. /\ t \in Seq(Notice) /\ Len(t) = 2
        /\ t[1] = Event("PORT_GROUP_UP") /\ t[2] = Event("ALL_LINKS_UP")
    BY <1>1 DEF EventKinds
  <2>5. Decisive(t[2]) /\ ~On(t[2]) /\ ~Decisive(t[1])
    BY <1>1, <2>4 DEF EventKinds
  <2> HIDE DEF t
  <2>6. /\ \E k \in 1 .. Len(t) : Decisive(t[k])
        /\ \A k \in 1 .. Len(t) : Decisive(t[k]) => (On(t[k]) <=> down' # {})
    BY <1>3, <2>4, <2>5
  <2> QED BY <1>0, <2>1, <2>3, <2>4, <2>6, NotifyFits
<1>4. CASE GroupRecovers(g) /\ down' # {}
  <2>1. /\ Notify(<<"PORT_GROUP_UP">>) /\ down # {}
        /\ UNCHANGED <<pc, i, nnfes, g_running, handles, interfaces, registered,
                       mirroring_enabled, cbpc, mirroring, failed>>
    BY <1>4 DEF GroupRecovers
  <2> DEFINE t == <<Event("PORT_GROUP_UP")>>
  <2>2. [k \in DOMAIN <<"PORT_GROUP_UP">> |-> Event(<<"PORT_GROUP_UP">>[k])]
          = t
    OBVIOUS
  <2>3. events' = IF registered /\ cb_h = "open" THEN events \o t ELSE events
    BY <2>1, <2>2 DEF Notify
  <2>4. t \in Seq(Notice) /\ Len(t) = 1 /\ t[1] = Event("PORT_GROUP_UP")
    BY <1>1 DEF EventKinds
  <2>5. ~Decisive(t[1])
    BY <1>1, <2>4 DEF EventKinds
  <2> HIDE DEF t
  <2>6. /\ \A k \in 1 .. Len(t) : ~Decisive(t[k])
        /\ down # {} <=> down' # {}
    BY <1>4, <2>1, <2>4, <2>5
  <2> QED BY <1>0, <2>1, <2>3, <2>4, <2>6, NotifyFits
<1> QED BY <1>2, <1>3, <1>4

LEMMA NextIInv == ASSUME LinkStateAssumption, IInv, [Next]_vars PROVE IInv'
<1>1. CASE Sigint \/ UNCHANGED vars
  <2> USE DEF handles, library
  <2>1. /\ UNCHANGED <<pc, i, nnfes, handles, interfaces, registered, mirroring_enabled, cbpc,
                       library, failed>>
        /\ g_running' \in {0, 1}
    BY <1>1 DEF Sigint, vars, IInv, TypeOK
  <2>2. TypeOK'
    BY <2>1 DEF IInv, TypeOK
  <2>3. Handles'
    BY <2>1, HandlesKept DEF IInv, TypeOK
  <2>4. Mirroring'
    BY <2>1, MirroringKept DEF IInv, TypeOK
  <2> QED BY <2>2, <2>3, <2>4 DEF IInv
<1> QED BY <1>1, MainIInv, CallbackIInv, LinksIInv DEF Next

THEOREM InvariantHolds == ASSUME LinkStateAssumption PROVE Spec => []IInv
<1>1. Init => IInv
  BY InitIInv
<1>2. IInv /\ [Next]_vars => IInv'
  BY NextIInv
<1> QED BY <1>1, <1>2, PTL DEF Spec

-------------------------------------------------------------------------------
(* What follows from it. *)

\* With all events handled and no call failed, the ports mirror exactly if a group is
\* down, for any number of groups and of changes.
THEOREM MirroringIsRight == ASSUME LinkStateAssumption PROVE Spec => []MirroringFollowsLinks
<1>1. IInv => MirroringFollowsLinks
  <2> SUFFICES ASSUME IInv, registered, cb_h = "open", events = <<>>, cbpc = "idle", ~failed
               PROVE  mirroring <=> down # {}
    BY DEF MirroringFollowsLinks
  <2>1. Effective <=> down # {}
    <3>1. Len(events) = 0
      OBVIOUS
    <3> QED BY <3>1 DEF IInv, Mirroring, EventsFit
  <2> QED BY <2>1 DEF IInv, TypeOK, Mirroring, CallbackInStep, Effective
<1> QED BY <1>1, InvariantHolds, PTL

\* The mirror handle outlives the callback that uses it.
THEOREM HandlesAreRight == ASSUME LinkStateAssumption PROVE Spec => []HandlesInv
<1>1. IInv => HandlesInv
  BY DEF IInv, Handles, HandlesFollowMain, HandlesInv, TypeOK, Handle, CallbackHasMirror
<1> QED BY <1>1, InvariantHolds, PTL

\* On every path out of the program each handle has been closed.
THEOREM EverythingIsClosed == ASSUME LinkStateAssumption PROVE Spec => []ClosesWhatItOpened
<1>1. IInv => ClosesWhatItOpened
  BY DEF IInv, TypeOK, Handles, HandlesFollowMain, InterfacesFollowMain, ClosesWhatItOpened,
         Running, BeforeRegister, BeforeCb, BeforeMirror
<1> QED BY <1>1, InvariantHolds, PTL
===============================================================================
