------------------------------- MODULE WireLoop -------------------------------
(***************************************************************************)
(* The receive loops of nfm_sample_packet.c, nfm_sample_packet_flow_modify,*)
(* nfm_sample_ntuple_modify and nfm_sample_flowstats, several of them on   *)
(* one flow engine.  A packet occupies one buffer of the engine's pool from*)
(* its arrival until the program that received it transmits or destroys    *)
(* it.  SIGINT and SIGTERM may hit a program between any two of its steps. *)
(*                                                                         *)
(* What the programs differ in is their "program":                         *)
(*   "forward"   nfm_sample_packet: transmit every packet                  *)
(*   "drop"      nfm_sample_packet -D: destroy every packet                *)
(*   "reject"    the two *_modify programs: reject HTTP flows, transmit    *)
(*               the rest                                                  *)
(*   "flowstats" nfm_sample_flowstats: transmit, ignoring the result       *)
(***************************************************************************)
EXTENDS Integers

CONSTANTS Buffers, Hosts, Flows,
          HttpFlows,  \* the TCP flows to port 80
          NoBuf, NoHost, NoFlow

ASSUME WireAssumption == /\ HttpFlows \subseteq Flows
                         /\ NoBuf \notin Buffers
                         /\ NoHost \notin Hosts
                         /\ NoFlow \notin Flows

Programs == {"forward", "drop", "reject", "flowstats"}

VARIABLES
  prog,        \* prog[h]: which program host process h runs (never changes)
  pc,          \* pc[h]: the next statement of h's main()
  running,     \* running[h]: the volatile flag the signal handler clears
  interrupted, \* a signal has hit h while it was blocked in receive
  late,        \* packets h took after running[h] was cleared (history)
  pckt,        \* pckt[h]: the buffer h's ns_packet_t refers to, live or stale
  buf,         \* buf[b]: where b is, for which host, with a packet of which flow
  rejected     \* the flows the card has been told to reject

hostVars == <<pc, running, interrupted, late, pckt>>
cardVars == <<buf, rejected>>
vars == <<prog, pc, running, interrupted, late, pckt, buf, rejected>>

Stages == {"pool", "rx", "host", "wire"}
Locations == {"open", "top", "enter", "recv", "verdict", "transmit",
              "drop", "destroy", "close", "done"}

Buffer == [stage : Stages, host : Hosts \cup {NoHost}, flow : Flows \cup {NoFlow}]
Free == [stage |-> "pool", host |-> NoHost, flow |-> NoFlow]

TypeOK == /\ prog \in [Hosts -> Programs]
          /\ pc \in [Hosts -> Locations]
          /\ running \in [Hosts -> {0, 1}]
          /\ interrupted \in [Hosts -> BOOLEAN]
          /\ late \in [Hosts -> Nat]
          /\ pckt \in [Hosts -> Buffers \cup {NoBuf}]
          /\ buf \in [Buffers -> Buffer]
          /\ rejected \subseteq Flows

Init == /\ prog \in [Hosts -> Programs]
        /\ pc = [h \in Hosts |-> "open"]
        /\ running = [h \in Hosts |-> 1]
        /\ interrupted = [h \in Hosts |-> FALSE]
        /\ late = [h \in Hosts |-> 0]
        /\ pckt = [h \in Hosts |-> NoBuf]
        /\ buf = [b \in Buffers |-> Free]
        /\ rejected = {}

Run(h) == running[h] # 0   \* C truth of the int
Goto(h, l) == pc' = [pc EXCEPT ![h] = l]

-------------------------------------------------------------------------------
(* The card and the network. *)

\* A packet of flow f arrives for a host; the card drops rejected flows itself.
Arrive(h, b, f) ==
  /\ pc[h] \notin {"open", "done"}
  /\ buf[b].stage = "pool"
  /\ f \notin rejected
  /\ buf' = [buf EXCEPT ![b] = [stage |-> "rx", host |-> h, flow |-> f]]
  /\ UNCHANGED <<prog, hostVars, rejected>>

\* A transmitted packet has left: its buffer is free again.
WireDone(b) ==
  /\ buf[b].stage = "wire"
  /\ buf' = [buf EXCEPT ![b] = Free]
  /\ UNCHANGED <<prog, hostVars, rejected>>

-------------------------------------------------------------------------------
(* The program. *)

\* ns_packet_open_device_ex succeeds, or main() returns -1.
OpenDevice(h) ==
  /\ pc[h] = "open"
  /\ \E l \in {"top", "done"} : Goto(h, l)
  /\ UNCHANGED <<prog, running, interrupted, late, pckt, cardVars>>

\* Mutant: the flag is never looked at again.
TopForever(h) ==
  /\ pc[h] = "top"
  /\ Goto(h, "enter")
  /\ UNCHANGED <<prog, running, interrupted, late, pckt, cardVars>>

\* while (running): the flag is read here, before receive can block.
Top(h) ==
  /\ pc[h] = "top"
  /\ Goto(h, IF Run(h) THEN "enter" ELSE "close")
  /\ UNCHANGED <<prog, running, interrupted, late, pckt, cardVars>>

\* The call of ns_packet_receive is under way.
EnterReceive(h) ==
  /\ pc[h] = "enter"
  /\ Goto(h, "recv")
  /\ UNCHANGED <<prog, running, interrupted, late, pckt, cardVars>>

\* What each program does with a packet it has received.
AfterReceive(h) == CASE prog[h] = "drop"   -> "drop"
                     [] prog[h] = "reject" -> "verdict"
                     [] OTHER              -> "transmit"

Queued(h, b) == buf[b].stage = "rx" /\ buf[b].host = h

\* ns_packet_receive returns a packet queued for h.
ReceiveOk(h, b) ==
  /\ pc[h] = "recv"
  /\ Queued(h, b)
  /\ buf' = [buf EXCEPT ![b].stage = "host"]
  /\ pckt' = [pckt EXCEPT ![h] = b]
  /\ interrupted' = [interrupted EXCEPT ![h] = FALSE]
  /\ late' = [late EXCEPT ![h] = IF Run(h) THEN @ ELSE @ + 1]
  /\ Goto(h, AfterReceive(h))
  /\ UNCHANGED <<prog, running, rejected>>

\* Mutant: no "continue" after a failed receive.
ReceiveFailFallsThrough(h) ==
  /\ pc[h] = "recv"
  /\ interrupted' = [interrupted EXCEPT ![h] = FALSE]
  /\ Goto(h, AfterReceive(h))
  /\ UNCHANGED <<prog, running, late, pckt, cardVars>>

\* Mutant: receive is retried without looking at the flag.
ReceiveFailRetries(h) ==
  /\ pc[h] = "recv"
  /\ interrupted' = [interrupted EXCEPT ![h] = FALSE]
  /\ Goto(h, "enter")
  /\ UNCHANGED <<prog, running, late, pckt, cardVars>>

\* ns_packet_receive fails, because of a signal or of the device: "continue".
ReceiveFail(h) ==
  /\ pc[h] = "recv"
  /\ interrupted' = [interrupted EXCEPT ![h] = FALSE]
  /\ Goto(h, "top")
  /\ UNCHANGED <<prog, running, late, pckt, cardVars>>

\* Mutant: the test of the destination port is missing.
ProcessPacketAnyPort(h) ==
  /\ pc[h] = "verdict"
  /\ \/ /\ Goto(h, "transmit")
        /\ UNCHANGED rejected
     \/ /\ Goto(h, "drop")
        /\ rejected' \in {rejected, rejected \cup {buf[pckt[h]].flow}}
  /\ UNCHANGED <<prog, running, interrupted, late, pckt, buf>>

\* process_packet of the *_modify programs: 1 means transmit, 0 discard.  The
\* modifier may not be created; the result of applying it is not looked at.
ProcessPacket(h) ==
  /\ pc[h] = "verdict"
  /\ \/ /\ Goto(h, "transmit")
        /\ UNCHANGED rejected
     \/ /\ buf[pckt[h]].flow \in HttpFlows
        /\ Goto(h, "drop")
        /\ rejected' \in {rejected, rejected \cup {buf[pckt[h]].flow}}
  /\ UNCHANGED <<prog, running, interrupted, late, pckt, buf>>

\* Mutant: the destroy is outside the error branch.
TransmitOkDestroys(h) ==
  /\ pc[h] = "transmit"
  /\ buf' = [buf EXCEPT ![pckt[h]].stage = "wire"]
  /\ Goto(h, "destroy")
  /\ UNCHANGED <<prog, running, interrupted, late, pckt, rejected>>


TransmitOk(h) ==
  /\ pc[h] = "transmit"
  /\ buf' = [buf EXCEPT ![pckt[h]].stage = "wire"]
  /\ Goto(h, "top")
  /\ UNCHANGED <<prog, running, interrupted, late, pckt, rejected>>

\* Mutant: every program ignores a failed transmit.
TransmitFailForgets(h) ==
  /\ pc[h] = "transmit"
  /\ Goto(h, "top")
  /\ UNCHANGED <<prog, running, interrupted, late, pckt, cardVars>>

\* A failed ns_packet_transmit leaves the buffer with the caller, which
\* destroys it -- except in flowstats, which drops the return value.
TransmitFail(h) ==
  /\ pc[h] = "transmit"
  /\ Goto(h, IF prog[h] = "flowstats" THEN "top" ELSE "destroy")
  /\ UNCHANGED <<prog, running, interrupted, late, pckt, cardVars>>

\* ns_packet_destroy, on purpose ("drop") or after a failed transmit.
Destroy(h) ==
  /\ pc[h] \in {"drop", "destroy"}
  /\ buf' = [buf EXCEPT ![pckt[h]] = Free]
  /\ Goto(h, "top")
  /\ UNCHANGED <<prog, running, interrupted, late, pckt, rejected>>

\* ns_packet_close_device, and main() returns.  What is still queued to h goes
\* back to the pool.
CloseDevice(h) ==
  /\ pc[h] = "close"
  /\ Goto(h, "done")
  /\ buf' = [b \in Buffers |-> IF Queued(h, b) THEN Free ELSE buf[b]]
  /\ UNCHANGED <<prog, running, interrupted, late, pckt, rejected>>

\* Mutant: the handler counts down instead of clearing, so a second signal
\* makes the flag true again.
SigTermDecrements(h) ==
  /\ pc[h] # "done"
  /\ running' = [running EXCEPT ![h] = @ - 1]
  /\ interrupted' = [interrupted EXCEPT ![h] = (pc[h] = "recv")]
  /\ UNCHANGED <<prog, pc, late, pckt, cardVars>>

\* sig_term, at any time: it clears the flag, and cuts short a blocked receive.
SigTerm(h) ==
  /\ pc[h] # "done"
  /\ running' = [running EXCEPT ![h] = 0]
  /\ interrupted' = [interrupted EXCEPT ![h] = (pc[h] = "recv")]
  /\ UNCHANGED <<prog, pc, late, pckt, cardVars>>

HostStep(h) == \/ OpenDevice(h)  \/ Top(h)           \/ EnterReceive(h)
               \/ ReceiveFail(h) \/ ProcessPacket(h) \/ TransmitOk(h)
               \/ TransmitFail(h) \/ Destroy(h)      \/ CloseDevice(h)
               \/ \E b \in Buffers : ReceiveOk(h, b)

\* A blocked receive is obliged to return only for a packet or for a signal:
\* ReceiveFail alone, for a device error, is never owed.
MustStep(h) == /\ HostStep(h)
               /\ pc[h] = "recv" => \/ interrupted[h]
                                    \/ \E b \in Buffers : Queued(h, b)

Next == \/ \E h \in Hosts : HostStep(h)
        \/ \E h \in Hosts : SigTerm(h)
        \/ \E b \in Buffers : WireDone(b)
        \/ \E h \in Hosts, b \in Buffers, f \in Flows : Arrive(h, b, f)

Spec == Init /\ [][Next]_vars

\* Each process is scheduled; signals, packets, the wire and device errors
\* are owed to nobody.
Fairness == \A h \in Hosts : WF_vars(MustStep(h))

FairSpec == Spec /\ Fairness

-------------------------------------------------------------------------------
(* Correctness. *)

\* h is between a successful receive and the end of the loop body.
Holding(h) == pc[h] \in {"verdict", "transmit", "drop", "destroy"}

\* A program only transmits or destroys a buffer that it owns at that moment:
\* never the stale one its ns_packet_t still names after a failed receive, nor
\* one it has already given back.
OwnsWhatItHandles ==
  \A h \in Hosts : Holding(h) => /\ pckt[h] \in Buffers
                                 /\ buf[pckt[h]].stage = "host"
                                 /\ buf[pckt[h]].host = h

\* Every buffer out of the card's hands is in the hands of the one program that
\* received it.  Only flowstats, which ignores a failed transmit, leaks one.
NoBufferLeak ==
  \A b \in Buffers : buf[b].stage = "host" =>
    \/ Holding(buf[b].host) /\ pckt[buf[b].host] = b
    \/ prog[buf[b].host] = "flowstats"

\* The flag is read before receive blocks, so a program asked to stop may still
\* handle the packet it was waiting for, but never a second one.
AtMostOneAfterStop == \A h \in Hosts : late[h] <= 1

\* A packet is destroyed only if its program drops everything, if its transmit
\* has failed, or if it belongs to an HTTP flow that was to be rejected.
DestroyedForAReason ==
  [][\A b \in Buffers : (buf[b].stage = "host" /\ buf'[b].stage = "pool") =>
       \/ prog[buf[b].host] = "drop"
       \/ pc[buf[b].host] = "destroy"
       \/ prog[buf[b].host] = "reject" /\ buf[b].flow \in HttpFlows]_vars

\* A stop request reaches the program unless it falls between the test of
\* running and the moment receive blocks (the window nothing in the code closes).
StopHeard(h) == ~Run(h) /\ (interrupted[h] \/ pc[h] \notin {"enter", "recv"})
Stops == \A h \in Hosts : StopHeard(h) ~> pc[h] = "done"

\* The loops implement the buffer pool's promise.
InHand(h) == IF Holding(h) THEN pckt[h] ELSE NoBuf
Dropped == {b \in Buffers : buf[b].stage = "host" /\ \A h \in Hosts : InHand(h) # b}

Pool == INSTANCE BufferPool WITH
          careless <- {h \in Hosts : prog[h] = "flowstats"},
          card <- {b \in Buffers : buf[b].stage # "host"},
          held <- [h \in Hosts |-> InHand(h)],
          lost <- Dropped
PoolSpec == Pool!Spec
===============================================================================
