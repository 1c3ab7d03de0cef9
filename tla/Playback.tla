------------------------------- MODULE Playback --------------------------------
(***************************************************************************)
(* The programs that replay a capture file: nfm_sample_pcap_playback.cpp    *)
(* sends each frame out of port 0 or 1 and learns from the addresses of the *)
(* frames which side of the link each address is on; nfm_sample_pcap_l3_    *)
(* forward.c leaves the choice of the port to the flow engine.              *)
(***************************************************************************)
EXTENDS Integers, FiniteSets

CONSTANTS Address,     \* the link-layer addresses in the capture
          FakeSource,  \* what is read as the source in every cooked frame
          FakeDests,   \* what is read as its destination: one per type of packet
          Unknown,     \* "not in if_map"
          MaxFrames    \* bound: the frames of the capture

ASSUME PlaybackAssumption ==
  /\ MaxFrames \in Nat
  /\ FakeSource \notin FakeDests
  /\ (FakeDests \union {FakeSource}) \intersect Address = {}
  /\ Unknown \notin {0, 1}

VARIABLES
  prog,     \* "playback" or "l3_forward"
  pc,       \* the next statement of main
  status,   \* the exit status, 1 for any but 0; Running before
  cooked,   \* the capture has the link type DLT_LINUX_SLL
  left,     \* frames that pcap_next will still return
  if_map,   \* the side of each address, or Unknown
  p,        \* ns_packet_t p: created and not handed over, or "stale", or "none"
  frames,   \* the frames read, with the port chosen for each (history)
  fresh,    \* how many of them had both addresses unknown (history)
  unsent,   \* frames read and not sent (history)
  failed    \* a packet could not be created and nobody looked (history)

history == <<frames, fresh, unsent, failed>>
vars == <<prog, pc, status, cooked, left, if_map, p, frames, fresh, unsent, failed>>

Running == -1
Key == Address \union FakeDests \union {FakeSource}
Frame == [source : Address, dest : Address, port : {0, 1}]

TypeOK == /\ prog \in {"playback", "l3_forward"}
          /\ pc \in {"options", "file", "device", "next", "create", "transmit", "close",
                     "done", "crashed"}
          /\ status \in {Running, 0, 1}
          /\ cooked \in BOOLEAN
          /\ left \in 0 .. MaxFrames
          /\ if_map \in [Key -> {0, 1, Unknown}]
          /\ p \in {"none", "own", "stale"}
          /\ frames \subseteq Frame
          /\ fresh \in Nat /\ unsent \in Nat
          /\ failed \in BOOLEAN

Init == /\ prog \in {"playback", "l3_forward"}
        /\ pc = IF prog = "playback" THEN "file" ELSE "options"
        /\ status = Running
        /\ cooked \in BOOLEAN
        /\ left \in 0 .. MaxFrames
        /\ if_map = [a \in Key |-> Unknown]
        /\ p = "none"
        /\ frames = {} /\ fresh = 0 /\ unsent = 0 /\ failed = FALSE

Exit(code) == pc' = "done" /\ status' = code
Goto(l) == pc' = l /\ UNCHANGED status

-------------------------------------------------------------------------------
(* The set-up. *)

\* pcap_playback parses its options last, and may return 1 for a multiplier with
\* everything open.  pcap_l3_forward exits for -n, which its usage has and its switch
\* does not, and with options but no file; without any option pfn is not set at all,
\* and what pcap_open_offline is given may crash it.
Options ==
  /\ pc = "options"
  /\ \/ Goto(IF prog = "playback" THEN "next" ELSE "file")
     \/ Exit(1)
     \/ prog = "l3_forward" /\ pc' = "crashed" /\ status' = 1
  /\ UNCHANGED <<prog, cooked, left, if_map, p, history>>

\* pcap_open_offline
OpenFile ==
  /\ pc = "file"
  /\ Goto("device") \/ Exit(1)
  /\ UNCHANGED <<prog, cooked, left, if_map, p, history>>

\* ns_packet_open_device(_ex)
OpenDevice ==
  /\ pc = "device"
  /\ Goto(IF prog = "playback" THEN "options" ELSE "next") \/ Exit(1)
  /\ UNCHANGED <<prog, cooked, left, if_map, p, history>>

-------------------------------------------------------------------------------
(* process_next_packet *)

\* The sides after a frame from source to dest; port is what if_map says of source
\* in the end, but for the frame that an unknown address sends to itself.

\* Mutant: the destination is put on the side of the source.
LearnSameSide(source, dest) ==
  IF if_map[source] # Unknown THEN if_map
  ELSE IF if_map[dest] # Unknown THEN [if_map EXCEPT ![source] = if_map[dest]]
  ELSE [if_map EXCEPT ![source] = 0, ![dest] = 1]

\* Mutant: the destination is also learned when only the source is known, and so
\* may change sides.
LearnDest(source, dest) ==
  IF if_map[source] # Unknown THEN [if_map EXCEPT ![dest] = 1 - if_map[source]]
  ELSE IF if_map[dest] # Unknown THEN [if_map EXCEPT ![source] = 1 - if_map[dest]]
  ELSE [if_map EXCEPT ![source] = 0, ![dest] = 1]

Learn(source, dest) ==
  IF if_map[source] # Unknown THEN if_map
  ELSE IF if_map[dest] # Unknown THEN [if_map EXCEPT ![source] = 1 - if_map[dest]]
  ELSE [if_map EXCEPT ![source] = 0, ![dest] = 1]

BothUnknown(source, dest) == if_map[source] = Unknown /\ if_map[dest] = Unknown

Port(source, dest) ==
  IF BothUnknown(source, dest) THEN 0 ELSE Learn(source, dest)[source]

\* A frame from source to dest that is read as one from s to d.
Process(source, dest, s, d) ==
  /\ if_map' = Learn(s, d)
  /\ frames' = frames \union {[source |-> source, dest |-> dest, port |-> Port(s, d)]}
  /\ fresh' = IF BothUnknown(s, d) THEN fresh + 1 ELSE fresh

\* pcap_next returns a frame.  In a cooked capture the header that is faked is
\* written behind offset 2 of the buffer and the addresses are read at offset 0, so
\* the source is the same in every frame and the destination tells only the type of
\* the packet.
ReadFrame ==
  /\ pc = "next" /\ left > 0
  /\ Goto("create")
  /\ left' = left - 1
  /\ unsent' = unsent + 1
  /\ IF prog = "l3_forward" THEN UNCHANGED <<if_map, frames, fresh>>
     ELSE \E source, dest \in Address :
            IF cooked THEN \E d \in FakeDests : Process(source, dest, FakeSource, d)
            ELSE Process(source, dest, source, dest)
  /\ UNCHANGED <<prog, cooked, p, failed>>

\* It returns NULL at the end of the file, and for a record that is torn as well.
EndOfCapture ==
  /\ pc = "next" /\ left = 0
  /\ Goto("close")
  /\ UNCHANGED <<prog, cooked, left, if_map, p, history>>

-------------------------------------------------------------------------------
(* Sending. *)

CreateOk ==
  /\ pc = "create"
  /\ Goto("transmit")
  /\ p' = "own"
  /\ UNCHANGED <<prog, cooked, left, if_map, history>>

\* pcap_l3_forward exits; pcap_playback copies the frame through whatever is in the
\* uninitialised p, and goes on if it survives that.
CreateFail ==
  /\ pc = "create"
  /\ IF prog = "l3_forward" THEN Exit(1) /\ UNCHANGED <<p, failed>>
     ELSE /\ failed' = TRUE
          /\ \/ pc' = "crashed" /\ status' = 1 /\ UNCHANGED p
             \/ Goto("transmit") /\ p' = "stale"
  /\ UNCHANGED <<prog, cooked, left, if_map, frames, fresh, unsent>>

\* ns_packet_transmit, ns_packet_l3_forward
TransmitOk ==
  /\ pc = "transmit"
  /\ Goto("next")
  /\ p' = "none"
  /\ unsent' = unsent - 1
  /\ UNCHANGED <<prog, cooked, left, if_map, frames, fresh, failed>>

\* Mutant: a frame that cannot be sent is skipped.
TransmitFailGoesOn ==
  /\ pc = "transmit"
  /\ Goto("next")
  /\ p' = "none"
  /\ UNCHANGED <<prog, cooked, left, if_map, history>>

\* Both programs give up at once, with the packet still theirs.
TransmitFail ==
  /\ pc = "transmit"
  /\ Exit(1)
  /\ UNCHANGED <<prog, cooked, left, if_map, p, history>>

\* ns_packet_close_device, pcap_close and the end of main
Close ==
  /\ pc = "close"
  /\ Exit(0)
  /\ UNCHANGED <<prog, cooked, left, if_map, p, history>>

Next == \/ Options \/ OpenFile \/ OpenDevice \/ ReadFrame \/ EndOfCapture
        \/ CreateOk \/ CreateFail \/ TransmitOk \/ TransmitFail \/ Close

Spec == Init /\ [][Next]_vars

-------------------------------------------------------------------------------
(* Correctness. *)

\* What an address sends leaves through one port, however the frames are ordered,
\* except when it sends a frame to itself; and all that a cooked capture holds does.
OnePortPerAddress ==
  \A f, g \in frames :
    cooked \/ f.source = g.source =>
      f.port = g.port \/ \E h \in frames : h.source = h.dest /\ h.source = f.source

\* Every frame has one end in the camp and the other outside.
Crosses(camp) == \A f \in frames : (f.source \in camp) # (f.dest \in camp)

\* A capture of traffic between two camps is replayed with each camp behind a port of
\* its own, if at most one pair of addresses had to be guessed; which is always so
\* when one camp is a single address, the gateway.  Cooked captures are not.
CampsApart ==
  ~cooked =>
    \A camp \in SUBSET Address :
      Crosses(camp) /\ (fresh <= 1 \/ \E gateway \in Address : camp = {gateway}) =>
        \A f, g \in frames : (f.port = g.port) <=> (f.source \in camp <=> g.source \in camp)

\* A program that exits with 0 has sent every frame it could read, each in a packet it
\* created for it, but where pcap_playback did not notice that it had not; and keeps no
\* packet.  (With the types of the variables.)
AllReplayed ==
  /\ TypeOK
  /\ status = 0 => left = 0 /\ unsent = 0 /\ p = "none"
  /\ pc = "transmit" => p = "own" \/ (failed /\ prog = "playback")
===============================================================================
