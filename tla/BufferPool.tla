------------------------------ MODULE BufferPool ------------------------------
(***************************************************************************)
(* What the packet programs promise about the buffers of the flow engine: *)
(* a buffer is with the card, in the hands of exactly one program (which   *)
(* holds at most one), or lost.  Only a program in careless may lose one.  *)
(* WireLoop implements this specification.                                 *)
(***************************************************************************)
CONSTANTS Buffers,    \* the packet buffers of one flow engine
          Hosts,      \* the running programs
          NoBuf       \* "no buffer in hand"

VARIABLES careless,   \* the programs that may drop a buffer on the floor (fixed)
          card,       \* the buffers the card can use or is using
          held,       \* held[h]: the buffer in the hands of h, or NoBuf
          lost        \* the buffers nobody will ever give back

vars == <<careless, card, held, lost>>

Init == /\ careless \subseteq Hosts
        /\ card = Buffers
        /\ held = [h \in Hosts |-> NoBuf]
        /\ lost = {}

\* The card hands a received packet to h.
Deliver(h, b) == /\ b \in card
                 /\ held[h] = NoBuf
                 /\ held' = [held EXCEPT ![h] = b]
                 /\ card' = card \ {b}
                 /\ UNCHANGED <<careless, lost>>

\* h transmits or destroys its packet: the buffer is the card's again.
Release(h) == /\ held[h] # NoBuf
              /\ card' = card \cup {held[h]}
              /\ held' = [held EXCEPT ![h] = NoBuf]
              /\ UNCHANGED <<careless, lost>>

\* h forgets its packet.
Lose(h) == /\ h \in careless
           /\ held[h] # NoBuf
           /\ lost' = lost \cup {held[h]}
           /\ held' = [held EXCEPT ![h] = NoBuf]
           /\ UNCHANGED <<careless, card>>

Next == \E h \in Hosts : \/ \E b \in Buffers : Deliver(h, b)
                         \/ Release(h)
                         \/ Lose(h)

Spec == Init /\ [][Next]_vars
===============================================================================
