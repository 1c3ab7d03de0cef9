------------------------------- MODULE LinkState -------------------------------
(***************************************************************************)
(* nfm_sample_linkstate.c: the main thread opens three link-state handles, *)
(* registers a callback on one of them and polls another until SIGINT; the *)
(* library's thread runs the callback, which turns the mirroring of the    *)
(* third on and off and remembers in mirroring_enabled what it did.  A     *)
(* failed call is logged and the program goes on.                          *)
(***************************************************************************)
EXTENDS Integers, Sequences

CONSTANTS Groups,       \* the port groups of -m
          NNfes,        \* MAX_NFES, and the number of NFEs present
          MaxChanges    \* bound: how often a group goes down or comes up

ASSUME LinkStateAssumption == NNfes \in Nat /\ MaxChanges \in Nat /\ Groups # {}

VARIABLES
  pc, i, nnfes,       \* the main thread, the NFE of its loops and their number
  g_running,
  mon_h, mirror_h, cb_h,  \* "none" before (or without) a successful open
  interfaces,         \* the nfe_interface handles that are open
  registered,         \* the callback is registered
  mirroring_enabled,
  cbpc,               \* the next statement of __linkstate_cb
  down, changes,      \* the groups with a link down; how often that changed
  mirroring,          \* the library mirrors
  events,             \* link-state events on their way to the callback
  failed              \* some call failed (history)

handles == <<mon_h, mirror_h, cb_h>>
library == <<down, changes, mirroring, events>>
vars == <<pc, i, nnfes, g_running, handles, interfaces, registered, mirroring_enabled, cbpc, library, failed>>

Handle == {"none", "open", "closing", "closed"}
Setup == <<"openmon", "addmon", "nnfes", "mode", "openmirror", "opencb", "addgroups",
           "latching", "hysteresis", "register", "interfaces">>
Locations == {Setup[k] : k \in DOMAIN Setup} \union
             {"poll", "sleep", "closeinterfaces", "closemon", "closecb", "waitcb", "closemirror", "exit"}
EventKinds == {"INITIAL_STATUS", "PORT_GROUP_DOWN", "PORT_GROUP_UP", "ALL_LINKS_UP"}

TypeOK == /\ pc \in Locations /\ i \in 0 .. NNfes /\ nnfes \in 0 .. NNfes /\ g_running \in {0, 1}
          /\ mon_h \in Handle /\ mirror_h \in Handle /\ cb_h \in Handle
          /\ interfaces \subseteq 0 .. NNfes - 1
          /\ registered \in BOOLEAN /\ mirroring_enabled \in {0, 1}
          /\ cbpc \in {"idle", "activate", "deactivate", "enabled", "disabled"}
          /\ down \subseteq Groups /\ changes \in 0 .. MaxChanges
          /\ mirroring \in BOOLEAN /\ failed \in BOOLEAN
          /\ events \in Seq([kind : EventKinds, los : BOOLEAN])

Init == /\ pc = "openmon" /\ i = 0 /\ nnfes = 0 /\ g_running = 1
        /\ mon_h = "none" /\ mirror_h = "none" /\ cb_h = "none" /\ interfaces = {}
        /\ registered = FALSE /\ mirroring_enabled = 0 /\ cbpc = "idle"
        /\ down \in SUBSET Groups /\ changes = 0 /\ mirroring = FALSE /\ events = <<>>
        /\ failed = FALSE

-------------------------------------------------------------------------------
(* main: setting up. *)

At(here, next) == pc = here /\ pc' = next
Attempt(ok) == failed' = (failed \/ ~ok)
Event(kind) == [kind |-> kind, los |-> down # {}]

OpenMon ==
  /\ At("openmon", "addmon")
  /\ \E ok \in BOOLEAN : Attempt(ok) /\ mon_h' = IF ok THEN "open" ELSE "none"
  /\ UNCHANGED <<i, nnfes, g_running, mirror_h, cb_h, interfaces, registered, mirroring_enabled, cbpc, library>>

\* The calls whose success no later statement depends on: adding the port groups,
\* setting latching (-L) and hysteresis.
Configure ==
  /\ \/ At("addmon", "nnfes")
     \/ At("addgroups", "latching")
     \/ At("latching", "hysteresis")
     \/ At("hysteresis", "register")
  /\ \E ok \in BOOLEAN : Attempt(ok)
  /\ UNCHANGED <<i, nnfes, g_running, handles, interfaces, registered, mirroring_enabled, cbpc, library>>

\* nfm_get_nfes_present; a failure leaves nnfes uninitialised (values above
\* MAX_NFES, which would leave the array nfe_h, are not modelled).
GetNfes ==
  /\ At("nnfes", "mode")
  /\ \/ Attempt(TRUE) /\ nnfes' = NNfes
     \/ Attempt(FALSE) /\ nnfes' \in 0 .. NNfes
  /\ UNCHANGED <<i, g_running, handles, interfaces, registered, mirroring_enabled, cbpc, library>>

\* -s prints the status once, and without -m there is nothing to monitor: both
\* close mon_h and exit.  Otherwise the program goes on to mirror.
Mode ==
  /\ pc = "mode"
  /\ \/ pc' = "openmirror" /\ UNCHANGED mon_h
     \/ pc' = "exit" /\ mon_h' = IF mon_h = "open" THEN "closed" ELSE mon_h
  /\ UNCHANGED <<i, nnfes, g_running, mirror_h, cb_h, interfaces, registered, mirroring_enabled,
                 cbpc, library, failed>>

OpenMirror ==
  /\ At("openmirror", "opencb")
  /\ \E ok \in BOOLEAN : Attempt(ok) /\ mirror_h' = IF ok THEN "open" ELSE "none"
  /\ UNCHANGED <<i, nnfes, g_running, mon_h, cb_h, interfaces, registered, mirroring_enabled, cbpc, library>>

OpenCb ==
  /\ At("opencb", "addgroups")
  /\ \E ok \in BOOLEAN : Attempt(ok) /\ cb_h' = IF ok THEN "open" ELSE "none"
  /\ UNCHANGED <<i, nnfes, g_running, mon_h, mirror_h, interfaces, registered, mirroring_enabled, cbpc, library>>

\* ns_linkstate_register_cb: the callbacks begin with the status of this moment.
Register ==
  /\ At("register", "interfaces")
  /\ \E ok \in BOOLEAN :
       /\ Attempt(ok)
       /\ registered' = (ok /\ cb_h = "open")
       /\ events' = IF registered' THEN <<Event("INITIAL_STATUS")>> ELSE events
  /\ UNCHANGED <<i, nnfes, g_running, handles, interfaces, mirroring_enabled, cbpc, down, changes, mirroring>>

\* One nfe_interface handle, with its callback that only logs.
OpenInterface ==
  /\ pc = "interfaces"
  /\ \/ /\ i < nnfes
        /\ \E ok \in BOOLEAN : /\ Attempt(ok)
                               /\ interfaces' = IF ok THEN interfaces \union {i} ELSE interfaces
        /\ i' = i + 1 /\ UNCHANGED pc
     \/ i = nnfes /\ i' = 0 /\ pc' = "poll" /\ UNCHANGED <<interfaces, failed>>
  /\ UNCHANGED <<nnfes, g_running, handles, registered, mirroring_enabled, cbpc, library>>

-------------------------------------------------------------------------------
(* main: polling and closing. *)

\* Mutant: the flag is not looked at.
PollForever ==
  /\ At("poll", "sleep")
  /\ \E ok \in BOOLEAN : Attempt(ok)
  /\ UNCHANGED <<i, nnfes, g_running, handles, interfaces, registered, mirroring_enabled, cbpc, library>>

\* while (g_running) { ns_linkstate_get_status(mon_h); ... sleep(10); }
Poll ==
  /\ \/ /\ g_running = 1 /\ At("poll", "sleep")
        /\ \E ok \in BOOLEAN : Attempt(ok)
     \/ g_running = 0 /\ At("poll", "closeinterfaces") /\ UNCHANGED failed
     \/ At("sleep", "poll") /\ UNCHANGED failed
  /\ UNCHANGED <<i, nnfes, g_running, handles, interfaces, registered, mirroring_enabled, cbpc, library>>

\* Mutant: the last interface is left open.
CloseInterfacesButOne ==
  /\ pc = "closeinterfaces"
  /\ \/ i < nnfes - 1 /\ interfaces' = interfaces \ {i} /\ i' = i + 1 /\ UNCHANGED pc
     \/ i >= nnfes - 1 /\ pc' = "closemon" /\ UNCHANGED <<i, interfaces>>
  /\ UNCHANGED <<nnfes, g_running, handles, registered, mirroring_enabled, cbpc, library, failed>>

CloseInterfaces ==
  /\ pc = "closeinterfaces"
  /\ \/ i < nnfes /\ interfaces' = interfaces \ {i} /\ i' = i + 1 /\ UNCHANGED pc
     \/ i = nnfes /\ pc' = "closemon" /\ UNCHANGED <<i, interfaces>>
  /\ UNCHANGED <<nnfes, g_running, handles, registered, mirroring_enabled, cbpc, library, failed>>

Shut(handle) == IF handle = "open" THEN "closed" ELSE handle

\* Mutant: mirror_h is closed before cb_h.
CloseMonAndMirror ==
  /\ At("closemon", "closecb")
  /\ mon_h' = Shut(mon_h) /\ mirror_h' = Shut(mirror_h)
  /\ UNCHANGED <<i, nnfes, g_running, cb_h, interfaces, registered, mirroring_enabled, cbpc, library, failed>>

CloseMon ==
  /\ At("closemon", "closecb")
  /\ mon_h' = Shut(mon_h)
  /\ UNCHANGED <<i, nnfes, g_running, mirror_h, cb_h, interfaces, registered, mirroring_enabled,
                 cbpc, library, failed>>

\* ns_linkstate_close(cb_h) starts no further callback and returns when the one
\* that runs is over; the program relies on both.
CloseCb ==
  /\ \/ At("closecb", "waitcb") /\ cb_h' = IF cb_h = "open" THEN "closing" ELSE cb_h
     \/ cbpc = "idle" /\ At("waitcb", "closemirror") /\ cb_h' = IF cb_h = "closing" THEN "closed" ELSE cb_h
  /\ UNCHANGED <<i, nnfes, g_running, mon_h, mirror_h, interfaces, registered, mirroring_enabled,
                 cbpc, library, failed>>

CloseMirror ==
  /\ At("closemirror", "exit")
  /\ mirror_h' = Shut(mirror_h)
  /\ UNCHANGED <<i, nnfes, g_running, mon_h, cb_h, interfaces, registered, mirroring_enabled,
                 cbpc, library, failed>>

Main == \/ OpenMon \/ Configure \/ GetNfes \/ Mode \/ OpenMirror \/ OpenCb \/ Register \/ OpenInterface
        \/ Poll \/ CloseInterfaces \/ CloseMon \/ CloseCb \/ CloseMirror

\* quitme
Sigint ==
  /\ pc # "exit"
  /\ g_running' = 0
  /\ UNCHANGED <<pc, i, nnfes, handles, interfaces, registered, mirroring_enabled, cbpc, library, failed>>

-------------------------------------------------------------------------------
(* __linkstate_cb, on the library's thread. *)

callback == <<mirroring_enabled, cbpc, events>>
mainvars == <<pc, i, nnfes, g_running, handles, interfaces, registered, down, changes>>

\* Mutant: the initial status is only logged.
DispatchIgnoresInitial(event) ==
  CASE event.kind = "PORT_GROUP_DOWN" /\ mirroring_enabled = 0 -> "activate"
    [] event.kind = "ALL_LINKS_UP" -> "deactivate"
    [] OTHER -> "idle"

\* The switch: mirroring goes on with a failure at the start or a group that goes
\* down, unless it is on, and off with all links up.  The rest is logged.
Dispatch(event) ==
  CASE /\ \/ event.kind = "INITIAL_STATUS" /\ event.los
          \/ event.kind = "PORT_GROUP_DOWN"
       /\ mirroring_enabled = 0          -> "activate"
    [] event.kind = "ALL_LINKS_UP"       -> "deactivate"
    [] OTHER                             -> "idle"

Deliver ==
  /\ registered /\ cb_h = "open" /\ cbpc = "idle" /\ events # <<>>
  /\ cbpc' = Dispatch(Head(events))
  /\ events' = Tail(events)
  /\ UNCHANGED <<mainvars, mirroring, mirroring_enabled, failed>>

\* ns_linkstate_activate_mirror and ns_linkstate_deactivate_mirror.
SetMirror ==
  /\ \/ cbpc = "activate" /\ cbpc' = "enabled"
     \/ cbpc = "deactivate" /\ cbpc' = "disabled"
  /\ \E ok \in BOOLEAN :
       /\ Attempt(ok)
       /\ mirroring' = IF ok /\ mirror_h = "open" THEN cbpc = "activate" ELSE mirroring
  /\ UNCHANGED <<mainvars, mirroring_enabled, events>>

\* mirroring_enabled is set whether or not the call succeeded.
Remember ==
  /\ cbpc \in {"enabled", "disabled"}
  /\ mirroring_enabled' = IF cbpc = "enabled" THEN 1 ELSE 0
  /\ cbpc' = "idle"
  /\ UNCHANGED <<mainvars, mirroring, events, failed>>

Callback == Deliver \/ SetMirror \/ Remember

-------------------------------------------------------------------------------
(* The links and the library's events, in the order in which they happen. *)

Notify(kinds) == events' = IF registered /\ cb_h = "open"
                           THEN events \o [k \in DOMAIN kinds |-> Event(kinds[k])] ELSE events

GroupFails(g) ==
  /\ g \notin down /\ changes < MaxChanges
  /\ down' = down \union {g}
  /\ changes' = changes + 1
  /\ Notify(<<"PORT_GROUP_DOWN">>)
  /\ UNCHANGED <<pc, i, nnfes, g_running, handles, interfaces, registered, mirroring_enabled, cbpc,
                 mirroring, failed>>

GroupRecovers(g) ==
  /\ g \in down /\ changes < MaxChanges
  /\ down' = down \ {g}
  /\ changes' = changes + 1
  /\ Notify(IF down' = {} THEN <<"PORT_GROUP_UP", "ALL_LINKS_UP">> ELSE <<"PORT_GROUP_UP">>)
  /\ UNCHANGED <<pc, i, nnfes, g_running, handles, interfaces, registered, mirroring_enabled, cbpc,
                 mirroring, failed>>

Next == Main \/ Callback \/ Sigint \/ \E g \in Groups : GroupFails(g) \/ GroupRecovers(g)

\* Both threads keep running and each call to the library returns.
Spec == Init /\ [][Next]_vars /\ WF_vars(Main) /\ WF_vars(Callback)

-------------------------------------------------------------------------------
(* Correctness. *)

\* Whenever all events have been handled, the ports mirror exactly if a group is
\* down, however failures and recoveries overlap with starting and handling.
MirroringFollowsLinks ==
  registered /\ cb_h = "open" /\ events = <<>> /\ cbpc = "idle" /\ ~failed
    => (mirroring <=> down # {})

\* The callback never uses a mirror handle that main has closed.
CallbackHasMirror == cbpc \in {"activate", "deactivate"} => mirror_h # "closed"

HandlesInv == TypeOK /\ CallbackHasMirror

\* The program closes what it opened, on the early exits too.
ClosesWhatItOpened ==
  pc = "exit" => interfaces = {} /\ "open" \notin {mon_h, mirror_h, cb_h}

\* SIGINT ends the program at any moment, during the set-up too.
Stops == g_running = 0 ~> pc = "exit"
===============================================================================
