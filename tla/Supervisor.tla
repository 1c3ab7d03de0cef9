------------------------------ MODULE Supervisor ------------------------------
(***************************************************************************)
(* nssupervisord-script-for-xs-or-arm: a shell loop that sweeps a list of  *)
(* services every CHECK_INTERVAL seconds, runs the start command of those  *)
(* pidof does not find, and gives a service up after MaxAttempts failed    *)
(* starts in a row.  The services live their own life meanwhile: they die, *)
(* and somebody else may start them.                                       *)
(***************************************************************************)
EXTENDS Integers

CONSTANTS N,            \* the number of services, numbered in startup order
          HasCommand,   \* those that have a cmd_<name>
          MaxAttempts   \* MAX_RESTART_ATTEMPTS

Services == 1 .. N

ASSUME SupervisorAssumption == /\ N \in Nat \ {0}
                               /\ HasCommand \subseteq Services
                               /\ MaxAttempts \in Nat \ {0}

VARIABLES
  stmt,       \* the next statement of the sweep
  svc,        \* the service it is at
  running,    \* cleared by the trap
  alive,      \* alive[s]: a process of service s exists
  failcount,  \* failcount[s], the script's own count
  streak,     \* failed starts since s was last found running (history)
  givenUp     \* how often "giving up" was logged since then (history)

supervisorVars == <<stmt, svc, running, alive, failcount, streak, givenUp>>

SupervisorTypeOK ==
  /\ stmt \in {"loop", "probe", "start", "tally", "advance", "exit"}
  /\ svc \in Services
  /\ running \in {0, 1}
  /\ alive \in [Services -> BOOLEAN]
  /\ failcount \in [Services -> 0 .. MaxAttempts]
  /\ streak \in [Services -> Nat]
  /\ givenUp \in [Services -> Nat]

SupervisorInit ==
  /\ stmt = "loop" /\ svc = 1 /\ running = 1
  /\ alive \in [Services -> BOOLEAN]
  /\ failcount = [s \in Services |-> 0]
  /\ streak = [s \in Services |-> 0]
  /\ givenUp = [s \in Services |-> 0]

-------------------------------------------------------------------------------
\* Mutant: the sweep never looks at the flag again.
SweepForever ==
  /\ stmt = "loop"
  /\ svc' = 1
  /\ stmt' = "probe"
  /\ UNCHANGED <<running, alive, failcount, streak, givenUp>>

\* while [ $running == 1 ], after the sleep of the previous sweep.
Sweep ==
  /\ stmt = "loop"
  /\ svc' = 1
  /\ stmt' = IF running = 1 THEN "probe" ELSE "exit"
  /\ UNCHANGED <<running, alive, failcount, streak, givenUp>>

\* Mutant: a service that was given up is started again.
ProbeNeverGivesUp ==
  /\ stmt = "probe"
  /\ \/ /\ alive[svc]
        /\ failcount' = [failcount EXCEPT ![svc] = 0]
        /\ streak' = [streak EXCEPT ![svc] = 0]
        /\ givenUp' = [givenUp EXCEPT ![svc] = 0]
        /\ stmt' = "advance"
     \/ /\ ~alive[svc]
        /\ stmt' = IF svc \in HasCommand THEN "start" ELSE "advance"
        /\ UNCHANGED <<failcount, streak, givenUp>>
  /\ UNCHANGED <<svc, running, alive>>

\* check_service up to its start command: a service pidof finds is well; one it
\* does not find is started, unless it was given up or has no command.
Probe ==
  /\ stmt = "probe"
  /\ \/ /\ alive[svc]
        /\ failcount' = [failcount EXCEPT ![svc] = 0]
        /\ streak' = [streak EXCEPT ![svc] = 0]
        /\ givenUp' = [givenUp EXCEPT ![svc] = 0]
        /\ stmt' = "advance"
     \/ /\ ~alive[svc]
        /\ stmt' = IF failcount[svc] # MaxAttempts /\ svc \in HasCommand
                 THEN "start" ELSE "advance"
        /\ UNCHANGED <<failcount, streak, givenUp>>
  /\ UNCHANGED <<svc, running, alive>>

\* The start command.  Exit status 0 promises a daemon, which may die at once;
\* another status is counted.
StartService ==
  /\ stmt = "start"
  /\ \/ /\ stmt' = "advance"
        /\ \E up \in BOOLEAN : alive' = [alive EXCEPT ![svc] = @ \/ up]
        /\ UNCHANGED streak
     \/ /\ stmt' = "tally"
        /\ streak' = [streak EXCEPT ![svc] = @ + 1]
        /\ UNCHANGED alive
  /\ UNCHANGED <<svc, running, failcount, givenUp>>

\* Mutant: the count starts over when it is exhausted.
TallyWraps ==
  /\ stmt = "tally"
  /\ failcount' = [failcount EXCEPT ![svc] = (@ + 1) % MaxAttempts]
  /\ givenUp' = [givenUp EXCEPT ![svc] = IF failcount'[svc] = MaxAttempts THEN @ + 1 ELSE @]
  /\ stmt' = "advance"
  /\ UNCHANGED <<svc, running, alive, streak>>

\* let failcount++, and the log message that gives the service up.
Tally ==
  /\ stmt = "tally"
  /\ failcount' = [failcount EXCEPT ![svc] = @ + 1]
  /\ givenUp' = [givenUp EXCEPT ![svc] = IF failcount'[svc] = MaxAttempts THEN @ + 1 ELSE @]
  /\ stmt' = "advance"
  /\ UNCHANGED <<svc, running, alive, streak>>

\* Mutant: the sweep stops at the first service that has been given up.
AdvanceStopsAtGivenUp ==
  /\ stmt = "advance"
  /\ \/ /\ svc < N /\ failcount[svc] < MaxAttempts
        /\ svc' = svc + 1 /\ stmt' = "probe"
     \/ /\ svc = N \/ failcount[svc] = MaxAttempts
        /\ stmt' = "loop" /\ UNCHANGED svc
  /\ UNCHANGED <<running, alive, failcount, streak, givenUp>>

\* The next service of the list, or the sleep between two sweeps.
Advance ==
  /\ stmt = "advance"
  /\ \/ svc < N /\ svc' = svc + 1 /\ stmt' = "probe"
     \/ svc = N /\ stmt' = "loop" /\ UNCHANGED svc
  /\ UNCHANGED <<running, alive, failcount, streak, givenUp>>

\* The trap of INT and TERM.
Terminate ==
  /\ stmt # "exit"
  /\ running' = 0
  /\ UNCHANGED <<stmt, svc, alive, failcount, streak, givenUp>>

\* A service dies.
Die(s) ==
  /\ alive[s]
  /\ alive' = [alive EXCEPT ![s] = FALSE]
  /\ UNCHANGED <<stmt, svc, running, failcount, streak, givenUp>>

\* A service is started by someone else, an administrator or an init script.
StartedByHand(s) ==
  /\ ~alive[s]
  /\ alive' = [alive EXCEPT ![s] = TRUE]
  /\ UNCHANGED <<stmt, svc, running, failcount, streak, givenUp>>

Step == Sweep \/ Probe \/ StartService \/ Tally \/ Advance

SupervisorNext == Step \/ Terminate \/ \E s \in Services : Die(s) \/ StartedByHand(s)

\* The shell keeps running; nothing else is owed.
SupervisorSpec == SupervisorInit /\ [][SupervisorNext]_supervisorVars /\ WF_supervisorVars(Step)

-------------------------------------------------------------------------------
(* Correctness. *)

\* A service is given up exactly after MaxAttempts failed starts in a row, no
\* start is tried beyond that, and the log says so once.
GivesUpExactlyOnce ==
  \A s \in Services :
    /\ streak[s] <= MaxAttempts
    /\ givenUp[s] <= 1
    /\ (stmt # "tally" \/ svc # s) => (givenUp[s] = 1 <=> streak[s] = MaxAttempts)

\* The script restarts a dead service, whatever it does about the others, until
\* it is given up or the script is told to stop.
NeedsStart(s) == running = 1 /\ ~alive[s] /\ streak[s] < MaxAttempts
DeadServiceIsStarted ==
  \A s \in HasCommand :
    NeedsStart(s) ~> (alive[s] \/ running = 0 \/ (stmt = "start" /\ svc = s))

\* A stop request ends the script, however many services keep failing.
StopsWhenTold == running = 0 ~> stmt = "exit"
===============================================================================
