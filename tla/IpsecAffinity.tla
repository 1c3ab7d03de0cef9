----------------------------- MODULE IpsecAffinity ------------------------------
(***************************************************************************)
(* nfm_sample_ipsec_affinity.c: for the board it runs on, which CPUs each  *)
(* thread of the IPsec daemon may use.  The maps of the boards, in comments *)
(* of the source, tell which CPUs are two hyperthreads of one core, and     *)
(* which cores are on one socket.                                           *)
(***************************************************************************)
EXTENDS Integers, FiniteSets

CONSTANT MaxThreads   \* worker threads per NFE; MAX_THREADS has room for 16

ASSUME AffinityAssumption == MaxThreads \in Nat \ {0}

VARIABLES
  type, nfes, nt,  \* the type of NFE 0, the NFEs present, the workers of each
  call, err,       \* the next call of main; its exit status
  mask             \* mask[t]: the CPUs thread t may run on

affinityVars == <<type, nfes, nt, call, err, mask>>

\* What nfm_get_nfe_info tells of NFE 0, and how many NFEs nfm_get_nfes_present may find:
\* the program asks which it is and refuses no number.  The array mask has room for four.
Types == {"cayenne", "habanero", "geryon", "chrysaor", "other"}
Nfes == 1 .. 4

Control == <<"control">>
Spdwork == <<"spdwork">>
Pivot(n) == <<"pivot", n>>
Worker(n, i) == <<"worker", n, i>>

\* The cells of mask that have a name, for threads numbers up to k; the layout is
\* that of the TOFFSET macros: what ns_ipsec_set_cpu_affinity is given are those of
\* the NFEs present.
Workers(n, k) == {Worker(n, i) : i \in 0 .. k - 1}
ThreadsOf(n, k) == {Pivot(n)} \union Workers(n, k)
Threads(m, k) == {Control, Spdwork} \union UNION {ThreadsOf(n, k) : n \in 0 .. m - 1}

AffinityInit ==
  /\ type \in Types
  /\ nfes \in Nfes
  /\ nt \in 1 .. MaxThreads
  /\ call = "open" /\ err = 0
  /\ mask = [t \in Threads(4, nt) |-> {}]

-------------------------------------------------------------------------------
(* The masks. *)

\* 1 << cpu is an int, which is extended with its sign to the 64 bits of a mask.
Bit(cpu) == IF cpu = 31 THEN 31 .. 63 ELSE {cpu}

\* The switch over the number of Cayennes has no case for more than two, and no default.
NoCase == type = "cayenne" /\ nfes > 2

\* Where control, spdwork and pivots go.
ControlCpu == [cayenne |-> IF nfes = 1 THEN 4 ELSE 12, habanero |-> 20, geryon |-> 4,
               chrysaor |-> 1]

PivotCpu(n) ==
  CASE n = 0                                            -> ControlCpu[type]
    [] n = 1 /\ type = "cayenne"                        -> 13
    [] n = 1 /\ type = "habanero"                       -> 21
    [] OTHER                                            -> 28 + n

\* Mutant: every NFE has the CPUs of the first.
WorkerCpuOfFirst(n, i) ==
  CASE type = "habanero" /\ nfes = 2            -> (i % 9) + 1
    [] type = "habanero" /\ nfes = 4            -> (i % 4) + 2
    [] type = "cayenne" /\ nfes = 2             -> ((i % 10) \div 5) * 12 + 3 + 2 * ((i % 10) % 5)
    [] type = "chrysaor"                        -> (i % 1) + 2
    [] OTHER                                    -> (i % 3) + 1

WorkerCpu(n, i) ==
  CASE type = "cayenne" /\ nfes = 2 /\ n = 0    -> ((i % 10) \div 5) * 8 + 2 + 2 * ((i % 10) % 5)
    [] type = "cayenne" /\ nfes = 2 /\ n = 1    -> ((i % 10) \div 5) * 12 + 3 + 2 * ((i % 10) % 5)
    [] type = "habanero" /\ nfes = 2            -> (i % 9) + 1 + 10 * n
    [] type = "habanero" /\ nfes = 4            -> (i % 4) + <<2, 6, 12, 16>>[n + 1]
    [] type = "chrysaor"                        -> (i % 1) + 2
    [] OTHER                                    -> (i % 3) + 1

\* The NFEs whose pivot, and those whose workers, the switch places: of Geryons and
\* Chrysaors the first alone, however many there are.
Pivots ==
  CASE type = "habanero"                      -> IF nfes = 4 THEN 0 .. 3 ELSE 0 .. 1
    [] type = "cayenne"                       -> IF NoCase THEN {} ELSE 0 .. nfes - 1
    [] OTHER                                  -> {0}

WithWorkers ==
  CASE type = "habanero"                      -> IF nfes \in {1, 3} THEN {} ELSE 0 .. nfes - 1
    [] type = "cayenne"                       -> IF NoCase THEN {} ELSE 0 .. nfes - 1
    [] OTHER                                  -> {0}

Decided ==
  [t \in Threads(4, nt) |->
     CASE t \in {Control, Spdwork}                       -> IF NoCase THEN {}
                                                           ELSE Bit(ControlCpu[type])
       [] t[1] = "pivot" /\ t[2] \in Pivots              -> Bit(PivotCpu(t[2]))
       [] t[1] = "worker" /\ t[2] \in WithWorkers        -> Bit(WorkerCpu(t[2], t[3]))
       [] OTHER                                          -> {}]

-------------------------------------------------------------------------------
(* The program. *)

\* ns_ipsec_open
OpenIpsec ==
  /\ call = "open"
  /\ \/ call' = "query" /\ UNCHANGED err
     \/ call' = "done" /\ err' = 1
  /\ UNCHANGED <<type, nfes, nt, mask>>

\* Mutant: a type without a map is not refused.
QueryAnyType ==
  /\ call = "query"
  /\ \/ call' = "set" /\ UNCHANGED err /\ mask' = IF type = "other" THEN mask ELSE Decided
     \/ call' = "exit" /\ err' = 1 /\ UNCHANGED mask
  /\ UNCHANGED <<type, nfes, nt>>

\* ns_ipsec_get_num_threads, nfm_get_nfes_present, nfm_get_nfe_info, any of which may
\* fail; then the switch over the type of NFE, with a default that gives up.
Query ==
  /\ call = "query"
  /\ \/ type # "other" /\ call' = "set" /\ UNCHANGED err /\ mask' = Decided
     \/ call' = "exit" /\ err' = 1 /\ UNCHANGED mask
  /\ UNCHANGED <<type, nfes, nt>>

\* ns_ipsec_set_cpu_affinity
SetAffinity ==
  /\ call = "set"
  /\ call' = "exit"
  /\ err' \in {0, 1}
  /\ UNCHANGED <<type, nfes, nt, mask>>

\* exit: ns_ipsec_close
Exit ==
  /\ call = "exit"
  /\ call' = "done"
  /\ UNCHANGED <<type, nfes, nt, err, mask>>

AffinityNext == OpenIpsec \/ Query \/ SetAffinity \/ Exit

AffinitySpec == AffinityInit /\ [][AffinityNext]_affinityVars

-------------------------------------------------------------------------------
(* The boards: their CPUs, the core and the socket of each. *)

BoardPeg35 == [cpus |-> 0 .. 39, core |-> [c \in 0 .. 63 |-> c % 20],
               socket |-> [c \in 0 .. 63 |-> (c % 20) \div 10]]
BoardPeg30x2 == [cpus |-> 0 .. 23, core |-> [c \in 0 .. 63 |-> c % 12],
                 socket |-> [c \in 0 .. 63 |-> c % 2]]
BoardPeg30x1 == [cpus |-> 0 .. 7, core |-> [c \in 0 .. 63 |-> c % 4],
                 socket |-> [c \in 0 .. 63 |-> 0]]
BoardSmall == [cpus |-> 0 .. 3, core |-> [c \in 0 .. 63 |-> c \div 2],
               socket |-> [c \in 0 .. 63 |-> 0]]

Board == CASE type = "habanero"                -> BoardPeg35
           [] type = "cayenne" /\ nfes = 2     -> BoardPeg30x2
           [] type = "chrysaor"                -> BoardSmall
           [] OTHER                            -> BoardPeg30x1

Cpus(ts) == (UNION {mask[t] : t \in ts}) \intersect Board.cpus
Cores(ts) == {Board.core[c] : c \in Cpus(ts)}
Sockets(ts) == {Board.socket[c] : c \in Cpus(ts)}

\* The threads whose mask is meant to be one bit and is extended with its sign.
SignExtended == {t \in Threads(nfes, nt) : 63 \in mask[t]}
OtherThreads == ({Control, Spdwork} \union {Pivot(n) : n \in 0 .. nfes - 1}) \ SignExtended

-------------------------------------------------------------------------------
(* Correctness. *)

AffinityTypeOK ==
  /\ type \in Types /\ nfes \in Nfes /\ nt \in 1 .. MaxThreads
  /\ call \in {"open", "query", "set", "exit", "done"} /\ err \in {0, 1}
  /\ mask \in [Threads(4, nt) -> SUBSET (0 .. 63)]

\* Two Cayenne NFEs: the second half of the CPUs of NFE 0 begins at 10 and not at 14,
\* so that with more than five workers CPU 10 has two, and with more than six one of
\* them is on the CPU of the control threads, while 20 and 22 are idle.
SecondHalfTooLow(n, k) == type = "cayenne" /\ nfes = 2 /\ n = 0 /\ nt > k

\* The workers of two NFEs are never on one core, and no worker shares a core with the
\* control threads or a pivot (but with two Habaneros, where a worker of NFE 0 is on the
\* core of pivot 1, and with four, where pivot 3 may run anywhere from CPU 31 on); and
\* two workers of an NFE are on one CPU only when every CPU that NFE would ever use has
\* one.
WorkersApart ==
  call = "set" =>
    \A n \in 0 .. nfes - 1 :
      /\ \A m \in 0 .. nfes - 1 :
           m # n => Cores(Workers(n, nt)) \intersect Cores(Workers(m, nt)) = {}
      /\ \/ Cores(Workers(n, nt)) \intersect Cores(OtherThreads) = {}
         \/ SecondHalfTooLow(n, 6)
         \/ type = "habanero" /\ nfes = 2 /\ n = 0
      /\ \/ Cardinality(Cpus(Workers(n, nt))) = nt
         \/ n \notin WithWorkers
         \/ SecondHalfTooLow(n, 5)
         \/ Cpus(Workers(n, nt)) = {WorkerCpu(n, i) : i \in 0 .. MaxThreads - 1}

\* The threads that the program leaves without a CPU: all of three or four Cayennes; the
\* workers of one or three Habaneros, and the pivot of the third; and those of every
\* Geryon and every Chrysaor but the first.
Unplaced(t) ==
  \/ NoCase
  \/ type = "habanero" /\ nfes = 1 /\ t[1] = "worker"
  \/ type = "habanero" /\ nfes = 3 /\ (t[1] = "worker" \/ t = Pivot(2))
  \/ type \in {"geryon", "chrysaor"} /\ t[1] \in {"pivot", "worker"} /\ t[2] > 0

\* When the program has told that it succeeded, every thread that is configured has been
\* given exactly one CPU, of the board, and an NFE's pivot and workers are on one socket:
\* except the threads of Unplaced, which are given none, the pivot of the fourth of four
\* Habaneros, which is given all from CPU 31 on, and the second pivot of two Habaneros, on
\* the wrong socket.
EveryThreadPlaced ==
  /\ AffinityTypeOK
  /\ call = "done" /\ err = 0 =>
       \A n \in 0 .. nfes - 1 : \A t \in ThreadsOf(n, nt) \union {Control, Spdwork} :
         /\ IF Unplaced(t) THEN mask[t] = {}
            ELSE \/ Cardinality(mask[t]) = 1 /\ mask[t] \subseteq Board.cpus
                 \/ t \in SignExtended /\ nfes = 4 /\ t = Pivot(3)
         /\ \/ Cardinality(Sockets(ThreadsOf(n, nt))) = 1
            \/ type = "habanero" /\ nfes = 2 /\ n = 1
            \/ Unplaced(Pivot(n))
===============================================================================
