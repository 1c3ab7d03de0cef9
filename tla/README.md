# Network Flow Manager samples: TLA+ models, checks and proofs

The repository holds about forty small host programs (`src/samples/`) for a
Netronome flow engine: each is a client of libraries and daemons that are not in
the repository (packet devices, the rules daemon `rulesd`, link state, counters,
cluster heartbeats, forwarding). What can go wrong in them is little
arithmetic and much *order*: signals between two statements, calls that fail in
the middle of a sequence, callbacks on a library's thread, two clients of one
device. That is what the modules here describe.

## Inventory

| Component | State | Operations | Hard behaviour | Correct when |
|---|---|---|---|---|
| packet loops (`packet`, `packet_flow_modify`, `ntuple_modify`, `flowstats`) | `running`, the `ns_packet_t`, the buffers of the card | receive, verdict, transmit, destroy, close, signal | signals against a blocking call; failed receive and transmit; several programs on one pool | no buffer is used after it was given back, none is lost, a stop is heard |
| packet recorder (`pcap_record`) | `pcapfile`, the file, `numpkts`, `numbytes` | open, header, record, count, close, SIGUSR1 | short writes, full disk, kill, signals between two counters | the file is always readable up to its end, and the counters follow it |
| supervisor (`nssupervisord-...`) | `failcount_*`, `running` | probe, start, tally, sweep, terminate | services that die, flap, fail to start; a signal in a sweep | every dead service is tried until given up, once |
| heartbeat (`heartbeat`) | global counters, `hb_s` | send, broadcast, report | SIGINT between any two statements | the report is true, or off by the heartbeat in progress |
| link state (`linkstate`) | `mirroring_enabled`, handles | set-up, poll, callback, close | callback thread, events during the set-up, failing calls | mirroring follows the links |
| rule clients (`rules_*`) | handle, key, action, rules added, exit status | init, setup, flush, add, commit, read back, close | any call fails; another client changes the rules | exit status, rules in force and freed resources agree |
| monitor (`monitor`) | pidfile, number of NFEs, results of one sweep | start-up, probes of daemons, NFEs, endpoints, pools, end | probes skipped, stale results, unanswered query for the NFEs, full disk, two monitors | a fault is reported, a healthy system is not; the pidfile names who runs |
| counters (`cntr`) | request in flight, sequence number | send, receive, poll | retries, results of another request | each row is the one asked for |
| playback (`pcap_playback`, `pcap_l3_forward`) | the side of each address, the frame in hand | read, learn, create, transmit | learning from unknown pairs; a packet that cannot be created | an address keeps one side, two camps stay apart, every frame is sent |
| forwarding (`configure_forwarding`, `nd_adverts`, `l2_static_entry`, `neigh_entries`) | a handle, what is set and committed | open, set, commit, close | early exits, a call that fails half way | all or nothing where there is a commit, in order where there is none; no handle stays open |
| high availability (`ha_*`, `peg35_*`) | groups, masks, rules | set, read back | partial configuration | what is read back is what was set |
| load balancing and ports (`lb`, `get_ports`, `load_balance.sh`, `bump_port`, `indtbl`) | groups, tables | set, show | values kept from an earlier iteration | the configuration is what was asked for, what is shown belongs to the card it is shown for |
| IPsec (`ipsec`, `ipsec_affinity`) | CPU masks | query, compute, set | shift widths, first CPUs of each NFE, numbers of NFEs without a case | every thread has a CPU, two workers share one only when they must |
| printers (`dump_ifids`, `ifid`, `log`, `platform`, `portstats`, `cntr_l2_l3`, `monitor_me`) | a handle | query, print, wait | a query that fails, SIGINT while closing | what is printed was answered to the question before |

How they interact: the programs do not call each other. The packet loops and the
recorder share the buffer pool and the reject table of one card (`WireLoop`).
The rule clients share `rulesd` and the hardware table with each other and with
any other client (`OthersFlush` and `OthersAdd` in `ConfigClient`). Two monitors share
one pidfile (`Other...` in `Monitor`). The link-state program shares
globals with the library's thread that runs its callback. The supervisor acts on
daemons through `pidof` and start commands. Everything else is a process on its
own, talking to the libraries.

## Modules

| Module | What it is |
|---|---|
| `BufferPool` | abstract: a buffer is in the card, in one program's hand, or lost by a careless program |
| `WireLoop`, `WireLoopProofs` | the packet loops, which refine `BufferPool` |
| `PcapRecord`, `PcapRecordProofs` | the recorder |
| `Supervisor` | the supervisor script; its proofs are in `MonitorProofs` |
| `Heartbeat`, `HeartbeatProofs` | the heartbeat program |
| `LinkState`, `LinkStateProofs` | the link-state program |
| `Monitor`, `MonitorProofs` | the health monitor and its pidfile; the proofs also of `Supervisor` |
| `Counters`, `CountersProofs` | the counter reader |
| `Playback`, `PlaybackProofs` | the two programs that replay a capture |
| `ConfigClient`, `ConfigClientProofs` | the 32 programs that configure or print something; the proofs also of `IpsecAffinity` |
| `IpsecAffinity` | the CPU masks of IPsec |
| `MC...` | each component with the small sets its `.cfg` uses |

In every module `pc` names the next statement of a program (`stmt` in `Supervisor` and
`call` in `IpsecAffinity`, which share a module of proofs with another); an action is one
statement, or one call with what the code does on its failure; the disjuncts of
an action are the outcomes of the call. A variable marked *history* is read by
properties only. Every operator whose comment begins with "Mutant" is a
plausible mistake in the definition that follows it, used to show that a
property would catch it; no specification uses one.

### WireLoop

`prog[h]` says which of the four programs host `h` runs. `pc[h]` runs through
`open`, `top` (`while (running)`), `enter` (the call of `ns_packet_receive`),
`recv` (blocked in it), then `verdict`, `transmit`, `drop` or `destroy`, and
`close`. Splitting `top`, `enter` and `recv` is what exposes the window in which
a signal is not noticed: the flag has been read, and receive does not return for
a signal that came before it. `buf` has a location for each buffer (`pool`, `rx`
queue, `host`, `wire`), `pckt[h]` the buffer the program's `ns_packet_t` names,
live or stale. `rejected` is the reject table a `*_modify` program fills.

What is left to the library and taken from its use: a failed transmit leaves the
buffer with the caller (the code destroys it then), closing the device gives the
queued packets back, and a signal makes a blocked receive fail.

### PcapRecord

`handle` is `pcapfile`, `stream` what is behind it, `file` the items written,
each of which is the file header, a record header, the data of a record, or the
torn beginning of one; `disk` is how many have left the stdio buffer. The two
counters are two actions, with `SigUsr1` possible in between. `Kill` is SIGKILL
or power failure. The length of a packet is 1, so that bytes and packets can be
compared.

### Supervisor

A service is alive or not, has a command or not, and has a failure count. `Probe`
is `check_service` up to the start command, `StartService` that command, `Tally` what
follows a failed one, `Advance` the inner loop; `stmt` is the statement the script is at.
Services die and are started by others at any moment.

### Heartbeat

One action per statement that touches a counter. `Result` is `heartbeat_result`,
called by `Finish` at the end and by `Sigint` between any two actions.

### LinkState

The main thread goes through its set-up, polls and closes. The library queues
events for the callback, which takes one at a time; `Dispatch` is its switch.
Assumed of the library: events come in order, the first is the status at the
moment of registering, and closing the callback handle waits for a callback that
runs. Each failing call sets `failed` and the program goes on, as the code does.

### ConfigClient

Thirty-two programs that configure or print something are straight lines of library
calls. `Script` has each one as a sequence of steps, with what the failure of a step
leads to: `goto` is the label at the end of `main` (or the function `atexit` calls),
`return` an exit that closes nothing, `free` the label of `add_rule`, `dump` the end of
`read_rule`, `skip` the end of an iteration, `ignored` no test at all, `later` one further on (`ret` of
`display_prefixes`, which prints first and is tested after that). The actions
interpret the sequence against what is added and not committed, what is in force
(`hw`), allocated keys and actions, and the handle. `Intended` says independently of the
sequences what should be in force after them, `Committed` which part of it only a commit
puts there. A loop over rules, interfaces, settings or ports is written once, between
`ForEach` and `EndFor`, and done `N` times: `i` is the round, `Loop` enters or leaves it,
`LoopBack` goes from its end to its beginning, and a failure with `skip` to its end.
`number` counts the additions and settings, which are what `Intended` numbers, and `asked`
the questions. A few programs are in the form of certain options, which the comment on the
sequence names; `nfm_sample_platform` is two sequences, without a switch card and with one.
`groups` says that the load balance groups of an earlier run of `load_balance.sh` are still
there beside the rules: `nfm_sample_lb -c` of the script clears them (`Clear`), and when it
fails the shell goes on. `indtbl` asks for its first and last port without looking at the
results; once one of the questions was not answered (`Unbounded`) its loop may end after
any number of rounds, also none.

Two programs read rules back in a loop: `ReadEntry` and `ReadEof` are that of
`rules_via_host_v6 -r`, `Verify` the comparison of `rules_ports` with the rules it
expected. A program that prints is a sequence of questions and uses: `Ask` numbers the
questions, and `uses` records for each use which question it was about and which one had
last been answered; the size that is offered for an answer is recorded in the same way.

Assumed of the libraries: what `ns_rule_add_rule` and `ns_fwd_attach_log_intf` add
waits for the commit, whereas settings without a commit after them (which the
programs read back at once) are in force immediately; a clearing call is, too. And that a
commit is atomic: one that fails leaves nothing of what was added in force, and that a
clearing call that fails leaves what there was. Another client may flush or add rules at any moment, and `rulesd` may fail for good.

### Counters

`Plan` is what `main` does, in order; `t` is the part it is at. `asked` has the item
of each request, and a request is on its `way`, `ready`, `lost`, or received. `raw`
holds the name of the item its value is of, so that printing `raw` for something
else is seen. The loops around `ns_cntr_recv` do nothing on `RETRY_LATER` except
count the tries of a row or column, so only that is an action. Assumed of the
library: sequence numbers are not reused, and an answer is received once.

### Monitor

A fault is a kind and the card it is on, and `faults` is the set of those there
are; `Break` and `Repair` change it between any two probes. `pc` is the next
probe, `log` the messages of this sweep in the vocabulary of faults, `always`
and `ever` are history: what was wrong during all of the sweep, and at some time
of it. The two tables at the end say what the code cannot tell apart: `Masks`,
which faults hide another one, and `Confused`, which ones are reported as it.
The build without the GERCHR card is modelled. `attached_card` has no part in
it: it is set only when no switch card is found, where it is not reported.
`heartbeats` starts as 0 and is an arbitrary choice after a failed read.

`nfes` is the number of NFEs the program goes through. It is never initialised and
`nfm_get_nfes_present` is not checked, so `GetNfes` makes it `NNfes`, or leaves it what it
happened to be: then cards are not probed, or cards that do not exist are, of which every
probe fails, or with more than `MAX_NFES` the arrays of the loop are overrun. What the
process does after that is not modelled; `Overrun` takes it to end.

`pidfile` says whose pid is in `/var/run/nfm-sample-monitor.pid`. `Start` removes it
before it looks at the options, `OpenPidfile` creates it, `WritePidfile` is the `fprintf`
into the buffer of the stream and `ClosePidfile` the `fclose` that writes it, whose result
is dropped: on a full disk the file stays empty (`lost`). `Exit` is the function `atexit`
calls. `other` is a second monitor that is started, writes, ends
or is killed at any point of the first one.

### Playback

`prog` is one of the two programs. The file is `left`, the number of frames still in
it; the addresses of each frame are chosen when it is read. `Learn` is the four cases of
`process_next_packet`, with `if_map` as in the code. In a capture of link type
`DLT_LINUX_SLL` the header is faked behind the two bytes the addresses are read from,
so that all frames have one source: `FakeSource`, `FakeDests`. `frames`, `fresh` (frames
of which neither address was known) and `unsent` are history. A packet that could not be
created is used all the same in `pcap_playback`, where the choice is a crash or a
transmit of what an earlier frame left.

### IpsecAffinity

`Types` are the types the first NFE may have and `Nfes` the numbers of them there may be:
the program does not compare the two, and the array of masks has room for four. `NoCase`,
`Pivots` and `WithWorkers` say for which of them the switch has a case; the threads of the
others have no CPU (`Unplaced`), and the program reports success all the same. The four maps
at the head of the source file (sockets, cores and CPUs of each board) are `BoardPeg35`,
`BoardPeg30x2`, `BoardPeg30x1` and `BoardSmall`. `WorkerCpu`, `PivotCpu` and `ControlCpu` are the arms
of the switch, `Bit` the shift: `1 << 31` is an `int` and is extended by its sign to
the 64 bits of the mask.

## Checks

| Run | Bounds | What it shows |
|---|---|---|
| `wire_loop` | 2 hosts with two mixes of the four programs, 2 buffers, 2 flows of which 1 is HTTP | ownership, leaks, stopping, reasons for destroying, liveness, refinement of `BufferPool` |
| `pcap_record` | 3 packets | prefix, handle, counters, what is on the disk at the end |
| `supervisor` | 3 services, 1 without a command, limit 2 | giving up, restarting, forgiving, stopping |
| `heartbeat` | 2 rounds, 2 entries, times 1 and 3 around a default of 2 | reports, interrupted or not |
| `heartbeat_sigint` | the same | **violated**: division by zero |
| `link_state` | 2 groups, 2 NFEs, 4 changes | mirroring, closing, ending |
| `config_client` | N = 2, 2 entries of a port range | exit status against configuration and resources, what is printed, ending |
| `counters` | 2 polls, 2 tries, 2 rows, 1 column | values against requests, ending |
| `monitor` | 2 NFEs, arrays for 3, 0 to 4 after a failed query; 2 things wrong at once, 1 change in a sweep, a second monitor once | faults against messages, the pidfile |
| `monitor_heartbeat` | the same | **violated**: microengines that run are reported |
| `playback` | 4 addresses, 2 faked destinations, 5 frames, cooked or not | ports of addresses and of camps, frames sent |
| `ipsec_affinity` | every type, 1 to 4 NFEs, 1 to 16 workers | which threads share what |

Why the bounds suffice. Hosts share only the pool and the reject table, so two
of them show every interference, with one buffer each to hold and a competition
for both. The mixes (`reject` with `flowstats`, `forward` with `drop`) have each program
beside one that behaves differently; the theorems are about any mix. In `PcapRecord` the loop repeats from the second packet on. In
`Supervisor` three services give one before, one without command and one behind;
two attempts separate "failed", "failed for the last time" and "given up". In
`Heartbeat` the two times lie on both sides of `DEFAULT_TIMEOUT`, the initial
minimum, and two rounds give a first and a later heartbeat. In `LinkState` four
changes let both groups fail and recover, or one flap twice; two groups separate
`PORT_GROUP_UP` from `ALL_LINKS_UP`. In `ConfigClient` two of
anything separate "none", "some" and "all". In `Counters` two polls give a first and
a last one, two tries a retry and the last one, two rows and a column a line after
a line of either kind. In `Monitor` two faults show each one that hides or imitates
another, two NFEs that nothing passes from one to the next, and one change per
sweep that nothing passes from sweep to sweep; every probe of a sweep reads one
fault or two. A pid that was not written, a wrong number of NFEs and a second monitor count
as one of the two things that are wrong (`Room`); the third place in the arrays lets the
monitor probe an NFE that does not exist, and 4 run past them. In `Playback` four addresses are two on each side of a link, or a gateway
and three behind it; five frames are two pairs guessed from scratch and any frames
after them; addresses are symmetric. `IpsecAffinity` has every type with every
number of NFEs and of workers that the array `mask` has room for, 4 and 16; beyond those
the program overruns it, which is not modelled. A loop of `indtbl` with unknown bounds has
at most N rounds. What the runs show of these
two, and of all the other invariants, is proved without the bounds below. `MaxPackets`,
`MaxChanges`, `MaxFaults` and `MaxFrames` are bounds in guards or initial
states; that a second monitor comes once is one in `OtherStarts`; the other constants are
parameters of the programs.

`CHECK_DEADLOCK FALSE` is set because all these programs end.

### Fairness

`WireLoop`: each process is scheduled (`WF` on its next statement); a blocked
receive owes a return only when there is a packet or it was interrupted, so nothing
is assumed of signals, traffic, the wire or device errors. `Stops` therefore
excludes exactly the window described above. `Supervisor`: the script keeps running
and its commands return. `LinkState`: both threads do. `Counters`: the program runs,
and the card answers each request it does not lose; `Stuck` names the waits in
which the program then still stays. `ConfigClient`: the program runs, and nothing else is
owed: other clients, signals, a working `rulesd` and the message `monitor_me` waits for are
not, and the waits for the last two are again `Stuck`. No strong fairness is used.

## Proofs

`tlapm` proves the following for all values of the constants. A module `XProofs` holds
what is proved of `X`; a property alone is seldom inductive, and what had to be added is
the argument.

- `WireLoopProofs`: `TypeOK`, `OwnsWhatItHandles`, `NoBufferLeak`, `AtMostOneAfterStop`,
  `DestroyedForAReason`, and that every step is a step of `BufferPool` or leaves it
  unchanged under the mapping of `Pool`. The first three are inductive together with
  `Addressed`, that a queued or received buffer belongs to a host. That a failed
  receive, transmit or close keeps `NoBufferLeak` needs to know that the buffer in `pckt`
  is the one the program owns, and `OwnsWhatItHandles` needs that a buffer comes to one
  host. `LateInv` adds to `late <= 1` that `late` is 0 wherever the program is
  about to enter receive or waits in it: there the flag has already been read, and one
  packet may still come. `DropInv` says what a program about to drop a packet has seen;
  it survives other programs because nobody else touches a buffer in hand
  (`HeldKeepsFlow`).
- `PcapRecordProofs`: `TypeOK`, `RecordingIsPrefix`, `HandleIsLive`,
  `RecordedBeforeCounted`, `AccountsForAll`. What is written next depends on `pc` and
  `received`, so the invariant ties the length of the file to both (`Length`), and the
  counters to `received`; `Accounts` adds that a stream is closed early for a full disk
  only.
- `MonitorProofs`, of `Supervisor`: `SupervisorTypeOK`, `GivesUpExactlyOnce`. `Tallied` counts a service's
  failures in a row independently of the script (`streak`, history) and says that it is
  the script's count, or one more at `tally`; that the number of announcements is 1
  exactly at the limit. `MayStillTry` says that a service being started is below it,
  which is why the test for equality suffices.
- `HeartbeatProofs`: `StatisticsInv`, `FinalReportExact`, `InterruptedReportOffByOne`,
  `CrashOnlyInFirstAck`. `Counted` says at each statement which counters already include
  the answer in progress; `Enclosed` which of the extremes do; `SumEnclosed` that the
  sum lies between count times minimum and count times maximum, which bounds the average.
- `LinkStateProofs`: `HandlesInv`, `MirroringFollowsLinks`, `ClosesWhatItOpened`.
  `EventsFit`: among the events on their way, the last one that turns the mirroring on
  or off fits the links, and if there is none, what the callback has done does. `Handles`
  says what is open at each place of the main thread.
- `MonitorProofs`: `LogInv`, `FaultIsReported`, `PidfileIsHonest`. `Place` numbers the
  probes of a card and `Due` says by which one a fault must have been noticed; `Progress`
  that whatever is past is logged or masked, `Reasons` what the messages to come rest on.
  All of it is for any outcome of the query for the number of NFEs.
- `CountersProofs`: `ChannelInv`, `AnswersMatch`. `RightItem`: a request outstanding is
  the last one, and was for the item the program is at; `Few` bounds the requests sent
  before each part of the plan, `PrintedSoFar` says that what is past was printed.
- `PlaybackProofs`: `OnePortPerAddress`, `CampsApart`, `AllReplayed`. A port is the side
  of the source (`PortsAreSides`); while at most one pair was guessed, two known
  addresses have the same side exactly if they are in the same camp (`SidesTellCamps`);
  a gateway is in every frame, so no second pair is guessed (`OneGuessWithGateway`).
- `ConfigClientProofs`: `ResourcesInv`, `PrintsWhatItAsked`, `NeverHalfInstalled`,
  `SuccessMeansInstalled`, for loops of any length. The argument has two halves. `Since`
  says of a sequence of steps, without a state, that something was done on the way to a
  step and not undone since, and `Neutral` that jumping back to the beginning of a loop, or
  on to its end, does not change that; seven predicates made of these (`Orderly`,
  `Freeing`, `Closing`, `Frank`, `CountedInOrder`, `InTurn`, `AsIntended`) say what is
  orderly about a program, and are shown of each of the 32 sequences. Then the actions are
  shown to preserve `IInv` for whatever sequence has the seven: `Course` is about the step
  and the round, `Handles`, `Freed` and `Printed` about what the program holds, `Installed`
  says that `number` is what the step and the round make it (`Counted`) and that what was
  added is `1 .. number` until the commit, `Noticed` where a failure leads, `Confirmed` how
  far `rules_ports` has compared. A program added to `Script` needs its seven lemmas only;
  where a predicate excepts a program (`Leaky`, `LeftOpen`, `Stale`), the properties do.
- `ConfigClientProofs`, of `IpsecAffinity`: `WorkersApart`, `EveryThreadPlaced`, for every
  type with one to four NFEs and any number of workers. `AffinityIInv` only says that the
  masks are the `Decided` ones; the rest is about those. `PivotOrNone` and `WorkersOrNone`
  show that the threads without a case are exactly those of `Unplaced`, `CpusOfWorkers` says
  for each of the `Cases` on which cores and socket the CPU of any worker is, `CpusOfOthers` which CPUs control threads
  and pivots have, `CpusComeRound` after how many workers the CPUs of an NFE are used up: as
  many CPUs as workers before that (`OneCpuEach`), all of them after it.

The only assumptions are the named ones on the constants (`WireAssumption`,
`PcapAssumption`, `SupervisorAssumption`, `HeartbeatAssumption`, `LinkStateAssumption`,
`MonitorAssumption`, `CountersAssumption`, `PlaybackAssumption`, `ConfigAssumption`,
`AffinityAssumption`).

Every invariant of a passing run is proved. Model-checked only: all liveness properties
(`Stops`, `DeadServiceIsStarted`, `StopsWhenTold`, `Ends`), which are beyond this prover.

## Findings

1. `nfm_sample_heartbeat.c:174` divides by `hbs`, which is 0 when SIGINT comes
   between line 209 and line 212 of the first heartbeat, although line 162 was
   written for this moment. `CrashOnlyInFirstAck` shows that there is no other.
2. `nfm_sample_monitor.c:541` reads a heartbeat that was not fetched and may
   report running microengines as stopped.

The following are not contradicted by a text in the repository, but each had to be
named as an exception in a property that otherwise holds.

- Packet loops and recorder: flowstats loses the buffer of a failed transmit
  (`NoBufferLeak`).
- Heartbeat: a failed broadcast is counted with old values (`FinalReportExact`), and the
  minimum is never above `DEFAULT_TIMEOUT` (`RangeIsMeasured`).
- Link state: a failed activation of mirroring is remembered as done
  (`MirroringFollowsLinks`).
- Rule clients (`SuccessMeansInstalled`): `rules_pass` and `rules_fill` ignore the failure of
  `ns_rule_add_rule`; `rules_actions` exits with 0 after a failed call (line 339);
  `rules_ports` confirms rules that are not all there, and reads past `expected[]`, when
  another client changes them before it reads them back (lines 153 and 159). The loops of
  `rules_via_host_v6 -r` (line 232) and of `get_ports` (line 134) do not end when `rulesd`
  keeps failing (`Ends`).
- Other configuration programs: `nd_adverts` with one end of an interval leaves its
  handle open, `ha_nmsb_config` always does (`NothingLeaked`). `nd_adverts` prints the
  prefixes before it knows whether it was given them (lines 118 to 121,
  `PrintsWhatItAsked`). `indtbl` does not look whether it was told its ports (lines 114 and
  115), and may set others, or none, and exit with 0; `load_balance.sh` goes on when its
  `nfm_sample_lb -c` (line 66) fails, with the old groups in force (`SuccessMeansInstalled`).
- Printers: `dump_ifids` may close its handle twice on SIGINT (`ClosesOnce`); `get_ports`
  shows the group of an earlier card for one that has none, and `ha_flowsync` offers a
  buffer with the size of an earlier answer (`PrintsWhatItAsked`).
- Monitor: the results of `fclose` on the pidfile (line 437) and of `nfm_get_nfes_present`
  (line 441) are not looked at: the daemon may run beside an empty pidfile, and may leave
  NFEs unprobed or report some that do not exist (`PidfileIsHonest`, `FaultIsReported`,
  `NoFalseAlarm`). A platform daemon that is down is also reported as endpoints that are, and a
  query of the buffer pools that fails is reported as anything, or ends the monitor
  (`Confused`). A second monitor, if only for its `-h`, removes the pidfile, and so does
  the end of either (`PidfileIsHonest`).
- Counters: regions print an old value when they cannot be read (`AnswersMatch`); the
  reader waits for ever for a lost answer, and on a broken connection when it cleans up
  (`Ends`).
- Playback: a cooked capture leaves through one port (`OnePortPerAddress`); pairs of
  addresses that are both unknown are guessed, and two guesses may put the camps together
  (`CampsApart`); `pcap_playback` does not notice a packet that could not be created
  (`AllReplayed`).
- IPsec: with two Cayenne NFEs the second half of the workers of NFE 0 starts 8 CPUs on
  (line 236) where that of NFE 1 starts 12 on (line 239): CPU 10 has two workers from the
  sixth on, CPU 12 one beside the control threads from the seventh on, 20 and 22 are idle.
  With two Habaneros pivot 1 is on the socket of NFE 0 and on the core of one of its
  workers; with one or three the workers have no CPU at all; with four, `1 << 31` lets
  pivot 3 run on every CPU from 31 on (`WorkersApart`, `EveryThreadPlaced`). Three or four
  Cayennes (lines 221 to 242) have no case, and of Geryons and Chrysaors (lines 270 to 284)
  only the first NFE has one: the others' threads have empty masks, and the program reports
  success (`Unplaced`).

## Not modelled

- The build with `GERCHR` of the monitor (a target of the Makefile): its card is probed
  like the NMSB with the calls of another library.
- The callbacks of `flowstats`: the one at the start of a flow applies a modifier and
  ignores whether that worked, the one at its end prints. The library decides when they
  run, and they share nothing with the loop.
- The other reports of `ha_flowsync`, which have the loop of `-t`; the option parsing of
  the configuration programs, which only chooses among the sequences of `Script`; which
  ports a group of `ha_nmsb_config` has.
- The exit status of the heartbeat, which is the loss modulo 256 (line 178): the shell
  reads 256 lost heartbeats as success. The property would restate the modulus.
- The timing of `pcap_playback` between frames, the layout of what is printed, logging,
  the Makefile.

## Plan

The modules were written in the order of the table, the packet loops first. What a next
step could add: the reports of `ha_flowsync` as one sequence each; `ha_nmsb_config` and
`peg35` at the same time on one table of groups and one TCAM, composed from what
`ConfigClient` has of them; `Counters` against an abstract "each request has one answer"
by refinement.
