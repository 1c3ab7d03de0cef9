------------------------------- MODULE Counters -------------------------------
(***************************************************************************)
(* nfm_sample_cntr.c: counters of a card read in three ways: by one        *)
(* blocking call; by a request whose answer is polled for, the next request *)
(* going out when it has come; and a row or column of a table with a       *)
(* limited number of tries.  One variable takes all values, and one the    *)
(* sequence number of the last request.                                    *)
(***************************************************************************)
EXTENDS Integers, Sequences, FiniteSets

CONSTANTS Polls,        \* 10, the answers to poll for
          MaxTries,     \* 10, the tries to receive a row or column
          NRows, NCols  \* of the table

ASSUME CountersAssumption == /\ Polls \in Nat \ {0} /\ MaxTries \in Nat \ {0}
                             /\ NRows \in Nat /\ NCols \in Nat

-------------------------------------------------------------------------------
(* What main does, in order. *)

\* "total" and "port" counters are read by a blocking call, and so is a "region" of
\* the table; "single", "poll" and "cleanup" are the three loops around ns_cntr_recv,
\* "line" a row or column.  A few reads of the same kind in a row are one here.
\* One region follows the rows, and one the columns.
FirstLine == 7 + NRows + NCols
AfterRows == FirstLine + NRows
Parts == AfterRows + NCols + 1
Plan == [k \in 1 .. Parts |->
           IF k <= 5 THEN <<"total", "single", "poll", "cleanup", "port">>[k]
           ELSE IF k \in FirstLine .. Parts - 1 /\ k # AfterRows THEN "line" ELSE "region"]

VARIABLES
  t,           \* the part of Plan main is at
  step,        \* "init", "do" the part, "recv" its answer, "exit", "done"
  i, j,        \* polls, tries
  seq_no,      \* of the last request; 0 is uninitialised
  raw,         \* the value read last, named by the item it is of
  msg_h,       \* the messaging handle is open
  status,      \* exit status, Running before
  asked,       \* asked[s] is the item of request s
  way, ready,  \* requests whose answer is to come, or has come and not been received
  lost,        \* requests whose answer never comes
  broken,      \* the connection is broken for good
  printed      \* pairs of an item and what was printed for it (history)

main == <<t, i, j, seq_no, raw, msg_h, status, printed>>
card == <<way, ready, lost, broken>>
vars == <<t, step, i, j, seq_no, raw, msg_h, status, asked, way, ready, lost, broken, printed>>

Running == -1
Kind == Plan[t]
At(s, kinds) == step = s /\ t \in DOMAIN Plan /\ Kind \in kinds

\* The loops around ns_cntr_recv all read CNTR_DEBUG_CNT_802_3_NON_IP: item 0.
Item == IF Kind \in {"single", "poll", "cleanup"} THEN 0 ELSE t
Nothing == -1

TypeOK == /\ t \in 1 .. Parts + 1 /\ step \in {"init", "do", "recv", "exit", "done"}
          /\ i \in 0 .. Polls /\ j \in 0 .. MaxTries
          /\ seq_no \in 0 .. Len(asked) /\ Len(asked) <= Polls + 2 + NRows + NCols
          /\ raw \in {Nothing, 0} \union DOMAIN Plan
          /\ msg_h \in BOOLEAN /\ status \in {Running, 0, 1} /\ broken \in BOOLEAN
          /\ way \union ready \union lost \subseteq DOMAIN asked

Init == /\ t = 1 /\ step = "init" /\ i = 0 /\ j = 0
        /\ seq_no = 0 /\ raw = Nothing /\ msg_h = FALSE /\ status = Running
        /\ asked = <<>> /\ way = {} /\ ready = {} /\ lost = {} /\ broken = FALSE
        /\ printed = {}

-------------------------------------------------------------------------------
(* Ways to go on. *)

Stop(code) == step' = "exit" /\ status' = code /\ UNCHANGED t
GoOn == t' = t + 1 /\ step' = "do" /\ UNCHANGED status
Show(value) == printed' = printed \union {<<Item, value>>}

\* ns_cntr_send, ns_cntr_row_send_ex, ns_cntr_col_send_ex
Request == /\ ~broken
           /\ asked' = Append(asked, Item)
           /\ seq_no' = Len(asked) + 1
           /\ way' = way \union {Len(asked) + 1}

InitMessaging ==
  /\ step = "init"
  /\ \/ ~broken /\ step' = "do" /\ msg_h' = TRUE /\ UNCHANGED status
     \/ step' = "done" /\ status' = 1 /\ UNCHANGED msg_h
  /\ UNCHANGED <<t, i, j, seq_no, raw, asked, card, printed>>

\* wrap_ns_cntr
Read ==
  /\ At("do", {"total", "port"})
  /\ \/ ~broken /\ raw' = Item /\ Show(Item) /\ GoOn
     \/ Stop(1) /\ UNCHANGED <<raw, printed>>
  /\ UNCHANGED <<i, j, seq_no, msg_h, asked, card>>

\* The result of ns_cntr_region is not looked at; raw is printed in any case.
Region ==
  /\ At("do", {"region"})
  /\ \/ ~broken /\ raw' = Item /\ Show(Item)
     \/ Show(raw) /\ UNCHANGED raw
  /\ GoOn
  /\ UNCHANGED <<i, j, seq_no, msg_h, asked, card>>

Send ==
  /\ At("do", {"single", "poll"})
  /\ \/ Request /\ step' = "recv" /\ i' = 0 /\ UNCHANGED <<t, status>>
     \/ Stop(1) /\ UNCHANGED <<i, seq_no, asked, way>>
  /\ UNCHANGED <<j, raw, msg_h, ready, lost, broken, printed>>

\* The result of the two calls that ask for a line is not looked at.
SendLine ==
  /\ At("do", {"line"})
  /\ \/ Request
     \/ UNCHANGED <<seq_no, asked, way>>
  /\ step' = "recv" /\ j' = 0
  /\ UNCHANGED <<t, i, raw, msg_h, status, ready, lost, broken, printed>>

\* The loop that waits for the last request of the poll has sent nothing itself.
CleanUp ==
  /\ At("do", {"cleanup"})
  /\ step' = "recv"
  /\ UNCHANGED <<main, asked, card>>

-------------------------------------------------------------------------------
(* Receiving. *)

Received == /\ step = "recv" /\ seq_no \in ready /\ ~broken
            /\ ready' = ready \ {seq_no}
            /\ raw' = asked[seq_no] /\ Show(asked[seq_no])

RecvOk ==
  /\ At("recv", {"single", "cleanup", "line"})
  /\ Received /\ GoOn
  /\ UNCHANGED <<i, j, seq_no, msg_h, asked, way, lost, broken>>

\* Mutant: the last answer is taken for that of the last request.
PollOkEndsEarly ==
  /\ At("recv", {"poll"})
  /\ Received
  /\ \/ /\ Request /\ i' = i + 1
        /\ IF i + 1 >= Polls THEN t' = t + 2 /\ step' = "do" /\ UNCHANGED status
                             ELSE UNCHANGED <<t, step, status>>
     \/ Stop(1) /\ UNCHANGED <<i, seq_no, asked, way>>
  /\ UNCHANGED <<j, msg_h, lost, broken>>

\* An answer is printed and the next request sent at once, after the last one too.
PollOk ==
  /\ At("recv", {"poll"})
  /\ Received
  /\ \/ /\ Request /\ i' = i + 1
        /\ IF i + 1 >= Polls THEN GoOn ELSE UNCHANGED <<t, step, status>>
     \/ Stop(1) /\ UNCHANGED <<i, seq_no, asked, way>>
  /\ UNCHANGED <<j, msg_h, lost, broken>>

\* Mutant: the answer that is not there yet is printed.
RetryLinePrints ==
  /\ At("recv", {"line"}) /\ seq_no \notin ready
  /\ Show(raw) /\ GoOn
  /\ UNCHANGED <<i, j, seq_no, raw, msg_h, asked, card>>

\* NS_NFM_RETRY_LATER is counted for a line only; the other loops wait on.
RetryLine ==
  /\ At("recv", {"line"}) /\ seq_no \notin ready
  /\ j' = j + 1
  /\ IF j + 1 >= MaxTries THEN Stop(1) ELSE UNCHANGED <<t, step, status>>
  /\ UNCHANGED <<i, seq_no, raw, msg_h, asked, card, printed>>

\* Mutant: the other loops also only report the error.
RecvErrorReported ==
  /\ At("recv", {"single", "poll", "cleanup", "line"})
  /\ IF Kind = "line" THEN Stop(1) ELSE UNCHANGED <<t, step, status>>
  /\ UNCHANGED <<i, j, seq_no, raw, msg_h, asked, card, printed>>

\* Any other error; the loop that cleans up reports it and receives again.
RecvError ==
  /\ At("recv", {"single", "poll", "cleanup", "line"})
  /\ IF Kind # "cleanup" THEN Stop(1) ELSE UNCHANGED <<t, step, status>>
  /\ UNCHANGED <<i, j, seq_no, raw, msg_h, asked, card, printed>>

Finish ==
  /\ step = "do" /\ t = Parts + 1
  /\ Stop(0)
  /\ UNCHANGED <<i, j, seq_no, raw, msg_h, asked, card, printed>>

\* atexit_func
AtExit ==
  /\ step = "exit"
  /\ step' = "done" /\ msg_h' = FALSE
  /\ UNCHANGED <<t, i, j, seq_no, raw, status, asked, card, printed>>

-------------------------------------------------------------------------------
(* The card. *)

Answer(s) ==
  /\ s \in way /\ step # "done"
  /\ way' = way \ {s} /\ ready' = ready \union {s}
  /\ UNCHANGED <<main, step, asked, lost, broken>>

Lose(s) ==
  /\ s \in way /\ step # "done"
  /\ way' = way \ {s} /\ lost' = lost \union {s}
  /\ UNCHANGED <<main, step, asked, ready, broken>>

Break ==
  /\ ~broken /\ step # "done"
  /\ broken' = TRUE
  /\ UNCHANGED <<main, step, asked, way, ready, lost>>

Main == \/ InitMessaging \/ Read \/ Region \/ Send \/ SendLine \/ CleanUp
        \/ RecvOk \/ PollOk \/ RetryLine \/ RecvError \/ Finish \/ AtExit
Next == Main \/ Break \/ \E s \in DOMAIN asked : Answer(s) \/ Lose(s)

\* The program runs on, and the card answers what it does not lose.  A receive whose
\* answer is there fails for ever only when the connection is broken.
Fairness == WF_vars(Main) /\ WF_vars(\E s \in DOMAIN asked : Answer(s))
Spec == Init /\ [][Next]_vars /\ Fairness

-------------------------------------------------------------------------------
(* Correctness. *)

Regions == {k \in DOMAIN Plan : Plan[k] = "region"}

\* What is printed for a counter, a row or a column was answered to a request for it,
\* whatever request failed, got lost or came late; a region may show an earlier
\* value.  A program that exits with 0 has printed all of them.
AnswersMatch ==
  /\ \A p \in printed : p[2] = p[1] \/ p[1] \in Regions
  /\ status = 0 => \A k \in DOMAIN Plan \ 2 .. 4 : \E p \in printed : p[1] = k

\* At most one request is on its way or unreceived, the last one, and only while the
\* program is in the loops that receive it: each starts with a clean channel.
OneInFlight ==
  status = Running =>
    /\ way \union ready \subseteq {seq_no}
    /\ step = "do" /\ t <= Parts /\ Kind # "cleanup" => way \union ready = {}

ChannelInv == TypeOK /\ OneInFlight

\* The three loops wait for ever for an answer that is lost, and the one that cleans
\* up also does when the connection is broken.
Stuck == /\ At("recv", {"single", "poll", "cleanup"})
         /\ seq_no \in lost \/ (broken /\ Kind = "cleanup")

\* Otherwise the program ends: no row or column holds it up, answered or not.
Ends == <>(step = "done" \/ Stuck)
===============================================================================
