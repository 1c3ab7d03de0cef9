-------------------------- MODULE ConfigClientProofs --------------------------
(***************************************************************************)
(* For any number of rules, interfaces, settings and ports: the programs   *)
(* that configure or print something leave no handle and no key data       *)
(* behind, print the answers they got, put in force what they were told to *)
(* or report a failure, and never a part of what they commit.  What is to  *)
(* be known of the 32 programs is stated by seven predicates on a sequence *)
(* of steps, without a loop counter or a state; that the actions preserve  *)
(* the invariants is then proved once, for every sequence that has them.   *)
(*                                                                         *)
(* And for any number of worker threads: the program that places the       *)
(* threads of the IPsec daemon keeps the workers apart.                    *)
(***************************************************************************)
EXTENDS ConfigClient, IpsecAffinity, SequenceTheorems, FiniteSetTheorems, TLAPS

-------------------------------------------------------------------------------
(* What came before a step of a program s. *)

\* On the way to step k, as it is written down, something of A was done, and nothing of
\* B since.
Since(s, k, A, B) ==
  \E j \in 1 .. k - 1 : s[j].op \in A /\ \A m \in j + 1 .. k - 1 : s[m].op \notin B

InLoop(s, k) == Since(s, k, {"for"}, {"end"})
HoldsKey(s, k) == Since(s, k, {"key"}, {"free", "freekey"})
HoldsAction(s, k) == Since(s, k, {"action"}, {"free", "freeaction"})
IsOpen(s, k) == Since(s, k, {"init"}, {"close"})
IsClosed(s, k) == Since(s, k, {"close"}, {"init"})
Answered(s, k) == Since(s, k, {"ask"}, {"ask", "resize", "for", "end", "use"})
IsFlushed(s, k) == Since(s, k, {"flush"}, {})
IsCommitted(s, k) == Since(s, k, {"commit"}, {})

\* The loop that step k is in, or at, ends with step e, or begins with step h.
EndOf(s, k, e) ==
  e \in k .. Len(s) /\ s[e].op = "end" /\ \A j \in k .. e - 1 : s[j].op # "end"
HeadOf(s, k, h) ==
  h \in 1 .. k /\ s[h].op = "for" /\ \A j \in h + 1 .. k : s[j].op # "for"

\* It does not matter for Since whether a jump is taken.
Neutral(s, A, B) ==
  /\ \A k, e \in 1 .. Len(s) :
       (s[k].op = "for" \/ s[k].failure = "skip") /\ EndOf(s, k, e) =>
         (Since(s, k, A, B) <=> Since(s, e, A, B))
  /\ \A k, h \in 1 .. Len(s) :
       s[k].op = "end" /\ HeadOf(s, k, h) => (Since(s, k, A, B) <=> Since(s, h, A, B))

LEMMA SinceFirst == ASSUME NEW s, NEW A, NEW B PROVE ~Since(s, 1, A, B)
  BY DEF Since

LEMMA SinceNext ==
  ASSUME NEW s, NEW k \in Nat \ {0}, NEW A, NEW B
  PROVE  Since(s, k + 1, A, B) <=> s[k].op \in A \/ (Since(s, k, A, B) /\ s[k].op \notin B)
  BY DEF Since

-------------------------------------------------------------------------------
(* What all programs have in common; s is the sequence of program p. *)

\* Loops are not nested, only they have ends, and what is peculiar to one program is
\* where it should be.
Orderly(s, p) ==
  /\ Len(s) \in Nat \ {0} /\ ~InLoop(s, Len(s) + 1)
  /\ \A k \in 1 .. Len(s) :
       /\ s[k].op = "for" => ~InLoop(s, k)
       /\ s[k].op = "end" \/ s[k].failure = "skip" => InLoop(s, k)
       /\ s[k].failure = "dump" => p = "read_rule"
       /\ s[k].failure = "later" => p = "nd_adverts" /\ k = 7
       /\ s[k].op \in {"compare", "mustfail"} => p = "actions"
       /\ s[k].op = "testret" => p = "actions" \/ (p = "nd_adverts" /\ k = 9)
       /\ s[k].op = "verify" => p = "ports" /\ k = 18
       /\ s[k].op = "quit" => s[k].failure = "return"
       /\ s[k].failure \in {"goto", "free", "return", "dump", "skip", "ignored", "later", "never"}
  /\ p = "read_rule" => Len(s) = 10 /\ \A k \in 1 .. 10 : s[k].op # "for"
  /\ p = "nd_adverts_half" => s[Len(s)].op = "quit" /\ \A k \in 1 .. Len(s) : s[k].op # "for"

\* Nothing is allocated twice or freed without being allocated, and where a program
\* leaves it holds nothing.
Leaky == {"ports", "actions", "get_ports"}
Freeing(s, p) ==
  /\ \A k \in 1 .. Len(s) :
       /\ p # "get_ports" =>
            /\ s[k].op = "key" => ~HoldsKey(s, k)
            /\ s[k].op = "action" => ~HoldsAction(s, k)
            /\ s[k].op \in {"free", "freekey"} => HoldsKey(s, k)
            /\ s[k].op \in {"free", "freeaction"} => HoldsAction(s, k)
       /\ s[k].failure \in {"goto", "return"} /\ p \notin Leaky =>
            ~HoldsKey(s, k) /\ ~HoldsAction(s, k)
       /\ s[k].op \in {"key", "action"} =>
            p # "dump_ifids" /\ s[k].failure \notin {"ignored", "later", "skip"}
  /\ p \notin Leaky => ~HoldsKey(s, Len(s) + 1) /\ ~HoldsAction(s, Len(s) + 1)
  /\ p = "read_rule" => ~HoldsKey(s, 9) /\ ~HoldsAction(s, 9)
  /\ p # "get_ports" => /\ Neutral(s, {"key"}, {"free", "freekey"})
                        /\ Neutral(s, {"action"}, {"free", "freeaction"})

\* Opening and closing take turns, and a program leaves with a closed handle.
LeftOpen == {"ports", "actions", "nd_adverts_half", "dump_ifids", "get_ports"}
Closing(s, p) ==
  /\ \A k \in 1 .. Len(s) :
       /\ s[k].op = "init" => ~IsOpen(s, k) /\ s[k].failure = "return"
       /\ s[k].op = "close" => IsOpen(s, k) /\ s[k].failure \in {"goto", "return", "ignored"}
       /\ s[k].failure \in {"free", "dump"} \/ s[k].op = "verify" => IsOpen(s, k)
       /\ s[k].failure = "goto" => IsOpen(s, k) \/ (~IsClosed(s, k) /\ p # "get_ports")
       /\ s[k].failure = "return" /\ IsOpen(s, k) => s[k].op = "close" \/ p \in LeftOpen
       /\ s[k].op = "testret" => IF p = "actions" THEN IsClosed(s, k) ELSE IsOpen(s, k)
  /\ p \notin {"ha_nmsb", "nd_adverts_half"} => ~IsOpen(s, Len(s) + 1)
  /\ p = "read_rule" => IsOpen(s, 9) /\ ~IsClosed(s, 9)
  /\ Neutral(s, {"init"}, {"close"})
  /\ p # "get_ports" => Neutral(s, {"close"}, {"init"})

\* Only what was answered is used.
Stale == {"get_ports", "dump_ifids", "nd_adverts", "indtbl"}
Frank(s, p) ==
  \A k \in 1 .. Len(s) :
    /\ s[k].op \in {"for", "end"} => ~Answered(s, k)
    /\ s[k].op = "use" /\ p \notin Stale => Answered(s, k)
    /\ s[k].op = "ask" /\ s[k].failure \in {"ignored", "later"} => p \in Stale
    /\ s[k].op = "ask" => p # "read_rule"
    /\ s[k].op = "resize" => p = "ha_flowsync"

\* How many additions and settings a program has made when it comes to step k, in round
\* j where that is in a loop.
Past(k, step) == IF step < k THEN 1 ELSE 0
Less(j, k, first, last) == IF k \in first .. last THEN j - 1 ELSE j
Counted(p, k, j) ==
  CASE p = "fill"            -> IF k <= 10 THEN Less(j, k, 5, 8) ELSE N
    [] p = "nd_adverts"      -> IF k <= 5 THEN Less(j, k, 3, 3) ELSE N
    [] p = "indtbl"          -> IF k <= 10 THEN Less(j, k, 9, 9) ELSE N
    [] p = "forwarding"      -> IF k <= 8 THEN Less(j, k, 5, 7)
                                ELSE IF k <= 13
                                THEN N + Less(j, k, 11, 12) + Less(j, k, 11, 11)
                                ELSE 3 * N
    [] p = "pass"            -> Past(k, 7)
    [] p = "via_host"        -> Past(k, 8)
    [] p = "via_host_v6"     -> Past(k, 9)
    [] p = "ports"           -> Past(k, 8) + Past(k, 12)
    [] p = "ha_nmsb"         -> Past(k, 2) + Past(k, 3) + Past(k, 10) + Past(k, 12)
    [] p = "peg35"           -> Past(k, 3)
    [] p = "bump_port"       -> Past(k, 2) + Past(k, 3)
    [] p = "load_balance"    -> Past(k, 2) + Past(k, 4) + Past(k, 6)
    [] p = "ha_api"          -> Past(k, 1) + Past(k, 4)
    [] p = "ipsec"           -> Past(k, 6)
    [] p \in {"nd_adverts_half", "static_entry", "lb", "ifid_set"} -> Past(k, 2)
    [] OTHER                 -> 0

CountedInOrder(s, p) ==
  /\ Counted(p, 1, 0) = 0
  /\ \A k \in 1 .. Len(s) : \A j \in 0 .. N :
       /\ s[k].op \in {"add", "set"} => Counted(p, k + 1, j) = Counted(p, k, j) + 1
       /\ s[k].op \notin {"add", "set", "for", "end"} =>
            Counted(p, k + 1, j) = Counted(p, k, j)
       /\ s[k].op = "for" /\ j < N => Counted(p, k + 1, j + 1) = Counted(p, k, j)
       /\ \A e \in 1 .. Len(s) :
            /\ s[k].op = "for" /\ EndOf(s, k, e) => Counted(p, e + 1, 0) = Counted(p, k, N)
            /\ s[k].failure = "skip" /\ EndOf(s, k, e) => Counted(p, e, j) = Counted(p, k, j)
            /\ s[k].op = "end" /\ HeadOf(s, k, e) => Counted(p, e, j) = Counted(p, k, j)

\* A program clears before its first addition and commits after the last one.
Committing == {"fill", "forwarding", "pass", "via_host", "via_host_v6", "ports"}
Replacing == {"fill", "pass", "via_host", "via_host_v6", "ports", "forwarding", "indtbl",
              "lb", "load_balance"}
InTurn(s, p) ==
  /\ p \in Committing => IsCommitted(s, Len(s) + 1)
  /\ p \in Replacing => IsFlushed(s, Len(s) + 1)
  /\ \A k \in 1 .. Len(s) :
       /\ s[k].op = "flush" => ~InLoop(s, k) /\ ~IsCommitted(s, k) /\ p # "read_rule"
       /\ s[k].op = "commit" =>
            p \in Committing /\ ~InLoop(s, k) /\ ~IsCommitted(s, k) /\ s[k].failure = "goto"
       /\ s[k].op = "add" => p \in Committing /\ ~IsCommitted(s, k)
       /\ s[k].op = "set" /\ p \in Committing => IsCommitted(s, k)
       /\ s[k].op \in {"commit", "set"} /\ p \in Replacing => IsFlushed(s, k)
       /\ s[k].op = "verify" => IsCommitted(s, k) /\ IsFlushed(s, k) /\ ~InLoop(s, k)
       /\ s[k].op \in {"add", "set", "flush", "field", "clear"} /\ s[k].failure = "ignored" =>
            p # "ports"
       /\ s[k].failure \in {"skip", "later"} => s[k].op \notin {"add", "set", "flush"}
  /\ Neutral(s, {"commit"}, {})
  /\ Neutral(s, {"flush"}, {})

\* The numbers of a program's additions and settings are those it is meant to make.
NumberFits(s, p, k) ==
  s[k].op \in {"add", "set"} =>
    \A j \in 0 .. N :
      (InLoop(s, k) => j >= 1) =>
        /\ Counted(p, k, j) + 1 \in Intended(p)
        /\ s[k].op = "set" => Counted(p, k, j) + 1 \notin Committed(p)
NumbersSoFar(s, p, k) ==
  /\ s[k].op = "flush" => Counted(p, k, 0) = 0
  /\ s[k].op = "commit" => Committed(p) = 1 .. Counted(p, k, 0)
  /\ s[k].op = "verify" => Counted(p, k, 0) = 2
AsIntended(s, p) ==
  /\ Intended(p) # {} => Intended(p) = 1 .. Counted(p, Len(s) + 1, 0)
  /\ p \notin Committing => Committed(p) = {}
  /\ p = "read_rule" => Counted(p, 9, 0) = 0
  /\ \A k \in 1 .. Len(s) : NumberFits(s, p, k) /\ NumbersSoFar(s, p, k)

-------------------------------------------------------------------------------
(* The programs that are put together from parts, in full. *)

Steps == [op : {"init", "key", "action", "call", "field", "flush", "add", "set", "commit",
                "close", "for", "end", "free", "freekey", "ask", "use", "testret"},
          failure : {"goto", "free", "return", "ignored", "later", "never"}]

FillSteps == <<Open, Must("call"), Must("flush"), ForEach,
               Must("key"), Call("action", "free"), Call("call", "free"),
               Call("add", "ignored"), Call("free", "never"),
               EndFor, Must("commit"), CloseUnchecked>>

PassSteps == <<Open, Must("call"), Must("flush"),
               Must("key"), Call("action", "free"), Call("call", "free"),
               Call("add", "ignored"), Call("free", "never"), Must("commit"), CloseUnchecked>>

ViaHostSteps == <<Open, Must("flush"), Must("call"), Must("call"),
                  Must("key"), Call("action", "free"), Call("call", "free"),
                  Call("add", "free"), Call("free", "never"),
                  Must("commit"), Must("call"), CloseChecked>>

KeysSteps == <<Open, Must("call"), Must("key"),
               Call("call", "free"), Call("call", "free"), Call("call", "free"),
               Call("call", "free"), Call("call", "free"), Call("call", "free"),
               Call("call", "free"), Call("call", "free"),
               ForEach, Call("call", "free"), Call("call", "free"), Call("call", "free"),
               EndFor, Call("call", "free"), Call("call", "free"),
               Call("freekey", "never"), CloseChecked>>

NdAdvertsSteps == <<Open, ForEach, Must("set"), Must("call"), EndFor,
                    Must("call"), Call("ask", "later"), Call("use", "never"),
                    Call("testret", "never"), Call("close", "return")>>

HaNmsbSteps == <<Open, Must("set"), Must("set"), Must("call"), Must("call"), CloseUnchecked,
                 Open, Must("call"), Must("call"), Must("set"), Must("call"), Must("set")>>

USE DEF Call, Must, Open, ForEach, EndFor, CloseChecked, CloseUnchecked

LEMMA Written ==
  /\ Fill = FillSteps /\ Pass = PassSteps /\ ViaHost = ViaHostSteps
  /\ Keys = KeysSteps /\ NdAdverts = NdAdvertsSteps /\ HaNmsb = HaNmsbSteps
<1>1. Fill = FillSteps
  <2>1. Fill \in Seq(Steps) /\ FillSteps \in Seq(Steps)
    BY DEF Fill, FillSteps, AddRule, Steps
  <2>2. Len(Fill) = Len(FillSteps) /\ \A k \in 1 .. Len(Fill) : Fill[k] = FillSteps[k]
    BY DEF Fill, FillSteps, AddRule
  <2> QED BY <2>1, <2>2, SeqEqual
<1>2. Pass = PassSteps
  <2>1. Pass \in Seq(Steps) /\ PassSteps \in Seq(Steps)
    BY DEF Pass, PassSteps, AddRule, Steps
  <2>2. Len(Pass) = Len(PassSteps) /\ \A k \in 1 .. Len(Pass) : Pass[k] = PassSteps[k]
    BY DEF Pass, PassSteps, AddRule
  <2> QED BY <2>1, <2>2, SeqEqual
<1>3. ViaHost = ViaHostSteps
  <2>1. ViaHost \in Seq(Steps) /\ ViaHostSteps \in Seq(Steps)
    BY DEF ViaHost, ViaHostSteps, AddRule, Steps
  <2>2. /\ Len(ViaHost) = Len(ViaHostSteps)
        /\ \A k \in 1 .. Len(ViaHost) : ViaHost[k] = ViaHostSteps[k]
    BY DEF ViaHost, ViaHostSteps, AddRule
  <2> QED BY <2>1, <2>2, SeqEqual
<1>4. Keys = KeysSteps
  <2>1. Keys \in Seq(Steps) /\ KeysSteps \in Seq(Steps)
    BY DEF Keys, KeysSteps, TestField, TestAddress, SetPorts, Steps
  <2>2. Len(Keys) = Len(KeysSteps) /\ \A k \in 1 .. Len(Keys) : Keys[k] = KeysSteps[k]
    BY DEF Keys, KeysSteps, TestField, TestAddress, SetPorts
  <2> QED BY <2>1, <2>2, SeqEqual
<1>5. HaNmsb = HaNmsbSteps
  <2>1. HaNmsb \in Seq(Steps) /\ HaNmsbSteps \in Seq(Steps)
    BY DEF HaNmsb, HaNmsbSteps, CreateLoadBalanceGroups, CreateTcamRules, Steps
  <2>2. /\ Len(HaNmsb) = Len(HaNmsbSteps)
        /\ \A k \in 1 .. Len(HaNmsb) : HaNmsb[k] = HaNmsbSteps[k]
    BY DEF HaNmsb, HaNmsbSteps, CreateLoadBalanceGroups, CreateTcamRules
  <2> QED BY <2>1, <2>2, SeqEqual
<1>6. NdAdverts = NdAdvertsSteps
  <2>1. NdAdverts \in Seq(Steps) /\ NdAdvertsSteps \in Seq(Steps)
    BY DEF NdAdverts, NdAdvertsSteps, DisplayPrefixes, Steps
  <2>2. /\ Len(NdAdverts) = Len(NdAdvertsSteps)
        /\ \A k \in 1 .. Len(NdAdverts) : NdAdverts[k] = NdAdvertsSteps[k]
    BY DEF NdAdverts, NdAdvertsSteps, DisplayPrefixes
  <2> QED BY <2>1, <2>2, SeqEqual
<1> QED BY <1>1, <1>2, <1>3, <1>4, <1>5, <1>6

LEMMA FillAsIntended == ASSUME ConfigAssumption PROVE AsIntended(Fill, "fill")
<1> USE ConfigAssumption DEF ConfigAssumption
<1>1. /\ Len(Fill) = 12 /\ InLoop(Fill, 8)
      /\ \A k \in 1 .. 12 : /\ Fill[k].op = "add" => k = 8
                            /\ Fill[k].op = "flush" => k = 3
                            /\ Fill[k].op = "commit" => k = 11
                            /\ Fill[k].op \notin {"set", "verify"}
  BY Written DEF FillSteps, InLoop, Since
<1>2. /\ Counted("fill", 13, 0) = N /\ Counted("fill", 3, 0) = 0 /\ Counted("fill", 11, 0) = N
      /\ \A j \in 0 .. N : Counted("fill", 8, j) = j - 1
      /\ Intended("fill") = 1 .. N /\ Committed("fill") = 1 .. N
  BY DEF Counted, Less, Intended, Committed
<1>3. Intended("fill") # {} => Intended("fill") = 1 .. Counted("fill", Len(Fill) + 1, 0)
  BY <1>1, <1>2
<1>4. ASSUME NEW k \in 1 .. Len(Fill) PROVE NumberFits(Fill, "fill", k)
  <2>1. ASSUME Fill[k].op \in {"add", "set"}, NEW j \in 0 .. N, InLoop(Fill, k) => j >= 1
        PROVE  Fill[k].op # "set" /\ Counted("fill", k, j) + 1 \in 1 .. N
    <3>1. k = 8 /\ j \in 1 .. N
      BY <1>1, <2>1
    <3> QED BY <1>1, <1>2, <3>1
  <2> QED BY <1>2, <2>1 DEF NumberFits
<1>5. ASSUME NEW k \in 1 .. Len(Fill) PROVE NumbersSoFar(Fill, "fill", k)
  BY <1>1, <1>2 DEF NumbersSoFar
<1>6. "fill" \in Committing /\ "fill" # "read_rule"
  BY DEF Committing
<1> QED BY <1>3, <1>4, <1>5, <1>6 DEF AsIntended

LEMMA ForwardingAsIntended ==
  ASSUME ConfigAssumption PROVE AsIntended(Forwarding, "forwarding")
<1> USE ConfigAssumption DEF ConfigAssumption
<1> DEFINE s == Forwarding
           p == "forwarding"
<1>1. /\ Len(s) = 14 /\ \A k \in {7, 11, 12} : InLoop(s, k)
      /\ \A k \in 1 .. 14 : /\ s[k].op = "add" => k = 7
                            /\ s[k].op = "set" => k \in {11, 12}
                            /\ s[k].op = "flush" => k = 2
                            /\ s[k].op = "commit" => k = 9
                            /\ s[k].op # "verify"
  BY DEF Forwarding, InLoop, Since
<1>2. /\ Counted(p, 15, 0) = 3 * N /\ Counted(p, 2, 0) = 0 /\ Counted(p, 9, 0) = N
      /\ \A j \in 0 .. N : /\ Counted(p, 7, j) = j - 1
                           /\ Counted(p, 11, j) = N + (j - 1) + (j - 1)
                           /\ Counted(p, 12, j) = N + (j - 1) + j
      /\ Intended(p) = 1 .. 3 * N /\ Committed(p) = 1 .. N
  BY DEF Counted, Less, Intended, Committed
<1>3. Intended(p) # {} => Intended(p) = 1 .. Counted(p, Len(s) + 1, 0)
  BY <1>1, <1>2
<1> HIDE DEF s, p
<1>4. ASSUME NEW k \in 1 .. Len(s) PROVE NumberFits(s, p, k)
  <2>1. ASSUME s[k].op \in {"add", "set"}, NEW j \in 0 .. N, InLoop(s, k) => j >= 1
        PROVE  /\ Counted(p, k, j) + 1 \in 1 .. 3 * N
               /\ s[k].op = "set" => Counted(p, k, j) + 1 \notin 1 .. N
    <3>1. k \in {7, 11, 12} /\ j \in 1 .. N
      BY <1>1, <2>1
    <3>2. CASE k = 7
      <4>1. Counted(p, k, j) + 1 = j
        BY <1>2, <3>1, <3>2
      <4>2. s[k].op # "set"
        BY <1>1, <3>2
      <4> QED BY <3>1, <4>1, <4>2
    <3>3. CASE k = 11
      <4>1. Counted(p, k, j) + 1 = N + (2 * j - 1)
        BY <1>2, <3>1, <3>3
      <4> QED BY <3>1, <4>1
    <3>4. CASE k = 12
      <4>1. Counted(p, k, j) + 1 = N + j + j
        BY <1>2, <3>1, <3>4
      <4> QED BY <3>1, <4>1
    <3> QED BY <3>1, <3>2, <3>3, <3>4
  <2> QED BY <1>2, <2>1 DEF NumberFits
<1>5. ASSUME NEW k \in 1 .. Len(s) PROVE NumbersSoFar(s, p, k)
  BY <1>1, <1>2 DEF NumbersSoFar
<1>6. p \in Committing /\ p # "read_rule"
  BY DEF Committing, p
<1>7. AsIntended(s, p)
  BY <1>3, <1>4, <1>5, <1>6 DEF AsIntended
<1> QED BY <1>7 DEF s, p

\* All programs are orderly,
LEMMA AllOrderly == \A p \in Programs : Orderly(Script[p], p)
<1> USE DEF Orderly, InLoop, Since
<1>1. Orderly(Fill, "fill") BY Written DEF FillSteps
<1>2. Orderly(Pass, "pass") BY Written DEF PassSteps
<1>3. Orderly(ViaHost, "via_host") BY Written DEF ViaHostSteps
<1>4. Orderly(ViaHostV6, "via_host_v6") BY DEF ViaHostV6
<1>5. Orderly(ReadRule, "read_rule") BY DEF ReadRule
<1>6. Orderly(Ports, "ports") BY DEF Ports
<1>7. Orderly(Keys, "keys") BY Written DEF KeysSteps
<1>8. Orderly(Actions, "actions") BY DEF Actions
<1>9. Orderly(Forwarding, "forwarding") BY DEF Forwarding
<1>10. Orderly(NdAdverts, "nd_adverts") BY Written DEF NdAdvertsSteps
<1>11. Orderly(NdAdvertsHalf, "nd_adverts_half") BY DEF NdAdvertsHalf
<1>12. Orderly(StaticEntry, "static_entry") BY DEF StaticEntry
<1>13. Orderly(HaNmsb, "ha_nmsb") BY Written DEF HaNmsbSteps
<1>14. Orderly(Peg35, "peg35") BY DEF Peg35
<1>15. Orderly(BumpPort, "bump_port") BY DEF BumpPort
<1>16. Orderly(Indtbl, "indtbl") BY DEF Indtbl
<1>17. Orderly(LoadBalance, "lb") BY DEF LoadBalance
<1>18. Orderly(LoadBalanceScript, "load_balance") BY DEF LoadBalanceScript
<1>19. Orderly(HaApi, "ha_api") BY DEF HaApi
<1>20. Orderly(IfidSet, "ifid_set") BY DEF IfidSet
<1>21. Orderly(IfidGet, "ifid_get") BY DEF IfidGet
<1>22. Orderly(Platform, "platform") BY DEF Platform
<1>23. Orderly(Portstats, "portstats") BY DEF Portstats
<1>24. Orderly(NeighEntries, "neigh_entries") BY DEF NeighEntries
<1>25. Orderly(Log, "log") BY DEF Log
<1>26. Orderly(DumpIfids, "dump_ifids") BY DEF DumpIfids
<1>27. Orderly(CntrL2L3, "cntr_l2_l3") BY DEF CntrL2L3
<1>28. Orderly(Ipsec, "ipsec") BY DEF Ipsec
<1>29. Orderly(GetPorts, "get_ports") BY DEF GetPorts
<1>30. Orderly(HaFlowsync, "ha_flowsync") BY DEF HaFlowsync
<1>31. Orderly(MonitorMe, "monitor_me") BY DEF MonitorMe
<1>32. Orderly(PlatformNmsb, "platform_nmsb") BY DEF PlatformNmsb
<1> HIDE DEF Orderly
<1> QED BY <1>1, <1>2, <1>3, <1>4, <1>5, <1>6, <1>7, <1>8, <1>9, <1>10, <1>11, <1>12, <1>13,
           <1>14, <1>15, <1>16, <1>17, <1>18, <1>19, <1>20, <1>21, <1>22, <1>23, <1>24,
           <1>25, <1>26, <1>27, <1>28, <1>29, <1>30, <1>31, <1>32 DEF Script, Programs

\* free what they allocate,
LEMMA AllFreeing == \A p \in Programs : Freeing(Script[p], p)
<1> USE DEF Freeing, HoldsKey, HoldsAction, Leaky, Neutral, EndOf, HeadOf, Since
<1>1. Freeing(Fill, "fill") BY Written, SMTT(30) DEF FillSteps
<1>2. Freeing(Pass, "pass") BY Written DEF PassSteps
<1>3. Freeing(ViaHost, "via_host") BY Written DEF ViaHostSteps
<1>4. Freeing(ViaHostV6, "via_host_v6") BY DEF ViaHostV6
<1>5. Freeing(ReadRule, "read_rule") BY DEF ReadRule
<1>6. Freeing(Ports, "ports") BY DEF Ports
<1>7. Freeing(Keys, "keys") BY Written, SMTT(30) DEF KeysSteps
<1>8. Freeing(Actions, "actions") BY DEF Actions
<1>9. Freeing(Forwarding, "forwarding") BY DEF Forwarding
<1>10. Freeing(NdAdverts, "nd_adverts") BY Written DEF NdAdvertsSteps
<1>11. Freeing(NdAdvertsHalf, "nd_adverts_half") BY DEF NdAdvertsHalf
<1>12. Freeing(StaticEntry, "static_entry") BY DEF StaticEntry
<1>13. Freeing(HaNmsb, "ha_nmsb") BY Written DEF HaNmsbSteps
<1>14. Freeing(Peg35, "peg35") BY DEF Peg35
<1>15. Freeing(BumpPort, "bump_port") BY DEF BumpPort
<1>16. Freeing(Indtbl, "indtbl") BY DEF Indtbl
<1>17. Freeing(LoadBalance, "lb") BY DEF LoadBalance
<1>18. Freeing(LoadBalanceScript, "load_balance") BY DEF LoadBalanceScript
<1>19. Freeing(HaApi, "ha_api") BY DEF HaApi
<1>20. Freeing(IfidSet, "ifid_set") BY DEF IfidSet
<1>21. Freeing(IfidGet, "ifid_get") BY DEF IfidGet
<1>22. Freeing(Platform, "platform") BY DEF Platform
<1>23. Freeing(Portstats, "portstats") BY DEF Portstats
<1>24. Freeing(NeighEntries, "neigh_entries") BY DEF NeighEntries
<1>25. Freeing(Log, "log") BY DEF Log
<1>26. Freeing(DumpIfids, "dump_ifids") BY DEF DumpIfids
<1>27. Freeing(CntrL2L3, "cntr_l2_l3") BY DEF CntrL2L3
<1>28. Freeing(Ipsec, "ipsec") BY DEF Ipsec
<1>29. Freeing(GetPorts, "get_ports") BY DEF GetPorts
<1>30. Freeing(HaFlowsync, "ha_flowsync") BY DEF HaFlowsync
<1>31. Freeing(MonitorMe, "monitor_me") BY DEF MonitorMe
<1>32. Freeing(PlatformNmsb, "platform_nmsb") BY DEF PlatformNmsb
<1> HIDE DEF Freeing
<1> QED BY <1>1, <1>2, <1>3, <1>4, <1>5, <1>6, <1>7, <1>8, <1>9, <1>10, <1>11, <1>12, <1>13,
           <1>14, <1>15, <1>16, <1>17, <1>18, <1>19, <1>20, <1>21, <1>22, <1>23, <1>24,
           <1>25, <1>26, <1>27, <1>28, <1>29, <1>30, <1>31, <1>32 DEF Script, Programs

\* open and close in turns,
LEMMA AllClosing == \A p \in Programs : Closing(Script[p], p)
<1> USE DEF Closing, IsOpen, IsClosed, LeftOpen, Neutral, EndOf, HeadOf, Since
<1>1. Closing(Fill, "fill") BY Written DEF FillSteps
<1>2. Closing(Pass, "pass") BY Written DEF PassSteps
<1>3. Closing(ViaHost, "via_host") BY Written DEF ViaHostSteps
<1>4. Closing(ViaHostV6, "via_host_v6") BY DEF ViaHostV6
<1>5. Closing(ReadRule, "read_rule") BY DEF ReadRule
<1>6. Closing(Ports, "ports") BY DEF Ports
<1>7. Closing(Keys, "keys") BY Written, SMTT(30) DEF KeysSteps
<1>8. Closing(Actions, "actions") BY DEF Actions
<1>9. Closing(Forwarding, "forwarding") BY DEF Forwarding
<1>10. Closing(NdAdverts, "nd_adverts") BY Written DEF NdAdvertsSteps
<1>11. Closing(NdAdvertsHalf, "nd_adverts_half") BY DEF NdAdvertsHalf
<1>12. Closing(StaticEntry, "static_entry") BY DEF StaticEntry
<1>13. Closing(HaNmsb, "ha_nmsb") BY Written DEF HaNmsbSteps
<1>14. Closing(Peg35, "peg35") BY DEF Peg35
<1>15. Closing(BumpPort, "bump_port") BY DEF BumpPort
<1>16. Closing(Indtbl, "indtbl") BY DEF Indtbl
<1>17. Closing(LoadBalance, "lb") BY DEF LoadBalance
<1>18. Closing(LoadBalanceScript, "load_balance") BY DEF LoadBalanceScript
<1>19. Closing(HaApi, "ha_api") BY DEF HaApi
<1>20. Closing(IfidSet, "ifid_set") BY DEF IfidSet
<1>21. Closing(IfidGet, "ifid_get") BY DEF IfidGet
<1>22. Closing(Platform, "platform") BY DEF Platform
<1>23. Closing(Portstats, "portstats") BY DEF Portstats
<1>24. Closing(NeighEntries, "neigh_entries") BY DEF NeighEntries
<1>25. Closing(Log, "log") BY DEF Log
<1>26. Closing(DumpIfids, "dump_ifids") BY DEF DumpIfids
<1>27. Closing(CntrL2L3, "cntr_l2_l3") BY DEF CntrL2L3
<1>28. Closing(Ipsec, "ipsec") BY DEF Ipsec
<1>29. Closing(GetPorts, "get_ports") BY DEF GetPorts
<1>30. Closing(HaFlowsync, "ha_flowsync") BY DEF HaFlowsync
<1>31. Closing(MonitorMe, "monitor_me") BY DEF MonitorMe
<1>32. Closing(PlatformNmsb, "platform_nmsb") BY DEF PlatformNmsb
<1> HIDE DEF Closing
<1> QED BY <1>1, <1>2, <1>3, <1>4, <1>5, <1>6, <1>7, <1>8, <1>9, <1>10, <1>11, <1>12, <1>13,
           <1>14, <1>15, <1>16, <1>17, <1>18, <1>19, <1>20, <1>21, <1>22, <1>23, <1>24,
           <1>25, <1>26, <1>27, <1>28, <1>29, <1>30, <1>31, <1>32 DEF Script, Programs

\* use what was answered,
LEMMA AllFrank == \A p \in Programs : Frank(Script[p], p)
<1> USE DEF Frank, Answered, Stale, Since
<1>1. Frank(Fill, "fill") BY Written DEF FillSteps
<1>2. Frank(Pass, "pass") BY Written DEF PassSteps
<1>3. Frank(ViaHost, "via_host") BY Written DEF ViaHostSteps
<1>4. Frank(ViaHostV6, "via_host_v6") BY DEF ViaHostV6
<1>5. Frank(ReadRule, "read_rule") BY DEF ReadRule
<1>6. Frank(Ports, "ports") BY DEF Ports
<1>7. Frank(Keys, "keys") BY Written DEF KeysSteps
<1>8. Frank(Actions, "actions") BY DEF Actions
<1>9. Frank(Forwarding, "forwarding") BY DEF Forwarding
<1>10. Frank(NdAdverts, "nd_adverts") BY Written DEF NdAdvertsSteps
<1>11. Frank(NdAdvertsHalf, "nd_adverts_half") BY DEF NdAdvertsHalf
<1>12. Frank(StaticEntry, "static_entry") BY DEF StaticEntry
<1>13. Frank(HaNmsb, "ha_nmsb") BY Written DEF HaNmsbSteps
<1>14. Frank(Peg35, "peg35") BY DEF Peg35
<1>15. Frank(BumpPort, "bump_port") BY DEF BumpPort
<1>16. Frank(Indtbl, "indtbl") BY DEF Indtbl
<1>17. Frank(LoadBalance, "lb") BY DEF LoadBalance
<1>18. Frank(LoadBalanceScript, "load_balance") BY DEF LoadBalanceScript
<1>19. Frank(HaApi, "ha_api") BY DEF HaApi
<1>20. Frank(IfidSet, "ifid_set") BY DEF IfidSet
<1>21. Frank(IfidGet, "ifid_get") BY DEF IfidGet
<1>22. Frank(Platform, "platform") BY DEF Platform
<1>23. Frank(Portstats, "portstats") BY DEF Portstats
<1>24. Frank(NeighEntries, "neigh_entries") BY DEF NeighEntries
<1>25. Frank(Log, "log") BY DEF Log
<1>26. Frank(DumpIfids, "dump_ifids") BY DEF DumpIfids
<1>27. Frank(CntrL2L3, "cntr_l2_l3") BY DEF CntrL2L3
<1>28. Frank(Ipsec, "ipsec") BY DEF Ipsec
<1>29. Frank(GetPorts, "get_ports") BY DEF GetPorts
<1>30. Frank(HaFlowsync, "ha_flowsync") BY DEF HaFlowsync
<1>31. Frank(MonitorMe, "monitor_me") BY DEF MonitorMe
<1>32. Frank(PlatformNmsb, "platform_nmsb") BY DEF PlatformNmsb
<1> HIDE DEF Frank
<1> QED BY <1>1, <1>2, <1>3, <1>4, <1>5, <1>6, <1>7, <1>8, <1>9, <1>10, <1>11, <1>12, <1>13,
           <1>14, <1>15, <1>16, <1>17, <1>18, <1>19, <1>20, <1>21, <1>22, <1>23, <1>24,
           <1>25, <1>26, <1>27, <1>28, <1>29, <1>30, <1>31, <1>32 DEF Script, Programs

\* make as many additions and settings as Counted says,
LEMMA AllCountedInOrder ==
  ASSUME ConfigAssumption PROVE \A p \in Programs : CountedInOrder(Script[p], p)
<1> USE DEF CountedInOrder, Counted, Past, Less, EndOf, HeadOf
<1> USE ConfigAssumption DEF ConfigAssumption
<1>1. CountedInOrder(Fill, "fill") BY Written DEF FillSteps
<1>2. CountedInOrder(Pass, "pass") BY Written DEF PassSteps
<1>3. CountedInOrder(ViaHost, "via_host") BY Written DEF ViaHostSteps
<1>4. CountedInOrder(ViaHostV6, "via_host_v6") BY DEF ViaHostV6
<1>5. CountedInOrder(ReadRule, "read_rule") BY DEF ReadRule
<1>6. CountedInOrder(Ports, "ports") BY DEF Ports
<1>7. CountedInOrder(Keys, "keys") BY Written DEF KeysSteps
<1>8. CountedInOrder(Actions, "actions") BY DEF Actions
<1>9. CountedInOrder(Forwarding, "forwarding") BY DEF Forwarding
<1>10. CountedInOrder(NdAdverts, "nd_adverts") BY Written DEF NdAdvertsSteps
<1>11. CountedInOrder(NdAdvertsHalf, "nd_adverts_half") BY DEF NdAdvertsHalf
<1>12. CountedInOrder(StaticEntry, "static_entry") BY DEF StaticEntry
<1>13. CountedInOrder(HaNmsb, "ha_nmsb") BY Written DEF HaNmsbSteps
<1>14. CountedInOrder(Peg35, "peg35") BY DEF Peg35
<1>15. CountedInOrder(BumpPort, "bump_port") BY DEF BumpPort
<1>16. CountedInOrder(Indtbl, "indtbl") BY DEF Indtbl
<1>17. CountedInOrder(LoadBalance, "lb") BY DEF LoadBalance
<1>18. CountedInOrder(LoadBalanceScript, "load_balance") BY DEF LoadBalanceScript
<1>19. CountedInOrder(HaApi, "ha_api") BY DEF HaApi
<1>20. CountedInOrder(IfidSet, "ifid_set") BY DEF IfidSet
<1>21. CountedInOrder(IfidGet, "ifid_get") BY DEF IfidGet
<1>22. CountedInOrder(Platform, "platform") BY DEF Platform
<1>23. CountedInOrder(Portstats, "portstats") BY DEF Portstats
<1>24. CountedInOrder(NeighEntries, "neigh_entries") BY DEF NeighEntries
<1>25. CountedInOrder(Log, "log") BY DEF Log
<1>26. CountedInOrder(DumpIfids, "dump_ifids") BY DEF DumpIfids
<1>27. CountedInOrder(CntrL2L3, "cntr_l2_l3") BY DEF CntrL2L3
<1>28. CountedInOrder(Ipsec, "ipsec") BY DEF Ipsec
<1>29. CountedInOrder(GetPorts, "get_ports") BY DEF GetPorts
<1>30. CountedInOrder(HaFlowsync, "ha_flowsync") BY DEF HaFlowsync
<1>31. CountedInOrder(MonitorMe, "monitor_me") BY DEF MonitorMe
<1>32. CountedInOrder(PlatformNmsb, "platform_nmsb") BY DEF PlatformNmsb
<1> HIDE DEF CountedInOrder
<1> QED BY <1>1, <1>2, <1>3, <1>4, <1>5, <1>6, <1>7, <1>8, <1>9, <1>10, <1>11, <1>12, <1>13,
           <1>14, <1>15, <1>16, <1>17, <1>18, <1>19, <1>20, <1>21, <1>22, <1>23, <1>24,
           <1>25, <1>26, <1>27, <1>28, <1>29, <1>30, <1>31, <1>32 DEF Script, Programs

\* clear, add and commit in this order,
LEMMA AllInTurn == \A p \in Programs : InTurn(Script[p], p)
<1> USE DEF InTurn, Committing, Replacing, InLoop, IsFlushed, IsCommitted, Neutral, EndOf, HeadOf,
           Since
<1>1. InTurn(Fill, "fill") BY Written DEF FillSteps
<1>2. InTurn(Pass, "pass") BY Written DEF PassSteps
<1>3. InTurn(ViaHost, "via_host") BY Written DEF ViaHostSteps
<1>4. InTurn(ViaHostV6, "via_host_v6") BY DEF ViaHostV6
<1>5. InTurn(ReadRule, "read_rule") BY DEF ReadRule
<1>6. InTurn(Ports, "ports") BY DEF Ports
<1>7. InTurn(Keys, "keys") BY Written DEF KeysSteps
<1>8. InTurn(Actions, "actions") BY DEF Actions
<1>9. InTurn(Forwarding, "forwarding") BY DEF Forwarding
<1>10. InTurn(NdAdverts, "nd_adverts") BY Written DEF NdAdvertsSteps
<1>11. InTurn(NdAdvertsHalf, "nd_adverts_half") BY DEF NdAdvertsHalf
<1>12. InTurn(StaticEntry, "static_entry") BY DEF StaticEntry
<1>13. InTurn(HaNmsb, "ha_nmsb") BY Written DEF HaNmsbSteps
<1>14. InTurn(Peg35, "peg35") BY DEF Peg35
<1>15. InTurn(BumpPort, "bump_port") BY DEF BumpPort
<1>16. InTurn(Indtbl, "indtbl") BY DEF Indtbl
<1>17. InTurn(LoadBalance, "lb") BY DEF LoadBalance
<1>18. InTurn(LoadBalanceScript, "load_balance") BY DEF LoadBalanceScript
<1>19. InTurn(HaApi, "ha_api") BY DEF HaApi
<1>20. InTurn(IfidSet, "ifid_set") BY DEF IfidSet
<1>21. InTurn(IfidGet, "ifid_get") BY DEF IfidGet
<1>22. InTurn(Platform, "platform") BY DEF Platform
<1>23. InTurn(Portstats, "portstats") BY DEF Portstats
<1>24. InTurn(NeighEntries, "neigh_entries") BY DEF NeighEntries
<1>25. InTurn(Log, "log") BY DEF Log
<1>26. InTurn(DumpIfids, "dump_ifids") BY DEF DumpIfids
<1>27. InTurn(CntrL2L3, "cntr_l2_l3") BY DEF CntrL2L3
<1>28. InTurn(Ipsec, "ipsec") BY DEF Ipsec
<1>29. InTurn(GetPorts, "get_ports") BY DEF GetPorts
<1>30. InTurn(HaFlowsync, "ha_flowsync") BY DEF HaFlowsync
<1>31. InTurn(MonitorMe, "monitor_me") BY DEF MonitorMe
<1>32. InTurn(PlatformNmsb, "platform_nmsb") BY DEF PlatformNmsb
<1> HIDE DEF InTurn
<1> QED BY <1>1, <1>2, <1>3, <1>4, <1>5, <1>6, <1>7, <1>8, <1>9, <1>10, <1>11, <1>12, <1>13,
           <1>14, <1>15, <1>16, <1>17, <1>18, <1>19, <1>20, <1>21, <1>22, <1>23, <1>24,
           <1>25, <1>26, <1>27, <1>28, <1>29, <1>30, <1>31, <1>32 DEF Script, Programs

\* and put in force what they are meant to.
LEMMA AllAsIntended ==
  ASSUME ConfigAssumption PROVE \A p \in Programs : AsIntended(Script[p], p)
<1> USE DEF AsIntended, NumberFits, NumbersSoFar, Counted, Past, Less, Intended,
           Committed, Committing, InLoop, Since
<1> USE ConfigAssumption DEF ConfigAssumption
<1>1. AsIntended(Fill, "fill") BY FillAsIntended
<1>2. AsIntended(Pass, "pass") BY Written DEF PassSteps
<1>3. AsIntended(ViaHost, "via_host") BY Written DEF ViaHostSteps
<1>4. AsIntended(ViaHostV6, "via_host_v6") BY DEF ViaHostV6
<1>5. AsIntended(ReadRule, "read_rule") BY DEF ReadRule
<1>6. AsIntended(Ports, "ports") BY DEF Ports
<1>7. AsIntended(Keys, "keys") BY Written DEF KeysSteps
<1>8. AsIntended(Actions, "actions") BY DEF Actions
<1>9. AsIntended(Forwarding, "forwarding") BY ForwardingAsIntended
<1>10. AsIntended(NdAdverts, "nd_adverts") BY Written DEF NdAdvertsSteps
<1>11. AsIntended(NdAdvertsHalf, "nd_adverts_half") BY DEF NdAdvertsHalf
<1>12. AsIntended(StaticEntry, "static_entry") BY DEF StaticEntry
<1>13. AsIntended(HaNmsb, "ha_nmsb") BY Written DEF HaNmsbSteps
<1>14. AsIntended(Peg35, "peg35") BY DEF Peg35
<1>15. AsIntended(BumpPort, "bump_port") BY DEF BumpPort
<1>16. AsIntended(Indtbl, "indtbl") BY DEF Indtbl
<1>17. AsIntended(LoadBalance, "lb") BY DEF LoadBalance
<1>18. AsIntended(LoadBalanceScript, "load_balance") BY DEF LoadBalanceScript
<1>19. AsIntended(HaApi, "ha_api") BY DEF HaApi
<1>20. AsIntended(IfidSet, "ifid_set") BY DEF IfidSet
<1>21. AsIntended(IfidGet, "ifid_get") BY DEF IfidGet
<1>22. AsIntended(Platform, "platform") BY DEF Platform
<1>23. AsIntended(Portstats, "portstats") BY DEF Portstats
<1>24. AsIntended(NeighEntries, "neigh_entries") BY DEF NeighEntries
<1>25. AsIntended(Log, "log") BY DEF Log
<1>26. AsIntended(DumpIfids, "dump_ifids") BY DEF DumpIfids
<1>27. AsIntended(CntrL2L3, "cntr_l2_l3") BY DEF CntrL2L3
<1>28. AsIntended(Ipsec, "ipsec") BY DEF Ipsec
<1>29. AsIntended(GetPorts, "get_ports") BY DEF GetPorts
<1>30. AsIntended(HaFlowsync, "ha_flowsync") BY DEF HaFlowsync
<1>31. AsIntended(MonitorMe, "monitor_me") BY DEF MonitorMe
<1>32. AsIntended(PlatformNmsb, "platform_nmsb") BY DEF PlatformNmsb
<1> HIDE DEF AsIntended
<1> QED BY <1>1, <1>2, <1>3, <1>4, <1>5, <1>6, <1>7, <1>8, <1>9, <1>10, <1>11, <1>12, <1>13,
           <1>14, <1>15, <1>16, <1>17, <1>18, <1>19, <1>20, <1>21, <1>22, <1>23, <1>24,
           <1>25, <1>26, <1>27, <1>28, <1>29, <1>30, <1>31, <1>32 DEF Script, Programs

-------------------------------------------------------------------------------
(* The inductive invariant. *)

\* The program is on its way, or came to its end on it.
OnWay == status # 1 /\ pc # 0
OnItsWay == status = Running /\ pc # 0

\* The step a program is at fits the loops it is in, and its exit status that step.
Course ==
  /\ prog \in Programs /\ pc \in 0 .. Len(Script[prog]) + 1
  /\ i \in 0 .. N /\ status \in {Running, 0, 1}
  /\ pc # 0 =>
       /\ InLoop(Script[prog], pc) => i >= 1
       /\ ~InLoop(Script[prog], pc) =>
            i = 0 \/ (pc <= Len(Script[prog]) /\ Script[prog][pc].op = "for")
  /\ prog = "nd_adverts_half" => pc <= Len(Script[prog])
  /\ final_result \in {0, 1} /\ failing \in BOOLEAN
  /\ prog # "actions" => final_result = 0
  /\ status = 0 /\ prog # "actions" => pc = Len(Script[prog]) + 1

\* The handle is open where the sequence says so, unless a close failed; at the end it
\* is open, or closed twice, only as the properties allow.
Handles ==
  /\ closes \in 0 .. 2
  /\ OnItsWay =>
       /\ closes \in {0, 1}
       /\ IsOpen(Script[prog], pc) => rh /\ closes = 0
       /\ rh /\ ~IsOpen(Script[prog], pc) => closefailed /\ closes = 1
       /\ prog # "get_ports" => (closes = 1 <=> IsClosed(Script[prog], pc))
  /\ status = Running /\ pc = 0 =>
       /\ closes \in {0, 1}
       /\ closes = 1 => closefailed \/ (prog = "actions" /\ failing)
  /\ status # Running =>
       /\ ClosesOnce
       /\ \/ ~rh \/ (closefailed /\ closes >= 1)
          \/ status = 1 /\ prog \in LeftOpen
          \/ status = 0 /\ prog = "ha_nmsb"

\* get_ports allocates a key and an action in each round, and frees none.
Rounds(last) == IF pc \in 2 .. last THEN i - 1 ELSE IF pc = 13 THEN N ELSE i
Freed ==
  IF prog = "get_ports"
  THEN /\ kds \in 0 .. N /\ acts \in 0 .. N
       /\ OnItsWay => kds = Rounds(6) /\ acts = Rounds(7)
  ELSE /\ kds \in {0, 1} /\ acts \in {0, 1}
       /\ OnItsWay => /\ kds = 1 <=> HoldsKey(Script[prog], pc)
                      /\ acts = 1 <=> HoldsAction(Script[prog], pc)
       /\ ~OnItsWay /\ prog \notin Leaky => kds = 0 /\ acts = 0

\* Where a question was answered and not asked again, the answer is that to the last one.
Printed ==
  /\ asked \in Nat /\ kept \in Nat /\ kept <= asked /\ uses \subseteq Nat \X Nat
  /\ OnItsWay /\ Answered(Script[prog], pc) /\ prog \notin Stale => kept = asked
  /\ PrintsWhatItAsked

\* What was added waits until the commit, and is the beginning of what is intended.
Pending == prog \in Committing /\ ~IsCommitted(Script[prog], pc)
Cut == Unbounded /\ pc > 10  \* indtbl, after a loop of any number of rounds
Installed ==
  /\ number \in Nat
  /\ added \subseteq Intended(prog) /\ hw \subseteq Intended(prog) \union {0, Others}
  /\ OnWay /\ ~Cut => number = Counted(prog, pc, i)
  /\ prog = "ports" => ~ignored
  /\ OnWay /\ ~ignored =>
       /\ added = IF Pending THEN 1 .. number ELSE {}
       /\ Pending => hw \subseteq {0, Others}
       /\ ~disturbed /\ ~Pending => hw \ {0} = 1 .. number
       /\ IsFlushed(Script[prog], pc) => 0 \notin hw
  /\ NeverHalfInstalled
  /\ ~disturbed => Others \notin hw

\* The old groups are there until the script clears them.
Grouped == groups => prog = "load_balance" /\ (OnWay /\ pc >= 4 => ignored)

\* A failure the program looks for keeps it from its last step, in display_prefixes of
\* nd_adverts from the test on.
Noticed ==
  bad => \/ pc = 0 \/ status = 1 \/ prog \in {"actions", "read_rule"}
         \/ prog = "nd_adverts" /\ status = Running /\ pc \in {8, 9} /\ failing

\* The comparison of rules_ports.
Confirmed ==
  /\ prog # "ports" => compared = 0
  /\ prog = "ports" =>
       /\ compared \in 0 .. 3 * NEntries
       /\ ~disturbed => compared <= 2 * NEntries
       /\ OnWay /\ pc >= 19 /\ ~disturbed => compared = 2 * NEntries

Typed == /\ groups \in BOOLEAN /\ unread \in 0 .. N /\ broken \in BOOLEAN /\ rh \in BOOLEAN
         /\ bad \in BOOLEAN /\ ignored \in BOOLEAN /\ closefailed \in BOOLEAN
         /\ disturbed \in BOOLEAN /\ interrupted \in BOOLEAN

IInv == /\ Course /\ Handles /\ Freed /\ Printed /\ Installed /\ Grouped /\ Noticed
        /\ Confirmed /\ Typed

-------------------------------------------------------------------------------
(* Where a step of the program leads. *)

Shift ==
  LET s == Script[prog]
  IN \/ pc' = pc /\ i' = i
     \/ /\ pc \in 1 .. Len(s)
        /\ \/ s[pc].op \notin {"for", "end"} /\ pc' = pc + 1 /\ i' = i
           \/ s[pc].op = "for" /\ i < N /\ pc' = pc + 1 /\ i' = i + 1
           \/ s[pc].op = "for" /\ (i = N \/ Unbounded) /\ i' = 0
              /\ \E e \in 1 .. Len(s) : EndOf(s, pc, e) /\ pc' = e + 1
           \/ s[pc].op = "end" /\ i' = i /\ \E h \in 1 .. Len(s) : HeadOf(s, pc, h) /\ pc' = h
           \/ s[pc].failure = "skip" /\ i' = i
              /\ \E e \in 1 .. Len(s) : EndOf(s, pc, e) /\ pc' = e

\* The program goes on, or another one does something.
Go == prog' = prog /\ status' = status /\ Shift

\* What there has been before a step is not changed by one that has no part in it.
LEMMA Shifted ==
  ASSUME NEW A, NEW B, Neutral(Script[prog], A, B), prog' = prog, Shift,
         "for" \notin A, "for" \notin B, "end" \notin A, "end" \notin B,
         Len(Script[prog]) \in Nat,
         pc' # pc => Script[prog][pc].op \notin A /\ Script[prog][pc].op \notin B
  PROVE  Since(Script[prog], pc, A, B)' <=> Since(Script[prog], pc, A, B)
<1> DEFINE s == Script[prog]
<1>1. Since(Script[prog], pc, A, B)' <=> Since(s, pc', A, B)
  BY DEF Since
<1>2. CASE pc' = pc
  BY <1>1, <1>2
<1>3. CASE pc \in 1 .. Len(s) /\ pc' = pc + 1 /\ pc' # pc
  BY <1>1, <1>3, SinceNext
<1>4. CASE /\ pc \in 1 .. Len(s) /\ s[pc].op = "for"
           /\ \E e \in 1 .. Len(s) : EndOf(s, pc, e) /\ pc' = e + 1
  <2>1. PICK e \in 1 .. Len(s) : EndOf(s, pc, e) /\ pc' = e + 1
    BY <1>4
  <2>2. Since(s, e + 1, A, B) <=> Since(s, e, A, B)
    BY <2>1, SinceNext DEF EndOf
  <2> QED BY <1>1, <1>4, <2>1, <2>2 DEF Neutral
<1>5. CASE /\ pc \in 1 .. Len(s) /\ s[pc].op = "end"
           /\ \E h \in 1 .. Len(s) : HeadOf(s, pc, h) /\ pc' = h
  BY <1>1, <1>5 DEF Neutral
<1>6. CASE /\ pc \in 1 .. Len(s) /\ s[pc].failure = "skip"
           /\ \E e \in 1 .. Len(s) : EndOf(s, pc, e) /\ pc' = e
  BY <1>1, <1>6 DEF Neutral
<1> QED BY <1>2, <1>3, <1>4, <1>5, <1>6 DEF Shift

LEMMA LoopMoves == ASSUME Course, Loop PROVE Shift
  BY AllOrderly DEF Course, Orderly, Loop, At, Step, Shift, LoopEnd, EndOf
LEMMA LoopBackMoves == ASSUME Course, LoopBack PROVE Shift
<1>1. Len(Script[prog]) \in Nat
  BY AllOrderly DEF Course, Orderly
<1>2. /\ pc \in 1 .. Len(Script[prog]) /\ Script[prog][pc].op = "end"
      /\ i' = i /\ pc' \in LoopHead
  BY DEF LoopBack, At, Step
<1>3. PICK h \in 1 .. pc : /\ pc' = h /\ Script[prog][h].op = "for"
                          /\ \A j \in h + 1 .. pc : Script[prog][j].op # "for"
  BY <1>2, Zenon DEF LoopHead
<1>4. h \in 1 .. Len(Script[prog]) /\ HeadOf(Script[prog], pc, h)
  BY <1>1, <1>2, <1>3 DEF HeadOf
<1> QED BY <1>2, <1>3, <1>4 DEF Shift

\* A failure that is ignored or looked for later, or that ends the iteration.
GoesOn == Fail /\ Step.failure \in {"ignored", "later", "skip"}
LEMMA GoesOnMoves == ASSUME Course, GoesOn PROVE Shift /\ status' = status /\ prog' = prog
<1>1. Step.failure \in {"ignored", "later"} => pc' = pc + 1
  BY DEF GoesOn, Fail
<1>2. Step.failure = "skip" => pc' \in LoopEnd
  BY DEF GoesOn, Fail
<1>3. /\ pc \in 1 .. Len(Script[prog]) /\ Step.op \notin {"for", "end"}
      /\ status = Running /\ status' = Running /\ prog' = prog /\ i' = i
  BY DEF GoesOn, Fail, At
<1> QED BY <1>1, <1>2, <1>3, AllOrderly DEF Course, Orderly, GoesOn, Step, Shift, LoopEnd, EndOf

\* A failure that leaves the sequence.
Leaves ==
  /\ Fail
  /\ \/ Step.failure = "dump" /\ pc' = 9 /\ prog = "read_rule" /\ status' = Running
     \/ Step.failure \in {"goto", "free"} /\ pc' = 0 /\ status' = Running
     \/ Step.failure = "return" /\ pc' = pc /\ status' = 1
LEMMA Failures == ASSUME Course, Fail PROVE GoesOn \/ Leaves
<1> DEFINE s == Script[prog]
<1>1. Orderly(s, prog) /\ pc \in 1 .. Len(s)
  BY AllOrderly DEF Course, Fail, At
<1>2. CASE Step.failure = "dump"
  <2>1. pc' = Len(s) - 1 /\ status' = Running
    BY <1>2 DEF Fail, DumpStep
  <2> QED BY <1>1, <1>2, <2>1 DEF Leaves, Orderly, Step
<1>3. CASE Step.failure \in {"goto", "free"}
  BY <1>3 DEF Leaves, Fail
<1>4. CASE Step.failure = "return"
  BY <1>4 DEF Leaves, Fail
<1>5. Step.failure # "never"
  BY DEF Fail
<1> QED BY <1>1, <1>2, <1>3, <1>4, <1>5 DEF GoesOn, Orderly, Step

\* The actions after which the program goes on.
Calls == \/ Plain \/ Loop \/ LoopBack \/ OpenHandle \/ Allocate \/ Free \/ Flush \/ Clear \/ Add
         \/ Set \/ Commit \/ Close \/ Compare \/ Ask \/ Use \/ OpenCursor \/ ReadEntry \/ ReadEof
         \/ Await \/ (Verify /\ pc' # 0) \/ (TestRet /\ pc' # 0)
Around == OthersFlush \/ OthersAdd \/ RulesdFails
GivesUp == (Verify \/ TestRet) /\ pc' = 0

LEMMA CallsGo == ASSUME Course, Calls PROVE Go /\ status = Running /\ pc \in 1 .. Len(Script[prog])
<1>1. CASE \/ Plain \/ OpenHandle \/ Allocate \/ Free \/ Flush \/ Clear \/ Add \/ Set \/ Commit
           \/ Close \/ Compare \/ Ask \/ Use \/ OpenCursor \/ ReadEof \/ Await
  BY <1>1 DEF Plain, OpenHandle, Allocate, Free, Flush, Clear, Add, Set, Commit, Close, Compare,
              Ask, Use, OpenCursor, ReadEof, Await, Continue, At, Step, Go, Shift
<1>2. CASE Loop \/ LoopBack
  BY <1>2, LoopMoves, LoopBackMoves DEF Loop, LoopBack, At, Go
<1>3. CASE ReadEntry \/ (Verify /\ pc' # 0) \/ (TestRet /\ pc' # 0)
  BY <1>3 DEF ReadEntry, Verify, TestRet, At, Step, Go, Shift
<1> QED BY <1>1, <1>2, <1>3 DEF Calls

LEMMA AroundGo == ASSUME Around PROVE Go /\ UNCHANGED <<pc, i>>
  BY DEF Around, OthersFlush, OthersAdd, RulesdFails, Go, Shift

LEMMA AllSteps ==
  ASSUME Course, [Next]_vars
  PROVE  \/ Calls \/ Around \/ GoesOn \/ Leaves \/ GivesUp \/ Bail \/ Finish \/ Interrupt
         \/ UNCHANGED vars
<1>1. Fail => GoesOn \/ Leaves
  BY Failures
<1>2. \/ Calls \/ Around \/ Fail \/ GivesUp \/ Bail \/ Finish \/ Interrupt \/ UNCHANGED vars
  BY Zenon DEF Next, Proceed, Calls, Around, GivesUp
<1> QED BY <1>1, <1>2

-------------------------------------------------------------------------------
(* The course of a program. *)

LEMMA CourseInit == ASSUME ConfigAssumption, Init PROVE Course
<1>1. Orderly(Script[prog], prog)
  BY AllOrderly DEF Init
<1>2. ~InLoop(Script[prog], 1)
  BY SinceFirst DEF InLoop
<1>3. /\ pc = 1 /\ i = 0 /\ status = -1 /\ final_result = 0 /\ prog \in Programs
      /\ Len(Script[prog]) \in Nat \ {0}
  BY <1>1 DEF Init, Running, Orderly
<1>4. failing \in BOOLEAN /\ ~failing
  BY DEF Init
<1>5. pc <= Len(Script[prog])
  BY <1>3
<1> QED BY <1>2, <1>3, <1>4, <1>5 DEF ConfigAssumption, Course, Running

LEMMA GoCourse ==
  ASSUME ConfigAssumption, Course, Go, status = Running, pc' # pc => Step.op # "quit",
         final_result' \in {0, 1}, failing' \in BOOLEAN,
         prog = "actions" \/ UNCHANGED final_result
  PROVE  Course'
<1> DEFINE s == Script[prog]
<1>1. /\ Orderly(s, prog) /\ Len(s) \in Nat \ {0} /\ prog' = prog /\ prog \in Programs
      /\ pc \in 0 .. Len(s) + 1 /\ i \in 0 .. N /\ N \in Nat /\ status' = status
  BY AllOrderly DEF Course, Orderly, Go, ConfigAssumption
<1>2. /\ pc' \in 0 .. Len(s) + 1 /\ i' \in 0 .. N
      /\ pc' # 0 => /\ InLoop(s, pc') => i' >= 1
                    /\ ~InLoop(s, pc') => i' = 0 \/ (pc' <= Len(s) /\ s[pc'].op = "for")
      /\ prog = "nd_adverts_half" => pc' <= Len(s)
  <2>1. CASE pc' = pc /\ i' = i
    BY <1>1, <2>1 DEF Course
  <2>2. CASE pc \in 1 .. Len(s) /\ s[pc].op \notin {"for", "end"} /\ pc' = pc + 1 /\ i' = i
    <3>1. InLoop(s, pc + 1) <=> InLoop(s, pc)
      BY <2>2, SinceNext DEF InLoop
    <3> QED BY <1>1, <2>2, <3>1 DEF Course, Orderly, Step
  <2>3. CASE pc \in 1 .. Len(s) /\ s[pc].op = "for" /\ i < N /\ pc' = pc + 1 /\ i' = i + 1
    <3>1. InLoop(s, pc + 1) /\ prog # "nd_adverts_half"
      <4>1. InLoop(s, pc + 1)
        <5>1. pc \in Nat \ {0}
          BY <1>1, <2>3
        <5> QED BY <2>3, <5>1, SinceNext DEF InLoop
      <4>2. prog # "nd_adverts_half"
        BY <1>1, <2>3 DEF Orderly
      <4> QED BY <4>1, <4>2
    <3> QED BY <1>1, <2>3, <3>1
  <2>4. CASE /\ pc \in 1 .. Len(s) /\ s[pc].op = "for" /\ i' = 0
             /\ \E e \in 1 .. Len(s) : EndOf(s, pc, e) /\ pc' = e + 1
    <3>1. PICK e \in 1 .. Len(s) : s[e].op = "end" /\ pc' = e + 1
      BY <2>4 DEF EndOf
    <3>2. Since(s, e + 1, {"for"}, {"end"}) <=>
            s[e].op \in {"for"} \/ (Since(s, e, {"for"}, {"end"}) /\ s[e].op \notin {"end"})
      <4>1. e \in Nat \ {0}
        BY <1>1, <3>1
      <4> QED BY <4>1, SinceNext
    <3>3. ~InLoop(s, pc') /\ prog # "nd_adverts_half"
      BY <1>1, <2>4, <3>1, <3>2 DEF InLoop, Orderly
    <3> QED BY <1>1, <2>4, <3>1, <3>3
  <2>5. CASE /\ pc \in 1 .. Len(s) /\ i' = i /\ s[pc].op = "end"
             /\ \E h \in 1 .. Len(s) : HeadOf(s, pc, h) /\ pc' = h
    BY <1>1, <2>5 DEF Course, Orderly, HeadOf
  <2>6. CASE /\ pc \in 1 .. Len(s) /\ i' = i /\ s[pc].failure = "skip"
             /\ \E e \in 1 .. Len(s) : EndOf(s, pc, e) /\ pc' = e
    BY <1>1, <2>6 DEF Course, Orderly, EndOf
  <2> QED BY <2>1, <2>2, <2>3, <2>4, <2>5, <2>6 DEF Go, Shift
<1> QED BY <1>1, <1>2 DEF Course, Running

LEMMA CourseNext == ASSUME ConfigAssumption, Course, [Next]_vars PROVE Course'
<1> DEFINE s == Script[prog]
<1>1. Orderly(s, prog) /\ Len(s) \in Nat \ {0} /\ prog \in Programs
  BY AllOrderly DEF Course, Orderly
<1>2. CASE Calls \/ Around \/ GoesOn
  <2>1. Go /\ status = Running
    BY <1>2, CallsGo, AroundGo, GoesOnMoves
       DEF Go, Around, OthersFlush, OthersAdd, RulesdFails, GoesOn, Fail, At
  <2>2. CASE Compare
    <3>1. Step.op # "quit" /\ prog = "actions" /\ final_result' \in {0, 1}
      BY <1>1, <2>2 DEF Compare, Step, Orderly, Course, At
    <3>2. failing' \in BOOLEAN
      BY <2>2, Zenon DEF Compare
    <3> QED BY <2>1, <3>1, <3>2, GoCourse
  <2>3. CASE ~Compare
    <3>1. UNCHANGED final_result /\ failing' \in BOOLEAN
      <4>0. failing \in BOOLEAN
        BY DEF Course
      <4>1. CASE Calls
        BY <2>3, <4>0, <4>1
           DEF Calls, Plain, Loop, LoopBack, OpenHandle, Allocate, Free, Flush, Clear, Add, Set,
               Commit, Close, Ask, Use, OpenCursor, ReadEntry, ReadEof, Await, Verify, TestRet,
               results
      <4>2. CASE Around
        BY <4>0, <4>2 DEF Around, OthersFlush, OthersAdd, RulesdFails, results
      <4>3. CASE GoesOn
        <5>1. failing' \in BOOLEAN
          BY <4>3, Zenon DEF GoesOn, Fail
        <5> QED BY <4>3, <5>1 DEF GoesOn, Fail
      <4> QED BY <1>2, <4>1, <4>2, <4>3
    <3>2. pc' # pc => Step.op # "quit"
      BY <1>1, <1>2, <2>3
         DEF Calls, Plain, Loop, LoopBack, OpenHandle, Allocate, Free, Flush, Clear, Add, Set,
             Commit, Close, Ask, Use, OpenCursor, ReadEntry, ReadEof, Await, Verify, TestRet, At,
             Step, Around, OthersFlush, OthersAdd, RulesdFails, GoesOn, Fail, Orderly
    <3> QED BY <2>1, <3>1, <3>2, GoCourse DEF Course, results
  <2> QED BY <2>2, <2>3
<1>3. CASE Leaves
  <2>1. UNCHANGED <<prog, i, results>> /\ pc \in 1 .. Len(s)
    <3>1. failing' = failing
      <4>1. Step.failure # "later" /\ failing \in BOOLEAN
        BY <1>3 DEF Leaves, Course
      <4> QED BY <1>3, <4>1, Zenon DEF Leaves, Fail
    <3> QED BY <1>3, <3>1 DEF Leaves, Fail, At, results
  <2>2. CASE pc' = 9 /\ prog = "read_rule" /\ status' = Running
    <3>1. Len(s) = 10 /\ \A k \in 1 .. 10 : s[k].op # "for"
      BY <1>1, <2>2 DEF Orderly
    <3>2. ~InLoop(s, 9) /\ ~InLoop(s, pc)
      BY <2>1, <3>1 DEF InLoop, Since
    <3> QED BY <1>1, <2>1, <2>2, <3>1, <3>2 DEF Course, Running, results
  <2>3. CASE pc' = 0 /\ status' = Running
    BY <1>1, <2>1, <2>3 DEF Course, Running, results
  <2>4. CASE pc' = pc /\ status' = 1
    BY <1>1, <2>1, <2>4 DEF Course, Running, results
  <2> QED BY <1>3, <2>2, <2>3, <2>4 DEF Leaves
<1>4. CASE GivesUp \/ Bail \/ Finish \/ Interrupt
  <2>1. UNCHANGED <<prog, i, results>> /\ pc' \in {0, pc} /\ status = Running
    BY <1>4 DEF GivesUp, Verify, TestRet, Bail, Finish, Interrupt, At, results
  <2>2. CASE GivesUp
    BY <1>1, <2>1, <2>2 DEF GivesUp, Verify, TestRet, Course, Running, results
  <2>3. CASE Bail \/ Finish \/ Interrupt
    BY <1>1, <2>1, <2>3 DEF Bail, Finish, Interrupt, Course, Running, results
  <2> QED BY <1>4, <2>2, <2>3
<1>5. CASE UNCHANGED vars
  BY <1>5 DEF vars, Course, results
<1> QED BY <1>2, <1>3, <1>4, <1>5, AllSteps

\* The label fail is neither entered nor left on the way.
LEMMA GoStays == ASSUME Course, Go PROVE pc' = 0 <=> pc = 0
  BY AllOrderly DEF Course, Orderly, Go, Shift, EndOf, HeadOf

LEMMA Ahead ==
  ASSUME NEW A, NEW B, prog' = prog, pc \in 1 .. Len(Script[prog]), pc' = pc + 1,
         Len(Script[prog]) \in Nat
  PROVE  Since(Script[prog], pc, A, B)' <=>
           \/ Script[prog][pc].op \in A
           \/ Since(Script[prog], pc, A, B) /\ Script[prog][pc].op \notin B
<1>1. pc \in Nat \ {0}
  OBVIOUS
<1>2. Since(Script[prog], pc, A, B)' <=> Since(Script[prog], pc + 1, A, B)
  BY DEF Since
<1> QED BY <1>1, <1>2, SinceNext

-------------------------------------------------------------------------------
(* Handles. *)

LEMMA HandlesInit == ASSUME Init PROVE Handles
<1>1. ~IsOpen(Script[prog], pc) /\ ~IsClosed(Script[prog], pc)
  BY SinceFirst DEF Init, IsOpen, IsClosed
<1>2. pc = 1 /\ status = -1 /\ closes = 0 /\ ~rh
  BY DEF Init, Running
<1> QED BY <1>1, <1>2 DEF Handles, OnItsWay, Running, ClosesOnce

\* Neither a handle is opened nor closed.
LEMMA HandlesQuiet ==
  ASSUME Course, Handles, Go, status = Running, UNCHANGED <<rh, closes>>,
         closefailed => closefailed',
         pc = 0 => UNCHANGED <<failing, closefailed>>,
         pc' # pc => Script[prog][pc].op \notin {"init", "close"}
  PROVE  Handles'
<1> DEFINE s == Script[prog]
<1>1. Closing(s, prog) /\ Len(s) \in Nat
  BY AllClosing, AllOrderly DEF Course, Orderly
<1>2. IsOpen(Script[prog], pc)' <=> IsOpen(Script[prog], pc)
  BY <1>1, Shifted DEF IsOpen, Closing, Go
<1>3. prog # "get_ports" => (IsClosed(Script[prog], pc)' <=> IsClosed(Script[prog], pc))
  BY <1>1, Shifted DEF IsClosed, Closing, Go
<1>4. (pc' = 0 <=> pc = 0) /\ prog' = prog /\ status' = status
  BY GoStays DEF Go
<1> QED BY <1>2, <1>3, <1>4 DEF Handles, OnItsWay, Running

LEMMA HandlesNext == ASSUME Course, Handles, [Next]_vars PROVE Handles'
<1> DEFINE s == Script[prog]
<1>1. /\ Closing(s, prog) /\ Orderly(s, prog) /\ Len(s) \in Nat /\ prog \in Programs
      /\ status \in {Running, 0, 1} /\ pc \in 0 .. Len(s) + 1
      /\ final_result \in {0, 1} /\ (prog # "actions" => final_result = 0)
      /\ prog = "nd_adverts_half" => pc <= Len(s)
  BY AllClosing, AllOrderly DEF Course, Orderly
<1>2. CASE OpenHandle
  <2>1. /\ prog' = prog /\ status = Running /\ status' = status
        /\ pc \in 1 .. Len(s) /\ pc' = pc + 1
        /\ s[pc].op = "init" /\ rh' = TRUE /\ closes' = 0
    BY <1>2 DEF OpenHandle, At, Step, Continue
  <2>2. IsOpen(Script[prog], pc)' /\ ~IsClosed(Script[prog], pc)'
    BY <1>1, <2>1, Ahead DEF IsOpen, IsClosed
  <2> QED BY <2>1, <2>2 DEF Handles, OnItsWay, Running
<1>3. CASE Close
  <2>1. /\ prog' = prog /\ status = Running /\ status' = status
        /\ pc \in 1 .. Len(s) /\ pc' = pc + 1
        /\ s[pc].op = "close" /\ rh' = FALSE /\ closes' = closes + 1
    BY <1>3 DEF Close, At, Step, Continue
  <2>2. ~IsOpen(Script[prog], pc)' /\ IsClosed(Script[prog], pc)'
    BY <1>1, <2>1, Ahead DEF IsOpen, IsClosed
  <2>3. closes = 0
    BY <1>1, <2>1 DEF Closing, Handles, OnItsWay
  <2> QED BY <2>1, <2>2, <2>3 DEF Handles, OnItsWay, Running
<1>4. CASE Calls /\ ~OpenHandle /\ ~Close
  <2>1. /\ UNCHANGED <<rh, closes, closefailed>> /\ pc # 0
        /\ s[pc].op \notin {"init", "close"}
    BY <1>4 DEF Calls, Plain, Loop, LoopBack, Allocate, Free, Flush, Clear, Add, Set, Commit,
                Compare, Ask, Use, OpenCursor, ReadEntry, ReadEof, Await, Verify, TestRet, At, Step,
                resources, troubles
  <2> QED BY <1>4, <2>1, CallsGo, HandlesQuiet
<1>5. CASE Around
  <2>1. /\ UNCHANGED <<pc, rh, closes, closefailed, failing>> /\ status = Running
    BY <1>5 DEF Around, OthersFlush, OthersAdd, RulesdFails, resources, troubles, results, At
  <2> QED BY <1>5, <2>1, AroundGo, HandlesQuiet
<1>6. CASE GoesOn
  <2>1. /\ status = Running /\ pc \in 1 .. Len(s) /\ rh' = rh
        /\ closes' = IF s[pc].op = "close" THEN closes + 1 ELSE closes
    BY <1>6 DEF GoesOn, Fail, At, Step
  <2>0. (closefailed => closefailed') /\ (s[pc].op = "close" => closefailed')
    BY <1>6, Zenon DEF GoesOn, Fail, Step
  <2>2. CASE s[pc].op = "close"
    <3>1. /\ pc' = pc + 1 /\ prog' = prog /\ status' = status
      BY <1>1, <1>6, <2>1, <2>2, GoesOnMoves DEF GoesOn, Fail, Step, Closing
    <3>2. ~IsOpen(Script[prog], pc)' /\ IsClosed(Script[prog], pc)'
      BY <1>1, <2>1, <2>2, <3>1, Ahead DEF IsOpen, IsClosed
    <3>3. closes = 0 /\ closes' = 1 /\ closefailed'
      BY <1>1, <2>0, <2>1, <2>2 DEF Closing, Handles, OnItsWay
    <3> QED BY <2>1, <3>1, <3>2, <3>3 DEF Handles, OnItsWay, Running
  <2>3. CASE s[pc].op # "close"
    <3>1. s[pc].op # "init"
      BY <1>1, <1>6, <2>1 DEF GoesOn, Step, Closing
    <3>2. UNCHANGED <<rh, closes>> /\ pc # 0 /\ Go
      BY <1>6, <2>1, <2>3, GoesOnMoves DEF Go
    <3> QED BY <2>0, <2>1, <2>3, <3>1, <3>2, HandlesQuiet
  <2> QED BY <2>2, <2>3
<1>7. CASE Leaves
  <2>1. /\ status = Running /\ pc \in 1 .. Len(s) /\ UNCHANGED <<prog, rh, interrupted>>
        /\ closes' = IF s[pc].op = "close" THEN closes + 1 ELSE closes
    BY <1>7 DEF Leaves, Fail, At, Step, results
  <2>0. (closefailed => closefailed') /\ (s[pc].op = "close" => closefailed')
    BY <1>7, Zenon DEF Leaves, Fail, Step
  <2>2. s[pc].op = "close" => closes = 0 /\ closes' = 1 /\ closefailed'
    BY <1>1, <2>0, <2>1 DEF Closing, Handles, OnItsWay
  <2>3. CASE s[pc].failure = "dump" /\ pc' = 9 /\ prog = "read_rule" /\ status' = Running
    <3>1. IsOpen(s, pc) /\ IsOpen(s, 9) /\ ~IsClosed(s, 9) /\ s[pc].op # "close"
      BY <1>1, <2>1, <2>3 DEF Closing
    <3>2. IsOpen(Script[prog], pc)' /\ ~IsClosed(Script[prog], pc)'
      BY <2>1, <2>3, <3>1 DEF IsOpen, IsClosed, Since
    <3> QED BY <2>1, <2>3, <3>1, <3>2 DEF Handles, OnItsWay, Running
  <2>4. CASE s[pc].failure \in {"goto", "free"} /\ pc' = 0 /\ status' = Running
    <3>1. IsOpen(s, pc) \/ (~IsClosed(s, pc) /\ prog # "get_ports")
      BY <1>1, <2>1, <2>4 DEF Closing
    <3>2. closes = 0
      BY <2>1, <3>1 DEF Handles, OnItsWay
    <3> QED BY <2>1, <2>2, <2>4, <3>2 DEF Handles, OnItsWay, Running
  <2>5. CASE s[pc].failure = "return" /\ pc' = pc /\ status' = 1
    <3>1. ~IsOpen(s, pc) \/ s[pc].op = "close" \/ prog \in LeftOpen
      BY <1>1, <2>1, <2>5 DEF Closing
    <3>2. closes \in {0, 1} /\ (rh /\ ~IsOpen(s, pc) => closefailed /\ closes = 1)
      BY <2>1 DEF Handles, OnItsWay
    <3>3. closes' \in {0, 1} /\ closes' >= closes
      BY <2>1, <2>2, <3>2
    <3> QED BY <2>0, <2>1, <2>2, <2>5, <3>1, <3>2, <3>3 DEF Handles, OnItsWay, Running, ClosesOnce
  <2> QED BY <1>7, <2>3, <2>4, <2>5 DEF Leaves, Step
<1>8. CASE GivesUp
  <2>1. /\ status = Running /\ pc \in 1 .. Len(s) /\ pc' = 0 /\ status' = status /\ prog' = prog
        /\ UNCHANGED <<rh, closes, closefailed>> /\ s[pc].op \in {"verify", "testret"}
        /\ s[pc].op = "testret" => failing'
    BY <1>8 DEF GivesUp, Verify, TestRet, At, Step, resources, troubles, results
  <2>2. CASE s[pc].op = "verify"
    BY <1>1, <2>1, <2>2 DEF Closing, Handles, OnItsWay, Running
  <2>3. CASE s[pc].op = "testret"
    <3>1. CASE prog = "actions"
      BY <2>1, <2>3, <3>1 DEF Handles, OnItsWay, Running
    <3>2. CASE prog # "actions"
      <4>1. closes = 0
        BY <1>1, <2>1, <2>3, <3>2 DEF Closing, Handles, OnItsWay
      <4> QED BY <2>1, <4>1 DEF Handles, OnItsWay, Running
    <3> QED BY <3>1, <3>2
  <2> QED BY <2>1, <2>2, <2>3
<1>9. CASE Bail
  BY <1>1, <1>9 DEF Bail, Handles, OnItsWay, Running, ClosesOnce, troubles, results
<1>10. CASE Finish
  <2>1. /\ status = Running /\ pc = Len(s) + 1 /\ status' = final_result
        /\ UNCHANGED <<prog, pc, rh, closes, closefailed>>
    BY <1>10 DEF Finish, resources, troubles
  <2>2. CASE prog = "ha_nmsb"
    BY <1>1, <2>1, <2>2 DEF Handles, OnItsWay, Running, ClosesOnce
  <2>3. CASE prog # "ha_nmsb"
    <3>1. ~IsOpen(s, pc)
      BY <1>1, <2>1, <2>3 DEF Closing
    <3> QED BY <1>1, <2>1, <3>1 DEF Handles, OnItsWay, Running, ClosesOnce
  <2> QED BY <2>2, <2>3
<1>11. CASE Interrupt
  BY <1>11 DEF Interrupt, Handles, OnItsWay, Running, ClosesOnce
<1>12. CASE UNCHANGED vars
  BY <1>12 DEF vars, Handles, OnItsWay, ClosesOnce, IsOpen, IsClosed, Since, resources,
                troubles, results
<1> QED BY <1>2, <1>3, <1>4, <1>5, <1>6, <1>7, <1>8, <1>9, <1>10, <1>11, <1>12, AllSteps

-------------------------------------------------------------------------------
(* Key data and actions. *)

LEMMA GetPortsSteps ==
  /\ Len(GetPorts) = 12
  /\ \A k \in 1 .. 12 :
       /\ GetPorts[k].op = "for" <=> k = 1
       /\ GetPorts[k].op = "end" <=> k = 12
       /\ GetPorts[k].op = "key" <=> k = 6
       /\ GetPorts[k].op = "action" <=> k = 7
       /\ GetPorts[k].op \notin {"free", "freekey", "freeaction"}
       /\ GetPorts[k].failure \notin {"skip", "free", "dump"}
  /\ GetPorts[6].failure = "goto" /\ GetPorts[7].failure = "goto"
  /\ \A k \in 2 .. 12 : InLoop(GetPorts, k)
<1>1. Len(GetPorts) = 12 /\ GetPorts[6].failure = "goto" /\ GetPorts[7].failure = "goto"
  BY DEF GetPorts
<1>2. ASSUME NEW k \in 1 .. 12
      PROVE  /\ GetPorts[k].op = "for" <=> k = 1
             /\ GetPorts[k].op = "end" <=> k = 12
             /\ GetPorts[k].op = "key" <=> k = 6
             /\ GetPorts[k].op = "action" <=> k = 7
  BY DEF GetPorts
<1>3. ASSUME NEW k \in 1 .. 12
      PROVE  /\ GetPorts[k].op \notin {"free", "freekey", "freeaction"}
             /\ GetPorts[k].failure \notin {"skip", "free", "dump"}
  BY DEF GetPorts
<1>4. \A k \in 2 .. 12 : InLoop(GetPorts, k)
  BY <1>2 DEF InLoop, Since
<1> QED BY <1>1, <1>2, <1>3, <1>4

LEMMA StepsOfNdAdverts ==
  /\ Len(NdAdverts) = 10 /\ NdAdverts[8].failure = "never"
  /\ \A k \in 1 .. 10 : /\ NdAdverts[k].op = "use" <=> k = 8
                        /\ NdAdverts[k].op = "testret" <=> k = 9
                        /\ NdAdverts[k].op \notin {"key", "action", "free", "freekey"}
                        /\ NdAdverts[k].failure = "later" <=> k = 7
  BY Written DEF NdAdvertsSteps

LEMMA FreedInit == ASSUME ConfigAssumption, Init PROVE Freed
<1>1. ~HoldsKey(Script[prog], pc) /\ ~HoldsAction(Script[prog], pc)
  BY SinceFirst DEF Init, HoldsKey, HoldsAction
<1>2. pc = 1 /\ i = 0 /\ status = -1 /\ kds = 0 /\ acts = 0
  BY DEF Init, Running
<1> QED BY <1>1, <1>2 DEF ConfigAssumption, Freed, Rounds, OnItsWay, Running

\* Neither is allocated or freed.
LEMMA FreedQuiet ==
  ASSUME Course, Freed, prog # "get_ports", Go, status = Running, UNCHANGED <<kds, acts>>,
         pc' # pc => Script[prog][pc].op \notin {"key", "action", "free", "freekey", "freeaction"}
  PROVE  Freed'
<1> DEFINE s == Script[prog]
<1>1. Freeing(s, prog) /\ Len(s) \in Nat
  BY AllFreeing, AllOrderly DEF Course, Orderly
<1>2. HoldsKey(Script[prog], pc)' <=> HoldsKey(Script[prog], pc)
  BY <1>1, Shifted DEF HoldsKey, Freeing, Go
<1>3. HoldsAction(Script[prog], pc)' <=> HoldsAction(Script[prog], pc)
  BY <1>1, Shifted DEF HoldsAction, Freeing, Go
<1>4. (pc' = 0 <=> pc = 0) /\ prog' = prog /\ status' = status
  BY GoStays DEF Go
<1> QED BY <1>2, <1>3, <1>4 DEF Freed, OnItsWay, Running

\* The others.
LEMMA FreedOthers ==
  ASSUME Course, Freed, prog # "get_ports", [Next]_vars PROVE Freed'
<1> DEFINE s == Script[prog]
<1>1. /\ Freeing(s, prog) /\ Orderly(s, prog) /\ Len(s) \in Nat /\ prog \in Programs
      /\ pc \in 0 .. Len(s) + 1 /\ status \in {Running, 0, 1} /\ final_result \in {0, 1}
  BY AllFreeing, AllOrderly DEF Course, Orderly
<1>2. CASE Allocate
  <2>1. /\ prog' = prog /\ status = Running /\ status' = status
        /\ pc \in 1 .. Len(s) /\ pc' = pc + 1
        /\ s[pc].op \in {"key", "action"}
        /\ kds' = IF s[pc].op = "key" THEN kds + 1 ELSE kds
        /\ acts' = IF s[pc].op = "action" THEN acts + 1 ELSE acts
    BY <1>2 DEF Allocate, At, Step, Continue
  <2>2. /\ HoldsKey(Script[prog], pc)' <=> s[pc].op = "key" \/ HoldsKey(s, pc)
        /\ HoldsAction(Script[prog], pc)' <=> s[pc].op = "action" \/ HoldsAction(s, pc)
    BY <1>1, <2>1, Ahead DEF HoldsKey, HoldsAction
  <2>3. (s[pc].op = "key" => kds = 0) /\ (s[pc].op = "action" => acts = 0)
    BY <1>1, <2>1 DEF Freeing, Freed, OnItsWay
  <2> QED BY <2>1, <2>2, <2>3 DEF Freed, OnItsWay, Running
<1>3. CASE Free
  <2>1. /\ prog' = prog /\ status = Running /\ status' = status
        /\ pc \in 1 .. Len(s) /\ pc' = pc + 1
        /\ s[pc].op \in {"free", "freekey", "freeaction"}
        /\ kds' = IF s[pc].op = "freeaction" THEN kds ELSE kds - 1
        /\ acts' = IF s[pc].op = "freekey" THEN acts ELSE acts - 1
    BY <1>3 DEF Free, At, Step, Continue
  <2>2. /\ HoldsKey(Script[prog], pc)' <=> s[pc].op = "freeaction" /\ HoldsKey(s, pc)
        /\ HoldsAction(Script[prog], pc)' <=> s[pc].op = "freekey" /\ HoldsAction(s, pc)
    BY <1>1, <2>1, Ahead DEF HoldsKey, HoldsAction
  <2>3. (s[pc].op # "freeaction" => kds = 1) /\ (s[pc].op # "freekey" => acts = 1)
    BY <1>1, <2>1 DEF Freeing, Freed, OnItsWay
  <2> QED BY <2>1, <2>2, <2>3 DEF Freed, OnItsWay, Running
<1>4. CASE Calls /\ ~Allocate /\ ~Free
  <2>1. /\ UNCHANGED <<kds, acts>>
        /\ s[pc].op \notin {"key", "action", "free", "freekey", "freeaction"}
    BY <1>4 DEF Calls, Plain, Loop, LoopBack, OpenHandle, Flush, Clear, Add, Set, Commit, Close,
                Compare, Ask, Use, OpenCursor, ReadEntry, ReadEof, Await, Verify, TestRet, At, Step,
                resources
  <2> QED BY <1>4, <2>1, CallsGo, FreedQuiet
<1>5. CASE Around
  <2>1. UNCHANGED <<pc, kds, acts>> /\ status = Running
    BY <1>5 DEF Around, OthersFlush, OthersAdd, RulesdFails, At, resources
  <2> QED BY <1>5, <2>1, AroundGo, FreedQuiet
<1>6. CASE GoesOn
  <2>1. /\ pc \in 1 .. Len(s) /\ UNCHANGED <<kds, acts>> /\ status = Running
        /\ s[pc].op \notin {"free", "freekey", "freeaction"}
    BY <1>6 DEF GoesOn, Fail, At, Step
  <2>2. s[pc].op \notin {"key", "action"}
    BY <1>1, <1>6, <2>1 DEF GoesOn, Freeing, Step
  <2> QED BY <1>6, <2>1, <2>2, GoesOnMoves, FreedQuiet DEF Go
<1>7. CASE Leaves
  <2>1. /\ status = Running /\ pc \in 1 .. Len(s) /\ prog' = prog
        /\ kds' = IF s[pc].failure \in {"free", "dump"} THEN 0 ELSE kds
        /\ acts' = IF s[pc].failure \in {"free", "dump"} THEN 0 ELSE acts
    BY <1>7 DEF Leaves, Fail, At, Step
  <2>2. CASE s[pc].failure = "dump" /\ pc' = 9 /\ prog = "read_rule" /\ status' = Running
    <3>1. ~HoldsKey(Script[prog], pc)' /\ ~HoldsAction(Script[prog], pc)'
      <4>1. ~HoldsKey(s, 9) /\ ~HoldsAction(s, 9)
        BY <1>1, <2>2 DEF Freeing
      <4> QED BY <2>1, <2>2, <4>1 DEF HoldsKey, HoldsAction, Since
    <3> QED BY <2>1, <2>2, <3>1 DEF Freed, OnItsWay, Running
  <2>3. CASE s[pc].failure = "free" /\ pc' = 0
    BY <2>1, <2>3 DEF Freed, OnItsWay
  <2>4. CASE s[pc].failure \in {"goto", "return"} /\ (pc' = 0 \/ status' = 1)
    <3>1. prog \notin Leaky => kds = 0 /\ acts = 0
      BY <1>1, <2>1, <2>4 DEF Freeing, Freed, OnItsWay
    <3> QED BY <2>1, <2>4, <3>1 DEF Freed, OnItsWay, Running
  <2> QED BY <1>7, <2>2, <2>3, <2>4 DEF Leaves, Step
<1>8. CASE GivesUp
  <2>1. /\ pc \in 1 .. Len(s) /\ pc' = 0 /\ prog' = prog /\ UNCHANGED <<kds, acts>>
        /\ s[pc].op \in {"verify", "testret"}
    BY <1>8 DEF GivesUp, Verify, TestRet, At, Step, resources
  <2>2. prog \in Leaky \/ (prog = "nd_adverts" /\ pc = 9)
    BY <1>1, <2>1 DEF Orderly, Leaky
  <2>3. ASSUME prog = "nd_adverts" PROVE kds = 0 /\ acts = 0
    <3>1. ~HoldsKey(s, pc) /\ ~HoldsAction(s, pc)
      <4>1. s = NdAdverts
        BY <2>3 DEF Script
      <4> QED BY <2>1, <4>1, StepsOfNdAdverts DEF HoldsKey, HoldsAction, Since
    <3>2. OnItsWay
      BY <1>8, <2>1 DEF GivesUp, Verify, TestRet, At, OnItsWay
    <3> QED BY <2>3, <3>1, <3>2 DEF Freed
  <2> QED BY <2>1, <2>2, <2>3 DEF Freed, OnItsWay
<1>9. CASE Bail
  BY <1>1, <1>9 DEF Bail, Freed, OnItsWay
<1>10. CASE Finish
  <2>1. /\ status = Running /\ pc = Len(s) + 1 /\ status' = final_result
        /\ UNCHANGED <<prog, kds, acts>>
    BY <1>10 DEF Finish, resources
  <2>2. prog \notin Leaky => kds = 0 /\ acts = 0
    BY <1>1, <2>1 DEF Freeing, Freed, OnItsWay
  <2> QED BY <1>1, <2>1, <2>2 DEF Freed, OnItsWay, Running
<1>11. CASE Interrupt
  <2>1. /\ prog = "dump_ifids" /\ status = Running /\ status' = 1 /\ UNCHANGED <<prog, kds, acts>>
    BY <1>11 DEF Interrupt
  <2>2. ~HoldsKey(s, pc) /\ ~HoldsAction(s, pc)
    BY <1>1, <2>1 DEF Freeing, HoldsKey, HoldsAction, Since
  <2> QED BY <2>1, <2>2 DEF Freed, OnItsWay, Running
<1>12. CASE UNCHANGED vars
  BY <1>12 DEF vars, Freed, OnItsWay, HoldsKey, HoldsAction, Since, resources
<1> QED BY <1>2, <1>3, <1>4, <1>5, <1>6, <1>7, <1>8, <1>9, <1>10, <1>11, <1>12, AllSteps

LEMMA FreedGetPorts ==
  ASSUME ConfigAssumption, Course, Freed, prog = "get_ports", [Next]_vars PROVE Freed'
<1> DEFINE s == Script[prog]
<1>1. /\ s = GetPorts /\ pc \in 0 .. 13 /\ i \in 0 .. N /\ N \in Nat /\ status \in {Running, 0, 1}
      /\ final_result = 0
      /\ pc \in 2 .. 12 => i >= 1
      /\ pc = 13 => i = 0
  <2>1. s = GetPorts
    BY DEF Script
  <2>2. Len(s) = 12 /\ Orderly(s, prog)
    BY <2>1, GetPortsSteps, AllOrderly DEF Course
  <2> QED BY <2>1, <2>2, GetPortsSteps DEF Course, ConfigAssumption, Orderly
<1>2. CASE Allocate
  <2>1. /\ prog' = prog /\ status = Running /\ status' = status /\ pc' = pc + 1 /\ i' = i
        /\ \/ pc = 6 /\ kds' = kds + 1 /\ acts' = acts
           \/ pc = 7 /\ kds' = kds /\ acts' = acts + 1
    BY <1>1, <1>2, GetPortsSteps DEF Allocate, At, Step, Continue
  <2> QED BY <1>1, <2>1 DEF Freed, Rounds, OnItsWay, Running
<1>3. CASE Loop
  <2>1. /\ prog' = prog /\ status = Running /\ status' = status /\ pc = 1 /\ UNCHANGED <<kds, acts>>
    BY <1>1, <1>3, GetPortsSteps DEF Loop, At, Step, resources
  <2>2. CASE i < N /\ pc' = 2 /\ i' = i + 1
    BY <1>1, <2>1, <2>2 DEF Freed, Rounds, OnItsWay, Running
  <2>3. CASE i = N /\ i' = 0 /\ pc' = 13
    BY <1>1, <2>1, <2>3 DEF Freed, Rounds, OnItsWay, Running
  <2>4. \A k \in LoopEnd : k = 12
    BY <1>1, <2>1, GetPortsSteps DEF LoopEnd
  <2> QED BY <1>3, <2>1, <2>2, <2>3, <2>4 DEF Loop, Unbounded
<1>4. CASE LoopBack
  <2>1. /\ prog' = prog /\ status = Running /\ status' = status /\ pc = 12 /\ i' = i
        /\ UNCHANGED <<kds, acts>> /\ pc' \in LoopHead
    BY <1>1, <1>4, GetPortsSteps DEF LoopBack, At, Step, resources
  <2>2. pc' = 1
    BY <1>1, <2>1, GetPortsSteps DEF LoopHead
  <2> QED BY <1>1, <2>1, <2>2 DEF Freed, Rounds, OnItsWay, Running
<1>5. CASE Calls /\ ~Allocate /\ ~Loop /\ ~LoopBack
  <2>1. ~Free
    BY <1>1, GetPortsSteps DEF Free, At, Step
  <2>2. /\ prog' = prog /\ status = Running /\ status' = status /\ UNCHANGED <<kds, acts, i>>
        /\ pc \in 2 .. 11 \ {6, 7} /\ pc' \in {pc, pc + 1}
    BY <1>1, <1>5, <2>1, GetPortsSteps
       DEF Calls, Plain, OpenHandle, Flush, Clear, Add, Set, Commit, Close, Compare, Ask, Use,
           OpenCursor, ReadEntry, ReadEof, Await, Verify, TestRet, At, Step, Continue, resources
  <2> QED BY <1>1, <2>2 DEF Freed, Rounds, OnItsWay, Running
<1>6. CASE Around
  <2>1. UNCHANGED <<prog, pc, i, status, kds, acts>>
    BY <1>6 DEF Around, OthersFlush, OthersAdd, RulesdFails, resources
  <2> QED BY <1>1, <2>1 DEF Freed, Rounds, OnItsWay
<1>7. CASE GoesOn
  <2>1. /\ prog' = prog /\ pc' = pc + 1 /\ UNCHANGED <<i, status, kds, acts>>
        /\ pc \in 2 .. 11
    BY <1>1, <1>7, GetPortsSteps DEF GoesOn, Fail, At, Step
  <2>2. pc \notin {6, 7}
    BY <1>1, <1>7, GetPortsSteps DEF GoesOn, Step
  <2> QED BY <1>1, <2>1, <2>2 DEF Freed, Rounds, OnItsWay, Running
<1>8. CASE Leaves
  <2>1. /\ prog' = prog /\ UNCHANGED <<kds, acts>> /\ (pc' = 0 \/ status' = 1)
    BY <1>1, <1>8, GetPortsSteps DEF Leaves, Fail, At, Step
  <2> QED BY <2>1 DEF Freed, OnItsWay, Running
<1>9. CASE GivesUp \/ Bail \/ Interrupt
  <2>1. /\ prog' = prog /\ UNCHANGED <<kds, acts>> /\ (pc' = 0 \/ status' = 1)
    BY <1>9 DEF GivesUp, Verify, TestRet, Bail, Interrupt, resources
  <2> QED BY <2>1 DEF Freed, OnItsWay, Running
<1>10. CASE Finish
  BY <1>1, <1>10 DEF Finish, Freed, OnItsWay, Running, resources
<1>11. CASE UNCHANGED vars
  BY <1>11 DEF vars, Freed, Rounds, OnItsWay, resources
<1> QED BY <1>2, <1>3, <1>4, <1>5, <1>6, <1>7, <1>8, <1>9, <1>10, <1>11, AllSteps

LEMMA FreedNext == ASSUME ConfigAssumption, Course, Freed, [Next]_vars PROVE Freed'
  BY FreedOthers, FreedGetPorts

-------------------------------------------------------------------------------
(* Questions and answers. *)

LEMMA PrintedInit == ASSUME Init PROVE Printed
<1>1. ~Answered(Script[prog], pc)
  BY SinceFirst DEF Init, Answered
<1> QED BY <1>1 DEF Init, Printed, PrintsWhatItAsked

LEMMA AnsweredNext ==
  ASSUME NEW s, NEW k \in Nat \ {0}
  PROVE  Answered(s, k + 1) <=>
           \/ s[k].op = "ask"
           \/ Answered(s, k) /\ s[k].op \notin {"ask", "resize", "for", "end", "use"}
  BY DEF Answered, Since

\* Nothing is answered or used.
LEMMA PrintedQuiet ==
  ASSUME Course, Printed, Go, status = Running, UNCHANGED <<kept, uses>>,
         asked' = asked \/ (asked' = asked + 1 /\ pc' # pc),
         pc' # pc => /\ Script[prog][pc].op \notin {"ask", "resize", "use"} => asked' = asked
                     /\ Script[prog][pc].op = "ask" =>
                          \/ prog \in Stale
                          \/ pc' <= Len(Script[prog]) /\ Script[prog][pc'].op = "end"
  PROVE  Printed'
<1> DEFINE s == Script[prog]
<1>1. Frank(s, prog) /\ Len(s) \in Nat
  BY AllFrank, AllOrderly DEF Course, Orderly
<1>2. Answered(Script[prog], pc)' <=> Answered(s, pc')
  BY DEF Answered, Since, Go
<1>3. (pc' = 0 <=> pc = 0) /\ prog' = prog /\ status' = status
  BY GoStays DEF Go
<1>4. CASE pc' = pc
  BY <1>2, <1>3, <1>4 DEF Printed, OnItsWay, PrintsWhatItAsked
<1>5. CASE pc \in 1 .. Len(s) /\ pc' = pc + 1 /\ s[pc].op \notin {"for", "end"}
  <2>1. Answered(s, pc') => s[pc].op = "ask" \/ (Answered(s, pc) /\ asked' = asked)
    BY <1>5, AnsweredNext
  <2>2. pc' <= Len(s) /\ s[pc'].op = "end" => ~Answered(s, pc')
    BY <1>1, <1>5 DEF Frank
  <2> QED BY <1>2, <1>3, <1>5, <2>1, <2>2 DEF Printed, OnItsWay, PrintsWhatItAsked
<1>6. CASE pc' # pc /\ ~(pc \in 1 .. Len(s) /\ pc' = pc + 1 /\ s[pc].op \notin {"for", "end"})
  <2>1. ~Answered(s, pc')
    <3>1. CASE pc \in 1 .. Len(s) /\ s[pc].op = "for" /\ pc' = pc + 1
      BY <3>1, AnsweredNext
    <3>2. CASE \E e \in 1 .. Len(s) : s[e].op = "end" /\ pc' = e + 1
      <4>1. PICK e \in 1 .. Len(s) : s[e].op = "end" /\ pc' = e + 1
        BY <3>2
      <4>2. e \in Nat \ {0}
        BY <1>1, <4>1
      <4> QED BY <4>1, <4>2, AnsweredNext
    <3>3. CASE \E k \in 1 .. Len(s) : s[k].op \in {"for", "end"} /\ pc' = k
      BY <1>1, <3>3 DEF Frank
    <3> QED BY <1>6, <3>1, <3>2, <3>3 DEF Go, Shift, EndOf, HeadOf
  <2> QED BY <1>2, <1>3, <2>1 DEF Printed, OnItsWay, PrintsWhatItAsked
<1> QED BY <1>4, <1>5, <1>6

LEMMA PrintedNext == ASSUME Course, Printed, [Next]_vars PROVE Printed'
<1> DEFINE s == Script[prog]
<1>1. /\ Frank(s, prog) /\ Orderly(s, prog) /\ Len(s) \in Nat /\ prog \in Programs
      /\ pc \in 0 .. Len(s) + 1 /\ asked \in Nat /\ kept \in Nat /\ kept <= asked
  BY AllFrank, AllOrderly DEF Course, Orderly, Printed
<1>2. CASE Ask
  <2>1. /\ prog' = prog /\ asked' = asked + 1 /\ kept' = asked'
        /\ uses' = uses \/ (prog = "ha_flowsync" /\ uses' = uses \union {<<0, kept>>})
    BY <1>1, <1>2 DEF Ask, At, Step, Frank
  <2> QED BY <1>1, <2>1 DEF Printed, PrintsWhatItAsked
<1>3. CASE Use
  <2>1. /\ prog' = prog /\ status = Running /\ status' = status /\ pc \in 1 .. Len(s)
        /\ pc' = pc + 1 /\ s[pc].op = "use" /\ uses' = uses \union {<<asked, kept>>}
        /\ UNCHANGED <<asked, kept>>
    BY <1>3 DEF Use, At, Step, Continue
  <2>2. ~Answered(Script[prog], pc)'
    BY <1>1, <2>1, Ahead DEF Answered
  <2>3. kept = asked \/ (prog \in Stale /\ kept < asked)
    BY <1>1, <2>1 DEF Frank, Printed, OnItsWay
  <2> QED BY <1>1, <2>1, <2>2, <2>3 DEF Printed, PrintsWhatItAsked, Stale
<1>4. CASE Calls /\ ~Ask /\ ~Use
  <2>1. UNCHANGED answers /\ s[pc].op # "ask"
    BY <1>4 DEF Calls, Plain, Loop, LoopBack, OpenHandle, Allocate, Free, Flush, Clear, Add, Set,
                Commit, Close, Compare, OpenCursor, ReadEntry, ReadEof, Await, Verify, TestRet, At,
                Step, reading
  <2> QED BY <1>4, <2>1, CallsGo, PrintedQuiet DEF answers
<1>5. CASE Around
  <2>1. UNCHANGED answers /\ pc' = pc /\ status = Running
    BY <1>5 DEF Around, OthersFlush, OthersAdd, RulesdFails, At, reading
  <2> QED BY <1>5, <2>1, AroundGo, PrintedQuiet DEF answers
<1>6. CASE GoesOn
  <2>1. /\ pc \in 1 .. Len(s) /\ status = Running /\ UNCHANGED <<kept, uses>>
        /\ asked' = IF s[pc].op \in {"ask", "resize"} THEN asked + 1 ELSE asked
        /\ s[pc].failure \in {"ignored", "later"} \/ (s[pc].failure = "skip" /\ pc' \in LoopEnd)
        /\ s[pc].op \notin {"for", "end"}
    BY <1>6 DEF GoesOn, Fail, At, Step
  <2>2. pc' # pc
    <3>1. s[pc].failure \in {"ignored", "later"} => pc' = pc + 1
      BY <1>6 DEF GoesOn, Fail, Step
    <3>2. s[pc].failure = "skip" => s[pc'].op = "end"
      BY <2>1, <3>1 DEF LoopEnd
    <3> QED BY <1>1, <2>1, <3>1, <3>2
  <2>3. s[pc].op = "ask" => prog \in Stale \/ (pc' <= Len(s) /\ s[pc'].op = "end")
    BY <1>1, <2>1 DEF Frank, LoopEnd
  <2> QED BY <1>6, <2>1, <2>2, <2>3, GoesOnMoves, PrintedQuiet DEF Go
<1>7. CASE Leaves
  <2>1. /\ status = Running /\ pc \in 1 .. Len(s) /\ UNCHANGED <<prog, kept, uses>>
        /\ asked' = IF s[pc].op \in {"ask", "resize"} THEN asked + 1 ELSE asked
        /\ (pc' = 9 /\ prog = "read_rule" /\ status' = Running) \/ pc' = 0 \/ status' = 1
    BY <1>7 DEF Leaves, Fail, At, Step
  <2>2. OnItsWay' => ~Answered(Script[prog], pc)'
    <3>1. CASE pc' = 9 /\ prog = "read_rule"
      <4>1. Len(s) = 10 /\ \A k \in 1 .. 10 : s[k].op # "ask"
        BY <1>1, <3>1 DEF Orderly, Frank
      <4> QED BY <2>1, <3>1, <4>1 DEF Answered, Since
    <3> QED BY <2>1, <3>1 DEF OnItsWay, Running
  <2> QED BY <1>1, <2>1, <2>2 DEF Printed, PrintsWhatItAsked
<1>8. CASE GivesUp \/ Bail \/ Finish \/ Interrupt
  <2>1. /\ UNCHANGED <<prog, answers>>
        /\ ~OnItsWay' \/ UNCHANGED <<pc, status>>
    BY <1>8, <1>1
       DEF GivesUp, Verify, TestRet, Bail, Finish, Interrupt, reading, OnItsWay, Running, Course
  <2>2. UNCHANGED <<pc, status>> => (Answered(Script[prog], pc)' <=> Answered(s, pc))
    BY <2>1 DEF Answered, Since
  <2> QED BY <2>1, <2>2 DEF Printed, PrintsWhatItAsked, OnItsWay, answers
<1>9. CASE UNCHANGED vars
  BY <1>9 DEF vars, Printed, PrintsWhatItAsked, OnItsWay, Answered, Since, reading, answers
<1> QED BY <1>2, <1>3, <1>4, <1>5, <1>6, <1>7, <1>8, <1>9, AllSteps

-------------------------------------------------------------------------------
(* What is added and what is in force. *)

LEMMA IndtblSteps ==
  /\ Len(Indtbl) = 11
  /\ \A k \in 1 .. 11 : /\ Indtbl[k].op = "for" <=> k = 8
                        /\ Indtbl[k].op = "end" <=> k = 10
                        /\ Indtbl[k].op = "close" <=> k = 11
                        /\ Indtbl[k].failure # "skip"
  BY DEF Indtbl

\* What indtbl has not counted it never counts again.
LEMMA StaysCut == ASSUME Course, Go, Cut, ignored => ignored' PROVE Cut'
<1>1. Script[prog] = Indtbl /\ pc \in Nat /\ prog = "indtbl" /\ pc > 10
  BY AllOrderly DEF Cut, Unbounded, Script, Course, Orderly
<1>2. pc' \in {pc, pc + 1}
  BY <1>1, IndtblSteps DEF Go, Shift
<1> QED BY <1>1, <1>2 DEF Cut, Unbounded, Go

\* Where it adds, sets, commits or clears it still counts.
LEMMA NeverCut ==
  ASSUME Course, status = Running, pc \in 1 .. Len(Script[prog]), prog' = prog, pc' = pc + 1,
         Script[prog][pc].op \in {"add", "set", "commit", "flush"}
  PROVE  ~Cut /\ ~Cut'
<1>1. CASE prog = "indtbl"
  <2>1. Script[prog] = Indtbl
    BY <1>1 DEF Script
  <2>2. pc \in 1 .. 9
    BY <2>1, IndtblSteps
  <2> QED BY <2>2 DEF Cut
<1>2. CASE prog # "indtbl"
  BY <1>2 DEF Cut, Unbounded
<1> QED BY <1>1, <1>2

LEMMA CountedMoves ==
  ASSUME ConfigAssumption, Course, Go, pc # 0, ignored => ignored', ~Cut'
  PROVE  Counted(prog, pc, i)' =
           IF pc' # pc /\ Script[prog][pc].op \in {"add", "set"}
           THEN Counted(prog, pc, i) + 1 ELSE Counted(prog, pc, i)
<1> DEFINE s == Script[prog]
<1>1. /\ CountedInOrder(s, prog) /\ InTurn(s, prog) /\ Orderly(s, prog)
      /\ i \in 0 .. N /\ Len(s) \in Nat /\ N \in Nat
  BY AllCountedInOrder, AllInTurn, AllOrderly DEF Course, Orderly, ConfigAssumption
<1>2. Counted(prog, pc, i)' = Counted(prog, pc', i')
  BY DEF Counted, Past, Less, Go
<1>3. CASE pc' = pc /\ i' = i
  BY <1>2, <1>3
<1>4. CASE pc \in 1 .. Len(s) /\ s[pc].op \notin {"for", "end"} /\ pc' = pc + 1 /\ i' = i
  BY <1>1, <1>2, <1>4 DEF CountedInOrder
<1>5. CASE pc \in 1 .. Len(s) /\ s[pc].op = "for" /\ i < N /\ pc' = pc + 1 /\ i' = i + 1
  BY <1>1, <1>2, <1>5 DEF CountedInOrder
<1>6. CASE /\ pc \in 1 .. Len(s) /\ s[pc].op = "for" /\ (i = N \/ Unbounded) /\ i' = 0
           /\ \E e \in 1 .. Len(s) : EndOf(s, pc, e) /\ pc' = e + 1
  <2>1. ~Unbounded
    <3> SUFFICES ASSUME Unbounded PROVE FALSE
      OBVIOUS
    <3>1. s = Indtbl /\ Unbounded'
      BY DEF Script, Unbounded, Go
    <3>2. PICK e \in 1 .. Len(s) : EndOf(s, pc, e) /\ pc' = e + 1
      BY <1>6
    <3>3. e = 10
      BY <3>1, <3>2, IndtblSteps DEF EndOf
    <3> QED BY <3>1, <3>2, <3>3 DEF Cut
  <2> QED BY <1>1, <1>2, <1>6, <2>1 DEF CountedInOrder
<1>7. CASE /\ pc \in 1 .. Len(s) /\ s[pc].op = "end" /\ i' = i
           /\ \E h \in 1 .. Len(s) : HeadOf(s, pc, h) /\ pc' = h
  BY <1>1, <1>2, <1>7 DEF CountedInOrder
<1>8. CASE /\ pc \in 1 .. Len(s) /\ s[pc].failure = "skip" /\ i' = i
           /\ \E e \in 1 .. Len(s) : EndOf(s, pc, e) /\ pc' = e
  <2>1. s[pc].op \notin {"add", "set"}
    BY <1>1, <1>8 DEF InTurn
  <2> QED BY <1>1, <1>2, <1>8, <2>1 DEF CountedInOrder
<1> QED BY <1>3, <1>4, <1>5, <1>6, <1>7, <1>8 DEF Go, Shift

LEMMA InstalledInit == ASSUME ConfigAssumption, Init PROVE Installed
<1> DEFINE s == Script[prog]
<1>1. ~IsCommitted(s, pc) /\ ~IsFlushed(s, pc)
  BY SinceFirst DEF Init, IsCommitted, IsFlushed
<1>2. Counted(prog, pc, i) = 0
  BY AllCountedInOrder DEF Init, CountedInOrder
<1>3. number = 0 /\ added = {} /\ hw \in {{}, {0}}
  BY DEF Init
<1>4. ~ignored
  BY DEF Init
<1>5. NeverHalfInstalled
  <2>1. hw \intersect Committed(prog) = {}
    BY <1>3, ConfigAssumption DEF Committed, ConfigAssumption
  <2> QED BY <1>3, <2>1 DEF NeverHalfInstalled
<1> QED BY <1>1, <1>2, <1>3, <1>4, <1>5 DEF Installed, Pending, Others

\* What is in force remains, and so does what is added, or it does not matter any more.
LEMMA InstalledQuiet ==
  ASSUME ConfigAssumption, Course, Installed, Go, status = Running,
         UNCHANGED <<added, hw, disturbed>>, groups' => groups,
         ignored => ignored', prog = "ports" => ~ignored',
         number' = IF pc' # pc /\ Script[prog][pc].op \in {"add", "set"}
                   THEN number + 1 ELSE number,
         pc' # pc => /\ Script[prog][pc].op # "commit"
                     /\ Script[prog][pc].op \in {"add", "set", "flush"} => ignored'
  PROVE  Installed'
<1> DEFINE s == Script[prog]
<1>1. InTurn(s, prog) /\ Len(s) \in Nat
  BY AllInTurn, AllOrderly DEF Course, Orderly
<1>2. IsCommitted(Script[prog], pc)' <=> IsCommitted(Script[prog], pc)
  BY <1>1, Shifted DEF IsCommitted, InTurn, Go
<1>3. ~ignored' => (IsFlushed(Script[prog], pc)' <=> IsFlushed(Script[prog], pc))
  BY <1>1, Shifted DEF IsFlushed, InTurn, Go
<1>4. (pc' = 0 <=> pc = 0) /\ prog' = prog /\ status' = status
  BY GoStays DEF Go
<1>5. number' \in Nat /\ (OnWay' /\ ~Cut' => number' = Counted(prog, pc, i)')
  BY <1>4, StaysCut, CountedMoves DEF Installed, OnWay
<1>6. ~ignored' => number' = number
  OBVIOUS
<1>7. NeverHalfInstalled'
  BY <1>4 DEF Installed, NeverHalfInstalled, Committed, Replaces
<1> QED BY <1>2, <1>3, <1>4, <1>5, <1>6, <1>7 DEF Installed, Pending, OnWay, Intended

\* Where the next addition or setting has its number.
LEMMA NextNumber ==
  ASSUME ConfigAssumption, Course, Installed, status = Running, pc \in 1 .. Len(Script[prog]),
         Script[prog][pc].op \in {"add", "set"}
  PROVE  /\ number + 1 \in Intended(prog) /\ number + 1 \in Nat \ {0}
         /\ Script[prog][pc].op = "set" => number + 1 \notin Committed(prog)
<1> DEFINE s == Script[prog]
<1>1. AsIntended(s, prog) /\ Orderly(s, prog) /\ i \in 0 .. N
  BY AllAsIntended, AllOrderly DEF Course
<1>2. InLoop(s, pc) => i >= 1
  BY DEF Course
<1>3. number = Counted(prog, pc, i) /\ number \in Nat
  <2>1. ~Cut
    <3>1. CASE prog = "indtbl"
      <4>1. s = Indtbl
        BY <3>1 DEF Script
      <4>2. pc \in 1 .. 9
        BY <4>1, IndtblSteps
      <4> QED BY <4>2 DEF Cut
    <3>2. CASE prog # "indtbl"
      BY <3>2 DEF Cut, Unbounded
    <3> QED BY <3>1, <3>2
  <2> QED BY <2>1 DEF Installed, OnWay, Running
<1> QED BY <1>1, <1>2, <1>3 DEF AsIntended, NumberFits

LEMMA InstalledAdd == ASSUME ConfigAssumption, Course, Installed, Add PROVE Installed'
<1> DEFINE s == Script[prog]
<1>1. /\ prog' = prog /\ status = Running /\ status' = status /\ pc \in 1 .. Len(s)
      /\ pc' = pc + 1 /\ s[pc].op = "add" /\ number' = number + 1
      /\ added' = added \union {number + 1}
      /\ UNCHANGED <<hw, groups, ignored, disturbed>>
  BY DEF Add, At, Step, Continue, troubles
<1>2. InTurn(s, prog) /\ Len(s) \in Nat
  BY AllInTurn, AllOrderly DEF Course, Orderly
<1>3. Pending /\ Pending'
  <2>1. Pending
    BY <1>1, <1>2 DEF InTurn, Pending
  <2>2. ~IsCommitted(Script[prog], pc)'
    BY <1>1, <1>2, <2>1, Ahead DEF IsCommitted, Pending
  <2> QED BY <1>1, <2>1, <2>2 DEF Pending
<1>4. IsFlushed(Script[prog], pc)' <=> IsFlushed(s, pc)
  BY <1>1, <1>2, Ahead DEF IsFlushed
<1>5. number' = Counted(prog, pc, i)'
  BY <1>1, CallsGo, NeverCut, CountedMoves DEF Calls, Installed, OnWay, Running
<1>6. number + 1 \in Intended(prog) /\ number + 1 \in Nat \ {0}
  BY <1>1, NextNumber
<1>7. NeverHalfInstalled'
  BY <1>1 DEF Installed, NeverHalfInstalled, Committed, Replaces
<1>8. Intended(prog)' = Intended(prog)
  BY <1>1 DEF Intended
<1> QED BY <1>1, <1>3, <1>4, <1>5, <1>6, <1>7, <1>8 DEF Installed, OnWay, Running

LEMMA LoadBalanceSteps ==
  /\ Len(LoadBalanceScript) = 6
  /\ \A k \in 1 .. 6 : /\ LoadBalanceScript[k].failure = "ignored"
                       /\ LoadBalanceScript[k].op \notin {"for", "end", "add", "commit", "read"}
                       /\ LoadBalanceScript[k].op = "set" <=> k \in {2, 4, 6}
                       /\ LoadBalanceScript[k].op = "clear" <=> k = 3
  BY DEF LoadBalanceScript

\* While the old groups are there the script sets no new one.
LEMMA FirstSetting ==
  ASSUME Course, Grouped, groups, ~ignored, status = Running, pc \in 1 .. Len(Script[prog]),
         Script[prog][pc].op = "set"
  PROVE  Counted(prog, pc, i) = 0
<1>1. prog = "load_balance" /\ pc \in 1 .. 3
  BY AllOrderly DEF Grouped, OnWay, Running
<1>2. pc = 2
  BY <1>1, LoadBalanceSteps DEF Script
<1> QED BY <1>1, <1>2 DEF Counted, Past

LEMMA InstalledSet ==
  ASSUME ConfigAssumption, Course, Installed, Grouped, Set PROVE Installed'
<1> DEFINE s == Script[prog]
<1>1. /\ prog' = prog /\ status = Running /\ status' = status /\ pc \in 1 .. Len(s)
      /\ pc' = pc + 1 /\ s[pc].op = "set" /\ number' = number + 1
      /\ hw' = hw \union {number + 1}
      /\ UNCHANGED <<added, groups, ignored, disturbed>>
  BY DEF Set, At, Step, Continue, troubles
<1>2. InTurn(s, prog) /\ Len(s) \in Nat
  BY AllInTurn, AllOrderly DEF Course, Orderly
<1>3. ~Pending /\ ~Pending'
  <2>1. ~Pending
    BY <1>1, <1>2 DEF InTurn, Pending
  <2>2. IsCommitted(s, pc) => IsCommitted(Script[prog], pc)'
    BY <1>1, <1>2, Ahead DEF IsCommitted
  <2> QED BY <1>1, <2>1, <2>2 DEF Pending
<1>4. IsFlushed(Script[prog], pc)' <=> IsFlushed(s, pc)
  BY <1>1, <1>2, Ahead DEF IsFlushed
<1>5. number' = Counted(prog, pc, i)'
  BY <1>1, CallsGo, NeverCut, CountedMoves DEF Calls, Installed, OnWay, Running
<1>6. /\ number + 1 \in Intended(prog) /\ number + 1 \in Nat \ {0}
      /\ number + 1 \notin Committed(prog) /\ number \in Nat
  BY <1>1, NextNumber DEF Installed
<1>7. ~ignored /\ ~disturbed => hw \ {0} = 1 .. number /\ hw' \ {0} = 1 .. number + 1
  BY <1>1, <1>3, <1>6 DEF Installed, OnWay, Running
<1>8. ASSUME ~ignored PROVE prog \in Replacing => 0 \notin hw
  BY <1>1, <1>2, <1>8 DEF InTurn, Installed, OnWay, Running
<1>9. NeverHalfInstalled'
  <2>1. Committed(prog)' = Committed(prog) /\ (Replaces' <=> prog \in Replacing)
    BY <1>1 DEF Committed, Replaces, Replacing
  <2>2. hw' \intersect Committed(prog) = hw \intersect Committed(prog)
    BY <1>1, <1>6
  <2>3. ~ignored => (0 \in hw' /\ prog \in Replacing => hw' \subseteq {0, Others})
    BY <1>1, <1>6, <1>8
  <2>4. ~ignored /\ ~disturbed => \A n \in hw' \ {0} : 1 .. n \subseteq hw'
    BY <1>6, <1>7
  <2>5. ~ignored => (groups' => 2 \notin hw')
    <3> SUFFICES ASSUME ~ignored, groups PROVE 2 \notin hw'
      BY <1>1
    <3>1. number = 0
      BY <1>1, NeverCut, FirstSetting DEF Installed, OnWay, Running
    <3> QED BY <1>1, <3>1 DEF Installed, NeverHalfInstalled
  <2> QED BY <1>1, <2>1, <2>2, <2>3, <2>4, <2>5 DEF Installed, NeverHalfInstalled
<1>10. Intended(prog)' = Intended(prog)
  BY <1>1 DEF Intended
<1>11. OnWay /\ OnWay' /\ (ignored' <=> ignored) /\ (disturbed' <=> disturbed)
  BY <1>1 DEF OnWay, Running
<1>12. ~disturbed => Others \notin hw'
  BY <1>1, <1>6 DEF Installed, Others
<1> QED BY <1>1, <1>3, <1>4, <1>5, <1>6, <1>7, <1>9, <1>10, <1>11, <1>12 DEF Installed

LEMMA InstalledCommit ==
  ASSUME ConfigAssumption, Course, Installed, Grouped, Commit PROVE Installed'
<1> DEFINE s == Script[prog]
<1>1. /\ prog' = prog /\ status = Running /\ status' = status /\ pc \in 1 .. Len(s)
      /\ pc' = pc + 1 /\ s[pc].op = "commit" /\ number' = number
      /\ hw' = hw \union added /\ added' = {}
      /\ UNCHANGED <<groups, ignored, disturbed>>
  BY DEF Commit, At, Step, Continue, troubles
<1>2. /\ InTurn(s, prog) /\ AsIntended(s, prog) /\ Len(s) \in Nat
      /\ ~InLoop(s, pc) => i = 0
  BY <1>1, AllInTurn, AllAsIntended, AllOrderly DEF Course, Orderly
<1>3. Pending /\ ~Pending'
  <2>1. Pending
    BY <1>1, <1>2 DEF InTurn, Pending
  <2>2. IsCommitted(Script[prog], pc)'
    BY <1>1, <1>2, Ahead DEF IsCommitted
  <2> QED BY <2>1, <2>2 DEF Pending
<1>4. IsFlushed(Script[prog], pc)' <=> IsFlushed(s, pc)
  BY <1>1, <1>2, Ahead DEF IsFlushed
<1>5. number' = Counted(prog, pc, i)'
  BY <1>1, CallsGo, NeverCut, CountedMoves DEF Calls, Installed, OnWay, Running
<1>6. Committed(prog) = 1 .. number /\ number \in Nat
  <2>1. i = 0
    BY <1>1, <1>2 DEF InTurn
  <2>2. number = Counted(prog, pc, i) /\ number \in Nat
    BY <1>1, NeverCut DEF Installed, OnWay, Running
  <2> QED BY <1>1, <1>2, <2>1, <2>2 DEF AsIntended, NumbersSoFar
<1>7. /\ Committed(prog)' = Committed(prog) /\ Intended(prog)' = Intended(prog)
      /\ Replaces' <=> prog \in Replacing
  BY <1>1 DEF Committed, Intended, Replaces, Replacing
<1>8. OnWay /\ OnWay' /\ (ignored' <=> ignored) /\ (disturbed' <=> disturbed)
  BY <1>1 DEF OnWay, Running
<1>9. ASSUME ~ignored PROVE added = 1 .. number /\ hw \subseteq {0, Others}
  BY <1>3, <1>8, <1>9 DEF Installed
<1>10. ASSUME ~ignored PROVE prog \in Replacing => 0 \notin hw'
  <2>1. prog \in Replacing => 0 \notin hw
    BY <1>1, <1>2, <1>8, <1>10 DEF InTurn, Installed
  <2> QED BY <1>1, <1>6, <1>9, <1>10, <2>1
<1>11. ASSUME ~ignored, ~disturbed PROVE hw' \ {0} = 1 .. number
  <2>1. hw \subseteq {0}
    BY <1>9, <1>11 DEF Installed
  <2>2. hw' = hw \union (1 .. number) /\ 0 \notin 1 .. number
    BY <1>1, <1>6, <1>9, <1>11
  <2> HIDE DEF s
  <2> QED BY <2>1, <2>2
<1>12. NeverHalfInstalled'
  <2>1. ASSUME ~ignored PROVE hw' \intersect Committed(prog) = Committed(prog)
    BY <1>1, <1>6, <1>9, <2>1
  <2>2. ASSUME ~ignored, ~disturbed PROVE \A n \in hw' \ {0} : 1 .. n \subseteq hw'
    BY <1>6, <1>11, <2>2
  <2>3. ~groups'
    BY <1>1, <1>2 DEF InTurn, Committing, Grouped
  <2> QED BY <1>7, <1>8, <1>10, <2>1, <2>2, <2>3 DEF NeverHalfInstalled
<1>13. ~disturbed => Others \notin hw'
  <2>1. added \subseteq Nat
    BY <1>3, ConfigAssumption DEF Installed, Intended, ConfigAssumption
  <2> QED BY <1>1, <2>1 DEF Installed, Others
<1>14. number' \in Nat /\ added' = {} /\ hw' \subseteq Intended(prog)' \union {0, Others}
  BY <1>1, <1>6, <1>7 DEF Installed
<1>15. ~ignored' => (IsFlushed(Script[prog], pc)' => 0 \notin hw')
  <2>1. ~ignored => 0 \notin added
    BY <1>6, <1>9
  <2> QED BY <1>1, <1>4, <1>8, <2>1 DEF Installed
<1>16. ~ignored' /\ ~disturbed' => hw' \ {0} = (1 .. number)'
  BY <1>1, <1>8, <1>11
<1>17. prog' = "ports" => ~ignored'
  BY <1>1, <1>8 DEF Installed
<1> HIDE DEF s
<1> QED BY <1>3, <1>5, <1>8, <1>12, <1>13, <1>14, <1>15, <1>16, <1>17 DEF Installed

LEMMA InstalledFlush == ASSUME ConfigAssumption, Course, Installed, Flush PROVE Installed'
<1> DEFINE s == Script[prog]
<1>1. /\ prog' = prog /\ status = Running /\ status' = status /\ pc \in 1 .. Len(s)
      /\ pc' = pc + 1 /\ s[pc].op = "flush" /\ hw' = {}
      /\ UNCHANGED <<number, added, ignored, disturbed>>
  BY DEF Flush, At, Step, Continue, troubles
<1>2. /\ InTurn(s, prog) /\ AsIntended(s, prog) /\ Len(s) \in Nat
      /\ ~InLoop(s, pc) => i = 0
  BY <1>1, AllInTurn, AllAsIntended, AllOrderly DEF Course, Orderly
<1>3. Pending' <=> Pending
  BY <1>1, <1>2, Ahead DEF IsCommitted, Pending
<1>4. number' = Counted(prog, pc, i)'
  BY <1>1, CallsGo, NeverCut, CountedMoves DEF Calls, Installed, OnWay, Running
<1>5. number = 0
  <2>1. i = 0
    BY <1>1, <1>2 DEF InTurn
  <2>2. number = Counted(prog, pc, i) /\ number \in Nat
    BY <1>1, NeverCut DEF Installed, OnWay, Running
  <2> QED BY <1>1, <1>2, <2>1, <2>2 DEF AsIntended, NumbersSoFar
<1>6. Intended(prog)' = Intended(prog)
  BY <1>1 DEF Intended
<1>7. NeverHalfInstalled'
  BY <1>1 DEF NeverHalfInstalled
<1>8. OnWay /\ OnWay' /\ (ignored' <=> ignored) /\ (disturbed' <=> disturbed)
  BY <1>1 DEF OnWay, Running
<1>9. /\ number' \in Nat /\ added' \subseteq Intended(prog)' /\ hw' = {}
      /\ prog' = "ports" => ~ignored'
  BY <1>1, <1>6, <1>8 DEF Installed
<1>10. ~ignored' => added' = IF Pending' THEN 1 .. number' ELSE {}
  BY <1>1, <1>3, <1>8 DEF Installed
<1>11. hw' \ {0} = 1 .. number'
  BY <1>1, <1>5
<1> HIDE DEF s
<1> QED BY <1>4, <1>7, <1>9, <1>10, <1>11 DEF Installed

LEMMA InstalledAround ==
  ASSUME ConfigAssumption, Course, Installed, Around PROVE Installed'
<1> DEFINE s == Script[prog]
<1>1. /\ UNCHANGED <<prog, pc, i, status, number, added, groups, ignored>> /\ status = Running
  BY DEF Around, OthersFlush, OthersAdd, RulesdFails, At, rules, troubles
<1>2. /\ Pending' <=> Pending
      /\ IsFlushed(Script[prog], pc)' <=> IsFlushed(s, pc)
      /\ Counted(prog, pc, i)' = Counted(prog, pc, i)
      /\ Intended(prog)' = Intended(prog) /\ Committed(prog)' = Committed(prog)
      /\ Replaces' <=> Replaces
  BY <1>1 DEF Pending, IsFlushed, IsCommitted, Since, Counted, Past, Less, Intended, Committed,
              Replaces
<1>3. (OnWay' <=> OnWay) /\ (Cut' <=> Cut)
  BY <1>1 DEF OnWay, Cut, Unbounded
<1>4. CASE RulesdFails
  <2>1. UNCHANGED <<hw, disturbed>>
    BY <1>4 DEF RulesdFails, rules, troubles
  <2> HIDE DEF s
  <2> QED BY <1>1, <1>2, <1>3, <2>1 DEF Installed, NeverHalfInstalled
<1>5. CASE OthersFlush
  <2>1. hw' = {} /\ disturbed'
    BY <1>5 DEF OthersFlush
  <2> HIDE DEF s
  <2> QED BY <1>1, <1>2, <1>3, <2>1 DEF Installed, NeverHalfInstalled
<1>6. CASE OthersAdd
  <2>1. hw' = hw \union {Others} /\ disturbed' /\ prog = "ports"
    BY <1>6 DEF OthersAdd
  <2>2. Others \notin Committed(prog) /\ Others # 0
    BY <2>1 DEF Committed, Others
  <2>3. NeverHalfInstalled'
    <3>1. hw' \intersect Committed(prog) = hw \intersect Committed(prog)
      BY <2>1, <2>2
    <3>2. (0 \in hw' <=> 0 \in hw) /\ (2 \in hw' <=> 2 \in hw)
      BY <2>1, <2>2 DEF Others
    <3> HIDE DEF s
    <3> QED BY <1>1, <1>2, <2>1, <3>1, <3>2 DEF Installed, NeverHalfInstalled
  <2> HIDE DEF s
  <2> QED BY <1>1, <1>2, <1>3, <2>1, <2>2, <2>3 DEF Installed
<1> QED BY <1>4, <1>5, <1>6 DEF Around

\* Read_rule has put nothing in force, and clears nothing.
LEMMA InstalledDump ==
  ASSUME ConfigAssumption, Course, Installed, prog = "read_rule", status = Running,
         pc \in 1 .. Len(Script[prog]), prog' = prog, pc' = 9, status' = status,
         UNCHANGED <<number, added, hw, groups, disturbed>>, ignored' <=> ignored
  PROVE  Installed'
<1> DEFINE s == Script[prog]
<1>1. InTurn(s, prog) /\ Orderly(s, prog)
  BY AllInTurn, AllOrderly DEF Course
<1>2. ~IsFlushed(s, 9)
  <2>1. Len(s) = 10
    BY <1>1 DEF Orderly
  <2>2. \A k \in 1 .. Len(s) : s[k].op # "flush"
    BY <1>1 DEF InTurn
  <2> HIDE DEF s
  <2> QED BY <2>1, <2>2 DEF IsFlushed, Since
<1>3. ~IsFlushed(Script[prog], pc)' /\ ~Pending /\ ~Pending'
  BY <1>2 DEF IsFlushed, Since, Pending, Committing
<1>4. OnWay /\ OnWay' /\ Counted(prog, pc, i) = 0 /\ Counted(prog, pc, i)' = 0
  BY DEF OnWay, Running, Counted
<1>5. NeverHalfInstalled'
  BY DEF Installed, NeverHalfInstalled, Committed, Replaces
<1>6. ~Cut /\ ~Cut'
  BY DEF Cut, Unbounded
<1> QED BY <1>3, <1>4, <1>5, <1>6 DEF Installed, Intended

LEMMA InstalledNext ==
  ASSUME ConfigAssumption, Course, Installed, Grouped, [Next]_vars PROVE Installed'
<1> DEFINE s == Script[prog]
<1>1. /\ InTurn(s, prog) /\ Orderly(s, prog) /\ Len(s) \in Nat /\ pc \in 0 .. Len(s) + 1
      /\ number \in Nat
  BY AllInTurn, AllOrderly DEF Course, Orderly, Installed
<1>2. CASE Add \/ Set \/ Commit \/ Flush
  BY <1>2, InstalledAdd, InstalledSet, InstalledCommit, InstalledFlush
<1>3. CASE Calls /\ ~Add /\ ~Set /\ ~Commit /\ ~Flush
  <2>1. /\ UNCHANGED <<number, added, hw, ignored, disturbed>> /\ (groups' => groups)
        /\ s[pc].op \notin {"add", "set", "commit", "flush"}
    BY <1>3 DEF Calls, Plain, Loop, LoopBack, OpenHandle, Allocate, Free, Clear, Close, Compare,
                Ask, Use, OpenCursor, ReadEntry, ReadEof, Await, Verify, TestRet, At, Step,
                troubles, rules
  <2> QED BY <1>3, <2>1, CallsGo, InstalledQuiet DEF Installed
<1>4. CASE Around
  BY <1>4, InstalledAround
<1>5. CASE GoesOn
  <2> DEFINE Unseen == /\ s[pc].failure = "ignored"
                       /\ \/ s[pc].op \in {"add", "field", "set", "flush", "clear"}
                          \/ s[pc].op = "ask" /\ prog = "indtbl"
  <2>1. ignored' <=> ignored \/ Unseen
    BY <1>5, Zenon DEF GoesOn, Fail, Step
  <2>2. /\ pc \in 1 .. Len(s) /\ status = Running /\ UNCHANGED <<added, hw, groups, disturbed>>
        /\ number' = IF s[pc].op \in {"add", "set"} THEN number + 1 ELSE number
        /\ s[pc].failure \in {"ignored", "later"} \/ (s[pc].failure = "skip" /\ pc' \in LoopEnd)
        /\ s[pc].op \notin {"for", "end"}
    BY <1>5 DEF GoesOn, Fail, At, Step
  <2>3. pc' # pc
    <3>1. s[pc].failure \in {"ignored", "later"} => pc' = pc + 1
      BY <1>5 DEF GoesOn, Fail, Step
    <3>2. s[pc].failure = "skip" => s[pc'].op = "end"
      BY <2>2, <3>1 DEF LoopEnd
    <3> QED BY <1>1, <2>2, <3>1, <3>2
  <2>4. /\ s[pc].op # "commit"
        /\ s[pc].op \in {"add", "set", "flush"} => s[pc].failure = "ignored"
        /\ prog = "ports" => ~Unseen
    BY <1>1, <2>2 DEF InTurn
  <2>5. prog = "ports" => ~ignored'
    BY <2>1, <2>4 DEF Installed
  <2>6. s[pc].op \in {"add", "set", "flush"} => ignored'
    BY <2>1, <2>4
  <2> HIDE DEF Unseen
  <2> QED BY <1>5, <2>1, <2>2, <2>3, <2>4, <2>5, <2>6, GoesOnMoves, InstalledQuiet DEF Go
<1>6. CASE Leaves
  <2>1. ignored' <=> ignored
    <3>1. s[pc].failure # "ignored"
      BY <1>6 DEF Leaves, Step
    <3> QED BY <1>6, <3>1, Zenon DEF Leaves, Fail, Step
  <2>2. /\ pc \in 1 .. Len(s) /\ status = Running
        /\ UNCHANGED <<prog, added, hw, groups, disturbed>>
        /\ number' = IF s[pc].op \in {"add", "set"} THEN number + 1 ELSE number
    BY <1>6 DEF Leaves, Fail, At, Step
  <2>3. CASE pc' = 9 /\ prog = "read_rule" /\ status' = Running
    <3>1. s[pc].op \notin {"add", "set"}
      BY <2>2, <2>3, NextNumber DEF Intended
    <3> QED BY <2>1, <2>2, <2>3, <3>1, InstalledDump
  <2>4. CASE ~OnWay'
    <3>1. /\ Intended(prog)' = Intended(prog) /\ Committed(prog)' = Committed(prog)
          /\ Replaces' <=> Replaces
      BY <2>2 DEF Intended, Committed, Replaces
    <3> QED BY <1>1, <2>1, <2>2, <2>4, <3>1 DEF Installed, NeverHalfInstalled
  <2> QED BY <1>6, <2>3, <2>4 DEF Leaves, OnWay
<1>7. CASE GivesUp \/ Bail \/ Finish \/ Interrupt \/ UNCHANGED vars
  <2>1. /\ UNCHANGED <<prog, i, rules, ignored, disturbed>>
        /\ OnWay' => OnWay /\ pc' = pc
    BY <1>7, <1>1 DEF GivesUp, Verify, TestRet, Bail, Finish, Interrupt, At, OnWay, Running,
                      Course, vars, troubles
  <2>2. /\ Intended(prog)' = Intended(prog) /\ Committed(prog)' = Committed(prog)
        /\ Replaces' <=> Replaces
    BY <2>1 DEF Intended, Committed, Replaces
  <2>3. NeverHalfInstalled'
    BY <2>1, <2>2 DEF Installed, NeverHalfInstalled, rules
  <2>4. OnWay' => /\ Pending' <=> Pending
                  /\ IsFlushed(Script[prog], pc)' <=> IsFlushed(s, pc)
                  /\ Counted(prog, pc, i)' = Counted(prog, pc, i)
                  /\ Cut' <=> Cut
    BY <2>1 DEF Pending, IsFlushed, IsCommitted, Since, Counted, Past, Less, Cut, Unbounded
  <2> HIDE DEF s
  <2> QED BY <2>1, <2>2, <2>3, <2>4 DEF Installed, rules
<1> QED BY <1>2, <1>3, <1>4, <1>5, <1>6, <1>7, AllSteps

-------------------------------------------------------------------------------
(* Failures, the rules that are read back, and the types of the rest. *)

LEMMA GroupedNext == ASSUME Course, Grouped, [Next]_vars PROVE Grouped'
<1>1. groups' => groups
  BY DEF Next, Proceed, Plain, Loop, LoopBack, OpenHandle, Allocate, Free, Flush, Clear, Add, Set,
         Commit, Close, Compare, TestRet, Verify, Ask, Use, OpenCursor, ReadEntry, ReadEof, Await,
         Fail, Bail, Finish, OthersFlush, OthersAdd, RulesdFails, Interrupt, vars, rules
<1>2. CASE prog # "load_balance" \/ ~groups
  BY <1>1, <1>2 DEF Grouped
<1>3. CASE prog = "load_balance" /\ groups
  <2>1. Script[prog] = LoadBalanceScript
    BY <1>3 DEF Script
  <2>2. CASE Calls
    <3>1. Go /\ status = Running /\ pc \in 1 .. 6 /\ pc' \in {pc, pc + 1}
      BY <2>1, <2>2, CallsGo, LoadBalanceSteps DEF Go, Shift
    <3>2. pc = 3 => Clear \/ pc' = pc
      BY <2>1, <2>2, LoadBalanceSteps
         DEF Calls, Plain, Loop, LoopBack, OpenHandle, Allocate, Free, Flush, Add, Set, Commit,
             Close, Compare, Ask, Use, OpenCursor, ReadEntry, ReadEof, Await, Verify, TestRet, At,
             Step
    <3>3. ignored' = ignored
      BY <2>2 DEF Calls, Plain, Loop, LoopBack, OpenHandle, Allocate, Free, Flush, Clear, Add, Set,
                  Commit, Close, Compare, Ask, Use, OpenCursor, ReadEntry, ReadEof, Await, Verify,
                  TestRet, troubles
    <3>4. Clear => ~groups'
      BY DEF Clear
    <3> QED BY <1>3, <3>1, <3>2, <3>3, <3>4 DEF Grouped, OnWay, Running, Go
  <2>3. CASE GoesOn
    <3>1. /\ pc \in 1 .. 6 /\ pc' = pc + 1 /\ prog' = prog /\ status = Running
          /\ Script[prog][pc].failure = "ignored"
      BY <2>1, <2>3, LoadBalanceSteps DEF GoesOn, Fail, At, Step
    <3>2. (ignored => ignored') /\ (Script[prog][pc].op = "clear" => ignored')
      BY <2>3, <3>1, Zenon DEF GoesOn, Fail, Step
    <3>3. pc = 3 => Script[prog][pc].op = "clear"
      BY <2>1, LoadBalanceSteps
    <3> QED BY <1>3, <3>1, <3>2, <3>3 DEF Grouped, OnWay, Running
  <2>4. CASE Around \/ Finish \/ UNCHANGED vars
    BY <1>3, <2>4 DEF Around, OthersFlush, OthersAdd, RulesdFails, Finish, vars, troubles, Grouped,
                     OnWay, Running, At
  <2>5. CASE Leaves \/ GivesUp \/ Bail \/ Interrupt
    <3>1. prog' = prog /\ (pc' = 0 \/ status' = 1)
      BY <1>3, <2>5 DEF Leaves, Fail, GivesUp, Verify, TestRet, Bail, Interrupt
    <3> QED BY <1>3, <3>1 DEF Grouped, OnWay
  <2> QED BY <2>2, <2>3, <2>4, <2>5, AllSteps
<1> QED BY <1>2, <1>3

LEMMA NoticedNext == ASSUME Course, Noticed, [Next]_vars PROVE Noticed'
<1> DEFINE s == Script[prog]
           Later == prog = "nd_adverts" /\ status = Running /\ pc \in {8, 9} /\ failing
<1>1. Orderly(s, prog)
  BY AllOrderly DEF Course
<1>2. CASE Calls
  <2>1. Go /\ status = Running /\ pc \in 1 .. Len(s)
    BY <1>2, CallsGo
  <2>2. bad' => bad \/ prog = "actions"
    <3>1. CASE Compare
      BY <1>1, <3>1 DEF Compare, At, Step, Orderly
    <3>2. CASE ~Compare
      BY <1>2, <3>2
         DEF Calls, Plain, Loop, LoopBack, OpenHandle, Allocate, Free, Flush, Clear, Add, Set,
             Commit, Close, Ask, Use, OpenCursor, ReadEntry, ReadEof, Await, Verify, TestRet,
             troubles
    <3> QED BY <3>1, <3>2
  <2>3. ASSUME Later PROVE Later'
    <3>1. s = NdAdverts
      BY <2>3 DEF Script
    <3>2. CASE pc = 8
      <4>1. Use
        BY <1>2, <3>1, <3>2, StepsOfNdAdverts
           DEF Calls, Plain, Loop, LoopBack, OpenHandle, Allocate, Free, Flush, Clear, Add, Set,
               Commit, Close, Compare, Ask, OpenCursor, ReadEntry, ReadEof, Await, Verify, TestRet,
               At, Step
      <4> QED BY <2>3, <3>2, <4>1 DEF Use, Continue, results
    <3>3. CASE pc = 9
      <4>1. TestRet /\ pc' # 0
        BY <1>2, <3>1, <3>3, StepsOfNdAdverts
           DEF Calls, Plain, Loop, LoopBack, OpenHandle, Allocate, Free, Flush, Clear, Add, Set,
               Commit, Close, Compare, Ask, Use, OpenCursor, ReadEntry, ReadEof, Await, Verify,
               At, Step
      <4> QED BY <2>3, <4>1 DEF TestRet
    <3> QED BY <2>3, <3>2, <3>3
  <2> QED BY <2>1, <2>2, <2>3 DEF Noticed, Go, Running
<1>3. CASE GoesOn
  <2>1. status = Running /\ prog' = prog /\ status' = status /\ pc \in 1 .. Len(s)
    BY <1>3, GoesOnMoves DEF GoesOn, Fail, At
  <2>2. ~Later
    <3> SUFFICES ASSUME Later PROVE FALSE
      OBVIOUS
    <3>1. s = NdAdverts
      BY DEF Script
    <3> QED BY <1>3, <3>1, StepsOfNdAdverts DEF GoesOn, Fail, At, Step
  <2>3. CASE Step.failure = "later"
    <3>1. prog = "nd_adverts" /\ pc = 7
      BY <1>1, <2>1, <2>3 DEF Orderly, Step
    <3>2. pc' = 8 /\ failing'
      <4>1. failing'
        BY <1>3, <2>3, Zenon DEF GoesOn, Fail
      <4>2. pc' = pc + 1
        BY <1>3, <2>3 DEF GoesOn, Fail
      <4> QED BY <3>1, <4>1, <4>2
    <3> QED BY <2>1, <3>1, <3>2 DEF Noticed
  <2>4. CASE Step.failure # "later"
    <3>1. bad' => bad
      BY <1>3, <2>4, Zenon DEF GoesOn, Fail
    <3> QED BY <2>1, <2>2, <3>1 DEF Noticed, Running
  <2> QED BY <2>3, <2>4
<1>4. CASE Leaves
  BY <1>4 DEF Leaves, Fail, Noticed
<1>5. CASE GivesUp
  BY <1>5 DEF GivesUp, Noticed
<1>6. CASE Around \/ UNCHANGED vars
  BY <1>6 DEF Around, OthersFlush, OthersAdd, RulesdFails, vars, troubles, results, Noticed, Running
<1>7. CASE Finish
  <2>1. pc = Len(s) + 1 /\ UNCHANGED <<prog, pc, bad>>
    BY <1>7 DEF Finish, troubles
  <2>2. ~Later
    <3> SUFFICES ASSUME Later PROVE FALSE
      OBVIOUS
    <3>1. s = NdAdverts
      BY DEF Script
    <3> QED BY <2>1, <3>1, StepsOfNdAdverts
  <2>3. status = Running
    BY <1>7 DEF Finish
  <2> QED BY <2>1, <2>2, <2>3 DEF Noticed, Running
<1>8. CASE Bail \/ Interrupt
  BY <1>8 DEF Bail, Interrupt, Noticed, Running, troubles
<1> QED BY <1>2, <1>3, <1>4, <1>5, <1>6, <1>7, <1>8, AllSteps

LEMMA PortsSteps ==
  /\ Len(Ports) = 20
  /\ \A k \in 1 .. 20 : /\ Ports[k].op \notin {"for", "end"}
                        /\ Ports[k].failure \notin {"ignored", "later", "skip", "dump"}
                        /\ Ports[k].op = "verify" <=> k = 18
  BY DEF Ports

\* What nfm_sample_rules_ports finds when it reads back.
LEMMA EntriesToVerify ==
  ASSUME ConfigAssumption, Course, Installed, prog = "ports", status = Running, pc = 18
  PROVE  /\ Entries \in Nat /\ Entries <= 3 * NEntries
         /\ ~disturbed => Entries = 2 * NEntries
<1> DEFINE s == Script[prog]
<1>1. s = Ports
  BY DEF Script
<1>2. InTurn(s, prog) /\ AsIntended(s, prog) /\ s[18].op = "verify" /\ Len(s) = 20
  BY <1>1, PortsSteps, AllInTurn, AllAsIntended DEF Course
<1>3. IsCommitted(s, 18) /\ IsFlushed(s, 18) /\ ~InLoop(s, 18)
  BY <1>2 DEF InTurn
<1>4. OnWay /\ ~Cut /\ ~ignored /\ ~Pending /\ i = 0
  <2>1. s[18].op # "for"
    BY <1>2
  <2> QED BY <1>3, <2>1 DEF OnWay, Cut, Unbounded, Running, Installed, Pending, Course
<1>5. number = 2
  BY <1>2, <1>4 DEF AsIntended, NumbersSoFar, Installed
<1>6. 0 \notin hw /\ hw \subseteq {1, 2, Others}
  BY <1>3, <1>4 DEF Installed, Intended
<1>7. ~disturbed => hw = {1, 2}
  BY <1>4, <1>5, <1>6 DEF Installed
<1>8. /\ IsFiniteSet({1, 2, Others}) /\ Cardinality({1, 2, Others}) = 3
      /\ IsFiniteSet({1, 2}) /\ Cardinality({1, 2}) = 2
  <2>1. IsFiniteSet({}) /\ Cardinality({}) = 0
    BY FS_EmptySet
  <2>2. IsFiniteSet({1}) /\ Cardinality({1}) = 1
    BY FS_Singleton
  <2>3. IsFiniteSet({1} \union {2}) /\ Cardinality({1} \union {2}) = 2
    BY <2>2, FS_AddElement
  <2>4. IsFiniteSet({1, 2}) /\ Cardinality({1, 2}) = 2
    <3>1. {1} \union {2} = {1, 2}
      OBVIOUS
    <3> QED BY <2>3, <3>1
  <2>5. /\ IsFiniteSet({1, 2} \union {Others})
        /\ Cardinality({1, 2} \union {Others}) = 3
    BY <2>4, FS_AddElement DEF Others
  <2>6. {1, 2} \union {Others} = {1, 2, Others}
    OBVIOUS
  <2> QED BY <2>4, <2>5, <2>6
<1>9. IsFiniteSet(hw) /\ Cardinality(hw) \in Nat /\ Cardinality(hw) <= 3
  BY <1>6, <1>8, FS_Subset, FS_CardinalityType
<1>10. ~disturbed => Entries = 2 * NEntries
  BY <1>7, <1>8 DEF Entries, ConfigAssumption
<1>11. Entries \in {0 * NEntries, 1 * NEntries, 2 * NEntries, 3 * NEntries}
  BY <1>9 DEF Entries, ConfigAssumption
<1> QED BY <1>10, <1>11 DEF ConfigAssumption

LEMMA ConfirmedNext ==
  ASSUME ConfigAssumption, Course, Installed, Confirmed, [Next]_vars PROVE Confirmed'
<1> DEFINE s == Script[prog]
<1>1. Orderly(s, prog) /\ NEntries \in Nat /\ prog' = prog
  <2>1. prog' = prog
    BY AllSteps, CallsGo, AroundGo, GoesOnMoves
       DEF Go, Leaves, Fail, GivesUp, Verify, TestRet, Bail, Finish, Interrupt, vars
  <2> QED BY <2>1, AllOrderly DEF Course, ConfigAssumption
<1>2. CASE prog # "ports"
  <2>1. ~Verify
    BY <1>1, <1>2 DEF Verify, At, Step, Orderly
  <2>2. compared' = compared
    BY <2>1 DEF Next, Proceed, Plain, Loop, LoopBack, OpenHandle, Allocate, Free, Flush, Clear,
                Add, Set, Commit, Close, Compare, TestRet, Ask, Use, OpenCursor, ReadEntry,
                ReadEof, Await, Fail, Bail, Finish, OthersFlush, OthersAdd, RulesdFails, Interrupt,
                vars, results
  <2> QED BY <1>1, <1>2, <2>2 DEF Confirmed
<1>3. CASE prog = "ports" /\ Verify
  <2>1. s = Ports
    BY <1>3 DEF Script
  <2>2. pc = 18 /\ status = Running /\ disturbed' = disturbed
    BY <1>3, <2>1, PortsSteps DEF Verify, At, Step
  <2>3. /\ Entries \in Nat /\ Entries <= 3 * NEntries
        /\ ~disturbed => Entries = 2 * NEntries
    BY <1>3, <2>2, EntriesToVerify
  <2>4. \/ compared >= Entries /\ pc' = 19 /\ compared' = compared
        \/ compared < Entries /\ pc' = 18 /\ compared' = compared + 1
        \/ pc' = 0 /\ compared' = compared
    BY <1>3, <2>2 DEF Verify
  <2> QED BY <1>1, <1>3, <2>2, <2>3, <2>4 DEF Confirmed, OnWay
<1>4. CASE prog = "ports" /\ ~Verify
  <2>1. s = Ports
    BY <1>4 DEF Script
  <2>2. compared' = compared
    BY <1>4 DEF Next, Proceed, Plain, Loop, LoopBack, OpenHandle, Allocate, Free, Flush, Clear,
                Add, Set, Commit, Close, Compare, TestRet, Ask, Use, OpenCursor, ReadEntry,
                ReadEof, Await, Fail, Bail, Finish, OthersFlush, OthersAdd, RulesdFails, Interrupt,
                vars, results
  <2>3. disturbed => disturbed'
    BY DEF Next, Proceed, Plain, Loop, LoopBack, OpenHandle, Allocate, Free, Flush, Clear, Add, Set,
           Commit, Close, Compare, TestRet, Verify, Ask, Use, OpenCursor, ReadEntry, ReadEof, Await,
           Fail, Bail, Finish, OthersFlush, OthersAdd, RulesdFails, Interrupt, vars, troubles
  <2>4. OnWay' /\ pc' >= 19 => OnWay /\ pc >= 19
    <3>1. CASE Calls
      <4>1. Go /\ status = Running /\ pc \in 1 .. 20
        BY <2>1, <3>1, CallsGo, PortsSteps
      <4>2. pc' \in {pc, pc + 1}
        BY <2>1, <4>1, PortsSteps DEF Go, Shift
      <4>3. pc # 18
        BY <1>1, <1>4, <2>1, <3>1, PortsSteps
           DEF Calls, Plain, Loop, LoopBack, OpenHandle, Allocate, Free, Flush, Clear, Add, Set,
               Commit, Close, Compare, Ask, Use, OpenCursor, ReadEntry, ReadEof, Await, TestRet,
               At, Step
      <4> QED BY <4>1, <4>2, <4>3 DEF OnWay, Running
    <3>2. CASE GoesOn \/ Leaves
      BY <1>4, <2>1, <3>2, PortsSteps DEF GoesOn, Leaves, Fail, At, Step, OnWay, Running
    <3>3. CASE Around \/ Bail \/ Finish \/ Interrupt \/ GivesUp \/ UNCHANGED vars
      BY <3>3 DEF Around, OthersFlush, OthersAdd, RulesdFails, Bail, Finish, Interrupt, GivesUp,
                  vars, OnWay, Running
    <3> QED BY <3>1, <3>2, <3>3, AllSteps
  <2> QED BY <1>1, <1>4, <2>2, <2>3, <2>4 DEF Confirmed
<1> QED BY <1>2, <1>3, <1>4

LEMMA TypedNext == ASSUME ConfigAssumption, Typed, [Next]_vars PROVE Typed'
<1>1. CASE Fail
  <2>1. bad' \in BOOLEAN /\ ignored' \in BOOLEAN /\ closefailed' \in BOOLEAN /\ broken' \in BOOLEAN
    BY <1>1, Zenon DEF Fail
  <2>2. UNCHANGED <<unread, rh, groups, disturbed, interrupted>>
    BY <1>1 DEF Fail
  <2> QED BY <2>1, <2>2 DEF Typed
<1>2. CASE Compare
  <2>1. bad' \in BOOLEAN
    BY <1>2, Zenon DEF Compare
  <2>2. UNCHANGED <<unread, broken, rh, groups, ignored, closefailed, disturbed, interrupted>>
    BY <1>2 DEF Compare, resources, rules, reading, cursor
  <2> QED BY <2>1, <2>2 DEF Typed
<1>3. CASE ReadEntry
  BY <1>3 DEF ReadEntry, Typed, resources, rules, troubles, ConfigAssumption
<1>4. CASE \/ Plain \/ Loop \/ LoopBack \/ Allocate \/ Free \/ Flush \/ Clear \/ Add \/ Set
           \/ Commit \/ TestRet \/ Ask \/ Use \/ ReadEof \/ Finish \/ Await \/ UNCHANGED vars
  <2>1. UNCHANGED <<unread, broken, rh, troubles>> /\ groups' \in {groups, FALSE}
    BY <1>4 DEF Plain, Loop, LoopBack, Allocate, Free, Flush, Clear, Add, Set, Commit, TestRet,
                Ask, Use, ReadEof, Finish, Await, vars, resources, rules, reading, cursor
  <2> QED BY <2>1 DEF Typed, troubles
<1>5. CASE OpenHandle \/ Close \/ Verify \/ Bail
  <2>1. UNCHANGED <<unread, broken, groups, ignored, closefailed, disturbed, interrupted>>
    BY <1>5 DEF OpenHandle, Close, Verify, Bail, reading, cursor, rules, troubles
  <2>2. rh' \in BOOLEAN /\ bad' \in BOOLEAN
    BY <1>5 DEF OpenHandle, Close, Verify, Bail, Typed, resources, troubles
  <2> QED BY <2>1, <2>2 DEF Typed
<1>6. CASE OpenCursor \/ RulesdFails
  BY <1>6 DEF OpenCursor, RulesdFails, Typed, resources, rules, troubles
<1>7. CASE OthersFlush \/ OthersAdd \/ Interrupt
  BY <1>7 DEF OthersFlush, OthersAdd, Interrupt, Typed, resources, rules, reading, cursor
<1> QED BY <1>1, <1>2, <1>3, <1>4, <1>5, <1>6, <1>7, Zenon DEF Next, Proceed

-------------------------------------------------------------------------------
(* The invariant holds, and with it the properties. *)

LEMMA InitIInv == ASSUME ConfigAssumption, Init PROVE IInv
<1>1. Noticed /\ Typed /\ Grouped
  <2>1. /\ ~bad /\ bad \in BOOLEAN /\ rh \in BOOLEAN /\ broken \in BOOLEAN
        /\ ignored \in BOOLEAN /\ closefailed \in BOOLEAN /\ disturbed \in BOOLEAN
        /\ interrupted \in BOOLEAN
    BY Zenon DEF Init
  <2>2. unread \in 0 .. N
    BY DEF Init, ConfigAssumption
  <2>3. groups \in BOOLEAN /\ (groups => prog = "load_balance" /\ pc = 1)
    BY DEF Init
  <2> QED BY <2>1, <2>2, <2>3 DEF Noticed, Typed, Grouped
<1>2. Confirmed
  BY DEF Init, Confirmed, ConfigAssumption, Running
<1> QED BY <1>1, <1>2, CourseInit, HandlesInit, FreedInit, PrintedInit, InstalledInit DEF IInv

LEMMA NextIInv == ASSUME ConfigAssumption, IInv, [Next]_vars PROVE IInv'
<1>1. Course' /\ Handles' /\ Freed' /\ Printed'
  BY CourseNext, HandlesNext, FreedNext, PrintedNext DEF IInv
<1>2. Installed' /\ Grouped' /\ Noticed' /\ Confirmed' /\ Typed'
  BY InstalledNext, GroupedNext, NoticedNext, ConfirmedNext, TypedNext DEF IInv
<1> QED BY <1>1, <1>2 DEF IInv

\* Every state of a program satisfies the invariant.
THEOREM ConfigInvariantHolds == Spec => []IInv
<1>1. Init => IInv
  BY ConfigAssumption, InitIInv
<1>2. IInv /\ [Next]_vars => IInv'
  BY ConfigAssumption, NextIInv
<1> QED BY <1>1, <1>2, PTL DEF Spec

\* Whatever fails, and however long the loops: key data and actions that add_rule
\* allocates are freed, the handle is closed, and closed once, apart from the programs
\* that are named; and all variables keep to their types.
THEOREM ResourcesAreFreed == Spec => []ResourcesInv
<1>1. IInv => ResourcesInv
  <2> SUFFICES ASSUME IInv PROVE ResourcesInv
    OBVIOUS
  <2>1. N \in Nat /\ NEntries \in Nat
    BY ConfigAssumption DEF ConfigAssumption
  <2>2. kds \in 0 .. N + 2 /\ acts \in 0 .. N + 2
    BY <2>1 DEF IInv, Freed
  <2>3. compared \in 0 .. 3 * NEntries
    BY <2>1 DEF IInv, Confirmed
  <2>4. TypeOK
    BY <2>2, <2>3 DEF IInv, TypeOK, Course, Handles, Printed, Installed, Typed
  <2>5. NothingLeaked
    BY DEF IInv, NothingLeaked, Freed, Handles, OnItsWay, Leaky, LeftOpen
  <2>6. ClosesOnce
    BY DEF IInv, ClosesOnce, Course, Handles, OnItsWay
  <2> QED BY <2>4, <2>5, <2>6 DEF ResourcesInv
<1> QED BY <1>1, ConfigInvariantHolds, PTL

\* What is printed or worked with is the answer to the last question, apart from the
\* programs that are named, for any number of questions.
THEOREM AnswersAreCurrent == Spec => []PrintsWhatItAsked
<1>1. IInv => PrintsWhatItAsked
  BY DEF IInv, Printed
<1> QED BY <1>1, ConfigInvariantHolds, PTL

\* For any number of rules, interfaces or settings: wherever the program fails and
\* whoever interferes, all of what it commits is in force or nothing of it.
THEOREM InstalledAsAWhole == Spec => []NeverHalfInstalled
<1>1. IInv => NeverHalfInstalled
  BY DEF IInv, Installed
<1> QED BY <1>1, ConfigInvariantHolds, PTL

\* For any number of them: exit status 0 means that all of them are in force, nothing
\* old beside them, and that nfm_sample_rules_ports has compared every entry, unless
\* another client interfered, or a call failed whose result the program drops
\* (SuccessMeansInstalled names those).
THEOREM SuccessIsTrue == Spec => []SuccessMeansInstalled
<1>1. IInv => SuccessMeansInstalled
  <2> SUFFICES ASSUME IInv PROVE SuccessMeansInstalled
    OBVIOUS
  <2> DEFINE s == Script[prog]
  <2>1. /\ Orderly(s, prog) /\ InTurn(s, prog) /\ AsIntended(s, prog)
        /\ Len(s) \in Nat \ {0} /\ NEntries \in Nat /\ prog \in Programs
    BY ConfigAssumption, AllOrderly, AllInTurn, AllAsIntended
       DEF IInv, Course, Orderly, ConfigAssumption
  <2>2. ASSUME status = 0, prog # "actions" PROVE pc = Len(s) + 1 /\ i = 0 /\ OnWay
    <3>1. pc = Len(s) + 1
      BY <2>2 DEF IInv, Course
    <3>2. i = 0
      BY <2>1, <3>1 DEF IInv, Course, Orderly
    <3> QED BY <2>1, <2>2, <3>1, <3>2 DEF OnWay
  <2>3. status = 0 => ~bad \/ prog \in {"actions", "read_rule"}
    BY <2>1, <2>2 DEF IInv, Noticed, Running
  <2>4. ASSUME status = 0, Intended(prog) # {}, ~ignored, ~disturbed
        PROVE  hw \ {0} = Intended(prog) /\ (0 \in hw => ~Replaces) /\ ~groups
    <3>1. prog # "actions"
      BY <2>4 DEF Intended
    <3>2. pc = Len(s) + 1 /\ i = 0 /\ OnWay
      BY <2>2, <2>4, <3>1
    <3>3. ~Pending /\ (prog \in Replacing => IsFlushed(s, pc))
      BY <2>1, <3>2 DEF InTurn, Pending
    <3>4. Intended(prog) = 1 .. number
      BY <2>1, <2>4, <3>2 DEF AsIntended, IInv, Installed, Cut, Unbounded
    <3>5. ~groups
      <4>1. ASSUME prog = "load_balance" PROVE pc = 7
        <5>1. s = LoadBalanceScript
          BY <4>1 DEF Script
        <5> QED BY <3>2, <5>1, LoadBalanceSteps
      <4> QED BY <2>4, <3>2, <4>1 DEF IInv, Grouped
    <3>6. hw \ {0} = 1 .. number /\ (prog \in Replacing => 0 \notin hw)
      BY <2>4, <3>2, <3>3 DEF IInv, Installed
    <3> QED BY <3>4, <3>5, <3>6 DEF Replaces, Replacing
  <2>5. ConfirmationIsComplete
    <3> SUFFICES ASSUME prog = "ports", ~disturbed
                 PROVE  compared <= 2 * NEntries /\ (status = 0 => compared = 2 * NEntries)
      BY DEF ConfirmationIsComplete
    <3>1. compared <= 2 * NEntries
      BY DEF IInv, Confirmed
    <3>2. ASSUME status = 0 PROVE compared = 2 * NEntries
      <4>1. s = Ports
        BY DEF Script
      <4>2. pc = 21 /\ OnWay
        BY <2>2, <3>2, <4>1, PortsSteps
      <4> QED BY <4>2 DEF IInv, Confirmed
    <3> QED BY <3>1, <3>2
  <2> QED BY <2>3, <2>4, <2>5 DEF SuccessMeansInstalled
<1> QED BY <1>1, ConfigInvariantHolds, PTL

-------------------------------------------------------------------------------
(* Where the threads of the IPsec daemon go. *)

\* A type the switch of the program has a case for.
Mapped == type \in Types /\ type # "other" /\ nfes \in Nfes

\* What the cases tell apart.
LEMMA Cases ==
  ASSUME Mapped
  PROVE \/ type = "cayenne" /\ nfes = 1
        \/ type = "cayenne" /\ nfes = 2
        \/ NoCase
        \/ type = "habanero" /\ nfes = 1
        \/ type = "habanero" /\ nfes = 2
        \/ type = "habanero" /\ nfes = 3
        \/ type = "habanero" /\ nfes = 4
        \/ type = "geryon"
        \/ type = "chrysaor"
<1>1. type \in {"cayenne", "habanero", "geryon", "chrysaor"}
  BY DEF Mapped, Types
<1>2. nfes \in {1, 2, 3, 4}
  BY DEF Mapped, Nfes
<1>3. QED BY <1>1, <1>2 DEF NoCase

\* What the program decides for each thread.
LEMMA Masks ==
  ASSUME Mapped, nt \in Nat, mask = Decided
  PROVE /\ mask[Control] = IF NoCase THEN {} ELSE Bit(ControlCpu[type])
        /\ mask[Spdwork] = IF NoCase THEN {} ELSE Bit(ControlCpu[type])
        /\ \A n \in 0 .. nfes - 1 :
             mask[Pivot(n)] = IF n \in Pivots THEN Bit(PivotCpu(n)) ELSE {}
        /\ \A n \in 0 .. nfes - 1 : \A j \in 0 .. nt - 1 :
             mask[Worker(n, j)] = IF n \in WithWorkers THEN Bit(WorkerCpu(n, j)) ELSE {}
<1>1. nfes \in 1 .. 4
  BY DEF Mapped, Nfes
<1>2. /\ Control \in Threads(4, nt) /\ Spdwork \in Threads(4, nt)
      /\ \A n \in 0 .. nfes - 1 : Pivot(n) \in Threads(4, nt)
      /\ \A n \in 0 .. nfes - 1 : \A j \in 0 .. nt - 1 : Worker(n, j) \in Threads(4, nt)
  <2>1. 0 .. nfes - 1 \subseteq 0 .. 3
    BY <1>1
  <2>2. \A n \in 0 .. 3 : ThreadsOf(n, nt) \subseteq Threads(4, nt)
    BY DEF Threads
  <2>3. \A n \in 0 .. 3 : Pivot(n) \in ThreadsOf(n, nt)
    BY DEF ThreadsOf
  <2>4. \A n \in 0 .. 3 : \A j \in 0 .. nt - 1 : Worker(n, j) \in ThreadsOf(n, nt)
    BY DEF ThreadsOf, Workers
  <2>5. Control \in Threads(4, nt) /\ Spdwork \in Threads(4, nt)
    BY DEF Threads
  <2>6. QED BY <2>1, <2>2, <2>3, <2>4, <2>5
<1>3. \A t \in Threads(4, nt) :
        mask[t] = CASE t \in {Control, Spdwork}                    -> IF NoCase THEN {}
                                                                     ELSE Bit(ControlCpu[type])
                    [] t[1] = "pivot" /\ t[2] \in Pivots           -> Bit(PivotCpu(t[2]))
                    [] t[1] = "worker" /\ t[2] \in WithWorkers     -> Bit(WorkerCpu(t[2], t[3]))
                    [] OTHER                                       -> {}
  BY DEF Decided
<1>4. Control[1] = "control" /\ Spdwork[1] = "spdwork"
  BY DEF Control, Spdwork
<1>5. /\ mask[Control] = IF NoCase THEN {} ELSE Bit(ControlCpu[type])
      /\ mask[Spdwork] = IF NoCase THEN {} ELSE Bit(ControlCpu[type])
  BY <1>2, <1>3, <1>4
<1>6. ASSUME NEW n \in 0 .. nfes - 1
      PROVE mask[Pivot(n)] = IF n \in Pivots THEN Bit(PivotCpu(n)) ELSE {}
  <2>1. Pivot(n)[1] = "pivot" /\ Pivot(n)[2] = n
    BY DEF Pivot
  <2>2. Pivot(n) \notin {Control, Spdwork}
    BY <1>4, <2>1
  <2>3. Pivot(n) \in Threads(4, nt)
    BY <1>2
  <2>4. QED BY <1>3, <2>1, <2>2, <2>3
<1>7. ASSUME NEW n \in 0 .. nfes - 1, NEW j \in 0 .. nt - 1
      PROVE mask[Worker(n, j)] = IF n \in WithWorkers THEN Bit(WorkerCpu(n, j)) ELSE {}
  <2>1. Worker(n, j)[1] = "worker" /\ Worker(n, j)[2] = n /\ Worker(n, j)[3] = j
    BY DEF Worker
  <2>2. Worker(n, j) \notin {Control, Spdwork}
    BY <1>4, <2>1
  <2>3. Worker(n, j) \in Threads(4, nt)
    BY <1>2
  <2>4. QED BY <1>3, <2>1, <2>2, <2>3
<1>8. QED BY <1>5, <1>6, <1>7

\* The CPUs of workers: of the board, on the socket of their pivot, and on a core of
\* their own.
CpuOfWorker(n, c) ==
  /\ c \in Board.cpus /\ c \in 0 .. 39 /\ c # 31
  /\ \/ Board.core[c] # Board.core[ControlCpu[type]]
     \/ SecondHalfTooLow(n, 6)
  /\ \A m \in Pivots : m < nfes /\ PivotCpu(m) # 31 =>
       \/ Board.core[c] # Board.core[PivotCpu(m)]
       \/ SecondHalfTooLow(n, 6)
       \/ type = "habanero" /\ nfes = 2 /\ n = 0
  /\ \/ Board.socket[c] = Board.socket[PivotCpu(n)] /\ n \in Pivots
     \/ type = "habanero" /\ nfes = 2 /\ n = 1

LEMMA CpusOfWorkers ==
  ASSUME Mapped, nt \in Nat, NEW n \in WithWorkers, NEW j \in 0 .. nt - 1
  PROVE CpuOfWorker(n, WorkerCpu(n, j))
<1> DEFINE c == WorkerCpu(n, j)
<1>1. CASE type = "cayenne" /\ nfes = 1
  BY <1>1 DEF CpuOfWorker, WithWorkers, WorkerCpu, Board, BoardPeg30x1, ControlCpu, Pivots,
              PivotCpu
<1>2. CASE type = "cayenne" /\ nfes = 2
  <2>1. ControlCpu[type] = 12 /\ PivotCpu(0) = 12 /\ PivotCpu(1) = 13 /\ Pivots = 0 .. 1
    BY <1>2 DEF ControlCpu, PivotCpu, Pivots, NoCase
  <2>2. /\ Board.cpus = 0 .. 23
        /\ \A x \in 0 .. 23 : Board.core[x] = x % 12 /\ Board.socket[x] = x % 2
    BY <1>2 DEF Board, BoardPeg30x2
  <2>3. Board.core[12] = 0 /\ Board.core[13] = 1 /\ Board.socket[12] = 0 /\ Board.socket[13] = 1
    BY <2>2
  <2>4. n \in 0 .. 1
    BY <1>2 DEF WithWorkers
  <2>5. CASE n = 0
    <3>1. c \in {2, 4, 6, 8, 10, 12, 14, 16, 18} /\ (nt \leq 6 => c # 12)
      BY <1>2, <2>5 DEF WorkerCpu
    <3>2. c \in 0 .. 23 /\ c % 2 = 0 /\ c % 12 # 1 /\ (nt \leq 6 => c % 12 # 0)
      BY <3>1
    <3>3. Board.core[c] # 1 /\ Board.socket[c] = 0 /\ (nt \leq 6 => Board.core[c] # 0)
      BY <2>2, <3>2
    <3>4. QED
      BY <1>2, <2>1, <2>2, <2>3, <2>5, <3>2, <3>3 DEF CpuOfWorker, SecondHalfTooLow
  <2>6. CASE n = 1
    <3>1. c \in {3, 5, 7, 9, 11, 15, 17, 19, 21, 23}
      <4>1. \A x \in Nat : WorkerCpu(1, x) \in {3, 5, 7, 9, 11, 15, 17, 19, 21, 23}
        BY <1>2 DEF WorkerCpu
      <4>2. QED BY <2>6, <4>1
    <3>2. c \in 0 .. 23 /\ c % 2 = 1 /\ c % 12 # 1 /\ c % 12 # 0
      BY <3>1
    <3>3. Board.core[c] # 1 /\ Board.socket[c] = 1 /\ Board.core[c] # 0
      BY <2>2, <3>2
    <3>4. QED
      BY <1>2, <2>1, <2>2, <2>3, <2>6, <3>2, <3>3 DEF CpuOfWorker
  <2>7. QED BY <2>4, <2>5, <2>6
<1>3. CASE type = "habanero" /\ nfes = 2
  BY <1>3 DEF CpuOfWorker, WithWorkers, WorkerCpu, Board, BoardPeg35, ControlCpu, Pivots, PivotCpu
<1>4. CASE type = "habanero" /\ nfes = 4
  BY <1>4 DEF CpuOfWorker, WithWorkers, WorkerCpu, Board, BoardPeg35, ControlCpu, Pivots, PivotCpu
<1>5. CASE type = "geryon"
  BY <1>5 DEF Mapped, Nfes, CpuOfWorker, WithWorkers, WorkerCpu, Board, BoardPeg30x1,
              ControlCpu, Pivots, PivotCpu
<1>6. CASE type = "chrysaor"
  BY <1>6 DEF Mapped, Nfes, CpuOfWorker, WithWorkers, WorkerCpu, Board, BoardSmall,
              ControlCpu, Pivots, PivotCpu
<1>7. CASE NoCase
  BY <1>7 DEF NoCase, WithWorkers
<1>8. QED BY <1>1, <1>2, <1>3, <1>4, <1>5, <1>6, <1>7, Cases DEF WithWorkers

\* Workers of two NFEs are on different cores.
LEMMA CoresOfWorkers ==
  ASSUME Mapped, NEW n \in WithWorkers, NEW m \in WithWorkers, m # n,
         NEW j \in Nat, NEW k \in Nat
  PROVE Board.core[WorkerCpu(n, j)] # Board.core[WorkerCpu(m, k)]
<1>1. CASE type = "cayenne" /\ nfes = 2
  <2>1. \A x \in 0 .. 23 : Board.core[x] = x % 12
    BY <1>1 DEF Board, BoardPeg30x2
  <2>2. \A x \in Nat : WorkerCpu(0, x) \in {2, 4, 6, 8, 10, 12, 14, 16, 18}
    BY <1>1 DEF WorkerCpu
  <2>3. \A x \in Nat : WorkerCpu(1, x) \in {3, 5, 7, 9, 11, 15, 17, 19, 21, 23}
    BY <1>1 DEF WorkerCpu
  <2>4. \A x \in Nat : Board.core[WorkerCpu(0, x)] \in {0, 2, 4, 6, 8, 10}
    BY <2>1, <2>2
  <2>5. \A x \in Nat : Board.core[WorkerCpu(1, x)] \in {3, 5, 7, 9, 11}
    BY <2>1, <2>3
  <2>6. n \in 0 .. 1 /\ m \in 0 .. 1
    BY <1>1 DEF WithWorkers
  <2>7. QED BY <2>4, <2>5, <2>6
<1>2. CASE type = "habanero"
  <2>1. \A x \in 0 .. 39 : Board.core[x] = x % 20
    BY <1>2 DEF Board, BoardPeg35
  <2>2. CASE nfes = 2
    BY <1>2, <2>1, <2>2 DEF WithWorkers, WorkerCpu
  <2>3. CASE nfes = 4
    BY <1>2, <2>1, <2>3 DEF WithWorkers, WorkerCpu
  <2>4. QED BY <1>2, <2>2, <2>3 DEF Mapped, Nfes, WithWorkers
<1>3. CASE type = "cayenne" /\ nfes = 1
  BY <1>3 DEF WithWorkers
<1>4. CASE type \in {"geryon", "chrysaor"}
  BY <1>4 DEF WithWorkers
<1>5. CASE NoCase
  BY <1>5 DEF NoCase, WithWorkers
<1>6. QED BY <1>1, <1>2, <1>3, <1>4, <1>5, Cases

\* The CPUs of an NFE come round after so many workers.
Round(n) ==
  CASE type = "cayenne" /\ nfes = 2     -> 10
    [] type = "habanero" /\ nfes = 2    -> 9
    [] type = "habanero" /\ nfes = 4    -> 4
    [] type = "chrysaor"                -> 1
    [] OTHER                            -> 3

LEMMA CpusComeRound ==
  ASSUME Mapped, NEW n \in WithWorkers
  PROVE /\ Round(n) \in 1 .. 10
        /\ \A j \in Nat : WorkerCpu(n, j) = WorkerCpu(n, j % Round(n))
        /\ n = 0 /\ type = "cayenne" /\ nfes = 2 =>
             \A j, k \in 0 .. 4 : WorkerCpu(n, j) = WorkerCpu(n, k) => j = k
        /\ ~(n = 0 /\ type = "cayenne" /\ nfes = 2) =>
             \A j, k \in 0 .. Round(n) - 1 : WorkerCpu(n, j) = WorkerCpu(n, k) => j = k
<1>1. CASE type = "cayenne" /\ nfes = 2
  <2>1. Round(n) = 10
    BY <1>1 DEF Round
  <2>2. n \in 0 .. 1
    BY <1>1 DEF WithWorkers
  <2>3. \A j \in Nat : j % 10 \in 0 .. 9 /\ (j % 10) % 10 = j % 10
    OBVIOUS
  <2>4. \A j \in Nat : WorkerCpu(n, j) = WorkerCpu(n, j % 10)
    BY <1>1, <2>2, <2>3 DEF WorkerCpu
  <2>5. \A j \in 0 .. 4 : WorkerCpu(0, j) = 2 + 2 * j
    BY <1>1 DEF WorkerCpu
  <2>6. /\ \A j \in 0 .. 4 : WorkerCpu(1, j) = 3 + 2 * j
        /\ \A j \in 5 .. 9 : WorkerCpu(1, j) = 5 + 2 * j
    BY <1>1 DEF WorkerCpu
  <2>7. \A j, k \in 0 .. 9 : WorkerCpu(1, j) = WorkerCpu(1, k) => j = k
    BY <2>6
  <2>8. CASE n = 0
    BY <1>1, <2>1, <2>4, <2>5, <2>8
  <2>9. CASE n = 1
    BY <1>1, <2>1, <2>4, <2>7, <2>9
  <2>10. QED BY <2>2, <2>8, <2>9
<1>2. CASE type = "habanero" /\ nfes = 2
  BY <1>2 DEF Round, WithWorkers, WorkerCpu
<1>3. CASE type = "habanero" /\ nfes = 4
  BY <1>3 DEF Round, WithWorkers, WorkerCpu
<1>4. CASE type = "chrysaor"
  BY <1>4 DEF Round, WithWorkers, WorkerCpu
<1>5. CASE (type = "cayenne" /\ nfes = 1) \/ type = "geryon"
  BY <1>5 DEF Round, WithWorkers, WorkerCpu, NoCase
<1>6. CASE NoCase
  BY <1>6 DEF NoCase, WithWorkers
<1>7. QED BY <1>1, <1>2, <1>3, <1>4, <1>5, <1>6, Cases DEF WithWorkers

\* A CPU of the board that workers of an NFE may use is the one a worker is given.
LEMMA CpusOfNfe ==
  ASSUME Mapped, nt \in Nat, mask = Decided, NEW n \in 0 .. nfes - 1
  PROVE Cpus(Workers(n, nt)) =
          IF n \in WithWorkers THEN {WorkerCpu(n, j) : j \in 0 .. nt - 1} ELSE {}
<1>1. \A j \in 0 .. nt - 1 :
        mask[Worker(n, j)] = IF n \in WithWorkers THEN Bit(WorkerCpu(n, j)) ELSE {}
  BY Masks
<1>2. CASE n \notin WithWorkers
  <2>1. \A t \in Workers(n, nt) : mask[t] = {}
    BY <1>1, <1>2 DEF Workers
  <2>2. QED BY <1>2, <2>1 DEF Cpus
<1>3. CASE n \in WithWorkers
  <2>1. \A j \in 0 .. nt - 1 :
          /\ WorkerCpu(n, j) \in Board.cpus
          /\ mask[Worker(n, j)] = {WorkerCpu(n, j)}
    BY <1>1, <1>3, CpusOfWorkers DEF CpuOfWorker, Bit
  <2>2. UNION {mask[t] : t \in Workers(n, nt)} = {WorkerCpu(n, j) : j \in 0 .. nt - 1}
    <3>1. ASSUME NEW x \in UNION {mask[t] : t \in Workers(n, nt)}
          PROVE x \in {WorkerCpu(n, j) : j \in 0 .. nt - 1}
      <4>1. PICK t \in Workers(n, nt) : x \in mask[t]
        OBVIOUS
      <4>2. PICK j \in 0 .. nt - 1 : t = Worker(n, j)
        BY <4>1 DEF Workers
      <4>3. x = WorkerCpu(n, j)
        BY <2>1, <4>1, <4>2
      <4>4. QED BY <4>3
    <3>2. ASSUME NEW j \in 0 .. nt - 1
          PROVE WorkerCpu(n, j) \in UNION {mask[t] : t \in Workers(n, nt)}
      <4>1. Worker(n, j) \in Workers(n, nt)
        BY DEF Workers
      <4>2. QED BY <2>1, <4>1
    <3>3. QED BY <3>1, <3>2
  <2>3. Cpus(Workers(n, nt)) = {WorkerCpu(n, j) : j \in 0 .. nt - 1} \intersect Board.cpus
    BY <2>2 DEF Cpus
  <2>4. {WorkerCpu(n, j) : j \in 0 .. nt - 1} \subseteq Board.cpus
    BY <2>1
  <2>5. QED BY <1>3, <2>3, <2>4
<1>4. QED BY <1>2, <1>3

\* Workers that are all given different CPUs are given as many as they are.
LEMMA OneCpuEach ==
  ASSUME nt \in Nat, NEW n,
         \A j, k \in 0 .. nt - 1 : WorkerCpu(n, j) = WorkerCpu(n, k) => j = k
  PROVE Cardinality({WorkerCpu(n, j) : j \in 0 .. nt - 1}) = nt
<1> DEFINE S == {WorkerCpu(n, j) : j \in 0 .. nt - 1}
           f == [x \in 1 .. nt |-> WorkerCpu(n, x - 1)]
<1>1. f \in [1 .. nt -> S]
  OBVIOUS
<1>2. ASSUME NEW x \in 1 .. nt, NEW y \in 1 .. nt, f[x] = f[y]
      PROVE x = y
  <2>1. WorkerCpu(n, x - 1) = WorkerCpu(n, y - 1) /\ x - 1 \in 0 .. nt - 1 /\ y - 1 \in 0 .. nt - 1
    BY <1>2
  <2>2. x - 1 = y - 1
    BY <2>1
  <2>3. QED BY <2>2
<1>3. ASSUME NEW s \in S
      PROVE \E x \in 1 .. nt : f[x] = s
  <2>1. PICK j \in 0 .. nt - 1 : s = WorkerCpu(n, j)
    OBVIOUS
  <2>2. j + 1 \in 1 .. nt /\ f[j + 1] = WorkerCpu(n, (j + 1) - 1) /\ (j + 1) - 1 = j
    OBVIOUS
  <2>3. QED BY <2>1, <2>2
<1>4. f \in Bijection(1 .. nt, S)
  <2> HIDE DEF f, S
  <2>1. QED BY <1>1, <1>2, <1>3 DEF Bijection, Injection, Surjection, IsInjective
<1>5. ExistsBijection(1 .. nt, S)
  BY <1>4 DEF ExistsBijection
<1>6. QED BY <1>5, FS_CountingElements

\* The CPUs of the control threads and the pivots are the board's.
LEMMA CpusOfPivots ==
  ASSUME Mapped
  PROVE /\ ~NoCase => ControlCpu[type] \in Board.cpus \intersect 0 .. 20
        /\ \A n \in Pivots :
             /\ PivotCpu(n) \in Board.cpus \intersect 0 .. 31
             /\ PivotCpu(n) = 31 => type = "habanero" /\ nfes = 4 /\ n = 3
<1>1. CASE type = "cayenne" /\ nfes = 1
  BY <1>1 DEF Board, BoardPeg30x1, ControlCpu, Pivots, PivotCpu
<1>2. CASE type = "cayenne" /\ nfes = 2
  BY <1>2 DEF Board, BoardPeg30x2, ControlCpu, Pivots, PivotCpu
<1>3. CASE type = "habanero"
  BY <1>3 DEF Board, BoardPeg35, ControlCpu, Pivots, PivotCpu
<1>4. CASE type = "geryon"
  BY <1>4 DEF Board, BoardPeg30x1, ControlCpu, Pivots, PivotCpu
<1>5. CASE type = "chrysaor"
  BY <1>5 DEF Board, BoardSmall, ControlCpu, Pivots, PivotCpu
<1>6. CASE NoCase
  BY <1>6 DEF NoCase, Pivots
<1>7. QED BY <1>1, <1>2, <1>3, <1>4, <1>5, <1>6, Cases

\* The other threads keep the board's CPUs busy that they are meant to.
LEMMA CpusOfOthers ==
  ASSUME Mapped, nt \in Nat, mask = Decided, NEW c \in Cpus(OtherThreads)
  PROVE \/ c = ControlCpu[type]
        \/ \E m \in Pivots : m < nfes /\ PivotCpu(m) # 31 /\ c = PivotCpu(m)
<1>1. PICK t \in OtherThreads : c \in mask[t]
  BY DEF Cpus
<1>2. nfes \in 1 .. 4
  BY DEF Mapped, Nfes
<1>3. CASE t \in {Control, Spdwork}
  <2>1. ~NoCase /\ c \in Bit(ControlCpu[type])
    BY <1>1, <1>3, Masks
  <2>2. ControlCpu[type] # 31
    BY <2>1, CpusOfPivots
  <2>3. QED BY <2>1, <2>2 DEF Bit
<1>4. CASE t \notin {Control, Spdwork}
  <2>1. PICK n \in 0 .. nfes - 1 : t = Pivot(n)
    BY <1>1, <1>4 DEF OtherThreads
  <2>2. n \in Pivots /\ c \in Bit(PivotCpu(n))
    BY <1>1, <2>1, Masks
  <2>3. PivotCpu(n) # 31
    <3>1. SUFFICES ASSUME PivotCpu(n) = 31 PROVE FALSE
      OBVIOUS
    <3>2. 63 \in mask[t]
      <4>1. mask[t] = Bit(31)
        BY <2>1, <2>2, <3>1, Masks
      <4>2. QED BY <4>1 DEF Bit
    <3>3. t \in Threads(nfes, nt)
      BY <2>1 DEF Threads, ThreadsOf
    <3>4. QED BY <1>1, <3>2, <3>3 DEF OtherThreads, SignExtended
  <2>4. c = PivotCpu(n)
    BY <2>2, <2>3 DEF Bit
  <2>5. QED BY <1>2, <2>2, <2>3, <2>4
<1>5. QED BY <1>3, <1>4

\* What the program decides is for the threads it has room for, and CPUs of a mask.
LEMMA DecidedTyped ==
  ASSUME Mapped, nt \in Nat
  PROVE Decided \in [Threads(4, nt) -> SUBSET (0 .. 63)]
<1>1. ASSUME NEW t \in Threads(4, nt)
      PROVE Decided[t] \in SUBSET (0 .. 63)
  <2>1. CASE t \in {Control, Spdwork}
    <3>1. Control[1] = "control" /\ Spdwork[1] = "spdwork"
      BY DEF Control, Spdwork
    <3>2. t[1] # "pivot" /\ t[1] # "worker"
      BY <2>1, <3>1
    <3>3. Decided[t] = IF NoCase THEN {} ELSE Bit(ControlCpu[type])
      BY <2>1, <3>2 DEF Decided
    <3>4. QED BY <3>3, CpusOfPivots DEF Bit
  <2>2. CASE t \notin {Control, Spdwork} /\ t[1] = "pivot" /\ t[2] \in Pivots
    <3>1. Decided[t] = Bit(PivotCpu(t[2]))
      BY <2>2 DEF Decided
    <3>2. PivotCpu(t[2]) \in 0 .. 31
      BY <2>2, CpusOfPivots
    <3>3. QED BY <3>1, <3>2 DEF Bit
  <2>3. CASE t \notin {Control, Spdwork} /\ t[1] = "worker" /\ t[2] \in WithWorkers
    <3>1. Decided[t] = Bit(WorkerCpu(t[2], t[3]))
      BY <2>3 DEF Decided
    <3>2. PICK n \in 0 .. 3 : t \in ThreadsOf(n, nt)
      BY <2>3 DEF Threads
    <3>3. t # Pivot(n)
      BY <2>3 DEF Pivot
    <3>4. PICK j \in 0 .. nt - 1 : t = Worker(n, j)
      BY <3>2, <3>3 DEF ThreadsOf, Workers
    <3>5. t[2] = n /\ t[3] = j
      BY <3>4 DEF Worker
    <3>6. CpuOfWorker(n, WorkerCpu(n, j))
      BY <2>3, <3>5, CpusOfWorkers
    <3>7. WorkerCpu(n, j) \in 0 .. 39
      BY <3>6 DEF CpuOfWorker
    <3>8. QED BY <3>1, <3>5, <3>7 DEF Bit
  <2>4. CASE /\ t \notin {Control, Spdwork}
             /\ ~(t[1] = "pivot" /\ t[2] \in Pivots)
             /\ ~(t[1] = "worker" /\ t[2] \in WithWorkers)
    <3>1. Decided[t] = {}
      BY <2>4 DEF Decided
    <3>2. QED BY <3>1
  <2>5. QED BY <2>1, <2>2, <2>3, <2>4
<1>2. QED BY <1>1 DEF Decided

\* Once the masks are decided they stay; a run that ends without an error has set them.
AffinityIInv ==
  /\ AffinityTypeOK
  /\ call = "set" \/ (call \in {"exit", "done"} /\ err = 0) => Mapped /\ mask = Decided

LEMMA AffinityInitInv ==
  ASSUME AffinityAssumption, AffinityInit
  PROVE AffinityIInv
<1>1. mask \in [Threads(4, nt) -> SUBSET (0 .. 63)]
  BY DEF AffinityInit
<1>2. AffinityTypeOK
  BY <1>1 DEF AffinityInit, AffinityTypeOK
<1>3. QED BY <1>2 DEF AffinityInit, AffinityIInv

LEMMA AffinityNextInv ==
  ASSUME AffinityAssumption, AffinityIInv, [AffinityNext]_affinityVars
  PROVE AffinityIInv'
<1>1. nt \in Nat
  BY DEF AffinityIInv, AffinityTypeOK, AffinityAssumption
<1>2. UNCHANGED <<type, nfes, nt>>
  BY DEF AffinityNext, OpenIpsec, Query, SetAffinity, Exit, affinityVars
<1>3. Mapped' = Mapped /\ Decided' = Decided /\ Threads(4, nt)' = Threads(4, nt)
  BY <1>2 DEF Mapped, Decided, Threads, ThreadsOf, Workers, Worker, Pivot, Bit, ControlCpu,
              PivotCpu, WorkerCpu, Pivots, WithWorkers, NoCase
<1>4. CASE Query /\ call' = "set"
  <2>1. type # "other" /\ mask' = Decided /\ err' = err
    BY <1>4 DEF Query
  <2>2. Mapped
    BY <2>1 DEF AffinityIInv, AffinityTypeOK, Mapped
  <2>3. mask' \in [Threads(4, nt)' -> SUBSET (0 .. 63)]
    BY <1>1, <1>3, <2>1, <2>2, DecidedTyped
  <2>4. AffinityTypeOK'
    BY <1>2, <1>4, <2>1, <2>3 DEF AffinityIInv, AffinityTypeOK
  <2>5. QED BY <1>3, <2>1, <2>2, <2>4 DEF AffinityIInv
<1>5. CASE mask' = mask
  <2>1. mask' \in [Threads(4, nt)' -> SUBSET (0 .. 63)]
    BY <1>3, <1>5 DEF AffinityIInv, AffinityTypeOK
  <2>2. call' \in {"open", "query", "set", "exit", "done"} /\ err' \in {0, 1}
    BY DEF AffinityNext, OpenIpsec, Query, SetAffinity, Exit, affinityVars, AffinityIInv,
           AffinityTypeOK
  <2>3. AffinityTypeOK'
    BY <1>2, <2>1, <2>2 DEF AffinityIInv, AffinityTypeOK
  <2>4. CASE call' = "set" \/ (call' \in {"exit", "done"} /\ err' = 0)
    <3>1. CASE OpenIpsec
      BY <2>4, <3>1 DEF OpenIpsec
    <3>2. CASE Query /\ call' # "set"
      BY <2>4, <3>2 DEF Query
    <3>3. CASE SetAffinity
      BY <1>3, <1>5, <2>3, <3>3 DEF SetAffinity, AffinityIInv
    <3>4. CASE Exit \/ UNCHANGED affinityVars
      <4>1. Mapped /\ mask = Decided
        BY <2>4, <3>4 DEF Exit, affinityVars, AffinityIInv
      <4>2. QED BY <1>3, <1>5, <2>3, <4>1 DEF AffinityIInv
    <3>5. QED BY <1>4, <3>1, <3>2, <3>3, <3>4 DEF AffinityNext
  <2>5. QED BY <2>3, <2>4 DEF AffinityIInv
<1>6. mask' = mask \/ (Query /\ call' = "set")
  BY DEF AffinityNext, OpenIpsec, Query, SetAffinity, Exit, affinityVars
<1>7. QED BY <1>4, <1>5, <1>6

\* For every number of worker threads.
LEMMA AffinityInvariant == AffinitySpec => []AffinityIInv
<1>1. AffinityInit => AffinityIInv
  BY AffinityAssumption, AffinityInitInv
<1>2. AffinityIInv /\ [AffinityNext]_affinityVars => AffinityIInv'
  BY AffinityAssumption, AffinityNextInv
<1>3. QED BY <1>1, <1>2, PTL DEF AffinitySpec

\* The workers of an NFE that has any are on cores of their own.
LEMMA WorkersAreApart ==
  ASSUME AffinityAssumption, AffinityIInv
  PROVE WorkersApart
<1> SUFFICES ASSUME call = "set", NEW n \in 0 .. nfes - 1
    PROVE /\ \A m \in 0 .. nfes - 1 :
               m # n => Cores(Workers(n, nt)) \intersect Cores(Workers(m, nt)) = {}
          /\ \/ Cores(Workers(n, nt)) \intersect Cores(OtherThreads) = {}
             \/ SecondHalfTooLow(n, 6)
             \/ type = "habanero" /\ nfes = 2 /\ n = 0
          /\ \/ Cardinality(Cpus(Workers(n, nt))) = nt
             \/ n \notin WithWorkers
             \/ SecondHalfTooLow(n, 5)
             \/ Cpus(Workers(n, nt)) = {WorkerCpu(n, j) : j \in 0 .. MaxThreads - 1}
  BY DEF WorkersApart
<1>1. Mapped /\ mask = Decided /\ nt \in Nat /\ nt \in 1 .. MaxThreads /\ MaxThreads \in Nat
  BY DEF AffinityIInv, AffinityTypeOK, AffinityAssumption
<1>2. \A m \in 0 .. nfes - 1 :
        Cpus(Workers(m, nt)) =
          IF m \in WithWorkers THEN {WorkerCpu(m, j) : j \in 0 .. nt - 1} ELSE {}
  BY <1>1, CpusOfNfe
<1>3. \A m \in 0 .. nfes - 1 : \A x \in Cores(Workers(m, nt)) :
        m \in WithWorkers /\ \E j \in 0 .. nt - 1 : x = Board.core[WorkerCpu(m, j)]
  BY <1>2 DEF Cores
<1>4. ASSUME NEW m \in 0 .. nfes - 1, m # n
      PROVE Cores(Workers(n, nt)) \intersect Cores(Workers(m, nt)) = {}
  <2>1. SUFFICES ASSUME NEW x \in Cores(Workers(n, nt)), x \in Cores(Workers(m, nt)) PROVE FALSE
    OBVIOUS
  <2>2. PICK j \in 0 .. nt - 1 : x = Board.core[WorkerCpu(n, j)]
    BY <1>3
  <2>3. PICK k \in 0 .. nt - 1 : x = Board.core[WorkerCpu(m, k)]
    BY <1>3, <2>1
  <2>4. n \in WithWorkers /\ m \in WithWorkers
    BY <1>3, <2>1
  <2>5. j \in Nat /\ k \in Nat
    OBVIOUS
  <2>6. QED BY <1>1, <1>4, <2>2, <2>3, <2>4, <2>5, CoresOfWorkers
<1>5. ASSUME NEW x \in Cores(Workers(n, nt)), x \in Cores(OtherThreads)
      PROVE SecondHalfTooLow(n, 6) \/ (type = "habanero" /\ nfes = 2 /\ n = 0)
  <2>1. PICK j \in 0 .. nt - 1 : x = Board.core[WorkerCpu(n, j)]
    BY <1>3
  <2>2. PICK c \in Cpus(OtherThreads) : x = Board.core[c]
    BY <1>5 DEF Cores
  <2>3. CpuOfWorker(n, WorkerCpu(n, j))
    BY <1>1, <1>3, CpusOfWorkers
  <2>4. \/ c = ControlCpu[type]
        \/ \E m \in Pivots : m < nfes /\ PivotCpu(m) # 31 /\ c = PivotCpu(m)
    BY <1>1, CpusOfOthers
  <2>5. QED BY <2>1, <2>2, <2>3, <2>4 DEF CpuOfWorker
<1>6. ASSUME n \in WithWorkers, ~SecondHalfTooLow(n, 5)
      PROVE \/ Cardinality(Cpus(Workers(n, nt))) = nt
            \/ Cpus(Workers(n, nt)) = {WorkerCpu(n, j) : j \in 0 .. MaxThreads - 1}
  <2>1. Cpus(Workers(n, nt)) = {WorkerCpu(n, j) : j \in 0 .. nt - 1}
    BY <1>2, <1>6
  <2>2. Round(n) \in 1 .. 10 /\ \A j \in Nat : WorkerCpu(n, j) = WorkerCpu(n, j % Round(n))
    BY <1>1, <1>6, CpusComeRound
  <2>3. CASE nt \leq Round(n)
    <3>1. \A j, k \in 0 .. nt - 1 : WorkerCpu(n, j) = WorkerCpu(n, k) => j = k
      <4>1. CASE n = 0 /\ type = "cayenne" /\ nfes = 2
        <5>1. nt \leq 5
          BY <1>1, <1>6, <4>1 DEF SecondHalfTooLow
        <5>2. \A j, k \in 0 .. 4 : WorkerCpu(n, j) = WorkerCpu(n, k) => j = k
          BY <1>1, <1>6, <4>1, CpusComeRound
        <5>3. 0 .. nt - 1 \subseteq 0 .. 4
          BY <1>1, <5>1
        <5>4. QED BY <5>2, <5>3
      <4>2. CASE ~(n = 0 /\ type = "cayenne" /\ nfes = 2)
        <5>1. \A j, k \in 0 .. Round(n) - 1 : WorkerCpu(n, j) = WorkerCpu(n, k) => j = k
          BY <1>1, <1>6, <4>2, CpusComeRound
        <5>2. 0 .. nt - 1 \subseteq 0 .. Round(n) - 1
          BY <1>1, <2>2, <2>3
        <5>3. QED BY <5>1, <5>2
      <4>3. QED BY <4>1, <4>2
    <3>2. QED BY <1>1, <2>1, <3>1, OneCpuEach
  <2>4. CASE nt > Round(n)
    <3>1. \A j \in 0 .. MaxThreads - 1 :
            j % Round(n) \in 0 .. nt - 1 /\ WorkerCpu(n, j) = WorkerCpu(n, j % Round(n))
      <4>1. ASSUME NEW j \in 0 .. MaxThreads - 1 PROVE j % Round(n) \in 0 .. nt - 1
        BY <1>1, <2>2, <2>4
      <4>2. QED BY <1>1, <2>2, <4>1
    <3>2. 0 .. nt - 1 \subseteq 0 .. MaxThreads - 1
      BY <1>1
    <3>3. QED BY <2>1, <3>1, <3>2
  <2>5. QED BY <1>1, <2>2, <2>3, <2>4
<1>7. QED BY <1>4, <1>5, <1>6

\* The threads without a case are those of Unplaced.
LEMMA PivotOrNone ==
  ASSUME Mapped, NEW n \in 0 .. nfes - 1
  PROVE n \in Pivots <=> ~Unplaced(Pivot(n))
<1>1. /\ Pivot(n)[1] = "pivot" /\ Pivot(n)[2] = n
      /\ Pivot(n) = Pivot(2) <=> n = 2
  BY DEF Pivot
<1>2. nfes \in 1 .. 4
  BY DEF Mapped, Nfes
<1>3. CASE type = "cayenne"
  BY <1>3 DEF Pivots, Unplaced
<1>4. CASE type = "habanero"
  BY <1>1, <1>2, <1>4 DEF Pivots, Unplaced, NoCase
<1>5. CASE type \in {"geryon", "chrysaor"}
  BY <1>1, <1>2, <1>5 DEF Pivots, Unplaced, NoCase
<1>6. QED BY <1>3, <1>4, <1>5, Cases DEF NoCase

LEMMA WorkersOrNone ==
  ASSUME Mapped, NEW n \in 0 .. nfes - 1, NEW j
  PROVE n \in WithWorkers <=> ~Unplaced(Worker(n, j))
<1>1. Worker(n, j)[1] = "worker" /\ Worker(n, j)[2] = n
  BY DEF Worker
<1>2. Worker(n, j) # Pivot(2)
  BY <1>1 DEF Pivot
<1>3. nfes \in 1 .. 4
  BY DEF Mapped, Nfes
<1>4. CASE type = "cayenne"
  BY <1>4 DEF WithWorkers, Unplaced
<1>5. CASE type = "habanero"
  BY <1>1, <1>2, <1>3, <1>5 DEF WithWorkers, Unplaced, NoCase
<1>6. CASE type \in {"geryon", "chrysaor"}
  BY <1>1, <1>2, <1>3, <1>6 DEF WithWorkers, Unplaced, NoCase
<1>7. QED BY <1>4, <1>5, <1>6, Cases DEF NoCase

LEMMA ControlOrNone ==
  ASSUME NEW t \in {Control, Spdwork}
  PROVE NoCase <=> Unplaced(t)
<1>1. t[1] \in {"control", "spdwork"}
  BY DEF Control, Spdwork
<1>2. t # Pivot(2)
  BY <1>1 DEF Pivot
<1>3. QED BY <1>1, <1>2 DEF Unplaced

\* What the sockets of an NFE's threads are depends on where its pivot is.
LEMMA SocketOfNfe ==
  ASSUME Mapped, nt \in Nat \ {0}, mask = Decided, NEW n \in 0 .. nfes - 1,
         ~(type = "habanero" /\ nfes = 2 /\ n = 1), ~Unplaced(Pivot(n))
  PROVE Cardinality(Sockets(ThreadsOf(n, nt))) = 1
<1> DEFINE s == Board.socket[PivotCpu(n)]
<1>1. n \in Pivots
  BY PivotOrNone
<1>2. PivotCpu(n) \in Cpus(ThreadsOf(n, nt))
  <2>1. Pivot(n) \in ThreadsOf(n, nt) /\ mask[Pivot(n)] = Bit(PivotCpu(n))
    BY <1>1, Masks DEF ThreadsOf
  <2>2. PivotCpu(n) \in Board.cpus /\ PivotCpu(n) \in 0 .. 31
    BY <1>1, CpusOfPivots
  <2>3. PivotCpu(n) \in Bit(PivotCpu(n))
    BY <2>2 DEF Bit
  <2>4. QED BY <2>1, <2>2, <2>3 DEF Cpus
<1>3. ASSUME NEW c \in Cpus(ThreadsOf(n, nt))
      PROVE Board.socket[c] = s
  <2>1. PICK t \in ThreadsOf(n, nt) : c \in mask[t] /\ c \in Board.cpus
    BY DEF Cpus
  <2>2. CASE t = Pivot(n)
    <3>1. c \in Bit(PivotCpu(n))
      BY <1>1, <2>1, <2>2, Masks
    <3>2. CASE PivotCpu(n) # 31
      BY <3>1, <3>2 DEF Bit
    <3>3. CASE PivotCpu(n) = 31
      <4>1. type = "habanero"
        BY <1>1, <3>3, CpusOfPivots
      <4>2. c \in 31 .. 39
        BY <2>1, <3>1, <3>3, <4>1 DEF Bit, Board, BoardPeg35
      <4>3. \A x \in 31 .. 39 : Board.socket[x] = 1
        BY <4>1 DEF Board, BoardPeg35
      <4>4. QED BY <3>3, <4>2, <4>3
    <3>4. QED BY <3>2, <3>3
  <2>3. CASE t \in Workers(n, nt)
    <3>1. PICK j \in 0 .. nt - 1 : t = Worker(n, j)
      BY <2>3 DEF Workers
    <3>2. n \in WithWorkers /\ c \in Bit(WorkerCpu(n, j))
      BY <2>1, <3>1, Masks
    <3>3. CpuOfWorker(n, WorkerCpu(n, j))
      BY <3>2, CpusOfWorkers
    <3>4. QED BY <3>2, <3>3 DEF CpuOfWorker, Bit
  <2>4. QED BY <2>1, <2>2, <2>3 DEF ThreadsOf
<1>4. Sockets(ThreadsOf(n, nt)) = {s}
  BY <1>2, <1>3 DEF Sockets
<1>5. QED BY <1>4, FS_Singleton

\* When the program has set what it decided, the threads are where they are meant to be.
LEMMA ThreadsArePlaced ==
  ASSUME AffinityAssumption, AffinityIInv
  PROVE EveryThreadPlaced
<1> SUFFICES ASSUME call = "done", err = 0, NEW n \in 0 .. nfes - 1,
                    NEW t \in ThreadsOf(n, nt) \union {Control, Spdwork}
    PROVE /\ IF Unplaced(t) THEN mask[t] = {}
             ELSE \/ Cardinality(mask[t]) = 1 /\ mask[t] \subseteq Board.cpus
                  \/ t \in SignExtended /\ nfes = 4 /\ t = Pivot(3)
          /\ \/ Cardinality(Sockets(ThreadsOf(n, nt))) = 1
             \/ type = "habanero" /\ nfes = 2 /\ n = 1
             \/ Unplaced(Pivot(n))
  BY DEF AffinityIInv, EveryThreadPlaced
<1>1. Mapped /\ mask = Decided /\ nt \in Nat \ {0}
  BY DEF AffinityIInv, AffinityTypeOK, AffinityAssumption
<1>2. \A x \in Board.cpus : Bit(x) = {x} =>
        Cardinality(Bit(x)) = 1 /\ Bit(x) \subseteq Board.cpus
  BY FS_Singleton
<1>3. \/ Cardinality(Sockets(ThreadsOf(n, nt))) = 1
      \/ type = "habanero" /\ nfes = 2 /\ n = 1
      \/ Unplaced(Pivot(n))
  BY <1>1, SocketOfNfe
<1>4. CASE t \in {Control, Spdwork}
  <2>1. mask[t] = IF Unplaced(t) THEN {} ELSE Bit(ControlCpu[type])
    BY <1>1, <1>4, Masks, ControlOrNone
  <2>2. CASE NoCase
    BY <1>3, <1>4, <2>1, <2>2, ControlOrNone
  <2>3. CASE ~NoCase
    <3>1. ControlCpu[type] \in Board.cpus /\ Bit(ControlCpu[type]) = {ControlCpu[type]}
      BY <1>1, <2>3, CpusOfPivots DEF Bit
    <3>2. QED BY <1>2, <1>3, <1>4, <2>1, <2>3, <3>1, ControlOrNone
  <2>4. QED BY <2>2, <2>3
<1>5. CASE t = Pivot(n)
  <2>1. mask[t] = IF n \in Pivots THEN Bit(PivotCpu(n)) ELSE {}
    BY <1>1, <1>5, Masks
  <2>2. CASE n \notin Pivots
    BY <1>1, <1>3, <1>5, <2>1, <2>2, PivotOrNone
  <2>3. CASE n \in Pivots /\ PivotCpu(n) # 31
    <3>1. PivotCpu(n) \in Board.cpus /\ Bit(PivotCpu(n)) = {PivotCpu(n)}
      BY <1>1, <2>3, CpusOfPivots DEF Bit
    <3>2. ~Unplaced(t)
      BY <1>1, <1>5, <2>3, PivotOrNone
    <3>3. QED BY <1>2, <1>3, <2>1, <2>3, <3>1, <3>2
  <2>4. CASE n \in Pivots /\ PivotCpu(n) = 31
    <3>1. nfes = 4 /\ n = 3
      BY <1>1, <2>4, CpusOfPivots
    <3>2. 63 \in mask[t]
      BY <2>1, <2>4 DEF Bit
    <3>3. t \in Threads(nfes, nt)
      BY <1>5 DEF Threads, ThreadsOf
    <3>4. t \in SignExtended
      BY <3>2, <3>3 DEF SignExtended
    <3>5. ~Unplaced(t)
      BY <1>1, <1>5, <2>4, PivotOrNone
    <3>6. QED BY <1>3, <1>5, <3>1, <3>4, <3>5
  <2>5. QED BY <2>2, <2>3, <2>4
<1>6. CASE t \in Workers(n, nt)
  <2>1. PICK j \in 0 .. nt - 1 : t = Worker(n, j)
    BY <1>6 DEF Workers
  <2>2. mask[t] = IF n \in WithWorkers THEN Bit(WorkerCpu(n, j)) ELSE {}
    BY <1>1, <2>1, Masks
  <2>3. CASE n \in WithWorkers
    <3>1. CpuOfWorker(n, WorkerCpu(n, j))
      BY <1>1, <2>3, CpusOfWorkers
    <3>2. WorkerCpu(n, j) \in Board.cpus /\ Bit(WorkerCpu(n, j)) = {WorkerCpu(n, j)}
      BY <3>1 DEF CpuOfWorker, Bit
    <3>3. ~Unplaced(t)
      BY <1>1, <2>1, <2>3, WorkersOrNone
    <3>4. QED BY <1>2, <1>3, <2>2, <2>3, <3>2, <3>3
  <2>4. CASE n \notin WithWorkers
    BY <1>1, <1>3, <2>1, <2>2, <2>4, WorkersOrNone
  <2>5. QED BY <2>3, <2>4
<1>7. QED BY <1>4, <1>5, <1>6 DEF ThreadsOf

\* For any number of worker threads, and of NFEs up to four: the workers of two NFEs are on
\* different cores, the control threads and the pivots have no worker on theirs, and two
\* workers of one NFE share a CPU only when there is none left (nfm_sample_ipsec_affinity.c);
\* the boards where it is otherwise are named in WorkersApart.
THEOREM AffinityKeepsWorkersApart == AffinitySpec => []WorkersApart
<1>1. AffinityIInv => WorkersApart
  BY AffinityAssumption, WorkersAreApart
<1>2. QED BY <1>1, AffinityInvariant, PTL

\* For any number of worker threads, for every type of board and any number of NFEs up to
\* four: a run that ends without an error has given every thread one CPU of the board,
\* and the threads of an NFE one socket, but for the threads that EveryThreadPlaced and
\* Unplaced name (nfm_sample_ipsec_affinity.c).
THEOREM AffinityPlacesEveryThread == AffinitySpec => []EveryThreadPlaced
<1>1. AffinityIInv => EveryThreadPlaced
  BY AffinityAssumption, ThreadsArePlaced
<1>2. QED BY <1>1, AffinityInvariant, PTL
===============================================================================
