------------------------- MODULE GoalRuntimeProofs -------------------------
(***************************************************************************)
(* Concurrent ticks over one autonomous goal make at most one attempt per  *)
(* slot, keep what they broadcast counted, close no goal twice or under a  *)
(* live attempt, count a verified trade once, and drive the day ledger as  *)
(* it requires.  Proved for any number of ticks, slots, trades, crashes,   *)
(* edits, and whatever store calls are lost or land late.                  *)
(***************************************************************************)
EXTENDS GoalRuntime, AmountsProofs, SequenceTheorems, TLAPS

-----------------------------------------------------------------------------
(***************************************************************************)
(* Where a tick stands: the first step of its agenda, the state of its     *)
(* broadcast work, the execution it is about.                              *)
(***************************************************************************)

\* Every agenda a tick can still have to do: one last step, a goal to look
\* at, an execution to claim and reserve, a failure or a hash to write down.
LastSteps ==
    { <<>>, <<"verify">>, <<"check">>, <<"free">>, <<"work">>, <<"park">>,
      <<"strike">>, <<"evaluate">>, <<"reserve">> }
Lookings ==
    { <<"lease", "evaluate">>, <<"free", "lease", "evaluate">>,
      <<"lease", "closeRead", "closeClaim", "close", "closeRec", "free">>,
      <<"closeRead", "closeClaim", "close", "closeRec", "free">>,
      <<"closeClaim", "close", "closeRec", "free">>,
      <<"close", "closeRec", "free">>, <<"closeRec", "free">> }
Reapings ==
    { <<"lease", "reapRead", "reapWrite", "relU", "rec", "free">>,
      <<"reapRead", "reapWrite", "relU", "rec", "free">>,
      <<"reapWrite", "relU", "rec", "free">>,
      <<"relU", "rec", "free">>, <<"rec", "free">> }
Attempts ==
    { <<"claim", "reserve">>, <<"relP", "strike">>,
      <<"relU", "dropNow", "park">>, <<"dropNow", "park">>,
      <<"relU", "drop", "free">>, <<"drop", "free">>,
      <<"relU", "drop", "failInfra", "rec", "free">>,
      <<"drop", "failInfra", "rec", "free">> }
Failings ==
    { <<"relP", "failStrike", "rec", "free">>,
      <<"relP", "failInfra", "rec", "free">>,
      <<"failStrike", "rec", "free">>, <<"failInfra", "rec", "free">>,
      <<"failInfra", "free">>,
      <<"markX", "failStrike", "rec", "free">>,
      <<"markX", "failInfra", "rec", "free">> }
Hashes ==
    { <<"commit", "submit", "recHash", "free">>,
      <<"submit", "recHash", "free">>, <<"recHash", "free">>,
      <<"reopen", "recHash", "free">>, <<"resubmit", "recHash", "free">> }
Agendas == LastSteps \union Lookings \union Reapings \union Attempts
             \union Failings \union Hashes

\* Those of a tick whose broadcast work is not done with.
Background ==
    { <<>>, <<"work">>, <<"markX", "failInfra", "rec", "free">>,
      <<"failInfra", "rec", "free">>, <<"rec", "free">>, <<"free">> }

\* A release before the claim is dropped is told from the one that keeps it.
First(m) ==
    IF m = <<>> THEN "none"
    ELSE IF m \in { <<"relU", "dropNow", "park">>, <<"relU", "drop", "free">>,
                    <<"relU", "drop", "failInfra", "rec", "free">> }
         THEN "relUdrop"
    ELSE Head(m)

M(t) == First(tick[t].main)
W(t) == tick[t].work
E(t) == tick[t].goal.exec

TickRecord ==
    [main : Seq(Step),
     work : Busy \union Result \union
            {"none", "lateSubmit", "lateReopen", "lateResubmit", "lateRec"},
     fresh : SUBSET {"goal", "current"},
     goal : SnapshotType, current : SnapshotType]

\* What a tick may be: the work goes on beside few agendas, a tick with
\* nothing to do is idle, any other is about an execution.
Shape(r) ==
    /\ r.main \in Agendas
    /\ r.work # "none" => r.main \in Background
    /\ r.main = <<"work">> => r.work \in Busy \union Result
    /\ r.main = <<>> /\ r.work = "none" => r = Idle
    /\ r.main # <<>> \/ r.work # "none" => r.goal.exec \in Exec

ControlInv ==
    /\ TypeOK
    /\ \A t \in Tick :
         /\ Shape(tick[t])
         /\ M(t) \notin {"none", "verify", "check", "lease"} => lease = t
    /\ goal.status = "EXECUTING" /\ goal.pending = None => goal.slot \in Exec

-----------------------------------------------------------------------------
(* The claim, the reservation and the transaction of an execution.         *)

\* The tick that has the claim and may still broadcast, or give it back.
Owner(t) ==
    \/ M(t) \in {"reserve", "work", "relUdrop", "drop", "dropNow"}
    \/ W(t) \in Busy

\* It has not broadcast.
Unsent(t) ==
    \/ M(t) \in {"reserve", "relUdrop", "drop", "dropNow"}
    \/ W(t) \in {"prepare", "mark", "call", "adapter"}
    \/ M(t) = "work" /\ W(t) \in {"REFUSED", "GOAL_CLOSED", "STATE_UNREADABLE"}

\* It has recorded the attempt.
Attempting(t) == W(t) \in {"call", "adapter", "sent"}

\* The claim is there to stay and nobody is left to broadcast.
Dead(e) ==
    /\ e \in claims /\ <<"drop", e>> \notin late
    /\ \A t \in Tick : Owner(t) => E(t) # e

OwnersClaim == \A t \in Tick : Owner(t) => E(t) \in claims
OwnersAlone ==
    \A t, u \in Tick : Owner(t) /\ Owner(u) /\ E(t) = E(u) => t = u
UnsentTx == \A t \in Tick : Unsent(t) => tx[E(t)] = "none"
AttemptsMarked ==
    \A t \in Tick : Attempting(t) => res[E(t)] \in {"A", "C", "X"}
ReleasesDead ==
    /\ \A t \in Tick : M(t) = "relP" => Dead(E(t)) /\ tx[E(t)] = "none"
    /\ \A e \in Exec : <<"relP", e>> \in late => Dead(e) /\ tx[e] = "none"
LateDrops ==
    \A e \in Exec :
        <<"drop", e>> \in late =>
            /\ e \in claims /\ tx[e] = "none"
            /\ \A t \in Tick : Owner(t) => E(t) # e
SentCounted ==
    \A e \in Exec :
        tx[e] # "none" => e \in claims /\ res[e] \in {"A", "C", "X"}

BroadcastInv ==
    /\ OwnersClaim /\ OwnersAlone /\ UnsentTx /\ AttemptsMarked
    /\ ReleasesDead /\ LateDrops /\ SentCounted

-----------------------------------------------------------------------------
(* The hash of a broadcast, from the adapter into the goal.                *)

HasHash(t) ==
    \/ M(t) \in {"commit", "submit", "reopen", "resubmit"}
    \/ W(t) \in {"HASH", "lateSubmit", "lateReopen", "lateResubmit"}

\* The tick may still make the goal wait for its transaction.
Holder(t) == HasHash(t) \/ W(t) = "sent"

HashInv ==
    /\ \A t \in Tick : HasHash(t) => E(t) \in hashed
    /\ \A t \in Tick : Holder(t) => tx[E(t)] # "none" /\ E(t) # goal.pending
    /\ \A t, u \in Tick : Holder(t) /\ Holder(u) /\ E(t) = E(u) => t = u
    /\ \A e \in hashed : tx[e] # "none"
    /\ goal.pending # None => goal.pending \in hashed
    /\ goal.status # "EXECUTING" => goal.pending = None
    /\ ~Legacy /\ goal.status = "EXECUTING" => goal.pending # None

\* The trades a goal may have counted: nobody waits for their verdict.
Settled ==
    {e \in Exec : /\ tx[e] = "mined" /\ e # goal.pending
                  /\ \A t \in Tick : Holder(t) => E(t) # e}

VerdictInv ==
    /\ goal.verified <= Cardinality(Settled)
    /\ \A t \in Tick :
         /\ tick[t].goal.verified <= Cardinality(Settled)
         /\ tick[t].current.verified <= Cardinality(Settled)
         /\ M(t) = "verify" /\ "goal" \in tick[t].fresh => goal.pending = E(t)

IInv == ControlInv /\ BroadcastInv /\ HashInv /\ VerdictInv

-----------------------------------------------------------------------------
(* Agendas.                                                                *)

\* A sequence of one step or more is not empty; its head and its tail.
LEMMA Cons ==
    ASSUME NEW S, NEW m \in Seq(S), m # <<>>
    PROVE  <<Head(m)>> \o Tail(m) = m
<1> DEFINE c == <<Head(m)>> \o Tail(m)
<1>1. /\ <<Head(m)>> \in Seq(S) /\ Tail(m) \in Seq(S)
      /\ Len(<<Head(m)>>) = 1 /\ <<Head(m)>>[1] = Head(m)
  OBVIOUS
<1>2. /\ c \in Seq(S) /\ Len(c) = Len(m)
      /\ \A i \in 1 .. Len(m) :
           c[i] = IF i <= 1 THEN m[1] ELSE Tail(m)[i - 1]
  BY <1>1, ConcatProperties
<1>3. \A i \in 1 .. Len(m) : c[i] = m[i]
  BY <1>2
<1> QED BY <1>2, <1>3, SeqEqual

\* An agenda is a sequence of steps.
LEMMA AgendasTyped ==
    Agendas \subseteq Seq(Step) /\ Background \subseteq Agendas
<1>1. LastSteps \subseteq Seq(Step) /\ Lookings \subseteq Seq(Step)
  BY DEF LastSteps, Lookings, Step
<1>2. Reapings \subseteq Seq(Step) /\ Attempts \subseteq Seq(Step)
  BY DEF Reapings, Attempts, Step
<1>3. Failings \subseteq Seq(Step) /\ Hashes \subseteq Seq(Step)
  BY DEF Failings, Hashes, Step
<1>4. Background \subseteq LastSteps \union Failings \union Reapings
  BY DEF Background, LastSteps, Failings, Reapings
<1> QED BY <1>1, <1>2, <1>3, <1>4 DEF Agendas

\* What is left of each agenda after its first step.
LEMMA Tails ==
    /\ Tail(<<"verify">>) = <<>>
    /\ Tail(<<"check">>) = <<>>
    /\ Tail(<<"free">>) = <<>>
    /\ Tail(<<"work">>) = <<>>
    /\ Tail(<<"park">>) = <<>>
    /\ Tail(<<"strike">>) = <<>>
    /\ Tail(<<"evaluate">>) = <<>>
    /\ Tail(<<"reserve">>) = <<>>
    /\ Tail(<<"lease", "evaluate">>) = <<"evaluate">>
    /\ Tail(<<"free", "lease", "evaluate">>) = <<"lease", "evaluate">>
    /\ Tail(<<"lease", "closeRead", "closeClaim", "close", "closeRec",
             "free">>)
          = <<"closeRead", "closeClaim", "close", "closeRec", "free">>
    /\ Tail(<<"closeRead", "closeClaim", "close", "closeRec", "free">>)
          = <<"closeClaim", "close", "closeRec", "free">>
    /\ Tail(<<"closeClaim", "close", "closeRec", "free">>)
          = <<"close", "closeRec", "free">>
    /\ Tail(<<"close", "closeRec", "free">>) = <<"closeRec", "free">>
    /\ Tail(<<"closeRec", "free">>) = <<"free">>
    /\ Tail(<<"lease", "reapRead", "reapWrite", "relU", "rec", "free">>)
          = <<"reapRead", "reapWrite", "relU", "rec", "free">>
    /\ Tail(<<"reapRead", "reapWrite", "relU", "rec", "free">>)
          = <<"reapWrite", "relU", "rec", "free">>
    /\ Tail(<<"reapWrite", "relU", "rec", "free">>) = <<"relU", "rec", "free">>
    /\ Tail(<<"relU", "rec", "free">>) = <<"rec", "free">>
    /\ Tail(<<"rec", "free">>) = <<"free">>
    /\ Tail(<<"claim", "reserve">>) = <<"reserve">>
    /\ Tail(<<"relP", "strike">>) = <<"strike">>
    /\ Tail(<<"relU", "dropNow", "park">>) = <<"dropNow", "park">>
    /\ Tail(<<"dropNow", "park">>) = <<"park">>
    /\ Tail(<<"relP", "failStrike", "rec", "free">>)
          = <<"failStrike", "rec", "free">>
    /\ Tail(<<"relP", "failInfra", "rec", "free">>)
          = <<"failInfra", "rec", "free">>
    /\ Tail(<<"failStrike", "rec", "free">>) = <<"rec", "free">>
    /\ Tail(<<"failInfra", "rec", "free">>) = <<"rec", "free">>
    /\ Tail(<<"relU", "drop", "free">>) = <<"drop", "free">>
    /\ Tail(<<"drop", "free">>) = <<"free">>
    /\ Tail(<<"relU", "drop", "failInfra", "rec", "free">>)
          = <<"drop", "failInfra", "rec", "free">>
    /\ Tail(<<"drop", "failInfra", "rec", "free">>)
          = <<"failInfra", "rec", "free">>
    /\ Tail(<<"failInfra", "free">>) = <<"free">>
    /\ Tail(<<"markX", "failStrike", "rec", "free">>)
          = <<"failStrike", "rec", "free">>
    /\ Tail(<<"markX", "failInfra", "rec", "free">>)
          = <<"failInfra", "rec", "free">>
    /\ Tail(<<"commit", "submit", "recHash", "free">>)
          = <<"submit", "recHash", "free">>
    /\ Tail(<<"submit", "recHash", "free">>) = <<"recHash", "free">>
    /\ Tail(<<"recHash", "free">>) = <<"free">>
    /\ Tail(<<"reopen", "recHash", "free">>) = <<"recHash", "free">>
    /\ Tail(<<"resubmit", "recHash", "free">>) = <<"recHash", "free">>
OBVIOUS

\* The first step of each agenda.
LEMMA Firsts ==
    /\ First(<<>>) = "none"
    /\ First(<<"verify">>) = "verify"
    /\ First(<<"check">>) = "check"
    /\ First(<<"free">>) = "free"
    /\ First(<<"work">>) = "work"
    /\ First(<<"park">>) = "park"
    /\ First(<<"strike">>) = "strike"
    /\ First(<<"evaluate">>) = "evaluate"
    /\ First(<<"reserve">>) = "reserve"
    /\ First(<<"lease", "evaluate">>) = "lease"
    /\ First(<<"free", "lease", "evaluate">>) = "free"
    /\ First(<<"lease", "closeRead", "closeClaim", "close", "closeRec",
             "free">>)
          = "lease"
    /\ First(<<"closeRead", "closeClaim", "close", "closeRec", "free">>)
          = "closeRead"
    /\ First(<<"closeClaim", "close", "closeRec", "free">>) = "closeClaim"
    /\ First(<<"close", "closeRec", "free">>) = "close"
    /\ First(<<"closeRec", "free">>) = "closeRec"
    /\ First(<<"lease", "reapRead", "reapWrite", "relU", "rec", "free">>)
          = "lease"
    /\ First(<<"reapRead", "reapWrite", "relU", "rec", "free">>) = "reapRead"
    /\ First(<<"reapWrite", "relU", "rec", "free">>) = "reapWrite"
    /\ First(<<"relU", "rec", "free">>) = "relU"
    /\ First(<<"rec", "free">>) = "rec"
    /\ First(<<"claim", "reserve">>) = "claim"
    /\ First(<<"relP", "strike">>) = "relP"
    /\ First(<<"relU", "dropNow", "park">>) = "relUdrop"
    /\ First(<<"dropNow", "park">>) = "dropNow"
    /\ First(<<"relP", "failStrike", "rec", "free">>) = "relP"
    /\ First(<<"relP", "failInfra", "rec", "free">>) = "relP"
    /\ First(<<"failStrike", "rec", "free">>) = "failStrike"
    /\ First(<<"failInfra", "rec", "free">>) = "failInfra"
    /\ First(<<"relU", "drop", "free">>) = "relUdrop"
    /\ First(<<"drop", "free">>) = "drop"
    /\ First(<<"relU", "drop", "failInfra", "rec", "free">>) = "relUdrop"
    /\ First(<<"drop", "failInfra", "rec", "free">>) = "drop"
    /\ First(<<"failInfra", "free">>) = "failInfra"
    /\ First(<<"markX", "failStrike", "rec", "free">>) = "markX"
    /\ First(<<"markX", "failInfra", "rec", "free">>) = "markX"
    /\ First(<<"commit", "submit", "recHash", "free">>) = "commit"
    /\ First(<<"submit", "recHash", "free">>) = "submit"
    /\ First(<<"recHash", "free">>) = "recHash"
    /\ First(<<"reopen", "recHash", "free">>) = "reopen"
    /\ First(<<"resubmit", "recHash", "free">>) = "resubmit"
BY DEF First

\* What an agenda leaves to do.
LEMMA TailFacts ==
    ASSUME NEW m \in Agendas, m # <<>>
    PROVE  /\ Tail(m) \in Agendas
           /\ m \in Background /\ m # <<"work">> => Tail(m) \in Background
<1>1. Tail(m) \in Agendas
  <2>1. CASE m \in LastSteps
    BY <2>1, Tails DEF LastSteps, Agendas
  <2>2. CASE m \in Lookings
    BY <2>2, Tails DEF LastSteps, Lookings, Agendas
  <2>3. CASE m \in Reapings
    BY <2>3, Tails DEF LastSteps, Reapings, Agendas
  <2>4. CASE m \in Attempts
    BY <2>4, Tails DEF LastSteps, Attempts, Failings, Agendas
  <2>5. CASE m \in Failings
    BY <2>5, Tails DEF LastSteps, Failings, Reapings, Attempts, Agendas
  <2>6. CASE m \in Hashes
    BY <2>6, Tails DEF LastSteps, Hashes, Agendas
  <2> QED BY <2>1, <2>2, <2>3, <2>4, <2>5, <2>6 DEF Agendas
<1>2. m \in Background /\ m # <<"work">> => Tail(m) \in Background
  BY Tails DEF Background
<1> QED BY <1>1, <1>2

\* Its first step.
LEMMA FirstFacts ==
    ASSUME NEW m \in Agendas
    PROVE  /\ First(m) = "none" <=> m = <<>>
           /\ m # <<>> =>
                Head(m) = IF First(m) = "relUdrop" THEN "relU" ELSE First(m)
           /\ First(m) \in Step \union {"none", "relUdrop"}
<1>1. m # <<>> => First(m) # "none"
  <2>1. CASE m \in LastSteps \union Lookings \union Reapings
    BY <2>1, Firsts DEF LastSteps, Lookings, Reapings
  <2>2. CASE m \in Attempts \union Failings \union Hashes
    BY <2>2, Firsts DEF Attempts, Failings, Hashes
  <2> QED BY <2>1, <2>2 DEF Agendas
<1>2. m # <<>> => Head(m) \in Step
  BY AgendasTyped
<1>3. First(m) = "relUdrop" => m # <<>> /\ Head(m) = "relU"
  BY <1>2 DEF First, Step
<1> QED BY <1>1, <1>2, <1>3 DEF First

\* Steps that give a tick no part in a broadcast.
Plain ==
    {"none", "check", "lease", "free", "closeRead", "closeClaim", "close",
     "closeRec", "reapRead", "reapWrite", "evaluate", "park", "strike",
     "claim", "relU", "markX", "failInfra", "failStrike", "rec", "recHash"}

\* The step b after a step a.
Follows(a, b) ==
    /\ a = "claim" => b = "reserve"
    /\ a = "relUdrop" => b \in {"drop", "dropNow"}
    /\ a = "commit" => b = "submit"
    /\ a = "free" => b \in {"none", "lease"}
    /\ a \notin {"claim", "relUdrop", "commit"} => b \in Plain
Proceeds(m) == Follows(First(m), First(Tail(m)))

\* In each agenda the second step follows from the first.
LEMMA ProceedsFacts ==
    /\ Proceeds(<<"verify">>)
    /\ Proceeds(<<"check">>)
    /\ Proceeds(<<"free">>)
    /\ Proceeds(<<"work">>)
    /\ Proceeds(<<"park">>)
    /\ Proceeds(<<"strike">>)
    /\ Proceeds(<<"evaluate">>)
    /\ Proceeds(<<"reserve">>)
    /\ Proceeds(<<"lease", "evaluate">>)
    /\ Proceeds(<<"free", "lease", "evaluate">>)
    /\ Proceeds(<<"lease", "closeRead", "closeClaim", "close", "closeRec",
                  "free">>)
    /\ Proceeds(<<"closeRead", "closeClaim", "close", "closeRec", "free">>)
    /\ Proceeds(<<"closeClaim", "close", "closeRec", "free">>)
    /\ Proceeds(<<"close", "closeRec", "free">>)
    /\ Proceeds(<<"closeRec", "free">>)
    /\ Proceeds(<<"lease", "reapRead", "reapWrite", "relU", "rec", "free">>)
    /\ Proceeds(<<"reapRead", "reapWrite", "relU", "rec", "free">>)
    /\ Proceeds(<<"reapWrite", "relU", "rec", "free">>)
    /\ Proceeds(<<"relU", "rec", "free">>)
    /\ Proceeds(<<"rec", "free">>)
    /\ Proceeds(<<"claim", "reserve">>)
    /\ Proceeds(<<"relP", "strike">>)
    /\ Proceeds(<<"relU", "dropNow", "park">>)
    /\ Proceeds(<<"dropNow", "park">>)
    /\ Proceeds(<<"relU", "drop", "free">>)
    /\ Proceeds(<<"drop", "free">>)
    /\ Proceeds(<<"relU", "drop", "failInfra", "rec", "free">>)
    /\ Proceeds(<<"drop", "failInfra", "rec", "free">>)
    /\ Proceeds(<<"relP", "failStrike", "rec", "free">>)
    /\ Proceeds(<<"relP", "failInfra", "rec", "free">>)
    /\ Proceeds(<<"failStrike", "rec", "free">>)
    /\ Proceeds(<<"failInfra", "rec", "free">>)
    /\ Proceeds(<<"failInfra", "free">>)
    /\ Proceeds(<<"markX", "failStrike", "rec", "free">>)
    /\ Proceeds(<<"markX", "failInfra", "rec", "free">>)
    /\ Proceeds(<<"commit", "submit", "recHash", "free">>)
    /\ Proceeds(<<"submit", "recHash", "free">>)
    /\ Proceeds(<<"recHash", "free">>)
    /\ Proceeds(<<"reopen", "recHash", "free">>)
    /\ Proceeds(<<"resubmit", "recHash", "free">>)
BY Tails, Firsts DEF Proceeds, Follows, Plain

\* The same of any agenda.
LEMMA NextFacts ==
    ASSUME NEW m \in Agendas, m # <<>>
    PROVE  Proceeds(m)
<1>1. CASE m \in LastSteps
  BY <1>1, ProceedsFacts DEF LastSteps
<1>2. CASE m \in Lookings
  BY <1>2, ProceedsFacts DEF Lookings
<1>3. CASE m \in Reapings
  BY <1>3, ProceedsFacts DEF Reapings
<1>4. CASE m \in Attempts
  BY <1>4, ProceedsFacts DEF Attempts
<1>5. CASE m \in Failings
  BY <1>5, ProceedsFacts DEF Failings
<1>6. CASE m \in Hashes
  BY <1>6, ProceedsFacts DEF Hashes
<1> QED BY <1>1, <1>2, <1>3, <1>4, <1>5, <1>6 DEF Agendas

\* The agendas the code puts together.
LEMMA Concats ==
    /\ <<"relP">> \o FailStrike = <<"relP", "failStrike", "rec", "free">>
    /\ <<"relP">> \o FailInfra = <<"relP", "failInfra", "rec", "free">>
    /\ <<"markX">> \o FailStrike = <<"markX", "failStrike", "rec", "free">>
    /\ <<"markX">> \o FailInfra = <<"markX", "failInfra", "rec", "free">>
    /\ <<"relU", "drop">> \o FailInfra
         = <<"relU", "drop", "failInfra", "rec", "free">>
    /\ <<"reopen">> \o <<"recHash", "free">> = <<"reopen", "recHash", "free">>
    /\ <<"resubmit">> \o <<"recHash", "free">>
         = <<"resubmit", "recHash", "free">>
<1>1. ASSUME NEW m \in Agendas, m # <<>>
      PROVE  <<Head(m)>> \o Tail(m) = m
  BY <1>1, Cons, AgendasTyped
<1>2. ASSUME NEW m \in Agendas, NEW x, NEW s, m # <<>>,
             Head(m) = x, Tail(m) = s
      PROVE  <<x>> \o s = m
  BY <1>1, <1>2, Zenon
<1>3. <<"relP">> \o FailStrike = <<"relP", "failStrike", "rec", "free">>
  <2> DEFINE m == <<"relP", "failStrike", "rec", "free">>
  <2>1. m \in Agendas
    BY DEF Agendas, Failings
  <2>2. m # <<>> /\ Head(m) = "relP" /\ Tail(m) = FailStrike
    BY DEF FailStrike
  <2> HIDE DEF m
  <2> QED BY <1>2, <2>1, <2>2, Zenon DEF m
<1>4. <<"relP">> \o FailInfra = <<"relP", "failInfra", "rec", "free">>
  <2> DEFINE m == <<"relP", "failInfra", "rec", "free">>
  <2>1. m \in Agendas
    BY DEF Agendas, Failings
  <2>2. m # <<>> /\ Head(m) = "relP" /\ Tail(m) = FailInfra
    BY DEF FailInfra
  <2> HIDE DEF m
  <2> QED BY <1>2, <2>1, <2>2, Zenon DEF m
<1>5. <<"markX">> \o FailStrike = <<"markX", "failStrike", "rec", "free">>
  <2> DEFINE m == <<"markX", "failStrike", "rec", "free">>
  <2>1. m \in Agendas
    BY DEF Agendas, Failings
  <2>2. m # <<>> /\ Head(m) = "markX" /\ Tail(m) = FailStrike
    BY DEF FailStrike
  <2> HIDE DEF m
  <2> QED BY <1>2, <2>1, <2>2, Zenon DEF m
<1>6. <<"markX">> \o FailInfra = <<"markX", "failInfra", "rec", "free">>
  <2> DEFINE m == <<"markX", "failInfra", "rec", "free">>
  <2>1. m \in Agendas
    BY DEF Agendas, Failings
  <2>2. m # <<>> /\ Head(m) = "markX" /\ Tail(m) = FailInfra
    BY DEF FailInfra
  <2> HIDE DEF m
  <2> QED BY <1>2, <2>1, <2>2, Zenon DEF m
<1>7. <<"reopen">> \o <<"recHash", "free">> = <<"reopen", "recHash", "free">>
  <2> DEFINE m == <<"reopen", "recHash", "free">>
  <2>1. m \in Agendas
    BY DEF Agendas, Hashes
  <2>2. m # <<>> /\ Head(m) = "reopen" /\ Tail(m) = <<"recHash", "free">>
    OBVIOUS
  <2> HIDE DEF m
  <2> QED BY <1>2, <2>1, <2>2, Zenon DEF m
<1>8. <<"resubmit">> \o <<"recHash", "free">>
        = <<"resubmit", "recHash", "free">>
  <2> DEFINE m == <<"resubmit", "recHash", "free">>
  <2>1. m \in Agendas
    BY DEF Agendas, Hashes
  <2>2. m # <<>> /\ Head(m) = "resubmit" /\ Tail(m) = <<"recHash", "free">>
    OBVIOUS
  <2> HIDE DEF m
  <2> QED BY <1>2, <2>1, <2>2, Zenon DEF m
<1>9. <<"relU", "drop">> \o FailInfra
        = <<"relU", "drop", "failInfra", "rec", "free">>
  <2>1. <<"drop">> \o FailInfra = <<"drop", "failInfra", "rec", "free">>
    <3> DEFINE m == <<"drop", "failInfra", "rec", "free">>
    <3>1. m \in Agendas
      BY DEF Agendas, Attempts
    <3>2. m # <<>> /\ Head(m) = "drop" /\ Tail(m) = FailInfra
      BY DEF FailInfra
    <3> HIDE DEF m
    <3> QED BY <1>2, <3>1, <3>2, Zenon DEF m
  <2>2. <<"relU">> \o <<"drop", "failInfra", "rec", "free">>
          = <<"relU", "drop", "failInfra", "rec", "free">>
    <3> DEFINE m == <<"relU", "drop", "failInfra", "rec", "free">>
    <3>1. m \in Agendas
      BY DEF Agendas, Attempts
    <3>2. /\ m # <<>> /\ Head(m) = "relU"
          /\ Tail(m) = <<"drop", "failInfra", "rec", "free">>
      OBVIOUS
    <3> HIDE DEF m
    <3> QED BY <1>2, <3>1, <3>2, Zenon DEF m
  <2>3. <<"relU">> \o <<"drop">> = <<"relU", "drop">>
    <3>1. /\ <<"relU", "drop">> \in Seq(Step) /\ <<"relU", "drop">> # <<>>
          /\ Head(<<"relU", "drop">>) = "relU"
          /\ Tail(<<"relU", "drop">>) = <<"drop">>
      BY DEF Step
    <3> QED BY <3>1, Cons
  <2>4. /\ <<"relU">> \in Seq(Step) /\ <<"drop">> \in Seq(Step)
        /\ FailInfra \in Seq(Step)
    BY DEF Step, FailInfra
  <2>5. (<<"relU">> \o <<"drop">>) \o FailInfra
          = <<"relU">> \o (<<"drop">> \o FailInfra)
    BY <2>4, ConcatAssociative
  <2> QED BY <2>1, <2>2, <2>3, <2>5, Zenon
<1> QED
  BY <1>3, <1>4, <1>5, <1>6, <1>7, <1>8, <1>9, Zenon

-----------------------------------------------------------------------------
(* Steps of a tick.                                                        *)

\* What a tick may become, were it not made idle when nothing is left to do.
Fits(r) ==
    /\ r \in TickRecord
    /\ r.main \in Agendas
    /\ r.work # "none" => r.main \in Background
    /\ r.main = <<"work">> => r.work \in Busy \union Result
    /\ r.main # <<>> \/ r.work # "none" => r.goal.exec \in Exec

\* Tick t has become r, or idle; the others at most lost their freshness.
Becomes(t, r) ==
    /\ \A u \in Tick \ {t} :
         /\ M(u)' = M(u) /\ W(u)' = W(u)
         /\ tick'[u].goal = tick[u].goal /\ tick'[u].current = tick[u].current
         /\ tick'[u].fresh \subseteq tick[u].fresh
    /\ M(t)' = First(r.main) /\ W(t)' = r.work
    /\ \/ tick'[t].goal = r.goal /\ tick'[t].current = r.current
       \/ /\ tick'[t].goal = NoSnapshot /\ tick'[t].current = NoSnapshot
          /\ M(t)' = "none" /\ W(t)' = "none"
    /\ tick'[t].fresh \subseteq r.fresh

Shaped == tick \in [Tick -> TickRecord] /\ \A u \in Tick : Shape(tick[u])

\* An idle tick is well formed.
LEMMA IdleShape ==
    /\ Idle \in TickRecord /\ Shape(Idle)
    /\ Idle.main = <<>> /\ Idle.work = "none" /\ Idle.fresh = {}
    /\ Idle.goal = NoSnapshot /\ Idle.current = NoSnapshot
<1>1. <<>> \in Seq(Step) /\ 0 \in 0 .. MaxSlot + 1 /\ 0 \in Nat
  BY BoundAssumption
<1>2. <<>> \in Agendas
  BY DEF Agendas, LastSteps
<1> QED BY <1>1, <1>2
    DEF Idle, NoSnapshot, TickRecord, SnapshotType, None, Shape

\* To lose its freshness does not change what a tick does.
LEMMA StaleRecord ==
    ASSUME NEW p \in TickRecord, Shape(p), NEW q, q = [p EXCEPT !.fresh = {}]
    PROVE  /\ q \in TickRecord /\ Shape(q)
           /\ q.main = p.main /\ q.work = p.work
           /\ q.goal = p.goal /\ q.current = p.current /\ q.fresh = {}
<1>1. /\ q \in TickRecord
      /\ q.main = p.main /\ q.work = p.work
      /\ q.goal = p.goal /\ q.current = p.current /\ q.fresh = {}
  BY DEF TickRecord
<1>2. p.fresh = {} => q = p
  BY DEF TickRecord
<1>3. p = Idle => q = Idle
  BY <1>2, IdleShape
<1> QED BY <1>1, <1>3 DEF Shape

\* To put a record in the place of a tick changes that tick alone.
LEMMA PutFacts ==
    ASSUME Shaped, NEW t \in Tick, NEW r, Fits(r),
           tick' = Put(t, r) \/ tick' = Stale(Put(t, r))
    PROVE  Shaped' /\ Becomes(t, r)
<1> DEFINE q == IF r.main = <<>> /\ r.work = "none" THEN Idle ELSE r
<1>1. /\ q \in TickRecord /\ Shape(q) /\ q.main = r.main /\ q.work = r.work
      /\ \/ q.goal = r.goal /\ q.current = r.current /\ q.fresh = r.fresh
         \/ /\ q.goal = NoSnapshot /\ q.current = NoSnapshot /\ q.fresh = {}
            /\ r.main = <<>> /\ r.work = "none"
  BY IdleShape DEF Fits, Shape
<1> HIDE DEF q
<1>2. Put(t, r) = [tick EXCEPT ![t] = q]
  BY DEF Put, q
<1>3. \A u \in Tick : tick[u] \in TickRecord /\ Shape(tick[u])
  BY DEF Shaped
<1>4. First(<<>>) = "none"
  BY DEF First
<1>5. /\ tick' = [u \in Tick |-> tick'[u]]
      /\ \A u \in Tick :
           /\ tick'[u] \in TickRecord /\ Shape(tick'[u])
           /\ u # t =>
                /\ tick'[u].main = tick[u].main /\ tick'[u].work = tick[u].work
                /\ tick'[u].goal = tick[u].goal
                /\ tick'[u].current = tick[u].current
                /\ tick'[u].fresh \subseteq tick[u].fresh
           /\ u = t =>
                /\ tick'[u].main = q.main /\ tick'[u].work = q.work
                /\ tick'[u].goal = q.goal
                /\ tick'[u].current = q.current
                /\ tick'[u].fresh \subseteq q.fresh
  <2>1. CASE tick' = Put(t, r)
    <3>1. tick' = [u \in Tick |-> tick'[u]]
      BY <1>2, <2>1 DEF Shaped
    <3>2. tick'[t] = q /\ \A u \in Tick \ {t} : tick'[u] = tick[u]
      BY <1>2, <2>1 DEF Shaped
    <3> QED BY <1>1, <1>3, <3>1, <3>2
  <2>2. CASE tick' = Stale(Put(t, r))
    <3>1. tick' = [u \in Tick |-> tick'[u]]
      BY <2>2 DEF Stale
    <3>2. /\ tick'[t] = [q EXCEPT !.fresh = {}]
          /\ \A u \in Tick \ {t} : tick'[u] = [tick[u] EXCEPT !.fresh = {}]
      BY <1>2, <2>2 DEF Shaped, Stale
    <3>3. /\ tick'[t] \in TickRecord /\ Shape(tick'[t])
          /\ tick'[t].main = q.main /\ tick'[t].work = q.work
          /\ tick'[t].goal = q.goal /\ tick'[t].current = q.current
          /\ tick'[t].fresh = {}
      BY <1>1, <3>2, StaleRecord
    <3>4. ASSUME NEW u \in Tick \ {t}
          PROVE  /\ tick'[u] \in TickRecord /\ Shape(tick'[u])
                 /\ tick'[u].main = tick[u].main
                 /\ tick'[u].work = tick[u].work
                 /\ tick'[u].goal = tick[u].goal
                 /\ tick'[u].current = tick[u].current
                 /\ tick'[u].fresh = {}
      BY <1>3, <3>2, StaleRecord
    <3> QED BY <3>1, <3>3, <3>4
  <2> QED BY <2>1, <2>2
<1>6. Shaped'
  BY <1>5 DEF Shaped
<1>7. /\ M(t)' = First(r.main) /\ W(t)' = r.work
      /\ \A u \in Tick \ {t} : M(u)' = M(u) /\ W(u)' = W(u)
  BY <1>1, <1>5 DEF M, W
<1>8. /\ tick'[t].fresh \subseteq r.fresh
      /\ \/ tick'[t].goal = r.goal /\ tick'[t].current = r.current
         \/ /\ tick'[t].goal = NoSnapshot /\ tick'[t].current = NoSnapshot
            /\ M(t)' = "none" /\ W(t)' = "none"
  BY <1>1, <1>4, <1>5, <1>7
<1> QED BY <1>5, <1>6, <1>7, <1>8 DEF Becomes

\* Tick t goes on with first step m and work w, on the goal it read.
Moves(t, m, w) ==
    /\ \A u \in Tick \ {t} :
         /\ M(u)' = M(u) /\ W(u)' = W(u)
         /\ tick'[u].goal = tick[u].goal /\ tick'[u].current = tick[u].current
         /\ tick'[u].fresh \subseteq tick[u].fresh
    /\ M(t)' = m /\ W(t)' = w
    /\ m # "none" \/ w # "none" => tick'[t].goal = tick[t].goal
    /\ tick'[t].goal \in {tick[t].goal, NoSnapshot}
    /\ tick'[t].current.verified
         \in {tick[t].current.verified, goal.verified, 0}

\* A tick that keeps the goal it read moves.
LEMMA ChangeMoves ==
    ASSUME Shaped, NEW t \in Tick, NEW r, Fits(r), r.goal = tick[t].goal,
           r.current.verified \in {tick[t].current.verified, goal.verified},
           tick' = Put(t, r) \/ tick' = Stale(Put(t, r))
    PROVE  Shaped' /\ Moves(t, First(r.main), r.work)
<1>1. Shaped' /\ Becomes(t, r)
  BY PutFacts
<1>2. NoSnapshot.verified = 0
  BY DEF NoSnapshot
<1> QED BY <1>1, <1>2 DEF Becomes, Moves

\* The first step and the work of a tick.
LEMMA TickFacts ==
    ASSUME Shaped, NEW t \in Tick
    PROVE  /\ tick[t] \in TickRecord /\ Shape(tick[t])
           /\ M(t) \in Step \union {"none", "relUdrop"}
           /\ M(t) = "none" <=> tick[t].main = <<>>
           /\ M(t) = "work" <=> tick[t].main = <<"work">>
           /\ M(t) # "none" \/ W(t) # "none" => E(t) \in Exec
           /\ W(t) # "none" =>
                M(t) \in {"none", "work", "markX", "failInfra", "rec", "free"}
<1>1. tick[t] \in TickRecord /\ Shape(tick[t]) /\ tick[t].main \in Agendas
  BY DEF Shaped, Shape
<1>2. M(t) = "work" <=> tick[t].main = <<"work">>
  <2>1. First(<<"work">>) = "work"
    BY Firsts
  <2>2. ASSUME NEW m \in Agendas, First(m) = "work" PROVE m = <<"work">>
    <3>1. CASE m \in LastSteps \union Lookings
      BY <2>2, <3>1, Firsts DEF LastSteps, Lookings
    <3>2. CASE m \in Reapings \union Attempts
      BY <2>2, <3>2, Firsts DEF Reapings, Attempts
    <3>3. CASE m \in Failings \union Hashes
      BY <2>2, <3>3, Firsts DEF Failings, Hashes
    <3> QED BY <3>1, <3>2, <3>3 DEF Agendas
  <2> QED BY <1>1, <2>1, <2>2 DEF M
<1>3. ASSUME NEW m \in Background
      PROVE  First(m)
               \in {"none", "work", "markX", "failInfra", "rec", "free"}
  BY Firsts DEF Background
<1> QED BY <1>1, <1>2, <1>3, FirstFacts DEF M, W, E, Shape

\* A tick is at the first step of its agenda.
LEMMA AtFacts ==
    ASSUME Shaped, NEW t \in Tick, NEW s \in Step
    PROVE  At(t, s) <=> M(t) = s \/ (s = "relU" /\ M(t) = "relUdrop")
<1>1. /\ M(t) = "none" <=> tick[t].main = <<>>
      /\ tick[t].main # <<>> =>
           Head(tick[t].main) = IF M(t) = "relUdrop" THEN "relU" ELSE M(t)
  BY TickFacts, FirstFacts DEF M, Shape
<1> QED BY <1>1 DEF At, Step

\* A tick that goes on with another agenda moves.
LEMMA GoMoves ==
    ASSUME Shaped, NEW t \in Tick, M(t) # "none" \/ W(t) # "none",
           NEW steps \in Agendas, steps # <<"work">>,
           W(t) # "none" => steps \in Background,
           \/ tick' = Put(t, Then(t, steps))
           \/ tick' = Stale(Put(t, Then(t, steps)))
    PROVE  Shaped' /\ Moves(t, First(steps), W(t))
<1> DEFINE r == Then(t, steps)
<1>1. /\ r \in TickRecord /\ r.main = steps /\ r.work = W(t)
      /\ r.goal = tick[t].goal /\ r.current = tick[t].current
  BY TickFacts, AgendasTyped DEF Then, TickRecord, W
<1>2. Fits(r)
  BY <1>1, TickFacts DEF Fits, E
<1> HIDE DEF r
<1>3. tick' = Put(t, r) \/ tick' = Stale(Put(t, r))
  BY DEF r
<1> QED BY <1>1, <1>2, <1>3, ChangeMoves

\* A tick that goes on with the rest of its agenda moves.
LEMMA RestMoves ==
    ASSUME Shaped, NEW t \in Tick, NEW s \in Step \ {"work"}, At(t, s),
           \/ tick' = Put(t, Then(t, Rest(t)))
           \/ tick' = Stale(Put(t, Then(t, Rest(t))))
    PROVE  /\ Shaped' /\ Moves(t, First(Rest(t)), W(t))
           /\ Follows(M(t), First(Rest(t)))
           /\ Rest(t) \in Agendas
<1>1. M(t) # "none" /\ M(t) # "work"
  BY AtFacts DEF Step
<1>2. /\ tick[t].main \in Agendas /\ tick[t].main # <<>>
      /\ tick[t].main # <<"work">>
      /\ W(t) # "none" => tick[t].main \in Background
  BY <1>1, TickFacts DEF Shape, W
<1>3. /\ Rest(t) \in Agendas
      /\ W(t) # "none" => Rest(t) \in Background
      /\ Follows(M(t), First(Rest(t)))
  BY <1>2, TailFacts, NextFacts DEF Rest, Proceeds, M
<1>4. Rest(t) # <<"work">>
  <2>1. First(<<"work">>) = "work"
    BY Firsts
  <2> QED BY <1>3, <2>1 DEF Follows, Plain
<1> QED BY <1>1, <1>3, <1>4, GoMoves

\* A tick whose work alone goes on moves.
LEMMA WorkMoves ==
    ASSUME Shaped, NEW t \in Tick, W(t) # "none", NEW w, NEW r,
           w \in Busy \union Result
           \/ (M(t) # "work" /\ w \in {"none", "lateSubmit", "lateReopen",
                                        "lateResubmit", "lateRec"}),
           r = [tick[t] EXCEPT !.work = w],
           tick' = Put(t, r) \/ tick' = Stale(Put(t, r))
    PROVE  Shaped' /\ Moves(t, M(t), w)
<1>1. /\ r \in TickRecord /\ r.main = tick[t].main /\ r.work = w
      /\ r.goal = tick[t].goal /\ r.current = tick[t].current
  BY TickFacts DEF TickRecord
<1>2. Fits(r)
  BY <1>1, TickFacts DEF Fits, Shape, W, E
<1> QED BY <1>1, <1>2, ChangeMoves DEF M

\* What the control invariant says of ticks, in parts.
LEMMA ShapedFacts ==
    ASSUME ControlInv
    PROVE  /\ Shaped /\ TypeOK
           /\ \A t \in Tick :
                M(t) \notin {"none", "verify", "check", "lease"} => lease = t
BY DEF ControlInv, TypeOK, Shaped, TickRecord

\* The agendas the code goes on with.
LEMMA CodeAgendas ==
    /\ {<<>>, <<"verify">>, <<"check">>, <<"free">>, <<"strike">>, <<"park">>,
        <<"work">>, <<"lease", "evaluate">>, <<"free", "lease", "evaluate">>,
        <<"close", "closeRec", "free">>, <<"claim", "reserve">>,
        <<"relP", "strike">>, <<"relU", "dropNow", "park">>,
        Closing, Reaping} \subseteq Agendas
    /\ First(Closing) = "lease" /\ First(Reaping) = "lease"
    /\ {<<>>, <<"free">>} \subseteq Background
<1>1. {<<>>, <<"verify">>, <<"check">>, <<"free">>, <<"strike">>, <<"park">>,
       <<"work">>} \subseteq LastSteps
  BY DEF LastSteps
<1>2. {<<"lease", "evaluate">>, <<"free", "lease", "evaluate">>,
       <<"close", "closeRec", "free">>, Closing} \subseteq Lookings
  BY DEF Lookings, Closing
<1>3. {<<"claim", "reserve">>, <<"relP", "strike">>,
       <<"relU", "dropNow", "park">>} \subseteq Attempts
  BY DEF Attempts
<1>4. Reaping \in Reapings
  BY DEF Reapings, Reaping
<1>5. First(Closing) = "lease" /\ First(Reaping) = "lease"
  BY Firsts DEF Closing, Reaping
<1>6. {<<>>, <<"free">>} \subseteq Background
  BY DEF Background
<1> QED BY <1>1, <1>2, <1>3, <1>4, <1>5, <1>6 DEF Agendas

\* Tick t goes on with a step that gives it no new part in a broadcast.
Leaves(t) ==
    \E m \in Plain :
        /\ Moves(t, m, W(t))
        /\ m \in {"none", "lease"}
           \/ M(t) \notin {"none", "verify", "check", "lease"}

\* A tick that goes on with a plain step leaves the broadcast alone.
LEMMA GoLeaves ==
    ASSUME Shaped, NEW t \in Tick, NEW s \in Step, At(t, s),
           NEW steps \in Agendas, First(steps) \in Plain,
           W(t) # "none" => steps \in Background,
           First(steps) \in {"none", "lease"}
             \/ s \notin {"verify", "check", "lease"},
           \/ tick' = Put(t, Then(t, steps))
           \/ tick' = Stale(Put(t, Then(t, steps)))
    PROVE  Shaped' /\ Leaves(t)
<1>1. M(t) # "none" /\ (M(t) = s \/ (s = "relU" /\ M(t) = "relUdrop"))
  BY AtFacts DEF Step
<1>2. steps # <<"work">>
  BY Firsts DEF Plain
<1>3. Shaped' /\ Moves(t, First(steps), W(t))
  BY <1>1, <1>2, GoMoves
<1> QED BY <1>1, <1>3 DEF Leaves

\* So does one whose agenda goes on with a plain step.
LEMMA RestLeaves ==
    ASSUME Shaped, NEW t \in Tick, NEW s \in Step, At(t, s),
           s \notin {"work", "claim", "relU", "commit",
                     "verify", "check", "lease"},
           \/ tick' = Put(t, Then(t, Rest(t)))
           \/ tick' = Stale(Put(t, Then(t, Rest(t))))
    PROVE  Shaped' /\ Leaves(t)
<1>1. M(t) = s
  BY AtFacts
<1>2. /\ Shaped' /\ Moves(t, First(Rest(t)), W(t))
      /\ Follows(M(t), First(Rest(t)))
  BY RestMoves
<1>3. First(Rest(t)) \in Plain
  BY <1>1, <1>2 DEF Follows, Step
<1> QED BY <1>1, <1>2, <1>3 DEF Leaves, Step

\* Off the broadcast's path the work is over.
LEMMA NoWork ==
    ASSUME Shaped, NEW t \in Tick, NEW s \in Step, At(t, s),
           s \notin {"work", "markX", "failInfra", "rec", "free"}
    PROVE  W(t) = "none"
BY AtFacts, TickFacts DEF Step

\* A step that also reads the goal again.
LEMMA RereadLeaves ==
    ASSUME Shaped, NEW t \in Tick, NEW s \in Step, At(t, s),
           NEW r \in TickRecord, r.main \in Agendas,
           First(r.main) \in Plain, s \notin {"verify", "check", "lease"},
           r.work = W(t), W(t) = "none", r.goal = tick[t].goal,
           r.current.verified \in {tick[t].current.verified, goal.verified},
           tick' = Put(t, r)
    PROVE  Shaped' /\ Leaves(t)
<1>1. M(t) # "none" /\ (M(t) = s \/ (s = "relU" /\ M(t) = "relUdrop"))
  BY AtFacts DEF Step
<1>2. r.main # <<"work">>
  BY Firsts DEF Plain
<1>3. Fits(r)
  BY <1>1, <1>2, TickFacts DEF Fits, E
<1>4. Shaped' /\ Moves(t, First(r.main), r.work)
  BY <1>3, ChangeMoves
<1> QED BY <1>1, <1>4 DEF Leaves

\* A snapshot of the goal has its type, and the goal's count.
LEMMA SnapshotTyped ==
    ASSUME TypeOK
    PROVE  Snapshot \in SnapshotType /\ Snapshot.verified = goal.verified
<1>1. /\ goal.slot \in 1 .. MaxSlot + 1 /\ goal.pending \in {None} \union Exec
      /\ goal.verified \in Nat /\ MaxSlot \in Nat
  BY BoundAssumption DEF TypeOK
<1>2. (IF goal.pending # None THEN goal.pending ELSE goal.slot)
        \in 0 .. MaxSlot + 1
  BY <1>1 DEF Exec, None
<1> QED BY <1>1, <1>2 DEF Snapshot, SnapshotType

\* What is left to do after a step of a tick whose work is over.
LEMMA RestFacts ==
    ASSUME Shaped, NEW t \in Tick, NEW s \in Step, At(t, s), s # "work"
    PROVE  /\ Rest(t) \in Agendas
           /\ Follows(M(t), First(Rest(t)))
           /\ W(t) # "none" => Rest(t) \in Background
           /\ Rest(t) \in Seq(Step)
<1>1. /\ tick[t].main \in Agendas /\ tick[t].main # <<>>
      /\ tick[t].main # <<"work">>
      /\ W(t) # "none" => tick[t].main \in Background
  BY AtFacts, TickFacts DEF Shape, W, Step
<1> QED BY <1>1, TailFacts, NextFacts, AgendasTyped DEF Rest, Proceeds, M

\* Where the agendas for the results of the work begin.
LEMMA AgendaFacts ==
    ASSUME NEW result \in Result, NEW steps \in Agenda(result)
    PROVE  /\ steps \in Agendas
           /\ result = "REFUSED" => First(steps) = "relP"
           /\ result \in {"GOAL_CLOSED", "STATE_UNREADABLE"}
                => First(steps) = "relUdrop"
           /\ result = "HASH" => First(steps) = "commit"
           /\ result \notin {"REFUSED", "GOAL_CLOSED", "STATE_UNREADABLE",
                             "HASH"}
                => First(steps) \in Plain \ {"none", "lease"}
           /\ result = "BUDGET_ENDED" => steps \in Background
<1>1. FailInfra = <<"failInfra", "rec", "free">>
      /\ FailStrike = <<"failStrike", "rec", "free">>
  BY DEF FailInfra, FailStrike
<1>2. CASE result = "REFUSED"
  <2>1. steps \in { <<"relP", "failStrike", "rec", "free">>,
                    <<"relP", "failInfra", "rec", "free">> }
    BY <1>2, Concats DEF Agenda
  <2> QED BY <1>2, <2>1, Firsts DEF Agendas, Failings
<1>3. CASE result = "NOT_PREPARED"
  <2>1. steps \in {<<"failInfra", "rec", "free">>,
                   <<"failStrike", "rec", "free">>}
    BY <1>1, <1>3 DEF Agenda
  <2>2. First(steps) \in {"failInfra", "failStrike"} /\ steps \in Failings
    BY <2>1, Firsts DEF Failings
  <2> QED BY <1>3, <2>2 DEF Agendas, Plain
<1>4. CASE result = "GOAL_CLOSED"
  <2>1. steps = <<"relU", "drop", "free">>
    BY <1>4 DEF Agenda
  <2> QED BY <1>4, <2>1, Firsts DEF Agendas, Attempts
<1>5. CASE result = "STATE_UNREADABLE"
  <2>1. steps = <<"relU", "drop", "failInfra", "rec", "free">>
    BY <1>5, Concats DEF Agenda
  <2> QED BY <1>5, <2>1, Firsts DEF Agendas, Attempts
<1>6. CASE result = "ATTEMPT_NOT_RECORDED"
  <2>1. steps = <<"failInfra", "rec", "free">>
    BY <1>1, <1>6 DEF Agenda
  <2> QED BY <1>6, <2>1, Firsts DEF Agendas, Failings, Plain
<1>7. CASE result = "SWITCH_REFUSED"
  <2>1. steps = <<"failInfra", "free">>
    BY <1>7 DEF Agenda
  <2> QED BY <1>7, <2>1, Firsts DEF Agendas, Failings, Plain
<1>8. CASE result = "BUDGET_ENDED"
  <2>1. steps = <<"markX", "failInfra", "rec", "free">>
    BY <1>8, Concats DEF Agenda
  <2> QED
    BY <1>8, <2>1, Firsts DEF Agendas, Failings, Plain, Background
<1>9. CASE result = "ADAPTER_THREW"
  <2>1. steps = <<"markX", "failStrike", "rec", "free">>
    BY <1>9, Concats DEF Agenda
  <2> QED BY <1>9, <2>1, Firsts DEF Agendas, Failings, Plain
<1>10. CASE result = "RPC_ERROR"
  <2>1. steps \in {<<"markX", "failStrike", "rec", "free">>,
                   <<"markX", "failInfra", "rec", "free">>}
    BY <1>10, Concats DEF Agenda, UnknownOutcome
  <2>2. First(steps) = "markX" /\ steps \in Failings
    BY <2>1, Firsts DEF Failings
  <2> QED BY <1>10, <2>2 DEF Agendas, Plain
<1>11. CASE result = "HASH"
  <2>1. steps = <<"commit", "submit", "recHash", "free">>
    BY <1>11 DEF Agenda
  <2> QED BY <1>11, <2>1, Firsts DEF Agendas, Hashes
<1> QED
  BY <1>2, <1>3, <1>4, <1>5, <1>6, <1>7, <1>8, <1>9, <1>10, <1>11 DEF Result

\* The steps of a tick that leave the store calls and the hash alone.
Aside(t) ==
    \/ CheckClaim(t) \/ TakeLease(t) \/ FreeLease(t)
    \/ CloseRead(t) \/ CloseClaim(t) \/ Close(t) \/ CloseRec(t)
    \/ Evaluate(t) \/ Park(t) \/ FailWrite(t) \/ Record(t)
    \/ Verify(t) \/ ReapRead(t) \/ ReapWrite(t) \/ Deadline(t)

\* Each of these steps moves its tick to a plain step.
LEMMA AsideStep ==
    ASSUME ControlInv, NEW t \in Tick, Aside(t)
    PROVE  /\ Shaped'
           /\ \/ Leaves(t)
              \/ /\ TakeLease(t) /\ lease' = t
                 /\ \E m \in Plain : Moves(t, m, W(t))
<1> USE DEF Go
<1>0. Shaped
  BY ShapedFacts
<1>1. CASE CheckClaim(t)
  BY <1>0, <1>1, CodeAgendas, Firsts, NoWork, GoLeaves
    DEF CheckClaim, Step, Plain
<1>2. CASE TakeLease(t)
  <2>1. CASE lease = "free"
    <3>1. /\ Shaped' /\ Moves(t, First(Rest(t)), W(t))
          /\ Follows(M(t), First(Rest(t)))
      BY <1>0, <1>2, <2>1, RestMoves DEF TakeLease, Step
    <3>2. M(t) = "lease"
      BY <1>0, <1>2, AtFacts DEF TakeLease, Step
    <3> QED BY <1>2, <2>1, <3>1, <3>2 DEF Follows, TakeLease
  <2>2. CASE lease # "free"
    BY <1>0, <1>2, <2>2, CodeAgendas, Firsts, GoLeaves
      DEF TakeLease, Step, Plain
  <2> QED BY <2>1, <2>2
<1>3. CASE FreeLease(t)
  BY <1>0, <1>3, RestLeaves DEF FreeLease, Step
<1>4. CASE CloseRead(t)
  <2>1. At(t, "closeRead") /\ W(t) = "none"
    BY <1>0, <1>4, NoWork DEF CloseRead, Step
  <2>2. CASE tick' = Put(t, Then(t, <<"free">>))
    BY <1>0, <2>1, <2>2, CodeAgendas, Firsts, GoLeaves DEF Step, Plain
  <2>3. ASSUME NEW r, tick' = Put(t, r),
               r = [Then(t, Rest(t)) EXCEPT !.fresh = @ \union {"current"},
                                            !.current = Snapshot]
        PROVE  Shaped' /\ Leaves(t)
    <3>1. Rest(t) \in Seq(Step) /\ Rest(t) \in Agendas
          /\ First(Rest(t)) \in Plain
      BY <1>0, <2>1, RestFacts, AtFacts DEF Follows, Step
    <3>2. /\ r \in TickRecord /\ r.main = Rest(t) /\ r.work = W(t)
          /\ r.goal = tick[t].goal /\ r.current.verified = goal.verified
      BY <1>0, <2>3, <3>1, TickFacts, ShapedFacts, SnapshotTyped
      DEF Then, TickRecord, W
    <3> QED BY <1>0, <2>1, <2>3, <3>1, <3>2, RereadLeaves DEF Step
  <2> QED BY <1>4, <2>2, <2>3 DEF CloseRead
<1>5. CASE CloseClaim(t)
  <2>1. At(t, "closeClaim") /\ W(t) = "none"
    BY <1>0, <1>5, NoWork DEF CloseClaim, Step
  <2>2. CASE tick' = Put(t, Then(t, <<"free", "lease", "evaluate">>))
    BY <1>0, <2>1, <2>2, CodeAgendas, Firsts, GoLeaves DEF Step, Plain
  <2>3. ASSUME NEW r, tick' = Put(t, r), NEW h \in BOOLEAN,
               r = [Then(t, Rest(t)) EXCEPT !.current.hash = h]
        PROVE  Shaped' /\ Leaves(t)
    <3>1. Rest(t) \in Seq(Step) /\ Rest(t) \in Agendas
          /\ First(Rest(t)) \in Plain
      BY <1>0, <2>1, RestFacts, AtFacts DEF Follows, Step
    <3>2. /\ r \in TickRecord /\ r.main = Rest(t) /\ r.work = W(t)
          /\ r.goal = tick[t].goal
          /\ r.current.verified = tick[t].current.verified
      BY <1>0, <2>3, <3>1, TickFacts DEF Then, TickRecord, SnapshotType, W
    <3> QED BY <1>0, <2>1, <2>3, <3>1, <3>2, RereadLeaves DEF Step
  <2>4. CASE tick[t].current.exec \in claims
    BY <1>5, <2>3, <2>4 DEF CloseClaim
  <2>5. CASE tick[t].current.exec \notin claims
    BY <1>5, <2>2, <2>5 DEF CloseClaim
  <2> QED BY <2>4, <2>5
<1>6. CASE Close(t)
  <2>1. At(t, "close")
    BY <1>6 DEF Close
  <2>2. CASE tick' = Stale(Put(t, Then(t, Rest(t))))
    BY <1>0, <2>1, <2>2, RestLeaves DEF Step
  <2>3. CASE tick' = Put(t, Then(t, <<"free">>))
    BY <1>0, <2>1, <2>3, CodeAgendas, Firsts, GoLeaves DEF Step, Plain
  <2> QED BY <1>6, <2>2, <2>3 DEF Close, Try
<1>7. CASE CloseRec(t)
  BY <1>0, <1>7, RestLeaves DEF CloseRec, Step
<1>8. CASE Evaluate(t)
  <2>1. At(t, "evaluate")
    BY <1>8 DEF Evaluate
  <2>2. W(t) = "none"
    BY <1>0, <2>1, NoWork DEF Step
  <2>3. ASSUME NEW steps \in {<<"free">>, <<"claim", "reserve">>},
               \/ tick' = Put(t, Then(t, steps))
               \/ tick' = Stale(Put(t, Then(t, steps)))
        PROVE  Shaped' /\ Leaves(t)
    <3>1. steps \in Agendas /\ First(steps) \in {"free", "claim"}
      BY CodeAgendas, Firsts
    <3> QED BY <1>0, <2>1, <2>2, <2>3, <3>1, GoLeaves DEF Step, Plain
  <2> QED BY <1>8, <2>3 DEF Evaluate, Try
<1>9. CASE Park(t)
  <2>1. PICK s \in {"park", "strike"} :
          /\ At(t, s)
          /\ \/ tick' = Put(t, Then(t, <<"free">>))
             \/ tick' = Stale(Put(t, Then(t, <<"free">>)))
    BY <1>9 DEF Park, Try
  <2> QED BY <1>0, <2>1, CodeAgendas, Firsts, GoLeaves DEF Step, Plain
<1>10. CASE FailWrite(t)
  <2>1. PICK s \in {"failInfra", "failStrike"} :
          /\ At(t, s)
          /\ \/ tick' = Put(t, Then(t, Rest(t)))
             \/ tick' = Stale(Put(t, Then(t, Rest(t))))
    BY <1>10 DEF FailWrite, Try
  <2> QED BY <1>0, <2>1, RestLeaves DEF Step
<1>11. CASE Record(t)
  <2>1. PICK s \in {"rec", "recHash"} : At(t, s)
    BY <1>11 DEF Record
  <2>2. tick' = Put(t, Then(t, Rest(t)))
    BY <1>11 DEF Record
  <2> QED BY <1>0, <2>1, <2>2, RestLeaves DEF Step
<1>12. CASE Verify(t)
  <2>1. /\ At(t, "verify")
        /\ \/ tick' = Put(t, Then(t, <<>>))
           \/ tick' = Stale(Put(t, Then(t, <<>>)))
    BY <1>12 DEF Verify, Try
  <2> QED BY <1>0, <2>1, CodeAgendas, Firsts, GoLeaves DEF Step, Plain
<1>13. CASE ReapRead(t)
  <2>1. At(t, "reapRead") /\ W(t) = "none"
    BY <1>0, <1>13, NoWork DEF ReapRead, Step
  <2>2. CASE tick' = Put(t, Then(t, <<"free">>))
    BY <1>0, <2>1, <2>2, CodeAgendas, Firsts, GoLeaves DEF Step, Plain
  <2>3. ASSUME NEW r, tick' = Put(t, r),
               r = [Then(t, Rest(t)) EXCEPT !.fresh = @ \union {"current"}]
        PROVE  Shaped' /\ Leaves(t)
    <3>1. Rest(t) \in Seq(Step) /\ Rest(t) \in Agendas
          /\ First(Rest(t)) \in Plain
      BY <1>0, <2>1, RestFacts, AtFacts DEF Follows, Step
    <3>2. /\ r \in TickRecord /\ r.main = Rest(t) /\ r.work = W(t)
          /\ r.goal = tick[t].goal /\ r.current = tick[t].current
      BY <1>0, <2>3, <3>1, TickFacts DEF Then, TickRecord, W
    <3> QED BY <1>0, <2>1, <2>3, <3>1, <3>2, RereadLeaves DEF Step
  <2> QED BY <1>13, <2>2, <2>3 DEF ReapRead
<1>14. CASE ReapWrite(t)
  <2>1. At(t, "reapWrite")
    BY <1>14 DEF ReapWrite
  <2>2. CASE tick' = Stale(Put(t, Then(t, Rest(t))))
    BY <1>0, <2>1, <2>2, RestLeaves DEF Step
  <2>3. CASE tick' = Put(t, Then(t, <<"free">>))
    BY <1>0, <2>1, <2>3, CodeAgendas, Firsts, GoLeaves DEF Step, Plain
  <2> QED BY <1>14, <2>2, <2>3 DEF ReapWrite, Try
<1>15. CASE Deadline(t)
  <2>1. PICK steps \in Agenda("BUDGET_ENDED") :
          tick' = Put(t, Then(t, steps))
    BY <1>15 DEF Deadline
  <2>2. /\ steps \in Agendas /\ steps \in Background
        /\ First(steps) \in Plain \ {"none", "lease"}
    BY <2>1, AgendaFacts DEF Result
  <2> QED BY <1>0, <1>15, <2>1, <2>2, GoLeaves DEF Deadline, Step
<1> QED
  BY <1>1, <1>2, <1>3, <1>4, <1>5, <1>6, <1>7, <1>8, <1>9, <1>10, <1>11, <1>12,
     <1>13, <1>14, <1>15 DEF Aside

\* The work of tick t goes on beside its agenda.
LEMMA WorkStep ==
    ASSUME ControlInv, NEW t \in Tick, Working(t) \/ Send(t)
    PROVE  Shaped' /\ Moves(t, M(t), W(t)') /\ W(t) # "none" /\ UNCHANGED lease
<1> USE DEF store
<1>0. Shaped /\ TickRecord # {}
  BY ShapedFacts, IdleShape
<1>1. ASSUME NEW w \in Busy \union Result, W(t) # "none", Work(t, w)
      PROVE  Shaped' /\ Moves(t, M(t), w)
  BY <1>0, <1>1, WorkMoves DEF Work
<1>2. CASE Prepare(t)
  BY <1>1, <1>2 DEF Prepare, W, Result, Moves
<1>3. CASE Reread(t)
  BY <1>1, <1>3 DEF Reread, W, Result, Busy, Moves
<1>4. CASE Mark(t)
  BY <1>1, <1>4 DEF Mark, W, Result, Busy, Moves
<1>5. CASE Call(t)
  BY <1>1, <1>5 DEF Call, W, Result, Busy, Moves
<1>6. CASE Send(t)
  BY <1>1, <1>6 DEF Send, W, Busy, Moves
<1>7. CASE Return(t)
  BY <1>1, <1>7 DEF Return, W, Result, Moves
<1>8. ASSUME LateResult(t) \/ W(t) \in {"lateSubmit", "lateReopen",
                                        "lateResubmit", "lateRec"}
      PROVE  M(t) # "work"
  <2>1. CASE LateResult(t)
    BY <1>0, <2>1, AtFacts DEF LateResult, Abandoned, Step
  <2>2. CASE W(t) \in {"lateSubmit", "lateReopen", "lateResubmit", "lateRec"}
    BY <1>0, <2>2, TickFacts DEF Shape, W, Busy, Result
  <2> QED BY <1>8, <2>1, <2>2
<1>9. ASSUME NEW w \in {"none", "lateSubmit", "lateReopen", "lateResubmit",
                        "lateRec"},
             W(t) # "none", M(t) # "work", NEW r,
             r = InWork(t, w),
             tick' = Put(t, r) \/ tick' = Stale(Put(t, r))
      PROVE  Shaped' /\ Moves(t, M(t), w)
  BY <1>0, <1>9, WorkMoves DEF InWork
<1>10. CASE LateResult(t)
  <2>1. W(t) # "none" /\ M(t) # "work"
    BY <1>8, <1>10 DEF LateResult, W, Result
  <2>2. CASE W(t) # "HASH"
    BY <1>9, <1>10, <2>1, <2>2 DEF LateResult, W, Moves
  <2>3. ASSUME NEW r,
               r = [InWork(t, "lateSubmit") EXCEPT
                      !.fresh = @ \union {"current"}, !.current = Snapshot],
               tick' = Put(t, r)
        PROVE  Shaped' /\ Moves(t, M(t), "lateSubmit")
    <3>1. /\ r \in TickRecord /\ r.main = tick[t].main
          /\ r.work = "lateSubmit" /\ r.goal = tick[t].goal
          /\ r.current.verified = goal.verified
      BY <1>0, <2>3, TickFacts, ShapedFacts, SnapshotTyped
      DEF InWork, TickRecord
    <3>2. Fits(r)
      BY <1>0, <2>1, <3>1, TickFacts DEF Fits, Shape, W, E
    <3> QED BY <1>0, <2>3, <3>1, <3>2, ChangeMoves DEF M
  <2> QED BY <1>10, <2>1, <2>2, <2>3 DEF LateResult, W, Moves
<1>11. CASE LateSubmit(t)
  <2>1. W(t) # "none" /\ M(t) # "work"
    BY <1>8, <1>11 DEF LateSubmit, W
  <2>2. PICK w \in {"lateRec", "lateReopen"} :
          \/ tick' = Put(t, InWork(t, w))
          \/ tick' = Stale(Put(t, InWork(t, w)))
    BY <1>11 DEF LateSubmit, Try
  <2> QED BY <1>9, <1>11, <2>1, <2>2 DEF LateSubmit, Moves
<1>12. CASE LateReopen(t)
  <2>1. W(t) # "none" /\ M(t) # "work"
    BY <1>8, <1>12 DEF LateReopen, W
  <2>2. CASE tick' = Put(t, InWork(t, "lateRec"))
    BY <1>9, <1>12, <2>1, <2>2 DEF LateReopen, Moves
  <2>3. ASSUME NEW r,
               r = [InWork(t, "lateResubmit") EXCEPT
                      !.fresh = @ \union {"current"}],
               tick' = Put(t, r)
        PROVE  Shaped' /\ Moves(t, M(t), "lateResubmit")
    <3>1. /\ r \in TickRecord /\ r.main = tick[t].main
          /\ r.work = "lateResubmit" /\ r.goal = tick[t].goal
          /\ r.current = tick[t].current
      BY <1>0, <2>3, TickFacts DEF InWork, TickRecord
    <3>2. Fits(r)
      BY <1>0, <2>1, <3>1, TickFacts DEF Fits, Shape, W, E
    <3> QED BY <1>0, <2>3, <3>1, <3>2, ChangeMoves DEF M
  <2> QED BY <1>12, <2>1, <2>2, <2>3 DEF LateReopen, Moves
<1>13. CASE LateRecord(t)
  <2>1. W(t) # "none" /\ M(t) # "work"
    BY <1>8, <1>13 DEF LateRecord, W
  <2> QED BY <1>9, <1>13, <2>1 DEF LateRecord, Work, InWork, Moves
<1> QED
  BY <1>2, <1>3, <1>4, <1>5, <1>6, <1>7, <1>10, <1>11, <1>12, <1>13
  DEF Working

\* What the other steps of a tick do to it.
LEMMA LoadStep ==
    ASSUME ControlInv, NEW t \in Tick, Load(t)
    PROVE  /\ Shaped'
           /\ \A u \in Tick \ {t} : tick'[u] = tick[u]
           /\ M(t) = "none" /\ W(t) = "none"
           /\ M(t)' \in {"verify", "check", "lease"} /\ W(t)' = "none"
           /\ M(t)' = "verify" => goal.pending # None
           /\ tick'[t].goal = Snapshot /\ tick'[t].current = NoSnapshot
<1> DEFINE m == IF goal.pending # None THEN <<"verify">>
                ELSE IF goal.status \in Open THEN <<"check">> ELSE Reaping
           r == [Idle EXCEPT !.fresh = {"goal"}, !.goal = Snapshot, !.main = m]
<1>1. tick[t] = Idle /\ tick' = [tick EXCEPT ![t] = r]
  BY DEF Load
<1>2. /\ m \in Agendas /\ m # <<>> /\ m # <<"work">>
      /\ First(m) \in {"verify", "check", "lease"}
      /\ First(m) = "verify" => goal.pending # None
  BY CodeAgendas, Firsts DEF Reaping
<1>3. m \in Seq(Step)
  BY <1>2, AgendasTyped
<1> HIDE DEF m
<1>4. /\ r \in TickRecord /\ r.main = m /\ r.work = "none"
      /\ r.goal = Snapshot /\ r.current = NoSnapshot
  BY <1>3, IdleShape, ShapedFacts, SnapshotTyped DEF TickRecord
<1>5. Snapshot.exec \in Exec
  <2>1. /\ goal.pending \in {None} \union Exec
        /\ goal.pending # None \/ goal.slot \in Exec
    BY DEF Load, ControlInv, TypeOK
  <2> QED BY <2>1 DEF Snapshot
<1>6. Shape(r)
  BY <1>2, <1>4, <1>5 DEF Shape
<1> HIDE DEF r
<1>7. tick'[t] = r /\ \A u \in Tick \ {t} : tick'[u] = tick[u]
  BY <1>1, ShapedFacts DEF Shaped
<1>8. Shaped'
  BY <1>1, <1>4, <1>6, <1>7, ShapedFacts DEF Shaped
<1>9. M(t) = "none" /\ W(t) = "none"
  BY <1>1, IdleShape, Firsts DEF M, W
<1> QED BY <1>2, <1>4, <1>7, <1>8, <1>9 DEF M, W

\* A tick that is killed is idle.
LEMMA CrashStep ==
    ASSUME ControlInv, NEW t \in Tick, Crash(t)
    PROVE  Shaped' /\ Moves(t, "none", "none")
<1>1. tick' = [tick EXCEPT ![t] = Idle]
  BY DEF Crash
<1>2. tick'[t] = Idle /\ \A u \in Tick \ {t} : tick'[u] = tick[u]
  BY <1>1, ShapedFacts DEF Shaped
<1>3. Shaped'
  BY <1>1, <1>2, IdleShape, ShapedFacts DEF Shaped
<1> QED BY <1>2, <1>3, IdleShape, Firsts DEF Moves, M, W, NoSnapshot

\* A tick that finds its slot taken goes on to close the goal.
LEMMA CloseHeldMoves ==
    ASSUME ControlInv, NEW t \in Tick, M(t) \in {"claim", "reserve"},
           CloseHeld(t)
    PROVE  Shaped' /\ Moves(t, "close", "none")
<1>0. Shaped /\ W(t) = "none" /\ E(t) \in Exec
  BY ShapedFacts, TickFacts
<1> DEFINE q == Then(t, <<"close", "closeRec", "free">>)
           c == [q.current EXCEPT !.exec = ExecOf(t),
                                  !.hash = rec[ExecOf(t)] = "hash"]
           f == q.fresh \union (IF "goal" \in q.fresh THEN {"current"} ELSE {})
           r == [q EXCEPT !.current = c, !.fresh = f]
<1>1. tick' = Put(t, r)
  BY DEF CloseHeld
<1>2. /\ <<"close", "closeRec", "free">> \in Agendas
      /\ <<"close", "closeRec", "free">> \in Seq(Step)
  BY CodeAgendas, AgendasTyped
<1>3. tick[t] \in TickRecord /\ ExecOf(t) \in 0 .. MaxSlot + 1
  BY <1>0, TickFacts DEF TickRecord, SnapshotType, ExecOf
<1>4. /\ q \in TickRecord /\ q.main = <<"close", "closeRec", "free">>
      /\ q.work = "none" /\ q.goal = tick[t].goal
      /\ q.current = tick[t].current
  BY <1>0, <1>2, <1>3 DEF Then, TickRecord, W
<1> HIDE DEF q
<1>5. c \in SnapshotType /\ c.verified = tick[t].current.verified
  BY <1>3, <1>4 DEF TickRecord, SnapshotType
<1>6. f \in SUBSET {"goal", "current"}
  BY <1>4 DEF TickRecord
<1> HIDE DEF c, f
<1>7. /\ r \in TickRecord /\ r.main = <<"close", "closeRec", "free">>
      /\ r.work = "none" /\ r.goal = tick[t].goal
      /\ r.current.verified = tick[t].current.verified
  BY <1>4, <1>5, <1>6 DEF TickRecord
<1> HIDE DEF r
<1>8. Fits(r) /\ First(r.main) = "close"
  BY <1>0, <1>2, <1>7, Firsts DEF Fits, E
<1> QED BY <1>0, <1>1, <1>7, <1>8, ChangeMoves

\* A tick claims its slot, or finds it taken.
LEMMA ClaimStep ==
    ASSUME ControlInv, NEW t \in Tick, Claim(t)
    PROVE  /\ Shaped' /\ M(t) = "claim" /\ W(t) = "none"
           /\ IF E(t) \notin claims THEN Moves(t, "reserve", "none")
              ELSE Moves(t, "close", "none")
<1>1. Shaped /\ At(t, "claim")
  BY ShapedFacts DEF Claim
<1>2. M(t) = "claim" /\ W(t) = "none"
  BY <1>1, AtFacts, TickFacts DEF Step
<1>3. CASE E(t) \notin claims
  <2>1. tick' = Put(t, Then(t, Rest(t)))
    BY <1>3 DEF Claim, Go, E, ExecOf
  <2>2. /\ Shaped' /\ Moves(t, First(Rest(t)), W(t))
        /\ Follows(M(t), First(Rest(t)))
    BY <1>1, <2>1, RestMoves DEF Step
  <2> QED BY <1>2, <1>3, <2>2 DEF Follows
<1>4. CASE E(t) \in claims
  BY <1>2, <1>4, CloseHeldMoves DEF Claim, E, ExecOf
<1> QED BY <1>2, <1>3, <1>4

\* A tick passes the gates before the broadcast, or gives up.
LEMMA GateMoves ==
    ASSUME ControlInv, NEW t \in Tick, M(t) = "reserve", Gate(t)
    PROVE  /\ Shaped'
           /\ \/ Moves(t, "relP", "none") \/ Moves(t, "relUdrop", "none")
              \/ Moves(t, "work", "prepare")
<1>0. Shaped /\ W(t) = "none" /\ E(t) \in Exec
  BY ShapedFacts, TickFacts
<1>1. CASE Go(t, <<"relP", "strike">>)
  BY <1>0, <1>1, CodeAgendas, Firsts, GoMoves DEF Go
<1>2. CASE Go(t, <<"relU", "dropNow", "park">>)
  BY <1>0, <1>2, CodeAgendas, Firsts, GoMoves DEF Go
<1>3. ASSUME NEW r, r = [Then(t, <<"work">>) EXCEPT !.work = "prepare"],
             tick' = Put(t, r)
      PROVE  Shaped' /\ Moves(t, "work", "prepare")
  <2>1. /\ r \in TickRecord /\ r.main = <<"work">> /\ r.work = "prepare"
        /\ r.goal = tick[t].goal /\ r.current = tick[t].current
    BY <1>0, <1>3, CodeAgendas, AgendasTyped, TickFacts
    DEF Then, TickRecord, Busy
  <2>2. <<"work">> \in Agendas /\ <<"work">> \in Background
    BY CodeAgendas DEF Background
  <2>3. Fits(r) /\ First(r.main) = "work"
    BY <1>0, <2>1, <2>2, Firsts DEF Fits, E, Busy
  <2> QED BY <1>0, <1>3, <2>1, <2>3, ChangeMoves
<1> QED BY <1>1, <1>2, <1>3 DEF Gate

\* A reservation, a refusal of the ledger, the claim's second test.
LEMMA ReserveStep ==
    ASSUME ControlInv, NEW t \in Tick, Reserve(t)
    PROVE  /\ Shaped' /\ M(t) = "reserve" /\ W(t) = "none"
           /\ \/ /\ \/ /\ res[E(t)] = "none"
                       /\ Cardinality(Counted) < MaxActions
                       /\ res' = [res EXCEPT ![E(t)] = "R"]
                    \/ res[E(t)] = "R" /\ UNCHANGED res
                 /\ \/ Moves(t, "relP", "none") \/ Moves(t, "relUdrop", "none")
                    \/ Moves(t, "work", "prepare")
              \/ /\ UNCHANGED res
                 /\ \E m \in {"park", "strike", "close"} :
                      Moves(t, m, "none")
<1>1. Shaped /\ At(t, "reserve")
  BY ShapedFacts DEF Reserve
<1>2. M(t) = "reserve" /\ W(t) = "none"
  BY <1>1, AtFacts, TickFacts DEF Step
<1>3. ASSUME NEW step \in {"park", "strike"}, Go(t, <<step>>)
      PROVE  Shaped' /\ Moves(t, step, "none")
  <2>1. <<step>> \in Agendas /\ First(<<step>>) = step /\ <<step>> # <<"work">>
    BY CodeAgendas, Firsts
  <2> QED BY <1>1, <1>2, <1>3, <2>1, GoMoves DEF Go
<1> QED
  BY <1>2, <1>3, GateMoves, CloseHeldMoves DEF Reserve, E, ExecOf

\* A tick goes on with the agenda for the result of its work.
LEMMA HandleResultStep ==
    ASSUME ControlInv, NEW t \in Tick, HandleResult(t)
    PROVE  /\ Shaped' /\ M(t) = "work" /\ W(t) \in Result
           /\ \E steps \in Agenda(W(t)) : Moves(t, First(steps), "none")
<1>1. Shaped /\ At(t, "work") /\ W(t) \in Result
  BY ShapedFacts DEF HandleResult, W
<1>2. M(t) = "work"
  BY <1>1, AtFacts DEF Step
<1>3. PICK steps \in Agenda(W(t)) :
        tick' = Put(t, [Then(t, steps) EXCEPT !.work = "none"])
  BY DEF HandleResult, W
<1> DEFINE r == [Then(t, steps) EXCEPT !.work = "none"]
<1>4. /\ steps \in Agendas /\ steps \in Seq(Step)
      /\ First(steps) # "work"
  BY <1>1, <1>3, AgendaFacts, AgendasTyped DEF Plain, Result
<1>5. /\ r \in TickRecord /\ r.main = steps /\ r.work = "none"
      /\ r.goal = tick[t].goal /\ r.current = tick[t].current
  BY <1>1, <1>3, <1>4, TickFacts DEF Then, TickRecord
<1>6. Fits(r)
  BY <1>1, <1>2, <1>4, <1>5, TickFacts, Firsts DEF Fits, E
<1> QED BY <1>1, <1>2, <1>3, <1>5, <1>6, ChangeMoves

\* One bounded store call, and the step that follows it.
LEMMA StoreCallStep ==
    ASSUME ControlInv, NEW t \in Tick, StoreCall(t)
    PROVE  /\ Shaped'
           /\ \E call \in {"relP", "relU", "markX", "commit", "drop"} :
                /\ M(t) = call \/ (call = "relU" /\ M(t) = "relUdrop")
                /\ Bounded(call, E(t))
           /\ \E m \in Plain \union {"drop", "dropNow", "submit"} :
                Moves(t, m, W(t)) /\ Follows(M(t), m)
<1>1. PICK call \in {"relP", "relU", "markX", "commit", "drop"} :
        At(t, call) /\ Bounded(call, E(t))
  BY DEF StoreCall, E, ExecOf
<1>2. Shaped /\ call \in Step \ {"work"}
  BY ShapedFacts DEF Step
<1>3. M(t) = call \/ (call = "relU" /\ M(t) = "relUdrop")
  BY <1>1, <1>2, AtFacts
<1>4. tick' = Put(t, Then(t, Rest(t)))
  BY DEF StoreCall, Go
<1>5. /\ Shaped' /\ Moves(t, First(Rest(t)), W(t))
      /\ Follows(M(t), First(Rest(t)))
  BY <1>1, <1>2, <1>4, RestMoves
<1>6. First(Rest(t)) \in Plain \union {"drop", "dropNow", "submit"}
  BY <1>3, <1>5 DEF Follows
<1> QED BY <1>1, <1>3, <1>5, <1>6

\* A tick that drops its claim at the budget gate parks.
LEMMA DropClaimStep ==
    ASSUME ControlInv, NEW t \in Tick, DropClaim(t)
    PROVE  /\ Shaped' /\ M(t) = "dropNow" /\ W(t) = "none"
           /\ \E m \in Plain : Moves(t, m, "none")
<1>1. Shaped /\ At(t, "dropNow") /\ tick' = Put(t, Then(t, Rest(t)))
  BY ShapedFacts DEF DropClaim, Go
<1>2. M(t) = "dropNow" /\ W(t) = "none"
  BY <1>1, AtFacts, TickFacts DEF Step
<1> QED BY <1>1, <1>2, RestMoves DEF Follows, Step

\* The hash on its way into the goal.
LEMMA SubmitStep ==
    ASSUME ControlInv, NEW t \in Tick, Submit(t) \/ Reopen(t) \/ Resubmit(t)
    PROVE  /\ Shaped' /\ M(t) \in {"submit", "reopen", "resubmit"}
           /\ W(t) = "none"
           /\ \E m \in {"recHash", "reopen", "resubmit"} :
                /\ Moves(t, m, "none")
                /\ \/ UNCHANGED goal
                   \/ m = "recHash" /\ goal' = Submitted(t, tick[t].goal)
<1>1. Shaped
  BY ShapedFacts
<1>2. PICK s \in {"submit", "reopen", "resubmit"} : At(t, s)
  BY DEF Submit, Reopen, Resubmit
<1>3. M(t) = s /\ W(t) = "none"
  BY <1>1, <1>2, AtFacts, TickFacts DEF Step
<1>4. Rest(t) = <<"recHash", "free">>
  <2>1. ASSUME NEW m \in Agendas,
               First(m) \in {"submit", "reopen", "resubmit"}
        PROVE  m \in Hashes
    <3>1. m \notin LastSteps \union Lookings
      BY <2>1, Firsts DEF LastSteps, Lookings
    <3>2. m \notin Reapings \union Attempts
      BY <2>1, Firsts DEF Reapings, Attempts
    <3>3. m \notin Failings
      BY <2>1, Firsts DEF Failings
    <3> QED BY <3>1, <3>2, <3>3 DEF Agendas
  <2>2. ASSUME NEW m \in Hashes,
               First(m) \in {"submit", "reopen", "resubmit"}
        PROVE  Tail(m) = <<"recHash", "free">>
    BY <2>2, Tails, Firsts DEF Hashes
  <2>3. tick[t].main \in Agendas
    BY <1>1, TickFacts DEF Shape
  <2> QED BY <1>3, <2>1, <2>2, <2>3 DEF M, Rest
<1>5. /\ <<"recHash", "free">> \in Agendas
      /\ <<"reopen">> \o Rest(t) \in Agendas
      /\ <<"resubmit">> \o Rest(t) \in Agendas
      /\ First(<<"recHash", "free">>) = "recHash"
      /\ First(<<"reopen">> \o Rest(t)) = "reopen"
      /\ First(<<"resubmit">> \o Rest(t)) = "resubmit"
  BY <1>4, Concats, Firsts DEF Agendas, Hashes
<1>6. /\ <<"recHash", "free">> # <<"work">>
      /\ <<"reopen">> \o Rest(t) # <<"work">>
      /\ <<"resubmit">> \o Rest(t) # <<"work">>
  BY <1>5, Firsts
<1>7. CASE Submit(t)
  <2>1. \/ /\ tick' = Stale(Put(t, Then(t, Rest(t))))
           /\ goal' = Submitted(t, tick[t].goal)
        \/ tick' = Put(t, Then(t, <<"reopen">> \o Rest(t))) /\ UNCHANGED goal
    BY <1>7 DEF Submit, Try
  <2> QED BY <1>1, <1>3, <1>4, <1>5, <1>6, <2>1, GoMoves
<1>8. CASE Resubmit(t)
  <2>1. \/ /\ tick' = Stale(Put(t, Then(t, Rest(t))))
           /\ goal' = Submitted(t, tick[t].goal)
        \/ tick' = Put(t, Then(t, Rest(t))) /\ UNCHANGED goal
    BY <1>8 DEF Resubmit, Try
  <2> QED BY <1>1, <1>3, <1>4, <1>5, <1>6, <2>1, GoMoves
<1>9. CASE Reopen(t)
  <2>1. CASE goal.status \in Open
    <3> DEFINE q == Then(t, <<"resubmit">> \o Rest(t))
               r == [q EXCEPT !.fresh = @ \union {"current"}]
    <3>1. tick' = Put(t, r) /\ UNCHANGED goal
      BY <1>9, <2>1 DEF Reopen
    <3>2. <<"resubmit">> \o Rest(t) \in Seq(Step) /\ E(t) \in Exec
      BY <1>1, <1>3, <1>5, AgendasTyped, TickFacts
    <3>3. /\ q \in TickRecord /\ q.main = <<"resubmit">> \o Rest(t)
          /\ q.work = "none" /\ q.goal = tick[t].goal
          /\ q.current = tick[t].current
      BY <1>1, <1>3, <3>2, TickFacts DEF Then, TickRecord, W
    <3> HIDE DEF q
    <3>4. /\ r \in TickRecord /\ r.main = <<"resubmit">> \o Rest(t)
          /\ r.work = "none" /\ r.goal = tick[t].goal
          /\ r.current = tick[t].current
      BY <3>3 DEF TickRecord
    <3>5. Fits(r)
      BY <1>5, <1>6, <3>2, <3>4 DEF Fits, E
    <3> QED BY <1>1, <1>3, <1>5, <3>1, <3>4, <3>5, ChangeMoves
  <2>2. CASE goal.status \notin Open
    <3>1. tick' = Put(t, Then(t, Rest(t))) /\ UNCHANGED goal
      BY <1>9, <2>2 DEF Reopen
    <3> QED BY <1>1, <1>3, <1>4, <1>5, <1>6, <3>1, GoMoves
  <2> QED BY <2>1, <2>2
<1> QED BY <1>3, <1>7, <1>8, <1>9

-----------------------------------------------------------------------------
(* Writes of the goal.                                                     *)

GoalRecord ==
    [status : Open \union Terminal \union {"EXECUTING", "PAUSED"},
     slot : 1..MaxSlot + 1, pending : {None} \union Exec,
     attempts : 0..MaxVerify - 1, verified : Nat]

\* Nothing is waited for any more, or was not before: a patch that leaves the
\* goal open or closed.
Leave(g) ==
    /\ g \in GoalRecord /\ g.status # "EXECUTING"
    /\ g.verified = goal.verified
    /\ \/ g.pending = None
       \/ g.pending = goal.pending /\ goal.status # "EXECUTING"

\* A verdict on the transaction the goal waits for.
Verdict(g, sent) ==
    \/ Leave(g)
    \/ /\ g \in GoalRecord /\ g.status = goal.status /\ g.slot = goal.slot
       /\ g.pending = goal.pending /\ g.verified = goal.verified
    \/ /\ g \in GoalRecord /\ g.status # "EXECUTING" /\ g.pending = None
       /\ g.verified = goal.verified + 1 /\ sent = "mined"

\* The goal has its type.
LEMMA GoalType == TypeOK => goal \in GoalRecord
BY DEF TypeOK, GoalRecord

\* Every patch but a submission leaves nothing to wait for.
LEMMA PatchLeaves ==
    ASSUME TypeOK
    PROVE  /\ Leave(Parked) /\ Leave(Failed)
           /\ goal.status # "EXECUTING" =>
                /\ Leave([goal EXCEPT !.status = "EXPIRED"])
                /\ Leave([goal EXCEPT !.status = "PAUSED"])
                /\ Leave([goal EXCEPT !.status = "CANCELLED"])
                /\ Leave(goal)
<1>1. /\ goal \in GoalRecord
      /\ MaxVerify \in Nat /\ MaxVerify > 0 /\ MaxSlot \in Nat
  BY GoalType, BoundAssumption
<1>2. 0 \in 0 .. MaxVerify - 1 /\ Later \in 1 .. MaxSlot + 1
  BY <1>1 DEF GoalRecord, Later
<1>3. Leave(Parked)
  BY <1>1, <1>2 DEF Leave, Parked, GoalRecord, Open
<1>4. Leave(Failed)
  BY <1>1, <1>2 DEF Leave, Failed, GoalRecord, Terminal
<1>5. ASSUME goal.status # "EXECUTING"
      PROVE  /\ Leave([goal EXCEPT !.status = "EXPIRED"])
             /\ Leave([goal EXCEPT !.status = "PAUSED"])
             /\ Leave([goal EXCEPT !.status = "CANCELLED"])
             /\ Leave(goal)
  BY <1>1, <1>5 DEF Leave, GoalRecord, Terminal
<1> QED BY <1>3, <1>4, <1>5

\* Each verdict the code can reach is one.
LEMMA VerdictFacts ==
    ASSUME TypeOK, NEW sent, NEW g \in Verdicts(sent)
    PROVE  Verdict(g, sent)
<1>1. goal \in GoalRecord /\ MaxVerify \in Nat
  BY GoalType, BoundAssumption
<1>2. CASE g \in {Parked, Failed}
  BY <1>2, PatchLeaves DEF Verdict
<1>3. CASE /\ g = [goal EXCEPT !.attempts = @ + 1]
           /\ ~(goal.attempts + 1 >= MaxVerify)
  <2>1. goal.attempts + 1 \in 0 .. MaxVerify - 1
    BY <1>1, <1>3 DEF GoalRecord
  <2> QED BY <1>1, <1>3, <2>1 DEF Verdict, GoalRecord
<1>4. CASE g = Completed /\ sent = "mined"
  <2>1. PICK p \in {Parked, Failed}, s \in Open \union Terminal :
          g = [p EXCEPT !.status = s, !.verified = @ + 1]
    <3>1. CASE goal.verified + 1 >= MaxTrades
      BY <1>4, <3>1 DEF Completed, Terminal
    <3>2. CASE ~(goal.verified + 1 >= MaxTrades)
      <4>1. Parked \in GoalRecord /\ Parked.status = "OPEN"
        BY <1>1, PatchLeaves DEF Leave, Parked, GoalRecord
      <4>2. [Parked EXCEPT !.verified = @ + 1]
              = [Parked EXCEPT !.status = "OPEN", !.verified = @ + 1]
        BY <4>1 DEF GoalRecord
      <4> QED BY <1>4, <3>2, <4>2 DEF Completed, Open
    <3> QED BY <3>1, <3>2
  <2>2. p \in GoalRecord /\ p.pending = None /\ p.verified = goal.verified
    <3>1. /\ Parked.pending = None /\ Failed.pending = None
      BY <1>1 DEF Parked, Failed, GoalRecord
    <3> QED BY <2>1, <3>1, PatchLeaves DEF Leave
  <2>3. goal.verified \in Nat
    BY <1>1 DEF GoalRecord
  <2>4. /\ g \in GoalRecord /\ g.status = s /\ g.pending = None
        /\ g.verified = goal.verified + 1
    <3>1. p.verified + 1 \in Nat /\ p.verified + 1 = goal.verified + 1
      BY <2>2, <2>3
    <3>2. s \in Open \union Terminal \union {"EXECUTING", "PAUSED"}
      BY <2>1
    <3>3. /\ g.status = s /\ g.pending = p.pending
          /\ g.verified = p.verified + 1
          /\ g \in GoalRecord
      BY <2>1, <2>2, <3>1, <3>2 DEF GoalRecord
    <3> QED BY <2>2, <3>1, <3>3
  <2> QED BY <1>4, <2>4 DEF Verdict, Open, Terminal
<1> QED BY <1>2, <1>3, <1>4 DEF Verdicts

\* A write leaves every snapshot behind.
LEMMA StaleFresh ==
    ASSUME Shaped', NEW f, tick' = Stale(f)
    PROVE  \A u \in Tick : tick'[u].fresh = {}
<1> SUFFICES ASSUME NEW u \in Tick PROVE tick'[u].fresh = {}
  OBVIOUS
<1>1. tick'[u] = [f[u] EXCEPT !.fresh = {}]
  BY DEF Stale
<1>2. tick'[u] \in TickRecord
  BY DEF Shaped
<1> QED BY <1>1, <1>2 DEF TickRecord

\* A submission makes the goal wait for the tick's execution.
LEMMA SubmittedFacts ==
    ASSUME TypeOK, NEW t, E(t) \in Exec,
           NEW snapshot, snapshot.verified \in Nat,
           NEW g, g = Submitted(t, snapshot)
    PROVE  /\ g \in GoalRecord /\ g.status = "EXECUTING"
           /\ g.pending = E(t) /\ g.verified = snapshot.verified
<1>1. goal \in GoalRecord /\ MaxVerify \in Nat /\ MaxVerify > 0
  BY GoalType, BoundAssumption
<1>2. 0 \in 0 .. MaxVerify - 1
  BY <1>1
<1>3. g = [goal EXCEPT !.status = "EXECUTING", !.pending = E(t),
                       !.attempts = 0, !.verified = snapshot.verified]
  BY DEF Submitted, E, ExecOf
<1> QED BY <1>1, <1>2, <1>3 DEF GoalRecord

\* The tick writes the hash it holds into an open goal.
Submits(t) ==
    /\ goal.status \in Open /\ goal'.status = "EXECUTING"
    /\ goal'.pending = E(t)
    /\ goal'.verified \in {tick[t].goal.verified, tick[t].current.verified}
    /\ \/ M(t) \in {"submit", "resubmit"} /\ Moves(t, "recHash", "none")
       \/ /\ W(t) \in {"lateSubmit", "lateResubmit"}
          /\ Moves(t, M(t), "lateRec")

\* What a step may write into the goal: never into a closed one, nor in the
\* place of a pending execution other than by its verdict.
LEMMA GoalStep ==
    ASSUME ControlInv, Next
    PROVE  \/ UNCHANGED goal
           \/ /\ goal' \in GoalRecord
              /\ goal.status \notin Terminal
              /\ \A u \in Tick : tick'[u].fresh = {}
              /\ \/ Leave(goal')
                 \/ \E t \in Tick : Submits(t)
                 \/ \E t \in Tick :
                      /\ M(t) = "verify" /\ "goal" \in tick[t].fresh
                      /\ Verdict(goal', tx[E(t)])
<1>0. Shaped /\ TypeOK /\ goal \in GoalRecord
  BY ShapedFacts, GoalType
<1>1. /\ Open \cap Terminal = {} /\ "PAUSED" \notin Terminal
      /\ "EXECUTING" \notin Open \union Terminal
  BY DEF Open, Terminal
<1>2. ASSUME NEW t \in Tick, NEW f, Aside(t), tick' = Stale(f),
             goal.status \in Open,
             goal' \in {Parked, Failed, [goal EXCEPT !.status = "EXPIRED"]}
      PROVE  /\ goal' \in GoalRecord /\ goal.status \notin Terminal
             /\ \A u \in Tick : tick'[u].fresh = {}
             /\ Leave(goal')
  <2>1. Shaped'
    BY <1>2, AsideStep
  <2>2. Leave(goal')
    BY <1>0, <1>1, <1>2, PatchLeaves
  <2> QED BY <1>1, <1>2, <2>1, <2>2, StaleFresh DEF Leave
<1>3. ASSUME NEW t \in Tick, goal' # goal,
             Close(t) \/ Evaluate(t) \/ Park(t) \/ FailWrite(t)
      PROVE  \E f : /\ tick' = Stale(f) /\ goal.status \in Open
                    /\ goal' \in {Parked, Failed,
                                  [goal EXCEPT !.status = "EXPIRED"]}
  BY <1>3 DEF Close, Evaluate, Park, FailWrite, Try, MayWrite, Patch
<1>4. ASSUME NEW t \in Tick, ReapWrite(t), goal' # goal
      PROVE  /\ goal' \in GoalRecord /\ goal.status \notin Terminal
             /\ \A u \in Tick : tick'[u].fresh = {}
             /\ Leave(goal')
  <2>1. /\ goal.status = "EXECUTING" /\ goal' = Failed
        /\ \E f : tick' = Stale(f)
    BY <1>4 DEF ReapWrite, Try, MayWrite
  <2>2. Shaped'
    BY <1>4, AsideStep DEF Aside
  <2> QED BY <1>0, <1>1, <2>1, <2>2, PatchLeaves, StaleFresh DEF Leave
<1>5. ASSUME NEW t \in Tick, Verify(t), goal' # goal
      PROVE  /\ goal' \in GoalRecord /\ goal.status \notin Terminal
             /\ \A u \in Tick : tick'[u].fresh = {}
             /\ M(t) = "verify" /\ "goal" \in tick[t].fresh
             /\ Verdict(goal', tx[E(t)])
  <2>1. /\ goal.status = "EXECUTING" /\ "goal" \in tick[t].fresh
        /\ goal' \in Verdicts(tx[E(t)])
        /\ \E f : tick' = Stale(f)
    BY <1>5 DEF Verify, Try, MayWrite, E, ExecOf
  <2>2. Shaped' /\ M(t) = "verify"
    BY <1>0, <1>5, AsideStep, AtFacts DEF Aside, Verify, Step
  <2>3. Verdict(goal', tx[E(t)])
    BY <1>0, <2>1, VerdictFacts
  <2> QED BY <1>1, <2>1, <2>2, <2>3, StaleFresh DEF Verdict, Leave
<1>6. ASSUME NEW t \in Tick, Submit(t) \/ Resubmit(t), goal' # goal
      PROVE  /\ goal' \in GoalRecord /\ goal.status \notin Terminal
             /\ \A u \in Tick : tick'[u].fresh = {}
             /\ Submits(t)
  <2>1. /\ goal.status \in Open /\ goal' = Submitted(t, tick[t].goal)
        /\ \E f : tick' = Stale(f)
    BY <1>6 DEF Submit, Resubmit, Try, MayWrite
  <2>2. /\ Shaped' /\ Moves(t, "recHash", "none")
        /\ M(t) \in {"submit", "resubmit"}
    <3>1. /\ Shaped' /\ Moves(t, "recHash", "none")
      BY <1>6, SubmitStep
    <3>2. At(t, "submit") \/ At(t, "resubmit")
      BY <1>6 DEF Submit, Resubmit
    <3> QED BY <1>0, <3>1, <3>2, AtFacts DEF Step
  <2>3. E(t) \in Exec /\ tick[t].goal.verified \in Nat
    BY <1>0, <2>2, TickFacts DEF TickRecord, SnapshotType
  <2>4. /\ goal' \in GoalRecord /\ goal'.status = "EXECUTING"
        /\ goal'.pending = E(t)
        /\ goal'.verified = tick[t].goal.verified
    BY <1>0, <2>1, <2>3, SubmittedFacts
  <2> QED BY <1>1, <2>1, <2>2, <2>4, StaleFresh DEF Submits
<1>7. ASSUME NEW t \in Tick, LateSubmit(t), goal' # goal
      PROVE  /\ goal' \in GoalRecord /\ goal.status \notin Terminal
             /\ \A u \in Tick : tick'[u].fresh = {}
             /\ Submits(t)
  <2>1. /\ goal.status \in Open /\ goal' = Submitted(t, tick[t].current)
        /\ tick' = Stale(Put(t, InWork(t, "lateRec")))
        /\ W(t) \in {"lateSubmit", "lateResubmit"}
    BY <1>7 DEF LateSubmit, Try, MayWrite, W
  <2>2. Shaped' /\ M(t) # "work"
    BY <1>0, <1>7, <2>1, WorkStep, TickFacts
      DEF Working, Shape, W, Busy, Result
  <2>3. Moves(t, M(t), "lateRec")
    BY <1>0, <2>1, <2>2, WorkMoves DEF InWork
  <2>4. E(t) \in Exec /\ tick[t].current.verified \in Nat
    BY <1>0, <2>1, TickFacts DEF TickRecord, SnapshotType
  <2>5. /\ goal' \in GoalRecord /\ goal'.status = "EXECUTING"
        /\ goal'.pending = E(t)
        /\ goal'.verified = tick[t].current.verified
    BY <1>0, <2>1, <2>4, SubmittedFacts
  <2> QED BY <1>1, <2>1, <2>2, <2>3, <2>5, StaleFresh DEF Submits
<1>8. ASSUME User
      PROVE  /\ goal' \in GoalRecord /\ goal.status \notin Terminal
             /\ \A u \in Tick : tick'[u].fresh = {}
             /\ Leave(goal')
  <2>1. /\ tick' = Stale(tick) /\ goal.status \in Open \union {"PAUSED"}
        /\ goal' \in {Parked, goal, [goal EXCEPT !.status = "PAUSED"],
                      [goal EXCEPT !.status = "CANCELLED"]}
    BY <1>8 DEF User, UserWrites
  <2>2. \A u \in Tick : tick'[u].fresh = {}
    BY <1>0, <2>1 DEF Shaped, Stale, TickRecord
  <2>3. Leave(goal')
    BY <1>0, <1>1, <2>1, PatchLeaves DEF Open
  <2> QED BY <1>1, <2>1, <2>2, <2>3 DEF Leave
<1>9. ASSUME NEW t \in Tick,
             \/ Evaluating(t) \/ Working(t) \/ Send(t)
             \/ Deadline(t) \/ Crash(t)
      PROVE  \/ UNCHANGED goal
             \/ Close(t) \/ Evaluate(t) \/ Park(t) \/ FailWrite(t)
             \/ ReapWrite(t) \/ Verify(t) \/ Submit(t) \/ Resubmit(t)
             \/ LateSubmit(t)
  BY <1>9
    DEF Evaluating, Working, Load, CheckClaim, TakeLease, FreeLease,
        CloseRead, CloseClaim, CloseRec, Claim, Reserve, HandleResult,
        StoreCall, DropClaim, Record, Reopen, ReapRead, Prepare, Reread, Mark,
        Call, Return, LateResult, LateReopen, LateRecord, Send, Deadline, Crash
<1>10. ASSUME LandsLate \/ Chain \/ LeaseExpires
       PROVE  UNCHANGED goal
  BY <1>10 DEF LandsLate, Chain, LeaseExpires
<1>11. ASSUME NEW t \in Tick,
              \/ Evaluating(t) \/ Working(t) \/ Send(t)
              \/ Deadline(t) \/ Crash(t),
              goal' # goal
       PROVE  /\ goal' \in GoalRecord
              /\ goal.status \notin Terminal
              /\ \A u \in Tick : tick'[u].fresh = {}
              /\ \/ Leave(goal')
                 \/ Submits(t)
                 \/ /\ M(t) = "verify" /\ "goal" \in tick[t].fresh
                    /\ Verdict(goal', tx[E(t)])
  <2>1. CASE Close(t) \/ Evaluate(t) \/ Park(t) \/ FailWrite(t)
    BY <1>2, <1>3, <1>11, <2>1 DEF Aside
  <2> QED BY <1>4, <1>5, <1>6, <1>7, <1>9, <1>11, <2>1
<1> QED BY <1>8, <1>10, <1>11 DEF Next

-----------------------------------------------------------------------------
(* Types, agendas and the lease.                                           *)

\* At first every tick is idle.
LEMMA ControlInit == Init => ControlInv
<1> SUFFICES ASSUME Init PROVE ControlInv
  OBVIOUS
<1>1. MaxSlot \in Nat /\ MaxSlot > 0 /\ MaxVerify \in Nat /\ MaxVerify > 0
  BY BoundAssumption
<1>2. /\ goal \in GoalRecord /\ goal.slot = 1 /\ goal.pending = None
      /\ 1 \in Exec
  BY <1>1 DEF Init, Activated, LeftExecuting, Created, GoalRecord, Open, Exec
<1>3. /\ claims \subseteq Exec
      /\ res \in [Exec -> {"none", "R", "A", "C", "X", "F"}]
      /\ tx \in [Exec -> {"none", "flying", "mined", "reverted"}]
  BY <1>2 DEF Init, Activated, LeftExecuting
<1>4. /\ lease \in Tick \union {"free", "dead"}
      /\ late \subseteq StoreCalls \X Exec
      /\ rec \in [Exec -> {"none", "failed", "hash"}]
      /\ hashed \subseteq Exec /\ edits \in Nat /\ crashes \in Nat
  BY DEF Init
<1>5. \A t \in Tick : tick[t] = Idle
  BY DEF Init
<1>6. tick \in [Tick -> TickRecord]
  BY IdleShape DEF Init
<1>7. TypeOK
  BY <1>2, <1>3, <1>4, <1>6 DEF TypeOK, TickRecord, GoalRecord
<1>8. \A t \in Tick : M(t) = "none" /\ Shape(tick[t])
  BY <1>5, IdleShape, Firsts DEF M
<1> QED BY <1>2, <1>7, <1>8 DEF ControlInv

\* Every step leaves well formed ticks behind.
LEMMA ShapedStep ==
    ASSUME ControlInv, [Next]_vars
    PROVE  Shaped'
<1>1. ASSUME NEW t \in Tick, Evaluating(t) \/ Working(t) \/ Send(t)
                             \/ Deadline(t) \/ Crash(t)
      PROVE  Shaped'
  <2>1. ASSUME Aside(t) PROVE Shaped'
    BY <2>1, AsideStep
  <2>2. ASSUME Working(t) \/ Send(t) PROVE Shaped'
    BY <2>2, WorkStep
  <2>3. ASSUME \/ Load(t) \/ Claim(t) \/ Reserve(t) \/ HandleResult(t)
               \/ StoreCall(t) \/ DropClaim(t) \/ Crash(t)
               \/ Submit(t) \/ Reopen(t) \/ Resubmit(t)
        PROVE  Shaped'
    BY <2>3, LoadStep, ClaimStep, ReserveStep, HandleResultStep, StoreCallStep,
       DropClaimStep, CrashStep, SubmitStep
  <2> QED BY <1>1, <2>1, <2>2, <2>3 DEF Evaluating, Aside
<1>2. ASSUME User PROVE Shaped'
  <2>1. tick' = Stale(tick) /\ Shaped
    BY <1>2, ShapedFacts DEF User, UserWrites
  <2>2. \A u \in Tick : tick'[u] \in TickRecord /\ Shape(tick'[u])
    BY <2>1, StaleRecord DEF Shaped, Stale
  <2>3. tick' = [u \in Tick |-> tick'[u]]
    BY <2>1 DEF Stale
  <2> QED BY <2>2, <2>3 DEF Shaped
<1>3. ASSUME LandsLate \/ Chain \/ LeaseExpires \/ UNCHANGED vars
      PROVE  Shaped'
  <2>1. UNCHANGED tick
    BY <1>3 DEF LandsLate, Chain, LeaseExpires, vars
  <2> QED BY <2>1, ShapedFacts DEF Shaped
<1> QED BY <1>1, <1>2, <1>3 DEF Next

\* A store call leaves a reservation in one of its states.
LEMMA AfterTyped ==
    ASSUME NEW call, NEW s \in {"none", "R", "A", "C", "X", "F"}
    PROVE  After(call, s) \in {"none", "R", "A", "C", "X", "F"}
BY DEF After

\* A store call that lands, or is given up on.
LEMMA BoundedTyped ==
    ASSUME TypeOK, NEW call \in StoreCalls, NEW e \in Exec, Bounded(call, e)
    PROVE  /\ claims' \subseteq Exec /\ late' \subseteq StoreCalls \X Exec
           /\ res' \in [Exec -> {"none", "R", "A", "C", "X", "F"}]
BY AfterTyped DEF TypeOK, Bounded, GivenUp, Land

\* Every step keeps the types of what the store and the chain hold.
LEMMA StoreTyped ==
    ASSUME ControlInv, [Next]_vars
    PROVE  /\ claims' \subseteq Exec
           /\ lease' \in Tick \union {"free", "dead"}
           /\ res' \in [Exec -> {"none", "R", "A", "C", "X", "F"}]
           /\ rec' \in [Exec -> {"none", "failed", "hash"}]
           /\ tx' \in [Exec -> {"none", "flying", "mined", "reverted"}]
           /\ late' \subseteq StoreCalls \X Exec
           /\ hashed' \subseteq Exec
           /\ edits' \in Nat /\ crashes' \in Nat
<1> USE DEF store, seen, vars
<1>0. Shaped /\ TypeOK
  BY ShapedFacts
<1>1. /\ claims \subseteq Exec
      /\ lease \in Tick \union {"free", "dead"}
      /\ res \in [Exec -> {"none", "R", "A", "C", "X", "F"}]
      /\ rec \in [Exec -> {"none", "failed", "hash"}]
      /\ tx \in [Exec -> {"none", "flying", "mined", "reverted"}]
      /\ late \subseteq StoreCalls \X Exec
      /\ hashed \subseteq Exec
      /\ edits \in Nat /\ crashes \in Nat
  BY <1>0 DEF TypeOK
<1>2. ASSUME NEW t \in Tick,
               \/ Load(t) \/ CheckClaim(t) \/ CloseRead(t) \/ CloseClaim(t)
               \/ Close(t) \/ Evaluate(t) \/ Park(t) \/ FailWrite(t)
               \/ HandleResult(t) \/ Submit(t) \/ Reopen(t) \/ Resubmit(t)
               \/ ReapRead(t) \/ ReapWrite(t) \/ Prepare(t) \/ Reread(t)
               \/ Call(t) \/ LateResult(t) \/ LateSubmit(t) \/ LateReopen(t)
               \/ Deadline(t)
      PROVE  UNCHANGED <<claims, lease, res, rec, tx, late, hashed, edits,
                         crashes>>
  BY <1>2 DEF Load, CheckClaim, CloseRead, CloseClaim, Close, Evaluate, Park,
       FailWrite, HandleResult, Submit, Reopen, Resubmit, ReapRead, ReapWrite,
       Prepare, Reread, Call, LateResult, LateSubmit, LateReopen, Deadline
<1>3. ASSUME NEW t \in Tick,
               \/ TakeLease(t) \/ FreeLease(t) \/ CloseRec(t) \/ Record(t)
               \/ Verify(t) \/ LateRecord(t) \/ Crash(t)
      PROVE  /\ UNCHANGED <<claims, res, tx, late, hashed, edits>>
             /\ lease' \in Tick \union {"free", "dead"}
             /\ crashes' \in Nat
             /\ rec' \in [Exec -> {"none", "failed", "hash"}]
  BY <1>1, <1>3
    DEF TakeLease, FreeLease, CloseRec, Record, Verify, LateRecord, Crash
<1>4. ASSUME NEW t \in Tick, Claim(t) \/ DropClaim(t)
      PROVE  /\ claims' \subseteq Exec
             /\ UNCHANGED <<lease, res, rec, tx, late, hashed, edits,
                            crashes>>
  <2>1. CASE Claim(t)
    <3>1. E(t) \in Exec
      BY <1>0, <2>1, ClaimStep, TickFacts
    <3> QED BY <1>1, <2>1, <3>1 DEF Claim, E, ExecOf
  <2>2. CASE DropClaim(t)
    BY <1>1, <2>2 DEF DropClaim
  <2> QED BY <1>4, <2>1, <2>2
<1>5. ASSUME NEW t \in Tick, Reserve(t)
      PROVE  /\ res' \in [Exec -> {"none", "R", "A", "C", "X", "F"}]
             /\ UNCHANGED <<claims, lease, rec, tx, late, hashed, edits,
                            crashes>>
  BY <1>1, <1>5 DEF Reserve
<1>6. ASSUME NEW t \in Tick, StoreCall(t) \/ Mark(t)
      PROVE  /\ claims' \subseteq Exec /\ late' \subseteq StoreCalls \X Exec
             /\ res' \in [Exec -> {"none", "R", "A", "C", "X", "F"}]
             /\ UNCHANGED <<lease, rec, tx, hashed, edits, crashes>>
  <2>1. CASE StoreCall(t)
    <3>1. PICK call \in {"relP", "relU", "markX", "commit", "drop"} :
            /\ M(t) = call \/ (call = "relU" /\ M(t) = "relUdrop")
            /\ Bounded(call, E(t))
      BY <2>1, StoreCallStep
    <3>2. E(t) \in Exec /\ call \in StoreCalls
      BY <1>0, <3>1, TickFacts DEF StoreCalls
    <3> QED BY <1>0, <2>1, <3>1, <3>2, BoundedTyped DEF StoreCall
  <2>2. CASE Mark(t)
    <3>1. Bounded("mark", E(t)) /\ W(t) # "none"
      BY <2>2 DEF Mark, Bounded, E, ExecOf, W
    <3>2. E(t) \in Exec /\ "mark" \in StoreCalls
      BY <1>0, <3>1, TickFacts DEF StoreCalls
    <3> QED BY <1>0, <2>2, <3>1, <3>2, BoundedTyped DEF Mark
  <2> QED BY <1>6, <2>1, <2>2
<1>7. ASSUME NEW t \in Tick, Send(t) \/ Return(t)
      PROVE  /\ tx' \in [Exec -> {"none", "flying", "mined", "reverted"}]
             /\ hashed' \subseteq Exec
             /\ UNCHANGED <<claims, lease, res, rec, late, edits, crashes>>
  <2>1. E(t) \in Exec
    BY <1>0, <1>7, TickFacts DEF Send, Return, W
  <2> QED BY <1>1, <1>7, <2>1 DEF Send, Return, E, ExecOf
<1>8. ASSUME LandsLate
      PROVE  /\ claims' \subseteq Exec /\ late' \subseteq StoreCalls \X Exec
             /\ res' \in [Exec -> {"none", "R", "A", "C", "X", "F"}]
             /\ UNCHANGED <<lease, rec, tx, hashed, edits, crashes>>
  BY <1>1, <1>8, AfterTyped DEF LandsLate, Land
<1>9. ASSUME User \/ Chain \/ LeaseExpires
      PROVE  /\ lease' \in Tick \union {"free", "dead"}
             /\ tx' \in [Exec -> {"none", "flying", "mined", "reverted"}]
             /\ edits' \in Nat
             /\ UNCHANGED <<claims, res, rec, late, hashed, crashes>>
  BY <1>1, <1>9 DEF User, UserWrites, Chain, LeaseExpires
<1>10. ASSUME NEW t \in Tick,
              \/ Evaluating(t) \/ Working(t) \/ Send(t)
              \/ Deadline(t) \/ Crash(t)
       PROVE  \/ Load(t) \/ CheckClaim(t) \/ CloseRead(t) \/ CloseClaim(t)
              \/ Close(t) \/ Evaluate(t) \/ Park(t) \/ FailWrite(t)
              \/ HandleResult(t) \/ Submit(t) \/ Reopen(t) \/ Resubmit(t)
              \/ ReapRead(t) \/ ReapWrite(t) \/ Prepare(t) \/ Reread(t)
              \/ Call(t) \/ LateResult(t) \/ LateSubmit(t) \/ LateReopen(t)
              \/ Deadline(t) \/ TakeLease(t) \/ FreeLease(t) \/ CloseRec(t)
              \/ Record(t) \/ Verify(t) \/ LateRecord(t) \/ Crash(t)
              \/ Claim(t) \/ DropClaim(t) \/ Reserve(t)
              \/ StoreCall(t) \/ Mark(t) \/ Send(t) \/ Return(t)
  BY <1>10 DEF Evaluating, Working
<1>11. CASE UNCHANGED vars
  BY <1>1, <1>11
<1> HIDE DEF store, seen, vars
<1>12. ASSUME NEW t \in Tick,
              \/ Evaluating(t) \/ Working(t) \/ Send(t)
              \/ Deadline(t) \/ Crash(t)
       PROVE  /\ claims' \subseteq Exec
              /\ lease' \in Tick \union {"free", "dead"}
              /\ res' \in [Exec -> {"none", "R", "A", "C", "X", "F"}]
              /\ rec' \in [Exec -> {"none", "failed", "hash"}]
              /\ tx' \in [Exec -> {"none", "flying", "mined", "reverted"}]
              /\ late' \subseteq StoreCalls \X Exec
              /\ hashed' \subseteq Exec
              /\ edits' \in Nat /\ crashes' \in Nat
  BY <1>1, <1>2, <1>3, <1>4, <1>5, <1>6, <1>7, <1>10, <1>12
<1> QED BY <1>1, <1>8, <1>9, <1>11, <1>12 DEF Next

\* A tick that frees the lease is done, or takes it again.
LEMMA FreeMoves ==
    ASSUME ControlInv, NEW t \in Tick, FreeLease(t)
    PROVE  \E m \in {"none", "lease"} : Moves(t, m, W(t))
<1>1. Shaped /\ At(t, "free") /\ tick' = Put(t, Then(t, Rest(t)))
  BY ShapedFacts DEF FreeLease, Go
<1>2. M(t) = "free"
  BY <1>1, AtFacts DEF Step
<1> QED BY <1>1, <1>2, RestMoves DEF Follows, Step

\* Only a tick without the lease works without it.
LEMMA LeaseStep ==
    ASSUME ControlInv, [Next]_vars
    PROVE  \A u \in Tick :
             M(u)' \notin {"none", "verify", "check", "lease"} => lease' = u
<1>0. /\ Shaped
      /\ \A u \in Tick :
           M(u) \notin {"none", "verify", "check", "lease"} => lease = u
      /\ "free" \notin Tick /\ "dead" \notin Tick
  BY ShapedFacts, TickAssumption
<1>1. ASSUME NEW t \in Tick, NEW m, NEW w, Moves(t, m, w), UNCHANGED lease,
             m \in {"none", "lease", "verify", "check"}
               \/ M(t) \notin {"none", "verify", "check", "lease"}
      PROVE  \A u \in Tick :
               M(u)' \notin {"none", "verify", "check", "lease"} => lease' = u
  BY <1>0, <1>1 DEF Moves
<1>2. ASSUME NEW t \in Tick, Aside(t), ~TakeLease(t), ~FreeLease(t)
      PROVE  \A u \in Tick :
               M(u)' \notin {"none", "verify", "check", "lease"} => lease' = u
  <2>1. UNCHANGED lease
    BY <1>2 DEF Aside, CheckClaim, CloseRead, CloseClaim, Close, CloseRec,
         Evaluate, Park, FailWrite, Record, Verify, ReapRead, ReapWrite,
         Deadline, store
  <2>2. Leaves(t)
    BY <1>2, AsideStep
  <2> QED BY <1>1, <2>1, <2>2 DEF Leaves
<1>3. ASSUME NEW t \in Tick, TakeLease(t)
      PROVE  \A u \in Tick :
               M(u)' \notin {"none", "verify", "check", "lease"} => lease' = u
  <2>1. CASE lease = "free"
    <3>1. lease' = t
      BY <1>3, <2>1 DEF TakeLease
    <3>2. \A u \in Tick \ {t} : M(u)' = M(u)
      BY <1>3, AsideStep DEF Aside, Leaves, Moves
    <3> QED BY <1>0, <2>1, <3>1, <3>2
  <2>2. CASE lease # "free"
    <3>1. UNCHANGED lease /\ tick' = Put(t, Then(t, <<>>)) /\ At(t, "lease")
      BY <1>3, <2>2 DEF TakeLease, Go
    <3>2. M(t) = "lease"
      BY <1>0, <3>1, AtFacts DEF Step
    <3>3. Moves(t, "none", W(t))
      BY <1>0, <3>1, <3>2, CodeAgendas, Firsts, GoMoves
    <3> QED BY <1>1, <3>1, <3>3
  <2> QED BY <2>1, <2>2
<1>4. ASSUME NEW t \in Tick, FreeLease(t)
      PROVE  \A u \in Tick :
               M(u)' \notin {"none", "verify", "check", "lease"} => lease' = u
  <2>1. \E m \in {"none", "lease"} : Moves(t, m, W(t))
    BY <1>4, FreeMoves
  <2>2. lease' = lease \/ lease = t
    BY <1>4 DEF FreeLease
  <2> QED BY <1>0, <2>1, <2>2 DEF Moves
<1>5. ASSUME NEW t \in Tick, Crash(t)
      PROVE  \A u \in Tick :
               M(u)' \notin {"none", "verify", "check", "lease"} => lease' = u
  <2>1. Moves(t, "none", "none") /\ (lease' = lease \/ lease = t)
    BY <1>5, CrashStep DEF Crash
  <2> QED BY <1>0, <2>1 DEF Moves
<1>6. ASSUME NEW t \in Tick, Load(t)
      PROVE  \A u \in Tick :
               M(u)' \notin {"none", "verify", "check", "lease"} => lease' = u
  <2>1. /\ UNCHANGED lease /\ \A u \in Tick \ {t} : tick'[u] = tick[u]
        /\ M(t)' \in {"verify", "check", "lease"}
    BY <1>6, LoadStep DEF Load, store
  <2> QED BY <1>0, <2>1 DEF M
<1>7. ASSUME NEW t \in Tick, Working(t) \/ Send(t)
      PROVE  \A u \in Tick :
               M(u)' \notin {"none", "verify", "check", "lease"} => lease' = u
  BY <1>0, <1>7, WorkStep DEF Moves
<1>8. ASSUME NEW t \in Tick, \/ Claim(t) \/ Reserve(t) \/ HandleResult(t)
               \/ StoreCall(t) \/ DropClaim(t)
               \/ Submit(t) \/ Reopen(t) \/ Resubmit(t)
      PROVE  \A u \in Tick :
               M(u)' \notin {"none", "verify", "check", "lease"} => lease' = u
  <2>1. UNCHANGED lease
    BY <1>8
      DEF Claim, Reserve, HandleResult, StoreCall, DropClaim, Submit, Reopen,
          Resubmit, store
  <2>2. /\ M(t) \notin {"none", "verify", "check", "lease"}
        /\ \E m, w : Moves(t, m, w)
    BY <1>8, ClaimStep, ReserveStep, HandleResultStep, StoreCallStep,
       DropClaimStep, SubmitStep
  <2> QED BY <1>1, <2>1, <2>2
<1>9. CASE User
  <2>1. UNCHANGED lease /\ \A u \in Tick : M(u)' = M(u)
    <3>1. tick' = Stale(tick) /\ UNCHANGED lease
      BY <1>9 DEF User, UserWrites, store
    <3>2. \A u \in Tick : tick'[u].main = tick[u].main
      BY <1>0, <3>1, StaleRecord DEF Shaped, Stale
    <3> QED BY <3>1, <3>2 DEF M
  <2> QED BY <1>0, <2>1
<1>10. CASE LandsLate \/ Chain \/ LeaseExpires \/ UNCHANGED vars
  <2>1. UNCHANGED tick /\ (UNCHANGED lease \/ lease = "dead")
    BY <1>10 DEF LandsLate, Chain, LeaseExpires, vars, store
  <2> QED BY <1>0, <2>1 DEF M
<1> QED
  BY <1>2, <1>3, <1>4, <1>5, <1>6, <1>7, <1>8, <1>9, <1>10
  DEF Next, Evaluating, Aside

\* Every step keeps types, agendas and the lease in order.
LEMMA ControlNext ==
    ASSUME ControlInv, [Next]_vars
    PROVE  ControlInv'
<1>1. Shaped'
  BY ShapedStep
<1>2. goal' \in GoalRecord
  <2>1. goal \in GoalRecord
    BY GoalType, ShapedFacts
  <2> QED BY <2>1, GoalStep DEF vars
<1>3. TypeOK'
  BY <1>1, <1>2, StoreTyped DEF Shaped, TypeOK, TickRecord, GoalRecord
<1>4. goal'.status = "EXECUTING" /\ goal'.pending = None => goal'.slot \in Exec
  <2>1. CASE UNCHANGED goal
    BY <2>1 DEF ControlInv
  <2>2. ASSUME NEW t \in Tick, Submits(t) PROVE goal'.pending # None
    <3>1. E(t) \in Exec
      BY <2>2, ShapedFacts, TickFacts DEF Submits
    <3> QED BY <2>2, <3>1 DEF Submits, Exec, None
  <2> QED BY <2>1, <2>2, GoalStep DEF ControlInv, Leave, Verdict, vars
<1> QED BY <1>1, <1>3, <1>4, LeaseStep DEF ControlInv, Shaped

\* Every value stays in its type, whatever the ticks, the user, the chain and
\* the platform do: TypeOK.
THEOREM Typed == Spec => []TypeOK
<1>1. ControlInv => TypeOK
  BY DEF ControlInv
<1>2. ControlInv /\ [Next]_vars => ControlInv'
  BY ControlNext
<1> QED BY <1>1, <1>2, ControlInit, PTL DEF Spec

\* A goal that was closed stays as it was, whatever a slow tick, a late hash
\* or a verification pass still write: ClosedStaysClosed.
THEOREM ClosedGoalStaysClosed == Spec => ClosedStaysClosed
<1>1. ControlInv /\ [Next]_vars
        => [goal.status \in Terminal => goal' = goal]_vars
  BY GoalStep
<1>2. ControlInv /\ [Next]_vars => ControlInv'
  BY ControlNext
<1> QED BY <1>1, <1>2, ControlInit, PTL DEF Spec, ClosedStaysClosed

\* closeUnresolvedBroadcast never closes a goal while a live tick holds the
\* attempt or its hash: both need the lease.  NeverClosedUnderneath.
THEOREM NoCloseUnderneath == Spec => NeverClosedUnderneath
<1>1. ASSUME ControlInv, NEW t \in Tick, NEW u \in Tick,
             At(t, "close"), Holds(u, tick[t].current.exec)
      PROVE  FALSE
  <2>1. M(t) = "close" /\ lease = t
    BY <1>1, ShapedFacts, AtFacts DEF Step
  <2>2. M(u) \in {"work", "commit", "submit", "reopen", "resubmit"}
    BY <1>1, ShapedFacts, AtFacts DEF Holds, Step
  <2>3. lease = u
    BY <1>1, <2>2, ShapedFacts
  <2> QED BY <2>1, <2>2, <2>3
<1>2. ControlInv /\ [Next]_vars => ControlInv'
  BY ControlNext
<1> DEFINE Q ==
      \A t, u \in Tick :
         At(t, "close") /\ goal.status # "FAILED" /\ goal'.status = "FAILED"
                    => ~Holds(u, tick[t].current.exec)
<1>3. ControlInv /\ [Next]_vars => [Q]_vars
  BY <1>1
<1> QED BY <1>2, <1>3, ControlInit, PTL DEF Spec, NeverClosedUnderneath

-----------------------------------------------------------------------------
(* The claim of an execution and its broadcast.                            *)

\* The part of a tick other than t is what it was.
LEMMA OtherRoles ==
    ASSUME NEW t \in Tick, NEW m, NEW w, Moves(t, m, w)
    PROVE  \A u \in Tick \ {t} :
             /\ Owner(u)' <=> Owner(u)
             /\ Unsent(u)' <=> Unsent(u)
             /\ Attempting(u)' <=> Attempting(u)
             /\ M(u)' = M(u) /\ E(u)' = E(u)
BY DEF Moves, Owner, Unsent, Attempting, E

\* The part of t follows from its next step and its work.
LEMMA OwnRoles ==
    ASSUME NEW t \in Tick, NEW m, NEW w, Moves(t, m, w)
    PROVE  /\ Owner(t)' <=> \/ m \in {"reserve", "work", "relUdrop", "drop",
                                      "dropNow"}
                            \/ w \in Busy
           /\ Unsent(t)' <=>
                \/ m \in {"reserve", "relUdrop", "drop", "dropNow"}
                \/ w \in {"prepare", "mark", "call", "adapter"}
                \/ /\ m = "work"
                   /\ w \in {"REFUSED", "GOAL_CLOSED", "STATE_UNREADABLE"}
           /\ Attempting(t)' <=> w \in {"call", "adapter", "sent"}
           /\ M(t)' = m
           /\ m # "none" \/ w # "none" => E(t)' = E(t)
           /\ Owner(t)' \/ Unsent(t)' \/ Attempting(t)' \/ M(t)' = "relP"
                => E(t)' = E(t)
BY DEF Moves, Owner, Unsent, Attempting, E, Busy

\* No tick gets a new part in a broadcast, but for an attempt it has recorded
\* and a release it may make.
NoNewPart ==
    \A u \in Tick :
        /\ Owner(u)' => Owner(u)
        /\ Unsent(u)' => Unsent(u)
        /\ Attempting(u)' => Attempting(u) \/ res'[E(u)] \in {"A", "C", "X"}
        /\ M(u)' = "relP" =>
             M(u) = "relP" \/ (Dead(E(u)) /\ tx[E(u)] = "none")'
        /\ Owner(u)' \/ Unsent(u)' \/ Attempting(u)' \/ M(u)' = "relP"
             => E(u)' = E(u)

\* Who plays a part in a broadcast is about an execution.
LEMMA OwnerFacts ==
    ASSUME ControlInv, NEW t \in Tick
    PROVE  /\ Unsent(t) \/ Attempting(t) => Owner(t)
           /\ Owner(t) \/ M(t) = "relP" => E(t) \in Exec
<1>1. Unsent(t) \/ Attempting(t) => Owner(t)
  BY DEF Unsent, Attempting, Owner, Busy
<1>2. Owner(t) \/ M(t) = "relP" => M(t) # "none" \/ W(t) # "none"
  BY DEF Owner, Busy
<1> QED BY <1>1, <1>2, ShapedFacts, TickFacts

\* A spend that was attempted stays counted, or is given back for good.
LEMMA StoreKeeps ==
    ASSUME ControlInv, BroadcastInv, NoNewPart, UNCHANGED claims,
           \A x \in Exec : tx'[x] = "none" <=> tx[x] = "none",
           \A x \in Exec :
             /\ res[x] \in {"A", "C", "X"} =>
                  \/ res'[x] \in {"A", "C", "X"}
                  \/ Dead(x) /\ tx[x] = "none"
             /\ <<"relP", x>> \in late' =>
                  <<"relP", x>> \in late \/ (Dead(x) /\ tx[x] = "none")
             /\ <<"drop", x>> \in late' =>
                  \/ <<"drop", x>> \in late
                  \/ /\ ~Dead(x) /\ x \in claims /\ tx[x] = "none"
                     /\ \A u \in Tick : Owner(u)' => E(u) # x
    PROVE  BroadcastInv'
<1>1. \A u \in Tick :
        /\ Owner(u)' \/ Unsent(u)' \/ Attempting(u)' \/ M(u)' = "relP"
             => E(u)' = E(u)
        /\ Owner(u) \/ M(u) = "relP" => E(u) \in Exec
        /\ Unsent(u) \/ Attempting(u) => Owner(u)
  BY OwnerFacts DEF NoNewPart
<1>2. OwnersClaim' /\ OwnersAlone'
  BY <1>1 DEF BroadcastInv, OwnersClaim, OwnersAlone, NoNewPart
<1>3. UnsentTx'
  BY <1>1 DEF BroadcastInv, UnsentTx, NoNewPart
<1>4. AttemptsMarked'
  BY <1>1 DEF BroadcastInv, AttemptsMarked, NoNewPart, Dead
<1>5. \A x \in Exec : Dead(x) => Dead(x)'
  BY <1>1 DEF Dead, NoNewPart
<1>6. ReleasesDead'
  <2>1. ASSUME NEW u \in Tick, M(u)' = "relP"
        PROVE  Dead(E(u))' /\ tx'[E(u)'] = "none"
    BY <1>1, <1>5, <2>1 DEF BroadcastInv, ReleasesDead, NoNewPart
  <2>2. ASSUME NEW x \in Exec, <<"relP", x>> \in late'
        PROVE  Dead(x)' /\ tx'[x] = "none"
    BY <1>5, <2>2 DEF BroadcastInv, ReleasesDead
  <2> QED BY <2>1, <2>2 DEF ReleasesDead
<1>7. LateDrops'
  BY <1>1 DEF BroadcastInv, LateDrops, NoNewPart
<1>8. SentCounted'
  BY DEF BroadcastInv, SentCounted
<1> QED BY <1>2, <1>3, <1>4, <1>6, <1>7, <1>8 DEF BroadcastInv

\* The claim of an execution nobody has broadcast or still may is dropped.
LEMMA DropKeeps ==
    ASSUME ControlInv, BroadcastInv, NoNewPart, UNCHANGED <<res, tx>>,
           late' \subseteq late,
           NEW e, claims' = claims \ {e}, ~Dead(e), tx[e] = "none",
           \A u \in Tick : Owner(u)' => E(u) # e,
           <<"drop", e>> \notin late'
    PROVE  BroadcastInv'
<1>1. \A u \in Tick :
        /\ Owner(u)' \/ Unsent(u)' \/ Attempting(u)' \/ M(u)' = "relP"
             => E(u)' = E(u)
        /\ Owner(u) \/ M(u) = "relP" => E(u) \in Exec
        /\ Unsent(u) \/ Attempting(u) => Owner(u)
  BY OwnerFacts DEF NoNewPart
<1>2. OwnersClaim' /\ OwnersAlone'
  BY <1>1 DEF BroadcastInv, OwnersClaim, OwnersAlone, NoNewPart
<1>3. UnsentTx' /\ AttemptsMarked'
  BY <1>1 DEF BroadcastInv, UnsentTx, AttemptsMarked, NoNewPart
<1>5. \A x \in Exec : Dead(x) => Dead(x)'
  BY <1>1 DEF Dead, NoNewPart
<1>6. ReleasesDead'
  <2>1. ASSUME NEW u \in Tick, M(u)' = "relP"
        PROVE  Dead(E(u))' /\ tx'[E(u)'] = "none"
    BY <1>1, <1>5, <2>1 DEF BroadcastInv, ReleasesDead, NoNewPart
  <2>2. ASSUME NEW x \in Exec, <<"relP", x>> \in late'
        PROVE  Dead(x)' /\ tx'[x] = "none"
    BY <1>5, <2>2 DEF BroadcastInv, ReleasesDead
  <2> QED BY <2>1, <2>2 DEF ReleasesDead
<1>7. LateDrops'
  BY <1>1 DEF BroadcastInv, LateDrops, NoNewPart
<1>8. SentCounted'
  BY DEF BroadcastInv, SentCounted
<1> QED BY <1>2, <1>3, <1>6, <1>7, <1>8 DEF BroadcastInv

\* How the work of a tick goes on.
LEMMA WorkGoes ==
    ASSUME Shaped, NEW t \in Tick, NEW r, DOMAIN r = DOMAIN Idle,
           r = [f \in DOMAIN Idle |-> r[f]],
           tick' = Put(t, r) \/ tick' = Stale(Put(t, r))
    PROVE  W(t)' = r.work
<1> DEFINE q == IF r.main = <<>> /\ r.work = "none" THEN Idle ELSE r
<1>1. q.work = r.work /\ "work" \in DOMAIN q
  BY DEF Idle
<1>2. Put(t, r) = [tick EXCEPT ![t] = q]
  BY DEF Put
<1> HIDE DEF q
<1>3. Put(t, r)[t] = q
  BY <1>2 DEF Shaped
<1>4. CASE tick' = Put(t, r)
  BY <1>1, <1>3, <1>4 DEF W
<1>5. CASE tick' = Stale(Put(t, r))
  <2>1. tick'[t] = [q EXCEPT !.fresh = {}]
    BY <1>3, <1>5 DEF Stale
  <2> QED BY <1>1, <2>1 DEF W
<1> QED BY <1>4, <1>5

\* What each step of the work does to it.
LEMMA WorkLinks ==
    ASSUME ControlInv, NEW t \in Tick
    PROVE  /\ Prepare(t) => /\ W(t) = "prepare"
                            /\ W(t)' \in {"REFUSED", "NOT_PREPARED"}
           /\ Reread(t) => /\ W(t) = "prepare"
                           /\ W(t)' \in {"mark", "GOAL_CLOSED",
                                         "STATE_UNREADABLE"}
           /\ Mark(t) =>
                /\ W(t) = "mark"
                /\ \/ /\ Land("mark", E(t)) /\ UNCHANGED late
                      /\ W(t)' = IF res'[E(t)] = "A" THEN "call"
                                 ELSE "ATTEMPT_NOT_RECORDED"
                   \/ /\ GivenUp("mark", E(t))
                      /\ W(t)' = "ATTEMPT_NOT_RECORDED"
           /\ Call(t) => /\ W(t) = "call"
                         /\ W(t)' \in {"adapter", "SWITCH_REFUSED",
                                       "BUDGET_ENDED"}
           /\ Send(t) => W(t) = "adapter" /\ W(t)' = "sent"
           /\ Return(t) =>
                \/ /\ W(t) \in {"adapter", "sent"} /\ UNCHANGED hashed
                   /\ W(t)' \in {"RPC_ERROR", "ADAPTER_THREW"}
                \/ /\ W(t) = "adapter" /\ W(t)' = "REFUSED"
                   /\ UNCHANGED hashed
                \/ /\ W(t) = "sent" /\ W(t)' = "HASH"
                   /\ hashed' = hashed \union {E(t)}
           /\ LateResult(t) =>
                /\ W(t) \in Result
                /\ W(t)' = IF W(t) = "HASH" THEN "lateSubmit" ELSE "none"
           /\ LateSubmit(t) => /\ W(t) \in {"lateSubmit", "lateResubmit"}
                               /\ W(t)' \in {"lateReopen", "lateRec"}
           /\ LateReopen(t) => /\ W(t) = "lateReopen"
                               /\ W(t)' \in {"lateResubmit", "lateRec"}
           /\ LateRecord(t) => W(t) = "lateRec" /\ W(t)' = "none"
<1>0. Shaped
  BY ShapedFacts
<1>1. tick[t] = [f \in DOMAIN Idle |-> tick[t][f]]
  BY <1>0 DEF Shaped, TickRecord, Idle
<1>2. ASSUME NEW w, NEW r, r = [tick[t] EXCEPT !.work = w],
             tick' = Put(t, r) \/ tick' = Stale(Put(t, r))
      PROVE  W(t)' = w
  <2>1. r = [f \in DOMAIN Idle |-> r[f]] /\ r.work = w
    BY <1>1, <1>2 DEF Idle
  <2> QED BY <1>0, <1>2, <2>1, WorkGoes
<1>3. ASSUME NEW w, Work(t, w) PROVE W(t)' = w
  BY <1>2, <1>3 DEF Work
<1>4. ASSUME NEW w, tick' = Put(t, InWork(t, w))
                    \/ tick' = Stale(Put(t, InWork(t, w)))
      PROVE  W(t)' = w
  BY <1>2, <1>4 DEF InWork
<1>5. ASSUME NEW w, NEW r, NEW f, NEW c,
             r = [InWork(t, w) EXCEPT !.fresh = f, !.current = c],
             tick' = Put(t, r)
      PROVE  W(t)' = w
  <2>1. r = [x \in DOMAIN Idle |-> r[x]] /\ r.work = w
    BY <1>1, <1>5 DEF Idle, InWork
  <2> QED BY <1>0, <1>5, <2>1, WorkGoes
<1>6. ASSUME NEW w, NEW r, NEW f,
             r = [InWork(t, w) EXCEPT !.fresh = f],
             tick' = Put(t, r)
      PROVE  W(t)' = w
  <2>1. r = [x \in DOMAIN Idle |-> r[x]] /\ r.work = w
    BY <1>1, <1>6 DEF Idle, InWork
  <2> QED BY <1>0, <1>6, <2>1, WorkGoes
<1>7. Prepare(t) => /\ W(t) = "prepare"
                    /\ W(t)' \in {"REFUSED", "NOT_PREPARED"}
  BY <1>3 DEF Prepare, W
<1>8. Reread(t) => /\ W(t) = "prepare"
                   /\ W(t)' \in {"mark", "GOAL_CLOSED", "STATE_UNREADABLE"}
  BY <1>3 DEF Reread, W
<1>9. Mark(t) =>
        /\ W(t) = "mark"
        /\ \/ /\ Land("mark", E(t)) /\ UNCHANGED late
              /\ W(t)' = IF res'[E(t)] = "A" THEN "call"
                         ELSE "ATTEMPT_NOT_RECORDED"
           \/ /\ GivenUp("mark", E(t))
              /\ W(t)' = "ATTEMPT_NOT_RECORDED"
  BY <1>3 DEF Mark, W, E, ExecOf
<1>10. Call(t) => /\ W(t) = "call"
                  /\ W(t)' \in {"adapter", "SWITCH_REFUSED", "BUDGET_ENDED"}
  BY <1>3 DEF Call, W
<1>11. Send(t) => W(t) = "adapter" /\ W(t)' = "sent"
  BY <1>3 DEF Send, W
<1>12. Return(t) =>
         \/ /\ W(t) \in {"adapter", "sent"} /\ UNCHANGED hashed
            /\ W(t)' \in {"RPC_ERROR", "ADAPTER_THREW"}
         \/ /\ W(t) = "adapter" /\ W(t)' = "REFUSED"
            /\ UNCHANGED hashed
         \/ /\ W(t) = "sent" /\ W(t)' = "HASH"
            /\ hashed' = hashed \union {E(t)}
  BY <1>3 DEF Return, W, E, ExecOf
<1>13. LateResult(t) =>
         /\ W(t) \in Result
         /\ W(t)' = IF W(t) = "HASH" THEN "lateSubmit" ELSE "none"
  BY <1>4, <1>5 DEF LateResult, W
<1>14. LateSubmit(t) => /\ W(t) \in {"lateSubmit", "lateResubmit"}
                        /\ W(t)' \in {"lateReopen", "lateRec"}
  BY <1>4 DEF LateSubmit, Try, W
<1>15. LateReopen(t) => /\ W(t) = "lateReopen"
                        /\ W(t)' \in {"lateResubmit", "lateRec"}
  BY <1>4, <1>6 DEF LateReopen, W
<1>16. LateRecord(t) => W(t) = "lateRec" /\ W(t)' = "none"
  BY <1>3 DEF LateRecord, W
<1> QED
  BY <1>7, <1>8, <1>9, <1>10, <1>11, <1>12, <1>13, <1>14, <1>15, <1>16

\* The steps that give nobody a part in a broadcast.
LEMMA NoNewPartStep ==
    ASSUME ControlInv, NEW t \in Tick,
           \/ Aside(t) \/ Load(t) \/ Crash(t)
           \/ Submit(t) \/ Reopen(t) \/ Resubmit(t)
           \/ Prepare(t) \/ Reread(t) \/ Call(t) \/ Return(t)
           \/ LateResult(t) \/ LateSubmit(t) \/ LateReopen(t) \/ LateRecord(t)
    PROVE  NoNewPart /\ UNCHANGED <<claims, res, late, tx>>
<1> USE DEF store, seen
<1>1. UNCHANGED <<claims, res, late, tx>>
  BY DEF Aside, CheckClaim, TakeLease, FreeLease, CloseRead, CloseClaim, Close,
     CloseRec, Evaluate, Park, FailWrite, Record, Verify, ReapRead, ReapWrite,
     Deadline, Load, Crash, Submit, Reopen, Resubmit, Prepare, Reread, Call,
     Return, LateResult, LateSubmit, LateReopen, LateRecord
<1>2. ASSUME NEW m, NEW w, Moves(t, m, w),
             m \in Plain \union {"reopen", "resubmit"},
             w \in Busy => w = W(t)
      PROVE  NoNewPart
  BY <1>2, OtherRoles, OwnRoles
  DEF NoNewPart, Plain, Owner, Unsent, Attempting, Busy
<1>3. ASSUME Moves(t, M(t), W(t)'),
             W(t)' \in {"call", "adapter"} => W(t) \in {"call", "adapter"},
             W(t)' = "sent" => W(t) = "sent",
             W(t)' \in Busy => W(t) \in Busy,
             W(t)' \in {"prepare", "mark", "REFUSED", "GOAL_CLOSED",
                        "STATE_UNREADABLE"}
               => W(t) \in {"prepare", "mark", "call", "adapter"}
      PROVE  NoNewPart
  BY <1>3, OtherRoles, OwnRoles
  DEF NoNewPart, Owner, Unsent, Attempting, Busy
<1>4. NoNewPart
  <2>1. CASE Aside(t)
    BY <1>2, <2>1, AsideStep DEF Leaves
  <2>2. CASE Crash(t)
    BY <1>2, <2>2, CrashStep DEF Plain, Busy
  <2>3. CASE Submit(t) \/ Reopen(t) \/ Resubmit(t)
    BY <1>2, <2>3, SubmitStep DEF Plain, Busy
  <2>4. CASE Load(t)
    <3>1. /\ \A u \in Tick \ {t} : tick'[u] = tick[u]
          /\ M(t)' \in {"verify", "check", "lease"} /\ W(t)' = "none"
      BY <2>4, LoadStep
    <3>2. \A u \in Tick \ {t} : M(u)' = M(u) /\ W(u)' = W(u) /\ E(u)' = E(u)
      BY <3>1 DEF M, W, E
    <3> QED
      BY <3>1, <3>2 DEF NoNewPart, Owner, Unsent, Attempting, Busy
  <2>5. CASE \/ Prepare(t) \/ Reread(t) \/ Call(t) \/ Return(t)
             \/ LateResult(t) \/ LateSubmit(t) \/ LateReopen(t)
             \/ LateRecord(t)
    <3>1. Moves(t, M(t), W(t)')
      BY <2>5, WorkStep DEF Working
    <3> QED BY <1>3, <2>5, <3>1, WorkLinks DEF Busy, Result
  <2> QED BY <2>1, <2>2, <2>3, <2>4, <2>5
<1> QED BY <1>1, <1>4

\* So does one that leaves the store alone.
LEMMA NoNewPartKeeps ==
    ASSUME ControlInv, BroadcastInv, NoNewPart,
           UNCHANGED <<claims, res, late>>,
           \A x \in Exec : tx'[x] = "none" <=> tx[x] = "none"
    PROVE  BroadcastInv'
BY StoreKeeps

\* The tick that is the first to claim an execution is its owner.
LEMMA ClaimKeeps ==
    ASSUME ControlInv, BroadcastInv, NEW t \in Tick, Claim(t)
    PROVE  BroadcastInv'
<1>0. UNCHANGED <<res, late, tx>> /\ claims' = claims \union {E(t)}
  BY DEF Claim, E, ExecOf, seen
<1>1. M(t) = "claim" /\ W(t) = "none" /\ E(t) \in Exec
  BY ClaimStep, ShapedFacts, TickFacts
<1>2. CASE E(t) \in claims
  <2>1. Moves(t, "close", "none")
    BY <1>2, ClaimStep
  <2>2. NoNewPart
    BY <2>1, OtherRoles, OwnRoles DEF NoNewPart, Busy
  <2> QED BY <1>0, <1>2, <2>2, NoNewPartKeeps
<1>3. CASE E(t) \notin claims
  <2>1. Moves(t, "reserve", "none")
    BY <1>3, ClaimStep
  <2>2. /\ \A u \in Tick \ {t} :
             /\ Owner(u)' <=> Owner(u)
             /\ Unsent(u)' <=> Unsent(u)
             /\ Attempting(u)' <=> Attempting(u)
             /\ M(u)' = M(u) /\ E(u)' = E(u)
        /\ Owner(t)' /\ Unsent(t)' /\ ~Attempting(t)' /\ M(t)' # "relP"
        /\ E(t)' = E(t)
    BY <2>1, OtherRoles, OwnRoles DEF Busy
  <2>3. /\ tx[E(t)] = "none" /\ ~Dead(E(t))
        /\ <<"drop", E(t)>> \notin late /\ <<"relP", E(t)>> \notin late
        /\ \A u \in Tick : Owner(u) \/ M(u) = "relP" => E(u) # E(t)
    BY <1>1, <1>3 DEF BroadcastInv, SentCounted, LateDrops, OwnersClaim,
       ReleasesDead, Dead
  <2>4. OwnersClaim' /\ OwnersAlone'
    BY <1>0, <2>2, <2>3 DEF BroadcastInv, OwnersClaim, OwnersAlone
  <2>5. UnsentTx' /\ AttemptsMarked'
    BY <1>0, <2>2, <2>3 DEF BroadcastInv, UnsentTx, AttemptsMarked
  <2>6. \A x \in Exec \ {E(t)} : Dead(x) => Dead(x)'
    BY <1>0, <2>2 DEF Dead
  <2>7. ReleasesDead'
    <3>1. ASSUME NEW u \in Tick, M(u)' = "relP"
          PROVE  Dead(E(u))' /\ tx'[E(u)'] = "none"
      <4>1. u # t /\ M(u) = "relP" /\ E(u)' = E(u)
        BY <2>2, <3>1
      <4>2. E(u) \in Exec \ {E(t)} /\ Dead(E(u)) /\ tx[E(u)] = "none"
        BY <2>3, <4>1, OwnerFacts DEF BroadcastInv, ReleasesDead
      <4> QED BY <1>0, <2>6, <4>1, <4>2
    <3>2. ASSUME NEW x \in Exec, <<"relP", x>> \in late'
          PROVE  Dead(x)' /\ tx'[x] = "none"
      BY <1>0, <2>3, <2>6, <3>2 DEF BroadcastInv, ReleasesDead
    <3> QED BY <3>1, <3>2 DEF ReleasesDead
  <2>8. LateDrops' /\ SentCounted'
    BY <1>0, <2>2, <2>3 DEF BroadcastInv, LateDrops, SentCounted
  <2> QED BY <2>4, <2>5, <2>7, <2>8 DEF BroadcastInv
<1> QED BY <1>2, <1>3

\* The broadcast of the one attempt at an execution.
LEMMA SendKeeps ==
    ASSUME ControlInv, BroadcastInv, NEW t \in Tick, Send(t)
    PROVE  BroadcastInv'
<1>0. /\ UNCHANGED <<claims, res, late>>
      /\ tx' = [tx EXCEPT ![E(t)] = "flying"]
      /\ tx \in [Exec -> {"none", "flying", "mined", "reverted"}]
  BY ShapedFacts DEF Send, store, E, ExecOf, TypeOK
<1>1. W(t) = "adapter" /\ W(t)' = "sent" /\ E(t) \in Exec
  BY WorkLinks, ShapedFacts, TickFacts
<1>2. /\ Moves(t, M(t), "sent")
      /\ M(t) \in {"none", "work", "markX", "failInfra", "rec", "free"}
  BY <1>1, WorkStep, ShapedFacts, TickFacts
<1>3. Owner(t) /\ Attempting(t)
  BY <1>1 DEF Owner, Attempting, Busy
<1>4. /\ \A u \in Tick \ {t} :
           /\ Owner(u)' <=> Owner(u)
           /\ Unsent(u)' <=> Unsent(u)
           /\ Attempting(u)' <=> Attempting(u)
           /\ M(u)' = M(u) /\ E(u)' = E(u)
      /\ Owner(t)' /\ Attempting(t)' /\ ~Unsent(t)' /\ M(t)' # "relP"
      /\ E(t)' = E(t)
  BY <1>2, OtherRoles, OwnRoles DEF Busy
<1>5. /\ E(t) \in claims /\ ~Dead(E(t)) /\ res[E(t)] \in {"A", "C", "X"}
      /\ <<"drop", E(t)>> \notin late /\ <<"relP", E(t)>> \notin late
      /\ \A u \in Tick \ {t} : Owner(u) \/ M(u) = "relP" => E(u) # E(t)
  BY <1>1, <1>3 DEF BroadcastInv, SentCounted, LateDrops, OwnersClaim,
     OwnersAlone, AttemptsMarked, ReleasesDead, Dead
<1>6. \A x \in Exec \ {E(t)} : tx'[x] = tx[x]
  BY <1>0
<1>7. OwnersClaim' /\ OwnersAlone' /\ AttemptsMarked'
  BY <1>0, <1>3, <1>4
  DEF BroadcastInv, OwnersClaim, OwnersAlone, AttemptsMarked
<1>8. UnsentTx'
  <2> SUFFICES ASSUME NEW u \in Tick, Unsent(u)' PROVE tx'[E(u)'] = "none"
    BY DEF UnsentTx
  <2>1. u # t /\ Unsent(u) /\ E(u)' = E(u)
    BY <1>4
  <2>2. E(u) \in Exec \ {E(t)} /\ tx[E(u)] = "none"
    BY <1>5, <2>1, OwnerFacts DEF BroadcastInv, UnsentTx
  <2> QED BY <1>6, <2>1, <2>2
<1>9. \A x \in Exec : Dead(x) => Dead(x)' /\ tx'[x] = tx[x]
  BY <1>0, <1>3, <1>4, <1>5, <1>6 DEF Dead
<1>10. ReleasesDead'
  <2>1. ASSUME NEW u \in Tick, M(u)' = "relP"
        PROVE  Dead(E(u))' /\ tx'[E(u)'] = "none"
    <3>1. u # t /\ M(u) = "relP" /\ E(u)' = E(u)
      BY <1>4, <2>1
    <3>2. E(u) \in Exec /\ Dead(E(u)) /\ tx[E(u)] = "none"
      BY <3>1, OwnerFacts DEF BroadcastInv, ReleasesDead
    <3> QED BY <1>9, <3>1, <3>2
  <2>2. ASSUME NEW x \in Exec, <<"relP", x>> \in late'
        PROVE  Dead(x)' /\ tx'[x] = "none"
    BY <1>0, <1>9, <2>2 DEF BroadcastInv, ReleasesDead
  <2> QED BY <2>1, <2>2 DEF ReleasesDead
<1>11. LateDrops' /\ SentCounted'
  BY <1>0, <1>4, <1>5, <1>6 DEF BroadcastInv, LateDrops, SentCounted
<1> QED BY <1>7, <1>8, <1>10, <1>11 DEF BroadcastInv

\* An owner that stops before it broadcasts leaves a dead execution.
LEMMA OwnerStops ==
    ASSUME ControlInv, BroadcastInv, NEW t \in Tick, Owner(t), Unsent(t),
           NEW m, Moves(t, m, "none"),
           m \notin {"reserve", "work", "relUdrop", "drop", "dropNow", "none"},
           UNCHANGED <<claims, late, tx>>
    PROVE  NoNewPart
<1>1. /\ \A u \in Tick \ {t} :
           /\ Owner(u)' <=> Owner(u)
           /\ Unsent(u)' <=> Unsent(u)
           /\ Attempting(u)' <=> Attempting(u)
           /\ M(u)' = M(u) /\ E(u)' = E(u)
      /\ ~Owner(t)' /\ ~Unsent(t)' /\ ~Attempting(t)' /\ E(t)' = E(t)
  BY OtherRoles, OwnRoles DEF Busy
<1>2. /\ E(t) \in claims /\ tx[E(t)] = "none" /\ E(t) \in Exec
      /\ <<"drop", E(t)>> \notin late
      /\ \A u \in Tick \ {t} : Owner(u) => E(u) # E(t)
  BY OwnerFacts DEF BroadcastInv, OwnersClaim, UnsentTx, LateDrops, OwnersAlone
<1>3. (Dead(E(t)) /\ tx[E(t)] = "none")'
  BY <1>1, <1>2 DEF Dead
<1> QED BY <1>1, <1>3 DEF NoNewPart

\* After a refusal the spend may be released: nobody will broadcast.
LEMMA HandleResultKeeps ==
    ASSUME ControlInv, BroadcastInv, NEW t \in Tick, HandleResult(t)
    PROVE  BroadcastInv'
<1>0. UNCHANGED <<claims, res, late, tx>>
  BY DEF HandleResult, store
<1>1. PICK steps \in Agenda(W(t)) : Moves(t, First(steps), "none")
  BY HandleResultStep
<1>2. M(t) = "work" /\ W(t) \in Result /\ Owner(t)
  BY HandleResultStep DEF Owner
<1>3. CASE W(t) = "REFUSED"
  <2>1. First(steps) = "relP" /\ Unsent(t)
    BY <1>2, <1>3, AgendaFacts DEF Unsent
  <2>2. NoNewPart
    BY <1>0, <1>1, <1>2, <2>1, OwnerStops
  <2> QED BY <1>0, <2>2, NoNewPartKeeps
<1>4. CASE W(t) \in {"GOAL_CLOSED", "STATE_UNREADABLE"}
  <2>1. First(steps) = "relUdrop" /\ Unsent(t)
    BY <1>2, <1>4, AgendaFacts DEF Unsent
  <2>2. NoNewPart
    BY <1>1, <1>2, <2>1, OtherRoles, OwnRoles DEF NoNewPart, Busy
  <2> QED BY <1>0, <2>2, NoNewPartKeeps
<1>5. CASE W(t) \notin {"REFUSED", "GOAL_CLOSED", "STATE_UNREADABLE"}
  <2>1. First(steps) \in Plain \union {"commit"}
    BY <1>2, <1>5, AgendaFacts
  <2>2. NoNewPart
    BY <1>1, <1>2, <2>1, OtherRoles, OwnRoles DEF NoNewPart, Busy, Plain
  <2> QED BY <1>0, <2>2, NoNewPartKeeps
<1> QED BY <1>3, <1>4, <1>5

\* The owner of a claim reserves, or gives up before it broadcasts.
LEMMA ReserveKeeps ==
    ASSUME ControlInv, BroadcastInv, NEW t \in Tick, Reserve(t)
    PROVE  BroadcastInv'
<1>0. UNCHANGED <<claims, late, tx>>
  BY DEF Reserve, seen
<1>1. M(t) = "reserve" /\ W(t) = "none" /\ Owner(t) /\ Unsent(t)
  BY ReserveStep DEF Owner, Unsent
<1>2. E(t) \in Exec /\ res \in [Exec -> {"none", "R", "A", "C", "X", "F"}]
  BY <1>1, OwnerFacts, ShapedFacts DEF TypeOK
<1>3. \A x \in Exec : res[x] \in {"A", "C", "X"} => res'[x] = res[x]
  BY <1>2, ReserveStep
<1>4. NoNewPart
  <2>1. PICK m \in {"relP", "relUdrop", "work", "park", "strike", "close"} :
          Moves(t, m, IF m = "work" THEN "prepare" ELSE "none")
    BY ReserveStep
  <2>2. CASE m \in {"relP", "park", "strike", "close"}
    BY <1>0, <1>1, <2>1, <2>2, OwnerStops
  <2>3. CASE m \in {"relUdrop", "work"}
    BY <1>1, <2>1, <2>3, OtherRoles, OwnRoles DEF NoNewPart, Busy
  <2> QED BY <2>1, <2>2, <2>3
<1> QED BY <1>0, <1>3, <1>4, StoreKeeps

\* What a store call makes of a reservation: only a release that proves there
\* was no attempt gives up an attempt.
LEMMA LandFacts ==
    ASSUME TypeOK, NEW e \in Exec, NEW call \in StoreCalls, Land(call, e)
    PROVE  /\ \A x \in Exec \ {e} : res'[x] = res[x]
           /\ res'[e] = After(call, res[e])
           /\ call # "relP" /\ res[e] \in {"A", "C", "X"}
                => res'[e] \in {"A", "C", "X"}
           /\ call # "drop" => claims' = claims
           /\ call = "drop" => claims' = claims \ {e} /\ res' = res
<1>1. res \in [Exec -> {"none", "R", "A", "C", "X", "F"}]
  BY DEF TypeOK
<1>2. /\ \A x \in Exec \ {e} : res'[x] = res[x]
      /\ res'[e] = After(call, res[e])
  BY <1>1 DEF Land
<1>3. After("drop", res[e]) = res[e]
  BY DEF After
<1>4. call # "relP" /\ res[e] \in {"A", "C", "X"}
        => After(call, res[e]) \in {"A", "C", "X"}
  BY DEF After, StoreCalls
<1>5. call = "drop" => res' = res
  BY <1>1, <1>3 DEF Land
<1> QED BY <1>2, <1>4, <1>5 DEF Land

\* Only a recorded attempt goes on to the adapter.
LEMMA MarkKeeps ==
    ASSUME ControlInv, BroadcastInv, NEW t \in Tick, Mark(t)
    PROVE  BroadcastInv'
<1>0. UNCHANGED tx /\ "mark" \in StoreCalls /\ TypeOK
  BY ShapedFacts DEF Mark, StoreCalls
<1>1. /\ W(t) = "mark" /\ Moves(t, M(t), W(t)')
      /\ \/ /\ Land("mark", E(t)) /\ UNCHANGED late
            /\ W(t)' = IF res'[E(t)] = "A" THEN "call"
                       ELSE "ATTEMPT_NOT_RECORDED"
         \/ /\ GivenUp("mark", E(t))
            /\ W(t)' = "ATTEMPT_NOT_RECORDED"
  BY WorkLinks, WorkStep DEF Working
<1>2. E(t) \in Exec /\ Owner(t) /\ Unsent(t)
  BY <1>1, OwnerFacts DEF Owner, Unsent, Busy
<1>3. NoNewPart
  BY <1>1, <1>2, OtherRoles, OwnRoles DEF NoNewPart, Owner, Busy
<1>4. CASE Land("mark", E(t)) /\ UNCHANGED late
  BY <1>0, <1>2, <1>3, <1>4, LandFacts, StoreKeeps
<1>5. CASE GivenUp("mark", E(t))
  BY <1>0, <1>2, <1>3, <1>5, StoreKeeps DEF GivenUp
<1> QED BY <1>1, <1>4, <1>5

\* A claim is dropped by its owner, before it broadcast.
LEMMA OwnDrop ==
    ASSUME ControlInv, BroadcastInv, NEW t \in Tick,
           M(t) \in {"drop", "dropNow"}, NEW m \in Plain, Moves(t, m, W(t)),
           UNCHANGED <<res, tx, late>>, claims' = claims \ {E(t)}
    PROVE  BroadcastInv'
<1>1. Owner(t) /\ Unsent(t) /\ W(t) = "none" /\ E(t) \in Exec
  BY OwnerFacts, ShapedFacts, TickFacts DEF Owner, Unsent
<1>2. /\ NoNewPart /\ ~Owner(t)'
      /\ \A u \in Tick \ {t} : Owner(u)' <=> Owner(u)
  BY <1>1, OtherRoles, OwnRoles DEF NoNewPart, Plain, Busy
<1>3. /\ tx[E(t)] = "none" /\ ~Dead(E(t)) /\ <<"drop", E(t)>> \notin late
      /\ \A u \in Tick \ {t} : Owner(u) => E(u) # E(t)
  BY <1>1 DEF BroadcastInv, UnsentTx, LateDrops, OwnersAlone, Dead
<1>4. \A u \in Tick : Owner(u)' => E(u) # E(t)
  BY <1>2, <1>3
<1> QED BY <1>2, <1>3, <1>4, DropKeeps

\* A store call, in time or given up on, keeps the broadcasts in order.
LEMMA StoreCallKeeps ==
    ASSUME ControlInv, BroadcastInv, NEW t \in Tick, StoreCall(t)
    PROVE  BroadcastInv'
<1>0. UNCHANGED tx /\ TypeOK
  BY ShapedFacts DEF StoreCall
<1>1. PICK call \in {"relP", "relU", "markX", "commit", "drop"} :
        /\ M(t) = call \/ (call = "relU" /\ M(t) = "relUdrop")
        /\ Bounded(call, E(t))
  BY StoreCallStep
<1>2. PICK m \in Plain \union {"drop", "dropNow", "submit"} :
        Moves(t, m, W(t)) /\ Follows(M(t), m)
  BY StoreCallStep
<1>3. call \in StoreCalls /\ E(t) \in Exec
  BY <1>1, ShapedFacts, TickFacts DEF StoreCalls
<1>4. NoNewPart
  <2>1. m \in {"drop", "dropNow"} => M(t) = "relUdrop"
    BY <1>2 DEF Follows, Plain
  <2> QED
    BY <1>1, <1>2, <2>1, OtherRoles, OwnRoles
    DEF NoNewPart, Owner, Unsent, Attempting, Plain, Busy
<1>5. call = "relP" => Dead(E(t)) /\ tx[E(t)] = "none"
  BY <1>1 DEF BroadcastInv, ReleasesDead
<1>6. CASE call # "drop" /\ Land(call, E(t)) /\ UNCHANGED late
  BY <1>0, <1>3, <1>4, <1>5, <1>6, LandFacts, StoreKeeps
<1>7. CASE call = "drop" /\ Land(call, E(t)) /\ UNCHANGED late
  <2>1. m \in Plain
    BY <1>1, <1>2, <1>7 DEF Follows
  <2> QED BY <1>0, <1>1, <1>2, <1>3, <1>7, <2>1, LandFacts, OwnDrop
<1>8. CASE GivenUp(call, E(t))
  <2>1. /\ UNCHANGED <<claims, res>>
        /\ late' \subseteq late \union {<<call, E(t)>>}
    BY <1>8 DEF GivenUp
  <2>2. ASSUME call = "drop"
        PROVE  /\ ~Dead(E(t)) /\ E(t) \in claims /\ tx[E(t)] = "none"
               /\ \A u \in Tick : Owner(u)' => E(u) # E(t)
    <3>1. Owner(t) /\ Unsent(t) /\ W(t) = "none"
      BY <1>1, <2>2, ShapedFacts, TickFacts DEF Owner, Unsent
    <3>2. /\ tx[E(t)] = "none" /\ ~Dead(E(t)) /\ E(t) \in claims
          /\ \A u \in Tick \ {t} : Owner(u) => E(u) # E(t)
      BY <1>3, <3>1
      DEF BroadcastInv, UnsentTx, OwnersClaim, OwnersAlone, Dead
    <3>3. m \in Plain
      BY <1>1, <1>2, <2>2 DEF Follows
    <3>4. ~Owner(t)' /\ \A u \in Tick \ {t} : Owner(u)' <=> Owner(u)
      BY <1>2, <3>1, <3>3, OtherRoles, OwnRoles DEF Plain, Busy
    <3> QED BY <3>2, <3>4
  <2> QED BY <1>0, <1>3, <1>4, <1>5, <2>1, <2>2, StoreKeeps
<1> QED BY <1>1, <1>6, <1>7, <1>8 DEF Bounded

\* The claim dropped at the budget gate is one nobody broadcast under.
LEMMA DropClaimKeeps ==
    ASSUME ControlInv, BroadcastInv, NEW t \in Tick, DropClaim(t)
    PROVE  BroadcastInv'
<1>1. UNCHANGED <<res, late, tx>> /\ claims' = claims \ {E(t)}
  BY DEF DropClaim, E, ExecOf
<1> QED BY <1>1, DropClaimStep, OwnDrop

\* A tick that at most lost its freshness.
LEMMA SameParts ==
    ASSUME \A u \in Tick : M(u)' = M(u) /\ W(u)' = W(u) /\ E(u)' = E(u)
    PROVE  /\ NoNewPart
           /\ \A u \in Tick : Owner(u)' <=> Owner(u)
BY DEF NoNewPart, Owner, Unsent, Attempting

\* A store call that lands late does no harm.
LEMMA LandsLateKeeps ==
    ASSUME ControlInv, BroadcastInv, LandsLate
    PROVE  BroadcastInv'
<1>0. UNCHANGED <<tick, tx>> /\ TypeOK
  BY ShapedFacts DEF LandsLate
<1>1. NoNewPart /\ \A u \in Tick : (Owner(u)' <=> Owner(u)) /\ E(u)' = E(u)
  BY <1>0, SameParts DEF M, W, E
<1>2. PICK call \in StoreCalls, e \in Exec :
        <<call, e>> \in late /\ Land(call, e) /\ late' = late \ {<<call, e>>}
  <2>1. PICK c \in late : Land(c[1], c[2]) /\ late' = late \ {c}
    BY DEF LandsLate
  <2>2. PICK call \in StoreCalls, e \in Exec : c = <<call, e>>
    BY <1>0, <2>1 DEF TypeOK
  <2> QED BY <2>1, <2>2
<1>3. call = "relP" => Dead(e) /\ tx[e] = "none"
  BY <1>2 DEF BroadcastInv, ReleasesDead
<1>4. CASE call # "drop"
  BY <1>0, <1>1, <1>2, <1>3, <1>4, LandFacts, StoreKeeps
<1>5. CASE call = "drop"
  <2>1. claims' = claims \ {e} /\ UNCHANGED res
    BY <1>0, <1>2, <1>5, LandFacts
  <2>2. /\ ~Dead(e) /\ tx[e] = "none"
        /\ \A u \in Tick : Owner(u)' => E(u) # e
    BY <1>1, <1>2, <1>5 DEF BroadcastInv, LateDrops, Dead
  <2> QED BY <1>0, <1>1, <1>2, <1>5, <2>1, <2>2, DropKeeps
<1> QED BY <1>4, <1>5

\* Every step keeps claims, attempts and broadcasts in order.
LEMMA BroadcastNext ==
    ASSUME ControlInv, BroadcastInv, [Next]_vars
    PROVE  BroadcastInv'
<1>1. ASSUME NEW t \in Tick, \/ Aside(t) \/ Load(t) \/ Crash(t)
           \/ Submit(t) \/ Reopen(t) \/ Resubmit(t)
           \/ Prepare(t) \/ Reread(t) \/ Call(t) \/ Return(t)
           \/ LateResult(t) \/ LateSubmit(t) \/ LateReopen(t) \/ LateRecord(t)
      PROVE  BroadcastInv'
  <2>1. NoNewPart /\ UNCHANGED <<claims, res, late, tx>>
    BY <1>1, NoNewPartStep
  <2> QED BY <2>1, NoNewPartKeeps
<1>2. ASSUME NEW t \in Tick, \/ Claim(t) \/ Reserve(t) \/ HandleResult(t)
           \/ StoreCall(t) \/ DropClaim(t) \/ Mark(t) \/ Send(t)
      PROVE  BroadcastInv'
  BY <1>2, ClaimKeeps, ReserveKeeps, HandleResultKeeps, StoreCallKeeps,
     DropClaimKeeps, MarkKeeps, SendKeeps
<1>3. ASSUME User \/ Chain \/ LeaseExpires \/ UNCHANGED vars
      PROVE  BroadcastInv'
  <2>1. UNCHANGED <<claims, res, late>>
    BY <1>3 DEF User, UserWrites, Chain, LeaseExpires, vars, store
  <2>2. \A x \in Exec : tx'[x] = "none" <=> tx[x] = "none"
    <3>1. CASE Chain
      <4>1. PICK e \in Exec, to \in {"mined", "reverted"} :
              tx[e] = "flying" /\ tx' = [tx EXCEPT ![e] = to]
        BY <3>1 DEF Chain
      <4>2. tx \in [Exec -> {"none", "flying", "mined", "reverted"}]
        BY ShapedFacts DEF TypeOK
      <4> QED BY <4>1, <4>2
    <3>2. CASE User \/ LeaseExpires \/ UNCHANGED vars
      BY <3>2 DEF User, UserWrites, LeaseExpires, vars
    <3> QED BY <1>3, <3>1, <3>2
  <2>3. \A u \in Tick : M(u)' = M(u) /\ W(u)' = W(u) /\ E(u)' = E(u)
    <3>1. CASE User
      <4>1. tick' = Stale(tick) /\ Shaped
        BY <3>1, ShapedFacts DEF User, UserWrites
      <4>2. \A u \in Tick : /\ tick'[u].main = tick[u].main
                            /\ tick'[u].work = tick[u].work
                            /\ tick'[u].goal = tick[u].goal
        BY <4>1, StaleRecord DEF Shaped, Stale
      <4> QED BY <4>2 DEF M, W, E
    <3>2. CASE Chain \/ LeaseExpires \/ UNCHANGED vars
      BY <3>2 DEF Chain, LeaseExpires, vars, M, W, E
    <3> QED BY <1>3, <3>1, <3>2
  <2>4. NoNewPart
    BY <2>3, SameParts
  <2> QED BY <2>1, <2>2, <2>4, NoNewPartKeeps
<1>4. CASE LandsLate
  BY <1>4, LandsLateKeeps
<1> QED BY <1>1, <1>2, <1>3, <1>4 DEF Next, Evaluating, Working, Aside

\* At first no tick plays a part in a broadcast.
LEMMA BroadcastInit == Init => BroadcastInv
<1> SUFFICES ASSUME Init PROVE BroadcastInv
  OBVIOUS
<1>1. \A t \in Tick : M(t) = "none" /\ W(t) = "none"
  BY IdleShape, Firsts DEF Init, M, W
<1>2. \A t \in Tick : /\ ~Owner(t) /\ ~Unsent(t) /\ ~Attempting(t)
                      /\ M(t) # "relP"
  BY <1>1 DEF Owner, Unsent, Attempting, Busy
<1>3. late = {}
  BY DEF Init
<1>4. SentCounted
  BY DEF Init, Activated, LeftExecuting, SentCounted
<1> QED
  BY <1>2, <1>3, <1>4
  DEF BroadcastInv, OwnersClaim, OwnersAlone, UnsentTx, AttemptsMarked,
      ReleasesDead, LateDrops

\* The claim and the reservation of an execution are in order: the part each
\* tick plays in a broadcast.
LEMMA Broadcasts == Spec => [](ControlInv /\ BroadcastInv)
<1>1. ControlInv /\ BroadcastInv /\ [Next]_vars => ControlInv' /\ BroadcastInv'
  BY ControlNext, BroadcastNext
<1> QED BY <1>1, ControlInit, BroadcastInit, PTL DEF Spec

\* No two ticks attempt one execution, however late the first is:
\* OneAttemptPerSlot.
THEOREM OneAttempt == Spec => []OneAttemptPerSlot
<1>1. BroadcastInv => OneAttemptPerSlot
  BY DEF BroadcastInv, OwnersAlone, Owner, W, E, OneAttemptPerSlot, ExecOf
<1> QED BY <1>1, Broadcasts, PTL

\* What was broadcast is counted for good: BroadcastStaysCounted.
THEOREM SentIsCounted == Spec => []BroadcastStaysCounted
<1>1. BroadcastInv => BroadcastStaysCounted
  BY DEF BroadcastInv, SentCounted, BroadcastStaysCounted
<1> QED BY <1>1, Broadcasts, PTL

-----------------------------------------------------------------------------
(* The runtime keeps the reservation protocol.                             *)

\* The instance counts and adds as this module does.
LEMMA SameCardinality ==
    \A S : Reservations!Cardinality(S) = Cardinality(S)
BY Zenon DEF Reservations!Cardinality, Cardinality

\* It forms the same units of amount.
LEMMA SameUnits ==
    \A S, f : Reservations!Units(S, f) = Units(S, f)
BY Zenon DEF Reservations!Units, Units

\* With an amount of one for each, the total is the number.
LEMMA UnitTotal ==
    ASSUME NEW S, IsFiniteSet(S), NEW f, \A e \in S : f[e] = 1
    PROVE  Total(S, f) = Cardinality(S)
<1>1. Units(S, f) = S \X {1}
  <2>1. 1 .. 1 = {1}
    OBVIOUS
  <2>2. \A e \in S : 1 .. f[e] = {1}
    BY <2>1
  <2> QED BY <2>2 DEF Units
<1>2. IsFiniteSet({1}) /\ Cardinality({1}) = 1
  BY FS_Singleton
<1>3. Cardinality(S \X {1}) = Cardinality(S) * Cardinality({1})
  BY <1>2, FS_Product
<1>4. Cardinality(S) \in Nat
  BY FS_CardinalityType
<1> QED BY <1>1, <1>2, <1>3, <1>4 DEF Total

\* There are finitely many executions.
LEMMA ExecFinite == IsFiniteSet(Exec)
<1>1. MaxSlot \in Int /\ 1 \in Int
  BY BoundAssumption
<1> QED BY <1>1, FS_Interval DEF Exec

\* A reservation is made once, under the cap.
LEMMA ReserveImplements ==
    ASSUME TypeOK, NEW e \in Exec, res[e] = "none",
           Cardinality(Counted) < MaxActions,
           res' = [res EXCEPT ![e] = "R"], UNCHANGED tx
    PROVE  Reservations!Reserve(e, 1)
<1> DEFINE f == [x \in Exec |-> IF res[x] = "none" THEN 0 ELSE 1]
<1>1. Reservations!Counted = Counted
  BY DEF Reservations!Counted, Counted
<1>2. \A x \in Counted : f[x] = 1
  BY DEF Counted
<1>3. IsFiniteSet(Counted)
  BY ExecFinite, FS_Subset DEF Counted
<1>4. Cardinality(Counted) \in Nat /\ MaxActions \in Nat
  BY <1>3, FS_CardinalityType, BoundAssumption
<1>5. Reservations!Spend = Total(Counted, f)
  BY <1>1, SameCardinality, SameUnits
  DEF Reservations!Spend, Reservations!Total, Total
<1>6. Total(Counted, f) = Cardinality(Counted)
  <2> HIDE DEF f
  <2> QED BY <1>2, <1>3, UnitTotal
<1>7. 0 + Reservations!Spend + 1 <= MaxActions
  BY <1>4, <1>5, <1>6
<1>8. 0 + Reservations!Cardinality(Reservations!Counted) + 1 <= MaxActions
  BY <1>1, <1>4, SameCardinality
<1>9. [x \in Exec |-> IF res'[x] = "none" THEN 0 ELSE 1]
        = [f EXCEPT ![e] = 1]
  BY DEF TypeOK
<1> QED BY <1>7, <1>8, <1>9 DEF Reservations!Reserve

\* A store call that lands takes the reservation a step further, or not.
LEMMA LandImplements ==
    ASSUME TypeOK, BroadcastInv, NEW e \in Exec, NEW call \in StoreCalls,
           Land(call, e), UNCHANGED tx, call = "relP" => tx[e] = "none"
    PROVE  [Reservations!Next]_(Reservations!vars)
<1> DEFINE f == [x \in Exec |-> IF res[x] = "none" THEN 0 ELSE 1]
<1>1. res \in [Exec -> {"none", "R", "A", "C", "X", "F"}]
  BY DEF TypeOK
<1>2. res' = [res EXCEPT ![e] = After(call, res[e])]
  BY DEF Land
<1>3. CASE After(call, res[e]) = res[e]
  <2>1. UNCHANGED res
    BY <1>1, <1>2, <1>3
  <2> QED BY <2>1 DEF Reservations!vars
<1>4. CASE After(call, res[e]) # res[e]
  <2>1. \/ call = "mark" /\ res[e] = "R" /\ After(call, res[e]) = "A"
        \/ call = "markX" /\ res[e] = "A" /\ After(call, res[e]) = "X"
        \/ /\ call = "commit" /\ res[e] \in {"R", "A"}
           /\ After(call, res[e]) = "C"
        \/ call = "relU" /\ res[e] = "R" /\ After(call, res[e]) = "F"
        \/ /\ call = "relP" /\ res[e] \in {"R", "A"}
           /\ After(call, res[e]) = "F"
    BY <1>4 DEF After, StoreCalls
  <2>2. After(call, res[e]) = "F" => tx[e] = "none"
    BY <2>1 DEF BroadcastInv, SentCounted
  <2>3. [x \in Exec |-> IF res'[x] = "none" THEN 0 ELSE 1] = f
    <3>1. \A x \in Exec : res'[x] = "none" <=> res[x] = "none"
      BY <1>1, <1>2, <2>1
    <3> QED BY <3>1
  <2>4. {x \in Exec : tx'[x] # "none"} = {x \in Exec : tx[x] # "none"}
    OBVIOUS
  <2> HIDE DEF f
  <2>5. \/ Reservations!Attempt(e) \/ Reservations!Ambiguous(e)
        \/ Reservations!Commit(e) \/ Reservations!Release(e)
    BY <1>2, <2>1, <2>2, <2>3, <2>4
    DEF f, Reservations!Attempt, Reservations!Ambiguous, Reservations!Commit,
        Reservations!Release, Reservations!Advance
  <2> QED BY <2>5 DEF Reservations!Next
<1> QED BY <1>3, <1>4

\* A call made within its budget, lands or is given up on.
LEMMA BoundedImplements ==
    ASSUME TypeOK, BroadcastInv, NEW e \in Exec, NEW call \in StoreCalls,
           Bounded(call, e), UNCHANGED tx, call = "relP" => tx[e] = "none"
    PROVE  [Reservations!Next]_(Reservations!vars)
<1>1. CASE Land(call, e)
  BY <1>1, LandImplements
<1>2. CASE GivenUp(call, e)
  BY <1>2 DEF GivenUp, Reservations!vars
<1> QED BY <1>1, <1>2 DEF Bounded

\* Every step of the runtime is a step of the protocol, or none.
LEMMA StepImplements ==
    ASSUME ControlInv, BroadcastInv, [Next]_vars
    PROVE  [Reservations!Next]_(Reservations!vars)
<1>0. TypeOK
  BY ShapedFacts
<1>1. ASSUME UNCHANGED <<res, tx>>
      PROVE  UNCHANGED Reservations!vars
  BY <1>1 DEF Reservations!vars
<1>2. ASSUME NEW t \in Tick, \/ Aside(t) \/ Load(t) \/ Crash(t)
           \/ Submit(t) \/ Reopen(t) \/ Resubmit(t)
           \/ Prepare(t) \/ Reread(t) \/ Call(t) \/ Return(t)
           \/ LateResult(t) \/ LateSubmit(t) \/ LateReopen(t) \/ LateRecord(t)
           \/ Claim(t) \/ DropClaim(t) \/ HandleResult(t)
      PROVE  UNCHANGED Reservations!vars
  <2>1. UNCHANGED <<res, tx>>
    BY <1>2, NoNewPartStep DEF Claim, DropClaim, HandleResult, store, seen
  <2> QED BY <1>1, <2>1
<1>3. ASSUME NEW t \in Tick, Reserve(t)
      PROVE  [Reservations!Next]_(Reservations!vars)
  <2>1. UNCHANGED tx /\ E(t) \in Exec
    BY <1>3, ReserveStep, OwnerFacts DEF Reserve, Owner
  <2>2. \/ UNCHANGED res
        \/ /\ res[E(t)] = "none" /\ Cardinality(Counted) < MaxActions
           /\ res' = [res EXCEPT ![E(t)] = "R"]
    BY <1>3, ReserveStep
  <2>3. CASE UNCHANGED res
    BY <1>1, <2>1, <2>3
  <2>4. CASE /\ res[E(t)] = "none" /\ Cardinality(Counted) < MaxActions
             /\ res' = [res EXCEPT ![E(t)] = "R"]
    <3>1. Reservations!Reserve(E(t), 1)
      BY <1>0, <2>1, <2>4, ReserveImplements
    <3> QED BY <2>1, <3>1 DEF Reservations!Next
  <2> QED BY <2>2, <2>3, <2>4
<1>4. ASSUME NEW t \in Tick, StoreCall(t)
      PROVE  [Reservations!Next]_(Reservations!vars)
  <2>1. PICK call \in {"relP", "relU", "markX", "commit", "drop"} :
          /\ M(t) = call \/ (call = "relU" /\ M(t) = "relUdrop")
          /\ Bounded(call, E(t))
    BY <1>4, StoreCallStep
  <2>2. UNCHANGED tx /\ E(t) \in Exec /\ call \in StoreCalls
    BY <1>4, <2>1, ShapedFacts, TickFacts DEF StoreCall, StoreCalls
  <2>3. call = "relP" => tx[E(t)] = "none"
    BY <2>1 DEF BroadcastInv, ReleasesDead
  <2> QED BY <1>0, <2>1, <2>2, <2>3, BoundedImplements
<1>5. ASSUME NEW t \in Tick, Mark(t)
      PROVE  [Reservations!Next]_(Reservations!vars)
  <2>1. Bounded("mark", E(t)) /\ UNCHANGED tx /\ "mark" \in StoreCalls
    BY <1>5, WorkLinks DEF Bounded, Mark, StoreCalls
  <2>2. E(t) \in Exec
    BY <1>5, WorkLinks, ShapedFacts, TickFacts
  <2> QED BY <1>0, <2>1, <2>2, BoundedImplements
<1>6. ASSUME NEW t \in Tick, Send(t)
      PROVE  [Reservations!Next]_(Reservations!vars)
  <2>1. /\ W(t) = "adapter" /\ UNCHANGED res
        /\ tx' = [tx EXCEPT ![E(t)] = "flying"]
    BY <1>6, WorkLinks DEF Send, store, E, ExecOf
  <2>2. E(t) \in Exec /\ res[E(t)] \in {"A", "C", "X"}
    BY <2>1, OwnerFacts
    DEF BroadcastInv, AttemptsMarked, Attempting, Owner, Busy
  <2>3. {x \in Exec : tx'[x] # "none"}
          = {x \in Exec : tx[x] # "none"} \union {E(t)}
    BY <1>0, <2>1, <2>2 DEF TypeOK
  <2>4. ASSUME NEW e \in Exec, e = E(t) PROVE Reservations!Next
    <3>1. Reservations!Broadcast(e)
      BY <2>1, <2>2, <2>3, <2>4 DEF Reservations!Broadcast
    <3> QED BY <3>1 DEF Reservations!Next
  <2> QED BY <2>2, <2>4
<1>7. ASSUME LandsLate
      PROVE  [Reservations!Next]_(Reservations!vars)
  <2>1. PICK c \in late : Land(c[1], c[2])
    BY <1>7 DEF LandsLate
  <2>2. PICK call \in StoreCalls, e \in Exec : c = <<call, e>>
    BY <1>0, <2>1 DEF TypeOK
  <2>3. call = "relP" => tx[e] = "none"
    BY <2>1, <2>2 DEF BroadcastInv, ReleasesDead
  <2> QED BY <1>0, <1>7, <2>1, <2>2, <2>3, LandImplements DEF LandsLate
<1>8. CASE Chain
  <2>1. {x \in Exec : tx'[x] # "none"} = {x \in Exec : tx[x] # "none"}
    BY <1>0, <1>8 DEF Chain, TypeOK
  <2>2. UNCHANGED res
    BY <1>8 DEF Chain, store
  <2> QED BY <2>1, <2>2 DEF Reservations!vars
<1>9. CASE User \/ LeaseExpires \/ UNCHANGED vars
  <2>1. UNCHANGED <<res, tx>>
    BY <1>9 DEF User, UserWrites, LeaseExpires, vars, store
  <2> QED BY <1>1, <2>1
<1> QED
  BY <1>2, <1>3, <1>4, <1>5, <1>6, <1>7, <1>8, <1>9
  DEF Next, Evaluating, Working, Aside

\* Crashes, late calls and abandoned work included, the runtime drives the
\* ledger as the ledger requires: ImplementsReservations.
THEOREM RuntimeReserves == ~Legacy => (Spec => ImplementsReservations)
<1> SUFFICES ASSUME ~Legacy PROVE Spec => ImplementsReservations
  OBVIOUS
<1>1. Init => Reservations!Init
  <2> SUFFICES ASSUME Init PROVE Reservations!Init
    OBVIOUS
  <2>1. Activated
    BY DEF Init
  <2>2. /\ res = [e \in Exec |-> "none"]
        /\ [e \in Exec |-> IF res[e] = "none" THEN 0 ELSE 1]
             = [e \in Exec |-> 0]
        /\ {e \in Exec : tx[e] # "none"} = {}
    BY <2>1 DEF Activated
  <2> QED BY <2>2 DEF Reservations!Init
<1>2. ControlInv /\ BroadcastInv /\ [Next]_vars
        => [Reservations!Next]_(Reservations!vars)
  BY StepImplements
<1> QED
  BY <1>1, <1>2, Broadcasts, PTL
  DEF Spec, ImplementsReservations, Reservations!Spec

-----------------------------------------------------------------------------
(* The hash of a broadcast, from the adapter into the goal.                *)

\* Who holds a hash follows from its next step and its work.
LEMMA HolderMoves ==
    ASSUME ControlInv, NEW t \in Tick, NEW m, NEW w, Moves(t, m, w)
    PROVE  /\ \A u \in Tick \ {t} :
                /\ HasHash(u)' <=> HasHash(u)
                /\ Holder(u)' <=> Holder(u)
                /\ E(u)' = E(u)
           /\ HasHash(t)' <=>
                \/ m \in {"commit", "submit", "reopen", "resubmit"}
                \/ w \in {"HASH", "lateSubmit", "lateReopen", "lateResubmit"}
           /\ Holder(t)' <=> HasHash(t)' \/ w = "sent"
           /\ Holder(t)' => E(t)' = E(t)
BY DEF Moves, HasHash, Holder, E

\* Who holds a hash is about an execution.
LEMMA HolderFacts ==
    ASSUME ControlInv, NEW t \in Tick, Holder(t)
    PROVE  E(t) \in Exec
<1>1. M(t) # "none" \/ W(t) # "none"
  BY DEF Holder, HasHash
<1> QED BY <1>1, ShapedFacts, TickFacts

\* A tick comes by a hash only from the adapter.
NoNewHolder ==
    \A u \in Tick :
        /\ Holder(u)' => Holder(u) /\ E(u)' = E(u)
        /\ HasHash(u)' => HasHash(u) \/ E(u) \in hashed'

\* A move that makes no new holder.
LEMMA NoNewHolderMoves ==
    ASSUME ControlInv, NEW t \in Tick, NEW m, NEW w, Moves(t, m, w),
           m \in {"commit", "submit", "reopen", "resubmit"} => HasHash(t),
           w \in {"lateSubmit", "lateReopen", "lateResubmit"} => HasHash(t),
           w = "HASH" => HasHash(t) \/ (W(t) = "sent" /\ E(t) \in hashed'),
           w = "sent" => W(t) = "sent"
    PROVE  NoNewHolder
<1>1. HasHash(t)' => HasHash(t) \/ (W(t) = "sent" /\ E(t) \in hashed')
  BY HolderMoves
<1>2. Holder(t)' => Holder(t) /\ E(t)' = E(t)
  BY <1>1, HolderMoves DEF Holder
<1> QED BY <1>1, <1>2, HolderMoves DEF NoNewHolder

\* Every step of a tick but the broadcast itself.
LEMMA NoNewHolderStep ==
    ASSUME ControlInv, NEW t \in Tick, \/ Evaluating(t) \/ Working(t)
                                       \/ Deadline(t) \/ Crash(t)
    PROVE  NoNewHolder
<1>1. CASE Aside(t)
  BY <1>1, AsideStep, NoNewHolderMoves DEF Leaves, Plain, HasHash
<1>2. CASE Crash(t)
  BY <1>2, CrashStep, NoNewHolderMoves
<1>3. CASE Load(t)
  <2>1. /\ \A u \in Tick \ {t} : tick'[u] = tick[u]
        /\ M(t)' \in {"verify", "check", "lease"} /\ W(t)' = "none"
    BY <1>3, LoadStep
  <2>2. \A u \in Tick \ {t} : M(u)' = M(u) /\ W(u)' = W(u) /\ E(u)' = E(u)
    BY <2>1 DEF M, W, E
  <2> QED BY <2>1, <2>2 DEF NoNewHolder, Holder, HasHash
<1>4. CASE Claim(t) \/ Reserve(t) \/ DropClaim(t)
  <2>1. \E m \in Plain \union {"reserve", "relP", "relUdrop", "work"},
           w \in {"none", "prepare"} : Moves(t, m, w)
    BY <1>4, ClaimStep, ReserveStep, DropClaimStep DEF Plain
  <2> QED BY <2>1, NoNewHolderMoves DEF Plain
<1>5. CASE HandleResult(t)
  <2>1. PICK steps \in Agenda(W(t)) : Moves(t, First(steps), "none")
    BY <1>5, HandleResultStep
  <2>2. First(steps) \in Plain \union {"relP", "relUdrop"} \/ W(t) = "HASH"
    BY <1>5, <2>1, HandleResultStep, AgendaFacts
  <2> QED BY <2>1, <2>2, NoNewHolderMoves DEF HasHash, Plain
<1>6. CASE StoreCall(t)
  <2>1. PICK m \in Plain \union {"drop", "dropNow", "submit"} :
          Moves(t, m, W(t)) /\ Follows(M(t), m)
    BY <1>6, StoreCallStep
  <2>2. M(t) \in {"relP", "relU", "relUdrop", "markX", "commit", "drop"}
    BY <1>6, StoreCallStep
  <2>3. m = "submit" => M(t) = "commit"
    BY <2>1, <2>2 DEF Follows, Plain
  <2> QED BY <2>1, <2>3, NoNewHolderMoves DEF HasHash, Plain
<1>7. CASE Submit(t) \/ Reopen(t) \/ Resubmit(t)
  BY <1>7, SubmitStep, NoNewHolderMoves DEF HasHash
<1>8. CASE Working(t)
  <2>1. /\ Moves(t, M(t), W(t)')
        /\ W(t)' = "HASH" => W(t) = "sent" /\ E(t) \in hashed'
        /\ W(t)' \in {"lateSubmit", "lateReopen", "lateResubmit"} =>
             W(t) \in {"HASH", "lateSubmit", "lateReopen", "lateResubmit"}
        /\ W(t)' # "sent"
    BY <1>8, WorkStep, WorkLinks DEF Working
  <2> QED BY <2>1, NoNewHolderMoves DEF HasHash
<1> QED
  BY <1>1, <1>2, <1>3, <1>4, <1>5, <1>6, <1>7, <1>8
  DEF Evaluating, Aside

\* The broadcast makes the one new holder there can be; a transaction is
\* never unmade, and only one that was broadcast has a hash.
LEMMA HolderStep ==
    ASSUME ControlInv, HashInv, [Next]_vars
    PROVE  /\ \E t \in Tick :
                \A u \in Tick :
                  Holder(u)' =>
                    /\ E(u)' = E(u) /\ E(u) \in Exec
                    /\ \/ Holder(u)
                       \/ /\ u = t /\ tx[E(u)] = "none"
                          /\ tx'[E(u)] # "none"
           /\ \A u \in Tick : HasHash(u)' => E(u) \in hashed'
           /\ \A x \in Exec : /\ tx[x] # "none" => tx'[x] # "none"
                              /\ tx[x] = "mined" => tx'[x] = "mined"
           /\ hashed \subseteq hashed'
           /\ \A x \in hashed' : tx'[x] # "none"
<1>0. TypeOK /\ hashed \subseteq Exec
  BY ShapedFacts DEF TypeOK
<1>1. ASSUME NoNewHolder, hashed \subseteq hashed',
             \A x \in Exec : /\ tx[x] # "none" => tx'[x] # "none"
                             /\ tx[x] = "mined" => tx'[x] = "mined",
             \A x \in hashed' \ hashed : x \in Exec /\ tx[x] # "none"
      PROVE  /\ \E t \in Tick :
                  \A u \in Tick :
                    Holder(u)' =>
                      /\ E(u)' = E(u) /\ E(u) \in Exec
                      /\ \/ Holder(u)
                         \/ /\ u = t /\ tx[E(u)] = "none"
                            /\ tx'[E(u)] # "none"
             /\ \A u \in Tick : HasHash(u)' => E(u) \in hashed'
             /\ \A x \in hashed' : tx'[x] # "none"
  <2>1. \A u \in Tick :
          Holder(u)' => Holder(u) /\ E(u)' = E(u) /\ E(u) \in Exec
    BY <1>1, HolderFacts DEF NoNewHolder
  <2>2. \A u \in Tick : HasHash(u)' => E(u) \in hashed'
    BY <1>1 DEF NoNewHolder, HashInv
  <2>3. \A x \in hashed' : tx'[x] # "none"
    BY <1>0, <1>1 DEF HashInv
  <2> QED BY <2>1, <2>2, <2>3, TickAssumption
<1>2. ASSUME NEW t \in Tick, \/ Evaluating(t) \/ Working(t)
                             \/ Deadline(t) \/ Crash(t)
      PROVE  /\ NoNewHolder /\ UNCHANGED tx /\ hashed \subseteq hashed'
             /\ \A x \in hashed' \ hashed : x \in Exec /\ tx[x] # "none"
  <2>1. NoNewHolder
    BY <1>2, NoNewHolderStep
  <2>2. CASE Return(t)
    <3>1. \/ UNCHANGED hashed
          \/ W(t) = "sent" /\ hashed' = hashed \union {E(t)}
      BY <2>2, WorkLinks
    <3>2. W(t) = "sent" => Holder(t) /\ E(t) \in Exec /\ tx[E(t)] # "none"
      BY HolderFacts DEF Holder, HashInv
    <3>3. UNCHANGED tx
      BY <2>2 DEF Return
    <3> QED BY <2>1, <3>1, <3>2, <3>3
  <2>3. CASE ~Return(t)
    <3>1. \/ Aside(t) \/ Load(t) \/ Crash(t)
          \/ Submit(t) \/ Reopen(t) \/ Resubmit(t)
          \/ Prepare(t) \/ Reread(t) \/ Call(t) \/ Mark(t)
          \/ LateResult(t) \/ LateSubmit(t) \/ LateReopen(t) \/ LateRecord(t)
          \/ Claim(t) \/ Reserve(t) \/ HandleResult(t) \/ StoreCall(t)
          \/ DropClaim(t)
      BY <1>2, <2>3 DEF Evaluating, Working, Aside
    <3>2. UNCHANGED hashed
      BY <3>1 DEF Aside, CheckClaim, TakeLease, FreeLease, CloseRead,
         CloseClaim, Close, CloseRec, Evaluate, Park, FailWrite, Record,
         Verify, ReapRead, ReapWrite, Deadline, Load, Crash, Submit, Reopen,
         Resubmit, Prepare, Reread, Call, Mark, LateResult, LateSubmit,
         LateReopen, LateRecord, Claim, Reserve, HandleResult, StoreCall,
         DropClaim, seen
    <3>3. UNCHANGED tx
      <4>1. CASE \/ Claim(t) \/ Reserve(t) \/ HandleResult(t) \/ StoreCall(t)
                 \/ DropClaim(t) \/ Mark(t)
        BY <4>1 DEF Claim, Reserve, HandleResult, StoreCall, DropClaim, Mark
      <4> QED BY <3>1, <4>1, NoNewPartStep
    <3> QED BY <2>1, <3>2, <3>3
  <2> QED BY <2>2, <2>3
<1>3. CASE \E t \in Tick : \/ Evaluating(t) \/ Working(t)
                           \/ Deadline(t) \/ Crash(t)
  BY <1>1, <1>2, <1>3
<1>4. ASSUME NEW t \in Tick, Send(t)
      PROVE  /\ \A u \in Tick :
                  Holder(u)' =>
                    /\ E(u)' = E(u) /\ E(u) \in Exec
                    /\ \/ Holder(u)
                       \/ /\ u = t /\ tx[E(u)] = "none"
                          /\ tx'[E(u)] # "none"
             /\ \A u \in Tick : HasHash(u)' => HasHash(u)
             /\ \A x \in Exec : /\ tx[x] # "none" => tx'[x] # "none"
                                /\ tx[x] = "mined" => tx'[x] = "mined"
             /\ UNCHANGED hashed
  <2>1. W(t) = "adapter" /\ Moves(t, M(t), "sent") /\ E(t) \in Exec
    BY <1>4, WorkLinks, WorkStep, ShapedFacts, TickFacts
  <2>2. /\ tx[E(t)] = "none" /\ tx' = [tx EXCEPT ![E(t)] = "flying"]
        /\ UNCHANGED hashed
    BY <1>4 DEF Send, E, ExecOf, seen
  <2>3. M(t) \notin {"commit", "submit", "reopen", "resubmit"}
    BY <2>1, ShapedFacts, TickFacts
  <2>4. ~HasHash(t)' /\ E(t)' = E(t)
    BY <2>1, <2>3, HolderMoves DEF Holder
  <2>5. tx'[E(t)] # "none"
    BY <1>0, <2>1, <2>2 DEF TypeOK
  <2>6. \A x \in Exec : /\ tx[x] # "none" => tx'[x] # "none"
                        /\ tx[x] = "mined" => tx'[x] = "mined"
    BY <1>0, <2>1, <2>2 DEF TypeOK
  <2> QED BY <2>1, <2>2, <2>4, <2>5, <2>6, HolderMoves, HolderFacts
<1>5. CASE \E t \in Tick : Send(t)
  <2>1. PICK t \in Tick : Send(t)
    BY <1>5
  <2> QED BY <1>0, <1>4, <2>1 DEF HashInv
<1>6. CASE User \/ Chain \/ LeaseExpires \/ LandsLate \/ UNCHANGED vars
  <2>1. \A u \in Tick : M(u)' = M(u) /\ W(u)' = W(u) /\ E(u)' = E(u)
    <3>1. CASE User
      <4>1. tick' = Stale(tick) /\ Shaped
        BY <3>1, ShapedFacts DEF User, UserWrites
      <4>2. \A u \in Tick : /\ tick'[u].main = tick[u].main
                            /\ tick'[u].work = tick[u].work
                            /\ tick'[u].goal = tick[u].goal
        BY <4>1, StaleRecord DEF Shaped, Stale
      <4> QED BY <4>2 DEF M, W, E
    <3>2. CASE Chain \/ LeaseExpires \/ LandsLate \/ UNCHANGED vars
      BY <3>2 DEF Chain, LeaseExpires, LandsLate, vars, M, W, E
    <3> QED BY <1>6, <3>1, <3>2
  <2>2. NoNewHolder
    BY <2>1 DEF NoNewHolder, Holder, HasHash
  <2>3. UNCHANGED hashed
    BY <1>6 DEF User, UserWrites, Chain, LeaseExpires, LandsLate, vars, seen
  <2>4. \A x \in Exec : /\ tx[x] # "none" => tx'[x] # "none"
                        /\ tx[x] = "mined" => tx'[x] = "mined"
    <3>1. CASE Chain
      BY <1>0, <3>1 DEF Chain, TypeOK
    <3>2. CASE User \/ LeaseExpires \/ LandsLate \/ UNCHANGED vars
      BY <3>2 DEF User, UserWrites, LeaseExpires, LandsLate, vars
    <3> QED BY <1>6, <3>1, <3>2
  <2> QED BY <1>1, <2>2, <2>3, <2>4
<1> QED BY <1>3, <1>5, <1>6 DEF Next

\* The tick that makes the goal wait holds the hash no longer.
LEMMA SubmitsFacts ==
    ASSUME ControlInv, NEW t \in Tick, Submits(t)
    PROVE  HasHash(t) /\ ~Holder(t)' /\ E(t) \in Exec
<1>1. HasHash(t)
  BY DEF Submits, HasHash
<1>2. CASE M(t) \in {"submit", "resubmit"} /\ Moves(t, "recHash", "none")
  BY <1>1, <1>2, HolderMoves, HolderFacts DEF Holder
<1>3. CASE /\ W(t) \in {"lateSubmit", "lateResubmit"}
           /\ Moves(t, M(t), "lateRec")
  <2>1. M(t) \notin {"commit", "submit", "reopen", "resubmit"}
    BY <1>3, ShapedFacts, TickFacts
  <2> QED BY <1>1, <1>3, <2>1, HolderMoves, HolderFacts DEF Holder
<1> QED BY <1>2, <1>3 DEF Submits

\* Every step keeps the hashes in order.
LEMMA HashNext ==
    ASSUME ControlInv, HashInv, [Next]_vars
    PROVE  HashInv'
<1>1. PICK t \in Tick :
        \A u \in Tick :
          Holder(u)' => /\ E(u)' = E(u) /\ E(u) \in Exec
                        /\ \/ Holder(u)
                           \/ /\ u = t /\ tx[E(u)] = "none"
                              /\ tx'[E(u)] # "none"
  BY HolderStep
<1>2. \A u \in Tick : HasHash(u)' => E(u)' \in hashed'
  BY <1>1, HolderStep DEF Holder
<1>3. \A u \in Tick : Holder(u)' => tx'[E(u)'] # "none"
  BY <1>1, HolderStep DEF HashInv
<1>4. \A u, v \in Tick : Holder(u)' /\ Holder(v)' /\ E(u)' = E(v)' => u = v
  BY <1>1 DEF HashInv
<1>5. \A x \in hashed' : tx'[x] # "none"
  BY HolderStep
<1>6. \A x \in Exec : x # None
  BY DEF Exec, None
<1>7. /\ \A u \in Tick : Holder(u)' => E(u)' # goal'.pending
      /\ goal'.pending # None => goal'.pending \in hashed'
      /\ goal'.status # "EXECUTING" => goal'.pending = None
      /\ ~Legacy /\ goal'.status = "EXECUTING" => goal'.pending # None
  <2>1. goal.pending # None => goal.pending \in hashed
    BY DEF HashInv
  <2>2. \A u \in Tick :
          Holder(u)' /\ goal.pending # None => E(u)' # goal.pending
    BY <1>1, <2>1 DEF HashInv
  <2>3. \A u \in Tick : Holder(u)' => E(u)' # None
    BY <1>1, <1>6
  <2>4. goal.pending # None => goal.pending \in hashed'
    BY <2>1, HolderStep
  <2>5. /\ goal.status # "EXECUTING" => goal.pending = None
        /\ ~Legacy /\ goal.status = "EXECUTING" => goal.pending # None
    BY DEF HashInv
  <2>6. CASE UNCHANGED goal
    BY <2>2, <2>3, <2>4, <2>5, <2>6
  <2>7. CASE Leave(goal')
    <3>1. goal'.status # "EXECUTING" /\ goal'.pending = None
      BY <2>5, <2>7 DEF Leave
    <3> QED BY <2>3, <3>1
  <2>8. ASSUME NEW u \in Tick, Verdict(goal', tx[E(u)])
        PROVE  /\ \A v \in Tick : Holder(v)' => E(v)' # goal'.pending
               /\ goal'.pending # None => goal'.pending \in hashed'
               /\ goal'.status # "EXECUTING" => goal'.pending = None
               /\ ~Legacy /\ goal'.status = "EXECUTING"
                    => goal'.pending # None
    BY <2>2, <2>3, <2>4, <2>5, <2>7, <2>8 DEF Verdict
  <2>9. ASSUME NEW u \in Tick, Submits(u)
        PROVE  /\ \A v \in Tick : Holder(v)' => E(v)' # goal'.pending
               /\ goal'.pending # None => goal'.pending \in hashed'
               /\ goal'.status # "EXECUTING" => goal'.pending = None
               /\ ~Legacy /\ goal'.status = "EXECUTING"
                    => goal'.pending # None
    <3>1. /\ goal'.pending = E(u) /\ goal'.status = "EXECUTING"
          /\ HasHash(u) /\ ~Holder(u)' /\ E(u) \in Exec
      BY <2>9, SubmitsFacts DEF Submits
    <3>2. E(u) \in hashed' /\ tx[E(u)] # "none"
      BY <3>1, HolderStep DEF HashInv
    <3>3. \A v \in Tick : Holder(v)' => E(v)' # E(u)
      BY <1>1, <3>1, <3>2 DEF HashInv, Holder
    <3> QED BY <1>6, <3>1, <3>2, <3>3
  <2> QED BY <2>6, <2>7, <2>8, <2>9, GoalStep DEF vars
<1> QED BY <1>2, <1>3, <1>4, <1>5, <1>7 DEF HashInv

\* At first nobody holds a hash.
LEMMA HashInit == Init => HashInv
<1> SUFFICES ASSUME Init PROVE HashInv
  OBVIOUS
<1>1. \A t \in Tick : M(t) = "none" /\ W(t) = "none"
  BY IdleShape, Firsts DEF Init, M, W
<1>2. \A t \in Tick : ~HasHash(t) /\ ~Holder(t)
  BY <1>1 DEF HasHash, Holder
<1>3. /\ goal.pending = None /\ hashed = {}
      /\ ~Legacy => goal.status # "EXECUTING"
  BY DEF Init, Activated, LeftExecuting, Created, Open
<1> QED BY <1>2, <1>3 DEF HashInv

\* The control, the broadcasts and their hashes are in order.
LEMMA HashesKept == Spec => [](ControlInv /\ BroadcastInv /\ HashInv)
<1>1. ControlInv /\ HashInv /\ [Next]_vars => HashInv'
  BY HashNext
<1>2. ControlInv /\ [Next]_vars => ControlInv'
  BY ControlNext
<1> QED BY <1>1, <1>2, ControlInit, HashInit, Broadcasts, PTL DEF Spec

\* The goal waits exactly for a transaction the adapter has returned a hash
\* for, and its spend is counted: PendingIsBroadcast.
THEOREM PendingWasBroadcast == Spec => []PendingIsBroadcast
<1>1. ControlInv /\ BroadcastInv /\ HashInv => PendingIsBroadcast
  <2> SUFFICES ASSUME ControlInv, BroadcastInv, HashInv
               PROVE  PendingIsBroadcast
    OBVIOUS
  <2>1. hashed \subseteq Exec
    BY ShapedFacts DEF TypeOK
  <2> QED
    BY <2>1 DEF BroadcastInv, SentCounted, HashInv, PendingIsBroadcast
<1> QED BY <1>1, HashesKept, PTL

-----------------------------------------------------------------------------
(* The count of verified trades.                                           *)

\* Only the read of the goal brings a tick to verification.
LEMMA MovesStep ==
    ASSUME ControlInv, NEW t \in Tick,
           \/ Evaluating(t) \/ Working(t) \/ Send(t) \/ Deadline(t)
           \/ Crash(t),
           ~Load(t)
    PROVE  \E m, w : Moves(t, m, w) /\ m # "verify"
<1>1. CASE Aside(t)
  BY <1>1, AsideStep DEF Leaves, Plain
<1>2. CASE Crash(t)
  BY <1>2, CrashStep
<1>3. CASE Claim(t) \/ Reserve(t) \/ DropClaim(t)
  <2>1. \E m \in Plain \union {"reserve", "relP", "relUdrop", "work"},
           w \in {"none", "prepare"} : Moves(t, m, w)
    BY <1>3, ClaimStep, ReserveStep, DropClaimStep DEF Plain
  <2> QED BY <2>1 DEF Plain
<1>4. CASE HandleResult(t)
  <2>1. PICK steps \in Agenda(W(t)) : Moves(t, First(steps), "none")
    BY <1>4, HandleResultStep
  <2>2. First(steps) \in Plain \union {"relP", "relUdrop", "commit"}
    BY <1>4, <2>1, HandleResultStep, AgendaFacts
  <2> QED BY <2>1, <2>2 DEF Plain
<1>5. CASE StoreCall(t)
  BY <1>5, StoreCallStep DEF Plain
<1>6. CASE Submit(t) \/ Reopen(t) \/ Resubmit(t)
  BY <1>6, SubmitStep
<1>7. CASE Working(t) \/ Send(t)
  <2>1. Moves(t, M(t), W(t)') /\ W(t) # "none"
    BY <1>7, WorkStep
  <2>2. M(t) # "verify"
    BY <2>1, ShapedFacts, TickFacts
  <2> QED BY <2>1, <2>2
<1> QED
  BY <1>1, <1>2, <1>3, <1>4, <1>5, <1>6, <1>7 DEF Evaluating, Aside

\* What a tick has read of the goal is what it had read, or the goal as it
\* is; it verifies the pending execution.
LEMMA SnapshotStep ==
    ASSUME ControlInv, [Next]_vars, NEW u \in Tick
    PROVE  /\ tick'[u].goal.verified
                \in {tick[u].goal.verified, goal.verified, 0}
           /\ tick'[u].current.verified
                \in {tick[u].current.verified, goal.verified, 0}
           /\ M(u)' = "verify" /\ "goal" \in tick'[u].fresh =>
                \/ M(u) = "verify" /\ "goal" \in tick[u].fresh /\ E(u)' = E(u)
                \/ UNCHANGED goal /\ E(u)' = goal.pending
<1>0. NoSnapshot.verified = 0 /\ Shaped
  BY ShapedFacts DEF NoSnapshot
<1>1. ASSUME NEW t \in Tick, NEW m, NEW w, Moves(t, m, w), m # "verify"
      PROVE  /\ tick'[u].goal.verified
                  \in {tick[u].goal.verified, goal.verified, 0}
             /\ tick'[u].current.verified
                  \in {tick[u].current.verified, goal.verified, 0}
             /\ M(u)' = "verify" /\ "goal" \in tick'[u].fresh =>
                  /\ M(u) = "verify" /\ "goal" \in tick[u].fresh
                  /\ E(u)' = E(u)
  BY <1>0, <1>1 DEF Moves, E
<1>2. ASSUME NEW t \in Tick, Load(t)
      PROVE  /\ tick'[u].goal.verified
                  \in {tick[u].goal.verified, goal.verified, 0}
             /\ tick'[u].current.verified
                  \in {tick[u].current.verified, goal.verified, 0}
             /\ M(u)' = "verify" /\ "goal" \in tick'[u].fresh =>
                  \/ /\ M(u) = "verify" /\ "goal" \in tick[u].fresh
                     /\ E(u)' = E(u)
                  \/ UNCHANGED goal /\ E(u)' = goal.pending
  <2>1. CASE u # t
    <3>1. tick'[u] = tick[u]
      BY <1>2, <2>1, LoadStep
    <3> QED BY <3>1 DEF M, E
  <2>2. CASE u = t
    <3>1. /\ M(u)' = "verify" => goal.pending # None
          /\ tick'[u].goal = Snapshot /\ tick'[u].current = NoSnapshot
          /\ UNCHANGED goal
      BY <1>2, <2>2, LoadStep DEF Load
    <3>2. /\ Snapshot.verified = goal.verified
          /\ goal.pending # None => Snapshot.exec = goal.pending
      BY DEF Snapshot
    <3> QED BY <1>0, <3>1, <3>2 DEF E
  <2> QED BY <2>1, <2>2
<1>3. ASSUME User \/ Chain \/ LeaseExpires \/ LandsLate \/ UNCHANGED vars
      PROVE  /\ tick'[u].goal = tick[u].goal
             /\ tick'[u].current = tick[u].current
             /\ M(u)' = M(u) /\ tick'[u].fresh \subseteq tick[u].fresh
  <2>1. CASE User
    <3>1. tick' = Stale(tick)
      BY <2>1 DEF User, UserWrites
    <3>2. /\ tick'[u].main = tick[u].main
          /\ tick'[u].goal = tick[u].goal
          /\ tick'[u].current = tick[u].current
          /\ tick'[u].fresh = {}
      BY <1>0, <3>1, StaleRecord DEF Shaped, Stale
    <3> QED BY <3>2 DEF M
  <2>2. CASE Chain \/ LeaseExpires \/ LandsLate \/ UNCHANGED vars
    BY <2>2 DEF Chain, LeaseExpires, LandsLate, vars, M
  <2> QED BY <1>3, <2>1, <2>2
<1>4. CASE User \/ Chain \/ LeaseExpires \/ LandsLate \/ UNCHANGED vars
  BY <1>3, <1>4 DEF E
<1>5. CASE \E t \in Tick : \/ Evaluating(t) \/ Working(t) \/ Send(t)
                           \/ Deadline(t) \/ Crash(t)
  BY <1>1, <1>2, <1>5, MovesStep
<1> QED BY <1>4, <1>5 DEF Next

\* More settled trades are more.
LEMMA SettledCount ==
    /\ IsFiniteSet(Settled) /\ Cardinality(Settled) \in Nat
    /\ Settled \subseteq Settled' =>
         Cardinality(Settled) <= Cardinality(Settled')
    /\ \A x \in Settled' :
         Settled \subseteq Settled' /\ x \notin Settled =>
           Cardinality(Settled) + 1 <= Cardinality(Settled')
<1>1. /\ IsFiniteSet(Settled) /\ Cardinality(Settled) \in Nat
      /\ IsFiniteSet(Settled') /\ Cardinality(Settled') \in Nat
  BY ExecFinite, FS_Subset, FS_CardinalityType DEF Settled
<1>2. Settled \subseteq Settled' =>
        Cardinality(Settled) <= Cardinality(Settled')
  BY <1>1, FS_Subset
<1>3. ASSUME NEW x \in Settled', Settled \subseteq Settled', x \notin Settled
      PROVE  Cardinality(Settled) + 1 <= Cardinality(Settled')
  <2>1. /\ IsFiniteSet(Settled \union {x})
        /\ Cardinality(Settled \union {x}) = Cardinality(Settled) + 1
    BY <1>1, <1>3, FS_AddElement
  <2>2. Settled \union {x} \subseteq Settled'
    BY <1>3
  <2>3. Cardinality(Settled \union {x}) <= Cardinality(Settled')
    BY <1>1, <2>1, <2>2, FS_Subset
  <2> QED BY <2>1, <2>3
<1> QED BY <1>1, <1>2, <1>3

\* A trade nobody waits for any more is never waited for again.
LEMMA SettledStays ==
    ASSUME ControlInv, HashInv, [Next]_vars
    PROVE  Settled \subseteq Settled'
<1> SUFFICES ASSUME NEW x \in Settled PROVE x \in Settled'
  OBVIOUS
<1>1. /\ x \in Exec /\ tx[x] = "mined" /\ x # goal.pending /\ x # None
      /\ \A u \in Tick : Holder(u) => E(u) # x
  BY DEF Settled, Exec, None
<1>2. tx'[x] = "mined" /\ \A u \in Tick : Holder(u)' => E(u)' # x
  BY <1>1, HolderStep
<1>3. x # goal'.pending
  <2>1. goal'.pending \in {None, goal.pending}
          \/ \E u \in Tick : Submits(u)
    BY GoalStep DEF vars, Leave, Verdict
  <2>2. ASSUME NEW u \in Tick, Submits(u) PROVE x # goal'.pending
    BY <1>1, <2>2, SubmitsFacts DEF Submits, Holder
  <2> QED BY <1>1, <2>1, <2>2
<1> QED BY <1>1, <1>2, <1>3 DEF Settled

\* Every step counts at most the trades that are settled.
LEMMA VerdictNext ==
    ASSUME ControlInv, HashInv, VerdictInv, [Next]_vars
    PROVE  VerdictInv'
<1>0. /\ Cardinality(Settled) \in Nat /\ Cardinality(Settled') \in Nat
      /\ Cardinality(Settled) <= Cardinality(Settled')
  <2>1. Cardinality(Settled') \in Nat
    BY ExecFinite, FS_Subset, FS_CardinalityType DEF Settled
  <2> QED BY <2>1, SettledCount, SettledStays
<1>1. /\ goal \in GoalRecord /\ goal.verified \in Nat
      /\ \A u \in Tick : /\ tick[u].goal.verified \in Nat
                         /\ tick[u].current.verified \in Nat
  BY GoalType, ShapedFacts DEF GoalRecord, Shaped, TickRecord, SnapshotType
<1>2. ASSUME NEW u \in Tick
      PROVE  /\ tick'[u].goal.verified <= Cardinality(Settled')
             /\ tick'[u].current.verified <= Cardinality(Settled')
  <2>1. /\ tick[u].goal.verified <= Cardinality(Settled)
        /\ tick[u].current.verified <= Cardinality(Settled)
        /\ goal.verified <= Cardinality(Settled)
    BY DEF VerdictInv
  <2>2. \A n \in {tick[u].goal.verified, tick[u].current.verified,
                  goal.verified, 0} : n <= Cardinality(Settled')
    <3> DEFINE b == Cardinality(Settled)  c == Cardinality(Settled')
    <3>1. b \in Nat /\ c \in Nat /\ b <= c
      BY <1>0
    <3>2. \A n \in Nat : n <= b => n <= c
      <4> HIDE DEF b, c
      <4> QED BY <3>1
    <3> HIDE DEF b, c
    <3> QED BY <1>1, <2>1, <3>1, <3>2 DEF b, c
  <2> QED BY <2>2, SnapshotStep
<1>3. ASSUME NEW u \in Tick, M(u)' = "verify", "goal" \in tick'[u].fresh
      PROVE  goal'.pending = E(u)'
  <2>1. \/ /\ M(u) = "verify" /\ "goal" \in tick[u].fresh /\ E(u)' = E(u)
        \/ UNCHANGED goal /\ E(u)' = goal.pending
    BY <1>3, SnapshotStep
  <2>2. CASE UNCHANGED goal
    BY <2>1, <2>2 DEF VerdictInv
  <2>3. CASE ~UNCHANGED goal
    BY <1>3, <2>3, GoalStep DEF vars
  <2> QED BY <2>2, <2>3
<1>4. goal'.verified <= Cardinality(Settled')
  <2>1. ASSUME goal'.verified = goal.verified
        PROVE  goal'.verified <= Cardinality(Settled')
    BY <1>0, <1>1, <2>1 DEF VerdictInv
  <2>2. ASSUME NEW u \in Tick, Submits(u)
        PROVE  goal'.verified <= Cardinality(Settled')
    <3>1. /\ tick[u].goal.verified <= Cardinality(Settled)
          /\ tick[u].current.verified <= Cardinality(Settled)
          /\ goal'.verified
               \in {tick[u].goal.verified, tick[u].current.verified}
      BY <2>2 DEF VerdictInv, Submits
    <3> QED BY <1>0, <1>1, <3>1
  <2>3. ASSUME NEW u \in Tick, M(u) = "verify", "goal" \in tick[u].fresh,
               goal'.pending = None, goal'.verified = goal.verified + 1,
               tx[E(u)] = "mined"
        PROVE  goal'.verified <= Cardinality(Settled')
    <3>1. goal.pending = E(u) /\ E(u) \in Exec /\ E(u) # None
      BY <2>3, ShapedFacts, TickFacts DEF VerdictInv, Exec, None
    <3>2. tx'[E(u)] = "mined" /\ \A v \in Tick : Holder(v)' => E(v)' # E(u)
      BY <2>3, <3>1, HolderStep DEF HashInv
    <3>3. E(u) \in Settled' /\ E(u) \notin Settled
      BY <2>3, <3>1, <3>2 DEF Settled
    <3>4. Cardinality(Settled) + 1 <= Cardinality(Settled')
      BY <3>3, SettledCount, SettledStays
    <3>5. goal.verified <= Cardinality(Settled)
      BY DEF VerdictInv
    <3> QED BY <1>0, <1>1, <2>3, <3>4, <3>5
  <2> QED BY <2>1, <2>2, <2>3, GoalStep DEF vars, Leave, Verdict
<1> QED BY <1>2, <1>3, <1>4 DEF VerdictInv

\* At first nothing is counted.
LEMMA VerdictInit == Init => VerdictInv
<1> SUFFICES ASSUME Init PROVE VerdictInv
  OBVIOUS
<1>1. Cardinality(Settled) \in Nat
  BY SettledCount
<1>2. goal.verified = 0
  BY DEF Init, Activated, LeftExecuting, Created
<1>3. \A t \in Tick : /\ tick[t].goal.verified = 0
                      /\ tick[t].current.verified = 0
                      /\ M(t) = "none"
  BY IdleShape, Firsts DEF Init, NoSnapshot, M
<1> QED BY <1>1, <1>2, <1>3 DEF VerdictInv

\* The inductive invariant holds in every state.
LEMMA Invariance == Spec => []IInv
<1>1. IInv /\ [Next]_vars => IInv'
  BY ControlNext, BroadcastNext, HashNext, VerdictNext DEF IInv
<1>2. Init => IInv
  BY ControlInit, BroadcastInit, HashInit, VerdictInit DEF IInv
<1> QED BY <1>1, <1>2, PTL DEF Spec

\* A goal never counts more verified trades than transactions were mined,
\* though verification takes no lease: VerifiedOnce.
THEOREM VerifiedAtMostOnce == Spec => []VerifiedOnce
<1>1. IInv => VerifiedOnce
  <2> SUFFICES ASSUME IInv PROVE VerifiedOnce
    OBVIOUS
  <2> DEFINE Mined == {e \in Exec : tx[e] = "mined"}
  <2>1. IsFiniteSet(Mined)
    BY ExecFinite, FS_Subset
  <2>2. Settled \subseteq Mined
    BY DEF Settled
  <2>3. /\ Cardinality(Settled) <= Cardinality(Mined)
        /\ Cardinality(Settled) \in Nat /\ Cardinality(Mined) \in Nat
    <3> HIDE DEF Mined
    <3> QED BY <2>1, <2>2, FS_Subset, FS_CardinalityType
  <2>4. goal.verified <= Cardinality(Settled) /\ goal.verified \in Nat
    BY ShapedFacts DEF IInv, VerdictInv, ControlInv, TypeOK
  <2> QED BY <2>3, <2>4 DEF VerifiedOnce
<1> QED BY <1>1, Invariance, PTL

=============================================================================
