-------------------------- MODULE SettlementProofs --------------------------
(***************************************************************************)
(* The settlement pays a week once, proved for every set of jobs, weeks    *)
(* and players and every budget, also where the mutex expires under its    *)
(* holder and writes land late.  Where neither happens and no operator     *)
(* steps in (orderly), the player records and the ledger agree with the    *)
(* batches, and who is recorded as allocated has a reward.                 *)
(***************************************************************************)
EXTENDS Settlement, AmountsProofs, WellFoundedInduction

-----------------------------------------------------------------------------
(* Types of jobs, amounts and records.                                     *)

\* A job changed to a job state is one.
LEMMA SetTyped ==
    ASSUME TypeOK, NEW j \in Job, NEW r \in JobState, Set(j, r)
    PROVE  job' \in [Job -> JobState]
BY DEF TypeOK, Set

\* So is one whose program counter moves.
LEMMA PcTyped ==
    ASSUME TypeOK, NEW j \in Job, NEW pc \in PC
    PROVE  [job[j] EXCEPT !.pc = pc] \in JobState
BY DEF TypeOK, JobState

\* When a job moves, the jobs keep their type.
LEMMA GoTyped ==
    ASSUME TypeOK, NEW j \in Job, NEW pc \in PC, Go(j, pc)
    PROVE  job' \in [Job -> JobState]
BY PcTyped, SetTyped DEF Go

\* A job that has dealt with one more player is one.
LEMMA NextTyped_ ==
    ASSUME TypeOK, NEW j \in Job, NEW p \in Player, NEW pc \in PC
    PROVE  Next_(j, job[j].todo \ {p}, pc) \in JobState
BY DEF TypeOK, JobState, Next_

\* An idle job, and the empty records it starts with.
LEMMA IdleTyped == Idle \in JobState /\ Absent \in Settled
                   /\ Nothing \in Amounts_ /\ Fresh \in PlayerWeek
BY DEF Idle, JobState, PC, Absent, Settled, Fresh, Nothing, PlayerWeek,
       Amounts_, None

\* The sum of an allocation is a natural number, and so are its units.
LEMMA SumTyped ==
    ASSUME NEW a \in Amounts_
    PROVE  Sum(a) \in Nat /\ UnitsOf(Sum(a)) \in Nat
<1>1. Sum(a) \in Nat
  BY SetAssumption, TotalType DEF Sum, Amounts_
<1>2. \A x \in Nat : (x + Scale - 1) \div Scale \in Nat
  BY AmountAssumption
<1> QED BY <1>1, <1>2 DEF UnitsOf

\* What may be allocated is an allocation.
LEMMA AllocationTyped ==
    ASSUME NEW w, NEW a \in Allocations(w)
    PROVE  a \in Amounts_
BY AmountAssumption DEF Allocations, Amounts_

\* What reconciliation lists for a week is an allocation.
LEMMA ListedTyped ==
    ASSUME TypeOK, NEW w \in Week, NEW a \in Listed(w)
    PROVE  a \in Amounts_
<1>1. player[w] \in [Player -> PlayerWeek]
  BY DEF TypeOK
<1>2. \A p \in Player : player[w][p].amount \in Nat
  BY <1>1 DEF PlayerWeek
<1> QED BY <1>2 DEF Listed, Nothing, Amounts_

\* A compare-and-set keeps the type of the settlements and of the job.
LEMMA WriteTyped ==
    ASSUME TypeOK, NEW j \in Job, job[j].week \in Week, NEW from,
           NEW new \in Settled, NEW r \in JobState, Write(j, from, new, r)
    PROVE  /\ settle' \in [Week -> Settled]
           /\ job' \in [Job -> JobState]
<1>1. settle' \in [Week -> Settled]
  BY DEF TypeOK, Write, Week_
<1>2. [r EXCEPT !.seen = settle'[Week_(j)]] \in JobState
  BY <1>1 DEF JobState, Week_
<1> QED BY <1>1, <1>2, SetTyped DEF Write

\* So does concluding a week, and the rest is left alone.
LEMMA ConcludeTyped ==
    ASSUME TypeOK, NEW j \in Job, job[j].week \in Week, NEW from,
           NEW to \in {"finalized", "aborted"}, Conclude(j, from, to)
    PROVE  TypeOK'
<1>1. [job[j].seen EXCEPT !.status = to] \in Settled
  <2>1. job[j].seen \in Settled
    BY DEF TypeOK, JobState
  <2> QED BY <2>1 DEF Settled
<1>2. [job[j] EXCEPT !.pc = "unlock"] \in JobState
  <2>1. "unlock" \in PC
    BY DEF PC
  <2> QED BY <2>1, PcTyped
<1>3. settle' \in [Week -> Settled] /\ job' \in [Job -> JobState]
  BY <1>1, <1>2, WriteTyped DEF Conclude
<1> QED BY <1>3 DEF TypeOK, Conclude, chain, given

\* A player-week write keeps the type of the records.
LEMMA PlayerTyped ==
    ASSUME TypeOK, NEW w \in Week, NEW p \in Player, NEW from,
           NEW new \in PlayerWeek, WritePlayer(w, p, from, new)
    PROVE  player' \in [Week -> [Player -> PlayerWeek]]
BY DEF TypeOK, WritePlayer

\* Taking up and leaving a week.
LEMMA TypeTaking ==
    ASSUME TypeOK, JobsKnow, NEW j \in Job,
           \/ \E w \in Week : Take(j, w) \/ Reconcile(j, w)
           \/ Unlock(j) \/ Read(j) \/ Close(j) \/ Throw(j) \/ Crash(j)
    PROVE  TypeOK'
<1> USE DEF records, chain, given
<1>1. \A w \in Week, pc \in {"read", "recRead"} :
        [Idle EXCEPT !.pc = pc, !.week = w] \in JobState
  BY IdleTyped DEF JobState, PC
<1>2. ASSUME NEW w \in Week, Take(j, w)
      PROVE  TypeOK'
  BY <1>1, <1>2, SetTyped DEF Take, TypeOK
<1>3. ASSUME NEW w \in Week, Reconcile(j, w)
      PROVE  TypeOK'
  BY <1>1, <1>3, SetTyped DEF Reconcile, TypeOK
<1>4. CASE Unlock(j)
  BY <1>4, IdleTyped, SetTyped DEF Unlock, TypeOK
<1>5. CASE Read(j)
  <2>1. job[j].week \in Week
    BY <1>5 DEF JobsKnow, Read, At
  <2>2. settle[job[j].week] \in Settled
    BY <2>1 DEF TypeOK
  <2>3. settle[job[j].week].status \in {"absent", "closed", "computed",
            "allocating", "finalized", "aborted"}
    BY <2>2 DEF Settled
  <2> DEFINE pc == CASE settle[job[j].week].status \in {"finalized", "aborted"}
                          -> "unlock"
                     [] settle[job[j].week].status = "allocating" -> "recRead"
                     [] settle[job[j].week].status = "absent" -> "close"
                     [] settle[job[j].week].status \in {"closed", "computed"}
                          -> "list"
  <2>4. pc \in PC
    BY <2>3 DEF PC
  <2>5. [job[j] EXCEPT !.seen = settle[job[j].week], !.pc = pc] \in JobState
    <3> HIDE DEF pc
    <3> QED BY <2>2, <2>4 DEF TypeOK, JobState
  <2>6. Set(j, [job[j] EXCEPT !.seen = settle[job[j].week], !.pc = pc])
    BY <1>5 DEF Read, Week_
  <2>7. job' \in [Job -> JobState]
    BY <2>5, <2>6, SetTyped
  <2> QED BY <1>5, <2>7 DEF Read, TypeOK
<1>6. CASE Close(j)
  <2>1. job[j].week \in Week
    BY <1>6 DEF JobsKnow, Close, At
  <2>2. [status |-> "closed", attempt |-> None] \in Settled
    BY DEF Settled
  <2>3. [job[j] EXCEPT !.pc =
           IF settle'[Week_(j)].status \in {"closed", "computed"}
           THEN "list" ELSE "unlock"] \in JobState
    <3>1. {"list", "unlock"} \subseteq PC
      BY DEF PC
    <3> QED BY <3>1, PcTyped
  <2>4. settle' \in [Week -> Settled] /\ job' \in [Job -> JobState]
    BY <1>6, <2>1, <2>2, <2>3, WriteTyped DEF Close
  <2> QED BY <1>6, <2>4 DEF Close, TypeOK
<1>7. CASE Throw(j)
  <2>1. {"uncertain", "unlock"} \subseteq PC
    BY DEF PC
  <2> QED BY <1>7, <2>1, GoTyped DEF Throw, TypeOK
<1>8. CASE Crash(j)
  BY <1>8, IdleTyped, SetTyped DEF Crash, TypeOK
<1> QED BY <1>2, <1>3, <1>4, <1>5, <1>6, <1>7, <1>8

\* Computing a week.
LEMMA TypeComputing ==
    ASSUME TypeOK, JobsKnow, NEW j \in Job,
           \/ List(j) \/ Empty(j) \/ NoSeason(j) \/ Split(j) \/ Compute(j)
           \/ Pend(j) \/ Reject(j) \/ NothingToPay(j) \/ Authorize(j)
    PROVE  TypeOK'
<1> USE DEF records, chain, given
<1>1. job[j].week \in Week
  BY DEF JobsKnow, At, List, Empty, NoSeason, Split, Compute, Pend, Reject,
         NothingToPay, Authorize
<1>2. CASE List(j)
  <2>1. {"empty", "season"} \subseteq PC
    BY DEF PC
  <2> DEFINE listed == player[job[j].week]
  <2>2. listed \in [Player -> PlayerWeek]
    BY <1>1 DEF TypeOK
  <2>3. ASSUME NEW pc \in PC
        PROVE  [job[j] EXCEPT !.players = listed, !.pc = pc] \in JobState
    <3> HIDE DEF listed
    <3> QED BY <2>2 DEF TypeOK, JobState
  <2>4. job' \in [Job -> JobState]
    BY <1>2, <2>1, <2>3, SetTyped DEF List, Week_
  <2> QED BY <1>2, <2>4 DEF List, TypeOK
<1>3. CASE Empty(j)
  BY <1>1, <1>3, ConcludeTyped DEF Empty
<1>4. CASE NoSeason(j)
  BY <1>1, <1>4, ConcludeTyped DEF NoSeason
<1>5. CASE Split(j)
  <2>1. PICK a \in Allocations(Week_(j)) :
          Set(j, [job[j] EXCEPT !.alloc = a, !.pc = "compute"])
    BY <1>5 DEF Split
  <2>2. a \in Amounts_ /\ "compute" \in PC
    BY AllocationTyped DEF PC
  <2>3. [job[j] EXCEPT !.alloc = a, !.pc = "compute"] \in JobState
    BY <2>2 DEF TypeOK, JobState
  <2>4. job' \in [Job -> JobState]
    BY <2>1, <2>3, SetTyped
  <2> QED BY <1>5, <2>4 DEF Split, TypeOK
<1>6. CASE Compute(j)
  <2>1. [job[j].seen EXCEPT !.status = "computed"] \in Settled
    <3>1. job[j].seen \in Settled
      BY DEF TypeOK, JobState
    <3> QED BY <3>1 DEF Settled
  <2>2. [job[j] EXCEPT !.pc = "pend", !.todo = entered[Week_(j)]] \in JobState
    <3>1. "pend" \in PC /\ entered[job[j].week] \in SUBSET Player
      BY <1>1 DEF PC, TypeOK
    <3> QED BY <3>1 DEF TypeOK, JobState, Week_
  <2>3. settle' \in [Week -> Settled] /\ job' \in [Job -> JobState]
    BY <1>1, <1>6, <2>1, <2>2, WriteTyped DEF Compute
  <2> QED BY <1>6, <2>3 DEF Compute, TypeOK
<1>7. CASE Pend(j)
  <2>1. PICK p \in job[j].todo :
          /\ WritePlayer(Week_(j), p, job[j].players[p].status, Pending(j, p))
          /\ Set(j, Next_(j, job[j].todo \ {p},
                         IF At(j, "pend") THEN "authorize" ELSE "unlock"))
    BY <1>7 DEF Pend
  <2>2. p \in Player /\ job[j].players[p] \in PlayerWeek
        /\ job[j].alloc[p] \in Nat
    BY DEF TypeOK, JobState, Amounts_
  <2>3. Pending(j, p) \in PlayerWeek
    BY <2>2 DEF Pending, PlayerWeek
  <2>4. player' \in [Week -> [Player -> PlayerWeek]]
    BY <1>1, <2>1, <2>2, <2>3, PlayerTyped DEF Week_
  <2>5. {"authorize", "unlock"} \subseteq PC
    BY DEF PC
  <2>6. job' \in [Job -> JobState]
    BY <2>1, <2>2, <2>5, NextTyped_, SetTyped
  <2> QED BY <1>7, <2>4, <2>6 DEF Pend, TypeOK
<1>8. CASE Reject(j)
  <2>1. "stray" \in PC
    BY DEF PC
  <2> QED BY <1>8, <2>1, GoTyped DEF Reject, TypeOK
<1>9. CASE NothingToPay(j)
  BY <1>1, <1>9, ConcludeTyped DEF NothingToPay
<1>10. CASE Authorize(j)
  <2>1. CASE Conclude(j, "computed", "aborted")
    BY <1>1, <2>1, ConcludeTyped
  <2>2. CASE /\ Go(j, "claim")
             /\ UNCHANGED <<given, records, lock, chain, attempts>>
    <3>1. "claim" \in PC
      BY DEF PC
    <3> QED BY <2>2, <3>1, GoTyped DEF TypeOK
  <2> QED BY <1>10, <2>1, <2>2 DEF Authorize
<1> QED BY <1>2, <1>3, <1>4, <1>5, <1>6, <1>7, <1>8, <1>9, <1>10

\* Allocating a week.
LEMMA TypeAllocating ==
    ASSUME TypeOK, JobsKnow, NEW j \in Job,
           \/ Claim(j) \/ Outbox(j) \/ Simulate(j) \/ Send(j) \/ Confirm(j)
           \/ Uncertain(j) \/ Allocated(j)
    PROVE  TypeOK'
<1> USE DEF records, chain, given
<1>1. job[j].week \in Week
  BY DEF JobsKnow, At, Claim, Outbox, Simulate, Send, Confirm, Uncertain,
         Allocated
<1>2. CASE Claim(j)
  <2>1. attempts + 1 \in Attempt /\ attempts' \in 0..MaxAttempts
    BY <1>2, AmountAssumption DEF TypeOK, Claim, Attempt
  <2>2. Claimed(j) \in Settled
    <3>1. job[j].seen \in Settled
      BY DEF TypeOK, JobState
    <3> QED BY <2>1, <3>1 DEF Claimed, Settled
  <2>3. [job[j] EXCEPT !.pc =
           IF settle'[Week_(j)].attempt = attempts + 1
           THEN "outbox" ELSE "unlock"] \in JobState
    <3>1. {"outbox", "unlock"} \subseteq PC
      BY DEF PC
    <3> QED BY <3>1, PcTyped
  <2>4. settle' \in [Week -> Settled] /\ job' \in [Job -> JobState]
    BY <1>1, <1>2, <2>2, <2>3, WriteTyped DEF Claim
  <2> QED BY <1>2, <2>1, <2>4 DEF Claim, TypeOK
<1>3. CASE Outbox(j)
  <2>1. "simulate" \in PC /\ job[j].alloc \in Amounts_
    BY DEF PC, TypeOK, JobState
  <2>2. job' \in [Job -> JobState]
    BY <1>3, <2>1, GoTyped DEF Outbox
  <2> QED BY <1>1, <1>3, <2>1, <2>2 DEF Outbox, TypeOK, Week_
<1>4. CASE Simulate(j)
  <2>1. "send" \in PC /\ Len(vault) + 1 \in Nat
    BY DEF PC, TypeOK
  <2>2. [job[j] EXCEPT !.first = Len(vault) + 1, !.pc = "send"] \in JobState
    BY <2>1 DEF TypeOK, JobState
  <2>3. job' \in [Job -> JobState]
    BY <1>4, <2>2, SetTyped DEF Simulate
  <2> QED BY <1>4, <2>3 DEF Simulate, TypeOK
<1>5. CASE Send(j)
  <2>1. "wait" \in PC
    BY DEF PC
  <2>2. job' \in [Job -> JobState]
    BY <1>5, <2>1, GoTyped DEF Send
  <2> QED BY <1>5, <2>2 DEF Send, TypeOK
<1>6. CASE Confirm(j)
  <2>1. "allocated" \in PC /\ Payable(job[j].alloc) \in SUBSET Player
    BY DEF PC, Payable
  <2>2. [job[j] EXCEPT !.pc = "allocated", !.todo = Payable(job[j].alloc)]
          \in JobState
    BY <2>1 DEF TypeOK, JobState
  <2>3. job' \in [Job -> JobState]
    BY <1>6, <2>2, SetTyped DEF Confirm
  <2> QED BY <1>6, <2>3 DEF Confirm, TypeOK
<1>7. CASE Uncertain(j)
  <2>1. "unlock" \in PC
    BY DEF PC
  <2>2. job' \in [Job -> JobState]
    BY <1>7, <2>1, GoTyped DEF Uncertain
  <2> QED BY <1>7, <2>2 DEF Uncertain, TypeOK
<1>8. CASE Allocated(j)
  <2>1. PICK p \in job[j].todo :
          /\ WritePlayer(Week_(j), p, "pending",
               [status |-> "allocated", amount |-> job[j].alloc[p],
                id |-> job[j].first])
          /\ Set(j, Next_(j, job[j].todo \ {p}, "ledger"))
    BY <1>8 DEF Allocated
  <2>2. p \in Player /\ job[j].first \in Nat /\ job[j].alloc[p] \in Nat
    BY DEF TypeOK, JobState, Amounts_
  <2>3. [status |-> "allocated", amount |-> job[j].alloc[p],
         id |-> job[j].first] \in PlayerWeek
    BY <2>2 DEF PlayerWeek
  <2>4. player' \in [Week -> [Player -> PlayerWeek]]
    BY <1>1, <2>1, <2>2, <2>3, PlayerTyped DEF Week_
  <2>5. "ledger" \in PC
    BY DEF PC
  <2>6. job' \in [Job -> JobState]
    BY <2>1, <2>2, <2>5, NextTyped_, SetTyped
  <2> QED BY <1>8, <2>4, <2>6 DEF Allocated, TypeOK
<1> QED BY <1>2, <1>3, <1>4, <1>5, <1>6, <1>7, <1>8

\* The first reward that matches is one of the vault.
LEMMA MatchIn ==
    ASSUME TypeOK, NEW j, NEW p, Matches(j, p) # {}
    PROVE  Match(j, p) \in Matches(j, p)
<1>1. Matches(j, p) \in SUBSET Nat
  BY DEF TypeOK, Matches
<1> DEFINE below == {ss \in Nat \X Nat : ss[1] < ss[2]}
<1>0. IsWellFoundedOn(below, Nat)
  BY NatLessThanWellFounded, Zenon DEF OpToRel
<1>2. PICK n \in Matches(j, p) :
        \A m \in Matches(j, p) : ~ (<<m, n>> \in below)
  <2> HIDE DEF below
  <2> QED BY <1>0, <1>1, WFMin
<1>3. \A m \in Matches(j, p) : n <= m
  <2>1. \A x, y \in Nat : x < y => <<x, y>> \in below
    OBVIOUS
  <2> HIDE DEF below
  <2>2. \A m \in Matches(j, p) : m \in Nat /\ n \in Nat /\ ~ (m < n)
    BY <1>1, <1>2, <2>1
  <2> QED BY <2>2
<1> QED BY <1>3 DEF Match

\* It has a place in the vault.
LEMMA MatchTyped ==
    ASSUME TypeOK, NEW j, NEW p, Matches(j, p) # {}
    PROVE  Match(j, p) \in Nat
<1>1. Matches(j, p) \in SUBSET Nat
  BY DEF TypeOK, Matches
<1> QED BY <1>1, MatchIn

\* Reconciling a week.
LEMMA TypeReconciling ==
    ASSUME TypeOK, JobsKnow, NEW j \in Job, Reconciling(j)
    PROVE  TypeOK'
<1> USE DEF records, chain, given
<1>1. job[j].week \in Week
  BY DEF JobsKnow, At, Reconciling, RecRead, RecList, RecPlayer, Ledger,
         Finalize
<1>2. CASE RecRead(j)
  <2>1. settle[job[j].week] \in Settled
    BY <1>1 DEF TypeOK
  <2>2. {"recList", "unlock"} \subseteq PC
    BY DEF PC
  <2>3. ASSUME NEW pc \in PC
        PROVE  [job[j] EXCEPT !.seen = settle[job[j].week], !.pc = pc]
                  \in JobState
    BY <2>1 DEF TypeOK, JobState
  <2>4. job' \in [Job -> JobState]
    BY <1>2, <2>2, <2>3, SetTyped DEF RecRead, Week_
  <2> QED BY <1>2, <2>4 DEF RecRead, TypeOK
<1>3. CASE RecList(j)
  <2> DEFINE listed == player[job[j].week]
  <2>0. PICK amounts \in Listed(job[j].week) :
          Set(j, [job[j] EXCEPT
                    !.players = listed, !.alloc = amounts,
                    !.todo = Payable(amounts),
                    !.pc = IF Payable(amounts) = {} THEN "ledger"
                           ELSE "recPlayer"])
    BY <1>3 DEF RecList, Week_
  <2>1. listed \in [Player -> PlayerWeek]
    BY <1>1 DEF TypeOK
  <2>2. amounts \in Amounts_
    BY <1>1, ListedTyped
  <2>3. {"ledger", "recPlayer"} \subseteq PC
    BY DEF PC
  <2> HIDE DEF listed
  <2>4. Payable(amounts) \in SUBSET Player
    BY DEF Payable
  <2>5. ASSUME NEW pc \in PC
        PROVE  [job[j] EXCEPT !.players = listed, !.alloc = amounts,
                  !.todo = Payable(amounts), !.pc = pc] \in JobState
    BY <2>1, <2>2, <2>4 DEF TypeOK, JobState
  <2>6. job' \in [Job -> JobState]
    BY <2>0, <2>3, <2>5, SetTyped
  <2> QED BY <1>3, <2>6 DEF RecList, TypeOK
<1>4. CASE RecPlayer(j)
  <2> DEFINE missed(p) == job[j].missed \/ Missed(j, p)
             new(p) == [job[j].players[p] EXCEPT !.status = "allocated",
                                                 !.id = Match(j, p)]
             next(p) == Next_(j, job[j].todo \ {p},
                              IF missed(p) THEN "unlock" ELSE "ledger")
  <2>1. PICK p \in job[j].todo :
          /\ IF Known(j, p) \/ Missed(j, p) THEN UNCHANGED player
             ELSE WritePlayer(job[j].week, p, "pending", new(p))
          /\ Set(j, [next(p) EXCEPT !.missed = missed(p)])
    BY <1>4 DEF RecPlayer, Week_
  <2>2. p \in Player /\ job[j].players[p] \in PlayerWeek
    BY DEF TypeOK, JobState
  <2>3. player' \in [Week -> [Player -> PlayerWeek]]
    <3>1. CASE Known(j, p) \/ Missed(j, p)
      BY <2>1, <3>1 DEF TypeOK
    <3>2. CASE ~(Known(j, p) \/ Missed(j, p))
      <4>1. Match(j, p) \in Nat
        BY <3>2, MatchTyped DEF Missed
      <4>2. new(p) \in PlayerWeek
        BY <2>2, <4>1 DEF PlayerWeek
      <4> QED BY <1>1, <2>1, <2>2, <3>2, <4>2, PlayerTyped
    <3> QED BY <3>1, <3>2
  <2>4. {"ledger", "unlock"} \subseteq PC
    BY DEF PC
  <2>5. next(p) \in JobState
    BY <2>2, <2>4, NextTyped_
  <2>6. missed(p) \in BOOLEAN
    <3>1. job[j].missed \in BOOLEAN
      BY DEF TypeOK, JobState
    <3> QED BY <3>1, Zenon DEF Missed
  <2>7. [next(p) EXCEPT !.missed = missed(p)] \in JobState
    <3> HIDE DEF next, missed
    <3> QED BY <2>5, <2>6 DEF JobState
  <2>8. job' \in [Job -> JobState]
    BY <2>1, <2>7, SetTyped
  <2> QED BY <1>4, <2>3, <2>8 DEF RecPlayer, TypeOK
<1>5. CASE Ledger(j)
  <2>1. "finalize" \in PC /\ job[j].alloc \in Amounts_
    BY DEF PC, TypeOK, JobState
  <2>2. UnitsOf(Sum(job[j].alloc)) \in Nat
    BY <2>1, SumTyped
  <2>3. job' \in [Job -> JobState]
    BY <1>5, <2>1, GoTyped DEF Ledger
  <2> QED BY <1>5, <2>2, <2>3 DEF Ledger, TypeOK
<1>6. CASE Finalize(j)
  BY <1>1, <1>6, ConcludeTyped DEF Finalize
<1> QED BY <1>2, <1>3, <1>4, <1>5, <1>6 DEF Reconciling

\* What happens around the jobs.
LEMMA TypeAround ==
    ASSUME TypeOK,
           \/ \E a \in Attempt : Mine(a) \/ Revert(a)
           \/ \E w \in Week : Reset(w)
           \/ LockExpires \/ Age \/ UNCHANGED vars
    PROVE  TypeOK'
<1> USE DEF records, chain, given
<1>1. ASSUME NEW a \in Attempt, Mine(a)
      PROVE  TypeOK'
  BY <1>1 DEF Mine, TypeOK
<1>2. ASSUME NEW a \in Attempt, Revert(a)
      PROVE  TypeOK'
  BY <1>2 DEF Revert, TypeOK
<1>3. ASSUME NEW w \in Week, Reset(w)
      PROVE  TypeOK'
  <2>1. [status |-> "computed", attempt |-> None] \in Settled
    BY DEF Settled
  <2> QED BY <1>3, <2>1 DEF Reset, TypeOK
<1>4. CASE LockExpires
  BY <1>4 DEF LockExpires, TypeOK
<1>5. CASE Age
  BY <1>5 DEF Age, TypeOK
<1>6. CASE UNCHANGED vars
  BY <1>6 DEF vars, TypeOK
<1> QED BY <1>1, <1>2, <1>3, <1>4, <1>5, <1>6

\* Every step keeps the types.
LEMMA TypeStep ==
    ASSUME TypeOK, JobsKnow, [Next]_vars
    PROVE  TypeOK'
BY TypeTaking, TypeComputing, TypeAllocating, TypeReconciling, TypeAround
   DEF Next, Settling

-----------------------------------------------------------------------------
(* Steps of jobs that leave the batches and the vault alone.  Such a step  *)
(* keeps the invariant when it keeps the attempt of every week taken, the  *)
(* outbox record of every batch sent, and when the job goes on as a        *)
(* claimant only of what it claimed.                                       *)

Safe == /\ JobsKnow /\ OwnersKnow /\ Drawn /\ OneClaimant
        /\ ClaimIsInOutbox /\ SentWeek /\ BatchIsOnRecord /\ VaultIsMined

SettleKeeps ==
    \A w \in Week :
        /\ settle'[w].attempt <= attempts'
        /\ Taken(w) => /\ settle'[w].attempt = settle[w].attempt
                       /\ settle'[w].status \in {"allocating", "finalized"}

OutboxKeeps(j) ==
    \A a \in Attempt :
        \/ /\ outbox'[a].week = outbox[a].week
           /\ outbox[a].status # "none" => outbox'[a].status # "none"
        \/ At(j, "outbox") /\ a = Own(j)

JobMoves(j, r) ==
    /\ r.pc # "idle" => r.week \in Week
    /\ r.pc \in Computing => r.seen.status \in {"closed", "computed"}
    /\ r.seen.attempt <= attempts'
    /\ r.pc \in Owners =>
          /\ settle'[r.week].attempt = r.seen.attempt
          /\ settle'[r.week].status \in {"allocating", "finalized"}
    /\ r.pc \in Claimants =>
          \/ job[j].pc \in Claimants /\ r.seen.attempt = Own(j)
          \/ attempts < r.seen.attempt
    /\ r.pc \in {"simulate", "send"} =>
          /\ outbox'[r.seen.attempt].status # "none"
          /\ outbox'[r.seen.attempt].week = r.week

\* A claimant's attempt is one that was drawn.
LEMMA ClaimantTyped ==
    ASSUME TypeOK, OneClaimant, NEW j \in Job, job[j].pc \in Claimants
    PROVE  Own(j) \in Attempt
<1>1. job[j].seen \in Settled
  BY DEF TypeOK, JobState
<1> QED BY <1>1 DEF OneClaimant, Settled, Own

\* The batch of a claimant is not sent.
LEMMA ClaimantUnsent ==
    ASSUME TypeOK, OneClaimant, NEW j \in Job, job[j].pc \in Claimants
    PROVE  ~ Sent(Own(j))
BY DEF OneClaimant, Sent, Own

\* Such steps keep the invariant.
LEMMA JobKeeps ==
    ASSUME Inv, TypeOK', NEW j \in Job, NEW r, Set(j, r), JobMoves(j, r),
           SettleKeeps, OutboxKeeps(j),
           attempts <= attempts', UNCHANGED <<tx, vault>>
    PROVE  Safe'
<1> USE DEF Inv
<1>1. job'[j] = r /\ \A k \in Job : k # j => job'[k] = job[k]
  BY DEF TypeOK, Set
<1>2. attempts \in Nat /\ attempts' \in Nat
  BY DEF TypeOK
<1>3. \A k \in Job : /\ job[k].seen.attempt \in Nat
                     /\ job'[k].seen.attempt \in Nat
  BY DEF TypeOK, JobState, Settled, None, Attempt
<1>4. ASSUME NEW a \in Attempt, Sent(a)
      PROVE  /\ outbox'[a].week = outbox[a].week
             /\ outbox'[a].status # "none" /\ outbox[a].week \in Week
  <2>1. ~ (At(j, "outbox") /\ a = Own(j))
    BY <1>4, ClaimantUnsent DEF At, Claimants
  <2>2. outbox[a].status # "none"
    BY <1>4 DEF BatchIsOnRecord
  <2> QED BY <1>4, <2>1, <2>2 DEF OutboxKeeps, SentWeek
<1>5. \A a \in Attempt : Sent(a)' <=> Sent(a)
  BY DEF Sent
<1>6. JobsKnow'
  BY <1>1 DEF JobMoves, JobsKnow
<1>7. OwnersKnow'
  <2> SUFFICES ASSUME NEW k \in Job, job'[k].pc \in Owners
               PROVE  /\ settle'[job'[k].week].attempt = job'[k].seen.attempt
                      /\ settle'[job'[k].week].status
                            \in {"allocating", "finalized"}
    BY DEF OwnersKnow, Taken
  <2>1. CASE k = j
    BY <1>1, <2>1 DEF JobMoves, Taken
  <2>2. CASE k # j
    <3>1. job'[k] = job[k]
      BY <1>1, <2>2
    <3>2. job[k].week \in Week
      BY <3>1 DEF JobsKnow, Owners, Claimants
    <3> QED BY <3>1, <3>2 DEF OwnersKnow, SettleKeeps, Taken
  <2> QED BY <2>1, <2>2
<1>8. Drawn'
  <2>1. \A k \in Job : job'[k].seen.attempt <= attempts'
    BY <1>1, <1>2, <1>3 DEF Drawn, JobMoves
  <2>2. \A a \in Attempt : tx'[a] # "none" => a <= attempts'
    BY <1>2 DEF Drawn, Attempt
  <2> QED BY <2>1, <2>2 DEF Drawn, SettleKeeps
<1>9. OneClaimant'
  <2> DEFINE own(k) == job'[k].seen.attempt
  <2>1. ASSUME NEW k \in Job, job'[k].pc \in Claimants
        PROVE  \/ job[k].pc \in Claimants /\ own(k) = Own(k)
               \/ k = j /\ attempts < own(k)
    BY <1>1, <2>1 DEF JobMoves, Own
  <2>2. \A k \in Job : Own(k) <= attempts
    BY DEF Drawn, Own
  <2>3. \A a \in Attempt : attempts < a => tx[a] = "none"
    BY <1>2 DEF Drawn, Attempt
  <2>4. ASSUME NEW k \in Job, job'[k].pc \in Claimants
        PROVE  own(k) # None /\ tx'[own(k)] = "none"
    <3>1. CASE job[k].pc \in Claimants /\ own(k) = Own(k)
      BY <3>1 DEF OneClaimant, Own
    <3>2. CASE k = j /\ attempts < own(k)
      <4>1. own(k) # None
        BY <1>2, <3>2 DEF None
      <4>2. own(k) \in Attempt
        <5>1. job'[k].seen \in Settled
          BY DEF TypeOK, JobState
        <5> QED BY <4>1, <5>1 DEF Settled
      <4> QED BY <2>3, <3>2, <4>1, <4>2
    <3> QED BY <2>1, <2>4, <3>1, <3>2
  <2>5. ASSUME NEW k \in Job, NEW l \in Job, job'[k].pc \in Claimants,
               job'[l].pc \in Claimants, own(l) = own(k)
        PROVE  l = k
    <3>1. CASE k = j /\ attempts < own(k)
      BY <1>2, <1>3, <2>1, <2>2, <2>5, <3>1 DEF Own
    <3>2. CASE l = j /\ attempts < own(l)
      BY <1>2, <1>3, <2>1, <2>2, <2>5, <3>2 DEF Own
    <3>3. CASE /\ job[k].pc \in Claimants /\ own(k) = Own(k)
               /\ job[l].pc \in Claimants /\ own(l) = Own(l)
      BY <2>5, <3>3 DEF OneClaimant, Own
    <3> QED BY <2>1, <2>5, <3>1, <3>2, <3>3
  <2> QED BY <2>4, <2>5 DEF OneClaimant
<1>10. ClaimIsInOutbox'
  <2> SUFFICES ASSUME NEW k \in Job, job'[k].pc \in {"simulate", "send"}
               PROVE  /\ outbox'[job'[k].seen.attempt].status # "none"
                      /\ outbox'[job'[k].seen.attempt].week = job'[k].week
    BY DEF ClaimIsInOutbox
  <2>1. CASE k = j
    BY <1>1, <2>1 DEF JobMoves
  <2>2. CASE k # j
    <3>1. job'[k] = job[k] /\ job[k].pc \in Claimants
      BY <1>1, <2>2 DEF Claimants
    <3>2. Own(k) \in Attempt
      BY <3>1, ClaimantTyped
    <3>3. ~ (At(j, "outbox") /\ Own(k) = Own(j))
      BY <2>2, <3>1 DEF At, Claimants, OneClaimant, Own
    <3>4. outbox[Own(k)].status # "none" /\ outbox[Own(k)].week = job[k].week
      BY <3>1 DEF ClaimIsInOutbox, Own
    <3> QED BY <3>1, <3>2, <3>3, <3>4 DEF OutboxKeeps, Own
  <2> QED BY <2>1, <2>2
<1>11. SentWeek'
  BY <1>4, <1>5 DEF SentWeek
<1>12. BatchIsOnRecord'
  <2> SUFFICES ASSUME NEW a \in Attempt, Sent(a)
               PROVE  /\ outbox'[a].status # "none"
                      /\ settle'[outbox'[a].week].attempt = a
                      /\ settle'[outbox'[a].week].status
                            \in {"allocating", "finalized"}
    BY <1>5 DEF BatchIsOnRecord, Taken
  <2>1. settle[outbox[a].week].attempt = a /\ Taken(outbox[a].week)
    BY DEF BatchIsOnRecord
  <2> QED BY <1>4, <2>1 DEF SettleKeeps, Taken
<1>13. VaultIsMined'
  BY DEF VaultIsMined
<1> QED BY <1>6, <1>7, <1>8, <1>9, <1>10, <1>11, <1>12, <1>13 DEF Safe

\* The settlements, when nothing is written to them; the outbox likewise.
LEMMA SettleSame ==
    ASSUME Inv, UNCHANGED <<settle, attempts>>
    PROVE  SettleKeeps
BY DEF Inv, Drawn, SettleKeeps, Taken

\* An outbox that stays the same keeps the record of every batch.
LEMMA OutboxSame ==
    ASSUME UNCHANGED outbox, NEW j
    PROVE  OutboxKeeps(j)
BY DEF OutboxKeeps

\* A compare-and-set from a status before "allocating" loses no week taken.
LEMMA WriteKeeps ==
    ASSUME Inv, NEW j \in Job, job[j].week \in Week, NEW new, NEW r,
           NEW from, from \notin {"allocating", "finalized"},
           Write(j, from, new, r),
           new.attempt <= attempts', attempts <= attempts', attempts' \in Nat
    PROVE  SettleKeeps
<1>1. ASSUME NEW w \in Week
      PROVE  \/ settle'[w] = settle[w]
             \/ ~ Taken(w) /\ settle'[w] = new
  <2>1. settle' = IF Wins(j, from) THEN [settle EXCEPT ![job[j].week] = new]
                  ELSE settle
    BY DEF Write, Week_
  <2>2. Wins(j, from) => ~ Taken(job[j].week)
    BY DEF Wins, Week_, Taken
  <2>3. settle \in [Week -> Settled]
    BY DEF Inv, TypeOK
  <2> QED BY <2>1, <2>2, <2>3
<1>2. \A w \in Week :
        settle[w].attempt \in Nat /\ settle[w].attempt <= attempts
  BY DEF Inv, TypeOK, Settled, None, Attempt, Drawn
<1>3. attempts \in Nat
  BY DEF Inv, TypeOK
<1> QED BY <1>1, <1>2, <1>3 DEF SettleKeeps, Taken

\* A job that goes on with its week, as what it was.
LEMMA JobStays ==
    ASSUME Inv, TypeOK', NEW j \in Job, NEW r, Set(j, r),
           UNCHANGED <<settle, tx, vault, attempts>>, OutboxKeeps(j),
           job[j].pc # "idle",
           r.week = job[j].week, r.seen = job[j].seen,
           r.pc \in Computing => job[j].pc \in Computing,
           r.pc \in Owners => job[j].pc \in Owners,
           r.pc \in Claimants => job[j].pc \in Claimants,
           r.pc \in {"simulate", "send"} => job[j].pc \in {"simulate", "send"}
    PROVE  Safe'
<1> USE DEF Inv
<1>1. SettleKeeps
  BY SettleSame
<1>2. attempts <= attempts'
  BY DEF TypeOK
<1>3. r.pc \in {"simulate", "send"} =>
        /\ outbox'[r.seen.attempt].status # "none"
        /\ outbox'[r.seen.attempt].week = r.week
  <2> SUFFICES ASSUME job[j].pc \in {"simulate", "send"}
               PROVE  /\ outbox'[Own(j)].status # "none"
                      /\ outbox'[Own(j)].week = job[j].week
    BY DEF Own
  <2>1. Own(j) \in Attempt
    BY ClaimantTyped DEF Claimants
  <2>2. outbox[Own(j)].status # "none" /\ outbox[Own(j)].week = job[j].week
    BY DEF ClaimIsInOutbox, Own
  <2> QED BY <2>1, <2>2 DEF OutboxKeeps, At
<1>4. JobMoves(j, r)
  <2>1. r.week \in Week /\ r.seen.attempt <= attempts'
    BY DEF JobsKnow, Drawn
  <2>2. r.pc \in Computing => r.seen.status \in {"closed", "computed"}
    BY DEF JobsKnow
  <2>3. r.pc \in Owners =>
          /\ settle'[r.week].attempt = r.seen.attempt
          /\ settle'[r.week].status \in {"allocating", "finalized"}
    BY DEF OwnersKnow, Taken
  <2> QED BY <1>3, <2>1, <2>2, <2>3 DEF JobMoves, Own
<1> QED BY <1>1, <1>2, <1>4, JobKeeps

\* A job that reads its week, or takes up one, or leaves it.
LEMMA JobReads ==
    ASSUME Inv, TypeOK', NEW j \in Job, NEW r, Set(j, r),
           UNCHANGED <<settle, outbox, tx, vault, attempts>>,
           r.pc # "idle" => r.week \in Week,
           r.seen.attempt <= attempts,
           r.pc \notin Computing \union Claimants,
           r.pc \in Owners => r.seen = settle[r.week] /\ Taken(r.week)
    PROVE  Safe'
<1>1. SettleKeeps /\ OutboxKeeps(j)
  BY SettleSame, OutboxSame
<1>2. attempts <= attempts'
  BY DEF Inv, TypeOK
<1>3. JobMoves(j, r)
  BY DEF JobMoves, Taken, Claimants
<1> QED BY <1>1, <1>2, <1>3, JobKeeps

\* A job that writes its week before it is allocated.
LEMMA JobWrites ==
    ASSUME Inv, TypeOK', NEW j \in Job, job[j].week \in Week,
           NEW new, NEW r \in JobState,
           NEW from, from \notin {"allocating", "finalized"},
           Write(j, from, new, r), new.attempt <= attempts,
           UNCHANGED <<outbox, tx, vault, attempts>>,
           r.week = job[j].week, r.pc \notin Owners,
           r.pc \in Computing
             => settle'[job[j].week].status \in {"closed", "computed"}
    PROVE  Safe'
<1> DEFINE s == [r EXCEPT !.seen = settle'[job[j].week]]
<1>1. Set(j, s)
  BY DEF Write, Week_
<1>2. s.pc = r.pc /\ s.week = r.week /\ s.seen = settle'[job[j].week]
  BY DEF JobState
<1>3. attempts \in Nat /\ attempts' = attempts
  BY DEF Inv, TypeOK
<1>4. SettleKeeps /\ OutboxKeeps(j)
  BY <1>3, WriteKeeps, OutboxSame
<1>5. JobMoves(j, s)
  <2> HIDE DEF s
  <2>1. s.seen.attempt <= attempts'
    BY <1>2, <1>4 DEF SettleKeeps
  <2> QED BY <1>2, <2>1 DEF JobMoves, Owners, Claimants
<1>6. attempts <= attempts'
  BY <1>3
<1> HIDE DEF s
<1> QED BY <1>1, <1>4, <1>5, <1>6, JobKeeps

\* Concluding a week before it is allocated.
LEMMA Concludes ==
    ASSUME Inv, TypeOK', NEW j \in Job, job[j].week \in Week,
           NEW from, from \notin {"allocating", "finalized"}, NEW to,
           Conclude(j, from, to)
    PROVE  Safe'
<1> DEFINE new == [job[j].seen EXCEPT !.status = to]
           r == [job[j] EXCEPT !.pc = "unlock"]
<1>1. Write(j, from, new, r) /\ UNCHANGED <<outbox, tx, vault, attempts>>
  BY DEF Conclude, chain, given
<1>2. new.attempt <= attempts
  <2>1. job[j].seen \in Settled
    BY DEF Inv, TypeOK, JobState
  <2>2. new.attempt = job[j].seen.attempt
    BY <2>1 DEF Settled
  <2> QED BY <2>2 DEF Inv, Drawn
<1>3. r \in JobState /\ r.pc = "unlock" /\ r.week = job[j].week
  <2>1. "unlock" \in PC
    BY DEF PC
  <2>2. r \in JobState
    BY <2>1, PcTyped DEF Inv
  <2> QED BY <2>2 DEF Inv, TypeOK, JobState
<1>4. r.pc \notin Owners /\ r.pc \notin Computing
  BY <1>3 DEF Owners, Claimants, Computing
<1> HIDE DEF new, r
<1> QED BY <1>1, <1>2, <1>3, <1>4, JobWrites

\* Taking up and leaving a week.
LEMMA SafeTaking ==
    ASSUME Inv, TypeOK', NEW j \in Job,
           \/ \E w \in Week : Take(j, w) \/ Reconcile(j, w)
           \/ Unlock(j) \/ Read(j) \/ Close(j) \/ Throw(j) \/ Crash(j)
    PROVE  Safe'
<1> USE DEF records, chain, given
<1>0. /\ Idle.pc = "idle" /\ Idle.seen.attempt = 0
      /\ "idle" \notin Computing \union Owners
      /\ "idle" \notin Claimants
      /\ attempts \in Nat
  BY DEF Idle, Absent, None, Computing, Claimants, Owners, Inv, TypeOK
<1>1. ASSUME Set(j, Idle), UNCHANGED <<settle, outbox, tx, vault, attempts>>
      PROVE  Safe'
  <2>1. 0 <= attempts
    BY <1>0
  <2> QED BY <1>0, <1>1, <2>1, JobReads
<1>2. ASSUME NEW w \in Week, Take(j, w) \/ Reconcile(j, w)
      PROVE  Safe'
  <2>1. PICK pc \in {"read", "recRead"} :
          Set(j, [Idle EXCEPT !.pc = pc, !.week = w])
    BY <1>2 DEF Take, Reconcile
  <2> DEFINE r == [Idle EXCEPT !.pc = pc, !.week = w]
  <2>2. r.pc = pc /\ r.week = w /\ r.seen.attempt = 0
    BY DEF Idle, Absent, None
  <2>3. pc \notin Computing /\ pc \notin Claimants /\ pc \notin Owners
    BY DEF Computing, Claimants, Owners
  <2>4. UNCHANGED <<settle, outbox, tx, vault, attempts>>
    BY <1>2 DEF Take, Reconcile
  <2>5. 0 <= attempts
    BY <1>0
  <2> HIDE DEF r
  <2> QED BY <2>1, <2>2, <2>3, <2>4, <2>5, JobReads DEF r
<1>3. CASE Unlock(j)
  BY <1>1, <1>3 DEF Unlock
<1>4. CASE Crash(j)
  BY <1>1, <1>4 DEF Crash
<1>5. CASE Read(j)
  <2>1. job[j].week \in Week
    BY <1>5 DEF Inv, JobsKnow, Read, At
  <2> DEFINE s == settle[job[j].week]
  <2>2. s.status \in {"absent", "closed", "computed", "allocating",
                      "finalized", "aborted"}
    BY <2>1 DEF Inv, TypeOK, Settled
  <2>3. PICK pc \in {"unlock", "recRead", "close", "list"} :
          /\ Set(j, [job[j] EXCEPT !.seen = s, !.pc = pc])
          /\ pc = "list" => s.status \in {"closed", "computed"}
    BY <1>5, <2>2 DEF Read, Week_
  <2> DEFINE r == [job[j] EXCEPT !.seen = s, !.pc = pc]
  <2>4. r.pc = pc /\ r.week = job[j].week /\ r.seen = s
    BY DEF Inv, TypeOK, JobState
  <2>5. s.attempt <= attempts
    BY <2>1 DEF Inv, Drawn
  <2>6. /\ pc \notin Claimants /\ pc \notin Owners
        /\ pc \in Computing => pc = "list"
    BY DEF Claimants, Owners, Computing
  <2>7. UNCHANGED <<settle, outbox, tx, vault, attempts>>
    BY <1>5 DEF Read
  <2>8. SettleKeeps /\ OutboxKeeps(j)
    BY <2>7, SettleSame, OutboxSame
  <2>9. attempts <= attempts'
    BY <1>0, <2>7
  <2> HIDE DEF r, s
  <2>10. JobMoves(j, r)
    BY <2>1, <2>3, <2>4, <2>5, <2>6, <2>7 DEF JobMoves, Claimants
  <2> QED BY <2>3, <2>7, <2>8, <2>9, <2>10, JobKeeps DEF r
<1>6. CASE Close(j)
  <2>1. job[j].week \in Week
    BY <1>6 DEF Inv, JobsKnow, Close, At
  <2> DEFINE new == [status |-> "closed", attempt |-> None]
             pc == IF settle'[job[j].week].status \in {"closed", "computed"}
                   THEN "list" ELSE "unlock"
             r == [job[j] EXCEPT !.pc = pc]
  <2>2. pc \in PC /\ pc \notin Owners
    BY DEF PC, Owners, Claimants
  <2>3. pc \in Computing
          => settle'[job[j].week].status \in {"closed", "computed"}
    BY DEF Computing
  <2>4. new.attempt <= attempts
    BY <1>0 DEF None
  <2>5. /\ Write(j, "absent", new, r)
        /\ UNCHANGED <<outbox, tx, vault, attempts>>
    BY <1>6 DEF Close, Week_
  <2> HIDE DEF new, pc
  <2>6. r \in JobState
    BY <2>2, PcTyped DEF Inv
  <2>7. r.pc = pc /\ r.week = job[j].week
    BY DEF Inv, TypeOK, JobState
  <2> HIDE DEF r
  <2> QED BY <2>1, <2>2, <2>3, <2>4, <2>5, <2>6, <2>7, JobWrites
<1>7. CASE Throw(j)
  <2> DEFINE pc == IF job[j].pc \in Allocating THEN "uncertain" ELSE "unlock"
             r == [job[j] EXCEPT !.pc = pc]
  <2>1. r.pc = pc /\ r.week = job[j].week /\ r.seen = job[j].seen
    BY DEF Inv, TypeOK, JobState
  <2>2. /\ pc \notin Computing /\ pc \notin Claimants
        /\ pc \in Owners => job[j].pc \in Owners
    BY DEF Computing, Claimants, Owners, Allocating
  <2>3. /\ Set(j, r) /\ job[j].pc # "idle"
        /\ UNCHANGED <<settle, outbox, tx, vault, attempts>>
    BY <1>7 DEF Throw, Go
  <2>4. OutboxKeeps(j)
    BY <2>3, OutboxSame
  <2> HIDE DEF r, pc
  <2>5. r.pc \notin {"simulate", "send"}
    BY <2>1, <2>2 DEF Claimants
  <2> QED BY <2>1, <2>2, <2>3, <2>4, <2>5, JobStays
<1> QED BY <1>2, <1>3, <1>4, <1>5, <1>6, <1>7

\* A job that has dealt with a player goes on with its week.
LEMMA NextIs ==
    ASSUME TypeOK, NEW j \in Job, NEW todo, NEW pc
    PROVE  /\ Next_(j, todo, pc).week = job[j].week
           /\ Next_(j, todo, pc).seen = job[j].seen
           /\ Next_(j, todo, pc).pc \in {pc, job[j].pc}
BY DEF TypeOK, JobState, Next_

\* Computing a week.
LEMMA SafeComputing ==
    ASSUME Inv, TypeOK', NEW j \in Job,
           \/ List(j) \/ Empty(j) \/ NoSeason(j) \/ Split(j) \/ Compute(j)
           \/ Pend(j) \/ Reject(j) \/ NothingToPay(j) \/ Authorize(j)
    PROVE  Safe'
<1> USE DEF records, chain, given
<1>1. job[j].week \in Week /\ job[j].pc # "idle"
  <2>1. job[j].pc # "idle"
    BY DEF At, List, Empty, NoSeason, Split, Compute, Pend, Reject,
           NothingToPay, Authorize
  <2> QED BY <2>1 DEF Inv, JobsKnow
<1>2. ASSUME job[j].pc \in Computing
      PROVE  job[j].seen.status \notin {"allocating", "finalized"}
  BY <1>2 DEF Inv, JobsKnow
<1>3. ASSUME NEW r, Set(j, r),
             UNCHANGED <<settle, outbox, tx, vault, attempts>>,
             r.week = job[j].week, r.seen = job[j].seen,
             r.pc \notin Owners, r.pc \in Computing => job[j].pc \in Computing
      PROVE  Safe'
  <2>1. r.pc \notin Claimants /\ r.pc \notin {"simulate", "send"}
    BY <1>3 DEF Owners, Claimants
  <2>2. OutboxKeeps(j)
    BY <1>3, OutboxSame
  <2> QED BY <1>1, <1>3, <2>1, <2>2, JobStays
<1>4. CASE List(j)
  <2>1. PICK pc \in {"empty", "season"} :
          Set(j, [job[j] EXCEPT !.players = player[job[j].week], !.pc = pc])
    BY <1>4 DEF List, Week_
  <2> DEFINE r == [job[j] EXCEPT !.players = player[job[j].week], !.pc = pc]
  <2>2. r.pc = pc /\ r.week = job[j].week /\ r.seen = job[j].seen
    BY DEF Inv, TypeOK, JobState
  <2>3. pc \notin Owners /\ job[j].pc \in Computing
    BY <1>4 DEF Owners, Claimants, Computing, List, At
  <2>4. UNCHANGED <<settle, outbox, tx, vault, attempts>>
    BY <1>4 DEF List
  <2> HIDE DEF r
  <2> QED BY <1>3, <2>1, <2>2, <2>3, <2>4 DEF r
<1>5. CASE Empty(j)
  <2>1. job[j].pc \in Computing
    BY <1>5 DEF Empty, At, Computing
  <2> QED BY <1>1, <1>2, <1>5, <2>1, Concludes DEF Empty
<1>6. CASE NoSeason(j)
  <2>1. job[j].pc \in Computing
    BY <1>6 DEF NoSeason, At, Computing
  <2> QED BY <1>1, <1>2, <1>6, <2>1, Concludes DEF NoSeason
<1>7. CASE Split(j)
  <2>1. PICK a \in Allocations(Week_(j)) :
          Set(j, [job[j] EXCEPT !.alloc = a, !.pc = "compute"])
    BY <1>7 DEF Split
  <2> DEFINE r == [job[j] EXCEPT !.alloc = a, !.pc = "compute"]
  <2>2. r.pc = "compute" /\ r.week = job[j].week /\ r.seen = job[j].seen
    BY DEF Inv, TypeOK, JobState
  <2>3. "compute" \notin Owners /\ job[j].pc \in Computing
    BY <1>7 DEF Owners, Claimants, Computing, Split, At
  <2>4. UNCHANGED <<settle, outbox, tx, vault, attempts>>
    BY <1>7 DEF Split
  <2> HIDE DEF r
  <2> QED BY <1>3, <2>1, <2>2, <2>3, <2>4 DEF r
<1>8. CASE Compute(j)
  <2> DEFINE new == [job[j].seen EXCEPT !.status = "computed"]
             r == [job[j] EXCEPT !.pc = "pend", !.todo = entered[job[j].week]]
  <2>1. job[j].pc \in Computing
    BY <1>8 DEF Compute, At, Computing
  <2>2. /\ Write(j, job[j].seen.status, new, r)
        /\ UNCHANGED <<outbox, tx, vault, attempts>>
    BY <1>8 DEF Compute, Week_
  <2>3. new.attempt <= attempts
    <3>1. job[j].seen \in Settled
      BY DEF Inv, TypeOK, JobState
    <3>2. new.attempt = job[j].seen.attempt
      BY <3>1 DEF Settled
    <3> QED BY <3>2 DEF Inv, Drawn
  <2>4. r \in JobState /\ r.pc = "pend" /\ r.week = job[j].week
    <3>1. "pend" \in PC /\ entered[job[j].week] \in SUBSET Player
      BY <1>1 DEF PC, Inv, TypeOK
    <3>2. r \in JobState
      <4> DEFINE todo == entered[job[j].week]
      <4>1. todo \in SUBSET Player /\ job[j] \in JobState
        BY <3>1 DEF Inv, TypeOK
      <4> HIDE DEF todo
      <4>2. [job[j] EXCEPT !.pc = "pend", !.todo = todo] \in JobState
        BY <3>1, <4>1 DEF JobState
      <4> QED BY <4>2 DEF todo
    <3>3. r.pc = "pend" /\ r.week = job[j].week
      BY DEF Inv, TypeOK, JobState
    <3> QED BY <3>2, <3>3
  <2>5. r.pc \notin Owners /\ r.pc \notin Computing
    BY <2>4 DEF Owners, Claimants, Computing
  <2> HIDE DEF new, r
  <2> QED BY <1>1, <1>2, <2>1, <2>2, <2>3, <2>4, <2>5, JobWrites
<1>9. CASE Pend(j)
  <2>1. PICK p \in job[j].todo, pc \in {"authorize", "unlock"} :
          Set(j, Next_(j, job[j].todo \ {p}, pc))
    BY <1>9 DEF Pend
  <2> DEFINE r == Next_(j, job[j].todo \ {p}, pc)
  <2>2. /\ r.pc \in {pc, job[j].pc}
        /\ r.week = job[j].week /\ r.seen = job[j].seen
    BY NextIs DEF Inv
  <2>3. pc \notin Owners /\ job[j].pc \notin Owners /\ pc \notin Computing
    BY <1>9 DEF Owners, Claimants, Computing, Pend, At
  <2>4. UNCHANGED <<settle, outbox, tx, vault, attempts>>
    BY <1>9 DEF Pend
  <2> HIDE DEF r
  <2> QED BY <1>3, <2>1, <2>2, <2>3, <2>4 DEF r
<1>10. ASSUME NEW pc \in {"stray", "claim"}, Go(j, pc),
              UNCHANGED <<settle, outbox, tx, vault, attempts>>
       PROVE  Safe'
  <2> DEFINE r == [job[j] EXCEPT !.pc = pc]
  <2>1. r.pc = pc /\ r.week = job[j].week /\ r.seen = job[j].seen
    BY DEF Inv, TypeOK, JobState
  <2>2. pc \notin Owners /\ pc \notin Computing
    BY DEF Owners, Claimants, Computing
  <2>3. Set(j, r)
    BY <1>10 DEF Go
  <2> HIDE DEF r
  <2> QED BY <1>3, <1>10, <2>1, <2>2, <2>3
<1>11. CASE Reject(j)
  BY <1>10, <1>11 DEF Reject
<1>12. CASE NothingToPay(j)
  BY <1>1, <1>12, Concludes DEF NothingToPay
<1>13. CASE Authorize(j)
  <2>1. CASE Conclude(j, "computed", "aborted")
    BY <1>1, <2>1, Concludes
  <2>2. CASE /\ Go(j, "claim")
             /\ UNCHANGED <<given, records, lock, chain, attempts>>
    BY <1>10, <2>2
  <2> QED BY <1>13, <2>1, <2>2 DEF Authorize
<1> QED BY <1>4, <1>5, <1>6, <1>7, <1>8, <1>9, <1>11, <1>12, <1>13

\* Sending the batch: it is on record, and no other job will send it again.
LEMMA SafeSend ==
    ASSUME Inv, TypeOK', NEW j \in Job, Send(j)
    PROVE  Safe'
<1> DEFINE a == Own(j)
           r == [job[j] EXCEPT !.pc = "wait"]
<1>1. /\ job[j].pc = "send" /\ Set(j, r) /\ tx' = [tx EXCEPT ![a] = "flying"]
      /\ UNCHANGED <<settle, outbox, vault, attempts>>
  BY DEF Send, At, Go, records
<1>2. r.pc = "wait" /\ r.week = job[j].week /\ r.seen = job[j].seen
  BY DEF Inv, TypeOK, JobState
<1>3. job[j].pc \in Claimants /\ job[j].pc \in Owners
  BY <1>1 DEF Owners, Claimants
<1>4. a \in Attempt /\ ~ Sent(a) /\ a <= attempts
  BY <1>3, ClaimantTyped, ClaimantUnsent DEF Inv, Drawn, Own
<1>5. /\ settle[job[j].week].attempt = a /\ Taken(job[j].week)
      /\ outbox[a].status # "none" /\ outbox[a].week = job[j].week
      /\ job[j].week \in Week
  BY <1>1, <1>3 DEF Inv, OwnersKnow, ClaimIsInOutbox, JobsKnow, Own
<1>6. "wait" \notin Claimants /\ "wait" \notin Computing /\ "wait" \in Owners
  BY DEF Owners, Claimants, Computing
<1>7. \A b \in Attempt : tx'[b] = IF b = a THEN "flying" ELSE tx[b]
  BY <1>1, <1>4 DEF Inv, TypeOK
<1> HIDE DEF r, a
<1>8. job'[j] = r /\ \A k \in Job : k # j => job'[k] = job[k]
  BY <1>1 DEF Inv, TypeOK, Set
<1>9. JobsKnow' /\ OwnersKnow'
  <2>1. JobsKnow'
    BY <1>2, <1>5, <1>6, <1>8 DEF Inv, JobsKnow
  <2>2. OwnersKnow'
    BY <1>1, <1>2, <1>5, <1>6, <1>8 DEF Inv, OwnersKnow, Taken, Own, a
  <2> QED BY <2>1, <2>2
<1>10. Drawn'
  <2>1. \A k \in Job : job'[k].seen.attempt <= attempts
    BY <1>2, <1>8 DEF Inv, Drawn
  <2>2. \A b \in Attempt : tx'[b] # "none" => b <= attempts
    BY <1>4, <1>7 DEF Inv, Drawn
  <2> QED BY <1>1, <2>1, <2>2 DEF Inv, Drawn
<1>11. OneClaimant'
  <2>1. ASSUME NEW k \in Job, job'[k].pc \in Claimants
        PROVE  /\ k # j /\ job'[k] = job[k] /\ Own(k) \in Attempt
               /\ Own(k) # None /\ Own(k) # a
    <3>1. k # j /\ job'[k] = job[k]
      BY <1>2, <1>6, <1>8, <2>1
    <3> QED BY <1>3, <2>1, <3>1, ClaimantTyped DEF Inv, OneClaimant, Own, a
  <2>2. \A k \in Job : job'[k].pc \in Claimants =>
          job[k].seen.attempt # None /\ tx'[job[k].seen.attempt] = "none"
    BY <1>7, <2>1 DEF Inv, OneClaimant, Own
  <2> QED BY <2>1, <2>2 DEF Inv, OneClaimant
<1>12. ClaimIsInOutbox'
  BY <1>1, <1>2, <1>8 DEF Inv, ClaimIsInOutbox
<1>13. \A b \in Attempt : Sent(b)' <=> Sent(b) \/ b = a
  BY <1>7 DEF Sent
<1>14. SentWeek'
  BY <1>1, <1>5, <1>13 DEF Inv, SentWeek
<1>15. BatchIsOnRecord'
  <2>1. ASSUME NEW b \in Attempt, Sent(b) \/ b = a
        PROVE  /\ outbox[b].status # "none"
               /\ settle[outbox[b].week].attempt = b
               /\ Taken(outbox[b].week)
    BY <1>5, <2>1 DEF Inv, BatchIsOnRecord
  <2> QED BY <1>1, <1>13, <2>1 DEF BatchIsOnRecord, Taken
<1>16. VaultIsMined'
  <2>1. \A n \in DOMAIN vault : vault[n] \in Attempt /\ vault[n] # a
    BY <1>4 DEF Inv, TypeOK, VaultIsMined, Sent
  <2> QED BY <1>1, <1>7, <2>1 DEF Inv, VaultIsMined
<1> QED BY <1>9, <1>10, <1>11, <1>12, <1>14, <1>15, <1>16 DEF Safe

\* Allocating a week.
LEMMA SafeAllocating ==
    ASSUME Inv, TypeOK', NEW j \in Job,
           \/ Claim(j) \/ Outbox(j) \/ Simulate(j) \/ Send(j) \/ Confirm(j)
           \/ Uncertain(j) \/ Allocated(j)
    PROVE  Safe'
<1> USE DEF records, chain, given
<1>1. job[j].week \in Week /\ job[j].pc # "idle"
  <2>1. job[j].pc # "idle"
    BY DEF At, Claim, Outbox, Simulate, Send, Confirm, Uncertain, Allocated
  <2> QED BY <2>1 DEF Inv, JobsKnow
<1>2. CASE Claim(j)
  <2> DEFINE w == job[j].week
             pc == IF settle'[w].attempt = attempts + 1 THEN "outbox"
                   ELSE "unlock"
             r == [job[j] EXCEPT !.pc = pc]
             s == [r EXCEPT !.seen = settle'[w]]
  <2>1. /\ Write(j, "computed", Claimed(j), r) /\ attempts' = attempts + 1
        /\ UNCHANGED <<outbox, tx, vault>>
    BY <1>2 DEF Claim, Week_
  <2>2. attempts \in Nat /\ attempts' \in Nat /\ attempts <= attempts'
    BY <2>1 DEF Inv, TypeOK
  <2>3. Claimed(j).attempt = attempts + 1 /\ Claimed(j).status = "allocating"
    <3>1. job[j].seen \in Settled
      BY DEF Inv, TypeOK, JobState
    <3> QED BY <3>1 DEF Claimed, Settled
  <2>4. SettleKeeps
    <3>1. Claimed(j).attempt <= attempts'
      BY <2>1, <2>2, <2>3
    <3> HIDE DEF r
    <3> QED BY <1>1, <2>1, <2>2, <3>1, WriteKeeps
  <2>5. OutboxKeeps(j) /\ Set(j, s)
    BY <2>1, OutboxSame DEF Write, Week_
  <2>6. s.pc = pc /\ s.week = w /\ s.seen = settle'[w]
    BY DEF Inv, TypeOK, JobState
  <2>7. settle'[w].attempt = attempts + 1 => settle'[w].status = "allocating"
    <3>1. settle[w].attempt \in Nat /\ settle[w].attempt <= attempts
      BY <1>1 DEF Inv, TypeOK, Settled, None, Attempt, Drawn
    <3>2. settle' = settle \/ settle' = [settle EXCEPT ![w] = Claimed(j)]
      BY <2>1 DEF Write, Week_
    <3>3. settle \in [Week -> Settled]
      BY DEF Inv, TypeOK
    <3> QED BY <1>1, <2>2, <2>3, <3>1, <3>2, <3>3
  <2>8. pc \in {"outbox", "unlock"}
    OBVIOUS
  <2>9. pc = "outbox" => settle'[w].attempt = attempts + 1
    OBVIOUS
  <2>10. /\ "unlock" \notin Owners /\ "unlock" \notin Claimants
         /\ "unlock" \notin Computing /\ "outbox" \notin Computing
    BY DEF Owners, Claimants, Computing
  <2>11. settle'[w].attempt <= attempts' /\ attempts < attempts + 1
    BY <1>1, <2>2, <2>4 DEF SettleKeeps
  <2> HIDE DEF s, pc, r
  <2>12. pc \notin {"simulate", "send"}
    BY <2>8
  <2>13. JobMoves(j, s)
    BY <1>1, <2>6, <2>7, <2>8, <2>9, <2>10, <2>11, <2>12 DEF JobMoves
  <2> QED BY <2>1, <2>2, <2>4, <2>5, <2>13, JobKeeps
<1>3. CASE Outbox(j)
  <2> DEFINE a == Own(j)
             r == [job[j] EXCEPT !.pc = "simulate"]
             o == [status |-> "pending", week |-> job[j].week,
                   amounts |-> job[j].alloc]
  <2>1. /\ job[j].pc = "outbox" /\ Set(j, r)
        /\ outbox' = [outbox EXCEPT ![a] = o]
        /\ UNCHANGED <<settle, tx, vault, attempts>>
    BY <1>3 DEF Outbox, At, Go, Week_
  <2>2. r.pc = "simulate" /\ r.week = job[j].week /\ r.seen = job[j].seen
    BY DEF Inv, TypeOK, JobState
  <2>3. o.status # "none" /\ o.week = job[j].week
    OBVIOUS
  <2>4. /\ job[j].pc \in Claimants /\ job[j].pc \in Owners
        /\ "simulate" \notin Computing
    BY <2>1 DEF Claimants, Owners, Computing
  <2> HIDE DEF r, o
  <2>5. a \in Attempt
    BY <2>4, ClaimantTyped DEF Inv
  <2>6. \A b \in Attempt : outbox'[b] = IF b = a THEN o ELSE outbox[b]
    BY <2>1, <2>5 DEF Inv, TypeOK
  <2>7. OutboxKeeps(j)
    BY <2>1, <2>6 DEF OutboxKeeps, At
  <2>8. SettleKeeps
    BY <2>1, SettleSame
  <2>9. attempts <= attempts'
    BY <2>1 DEF Inv, TypeOK
  <2>10. JobMoves(j, r)
    <3>1. r.seen.attempt <= attempts'
      BY <2>1, <2>2 DEF Inv, Drawn
    <3>2. /\ settle'[r.week].attempt = r.seen.attempt
          /\ settle'[r.week].status \in {"allocating", "finalized"}
      BY <2>1, <2>2, <2>4 DEF Inv, OwnersKnow, Taken
    <3>3. /\ outbox'[r.seen.attempt].status # "none"
          /\ outbox'[r.seen.attempt].week = r.week
      BY <2>2, <2>3, <2>5, <2>6 DEF Own
    <3> QED BY <1>1, <2>2, <2>4, <3>1, <3>2, <3>3 DEF JobMoves, Own
  <2> QED BY <2>1, <2>7, <2>8, <2>9, <2>10, JobKeeps
<1>4. CASE Simulate(j)
  <2> DEFINE r == [job[j] EXCEPT !.first = Len(vault) + 1, !.pc = "send"]
  <2>1. /\ job[j].pc = "simulate" /\ Set(j, r)
        /\ UNCHANGED <<settle, outbox, tx, vault, attempts>>
    BY <1>4 DEF Simulate, At
  <2>2. r.pc = "send" /\ r.week = job[j].week /\ r.seen = job[j].seen
    BY DEF Inv, TypeOK, JobState
  <2>3. /\ job[j].pc \in Claimants /\ job[j].pc \in Owners
        /\ "send" \notin Computing
    BY <2>1 DEF Claimants, Owners, Computing
  <2>4. OutboxKeeps(j)
    BY <2>1, OutboxSame
  <2> HIDE DEF r
  <2> QED BY <1>1, <2>1, <2>2, <2>3, <2>4, JobStays
<1>5. CASE Send(j)
  BY <1>5, SafeSend
<1>6. CASE Confirm(j)
  <2> DEFINE r == [job[j] EXCEPT !.pc = "allocated",
                                 !.todo = Payable(job[j].alloc)]
  <2>1. /\ job[j].pc = "wait" /\ Set(j, r)
        /\ UNCHANGED <<settle, tx, vault, attempts>>
    BY <1>6 DEF Confirm, At
  <2>2. r.pc = "allocated" /\ r.week = job[j].week /\ r.seen = job[j].seen
    BY DEF Inv, TypeOK, JobState
  <2>3. /\ job[j].pc \in Owners /\ "allocated" \notin Computing
        /\ "allocated" \notin Claimants
    BY <2>1 DEF Claimants, Owners, Computing
  <2>4. OutboxKeeps(j)
    BY <1>6 DEF Confirm, OutboxKeeps, Inv, TypeOK
  <2> HIDE DEF r
  <2> QED BY <1>1, <2>1, <2>2, <2>3, <2>4, JobStays
<1>7. CASE Uncertain(j)
  <2> DEFINE r == [job[j] EXCEPT !.pc = "unlock"]
  <2>1. Set(j, r) /\ UNCHANGED <<settle, tx, vault, attempts>>
    BY <1>7 DEF Uncertain, Go
  <2>2. r.pc = "unlock" /\ r.week = job[j].week /\ r.seen = job[j].seen
    BY DEF Inv, TypeOK, JobState
  <2>3. /\ "unlock" \notin Owners /\ "unlock" \notin Computing
        /\ "unlock" \notin Claimants
    BY DEF Claimants, Owners, Computing
  <2>4. OutboxKeeps(j)
    BY <1>7 DEF Uncertain, OutboxKeeps, Inv, TypeOK
  <2> HIDE DEF r
  <2> QED BY <1>1, <2>1, <2>2, <2>3, <2>4, JobStays
<1>8. CASE Allocated(j)
  <2>1. PICK p \in job[j].todo :
          Set(j, Next_(j, job[j].todo \ {p}, "ledger"))
    BY <1>8 DEF Allocated
  <2> DEFINE r == Next_(j, job[j].todo \ {p}, "ledger")
  <2>2. /\ r.pc \in {"ledger", "allocated"}
        /\ r.week = job[j].week /\ r.seen = job[j].seen
    BY <1>8, NextIs DEF Inv, Allocated, At
  <2>3. /\ job[j].pc \in Owners
        /\ {"ledger", "allocated"} \cap (Computing \union Claimants) = {}
    BY <1>8 DEF Claimants, Owners, Computing, Allocated, At
  <2>4. UNCHANGED <<settle, outbox, tx, vault, attempts>>
    BY <1>8 DEF Allocated
  <2>5. OutboxKeeps(j)
    BY <2>4, OutboxSame
  <2> HIDE DEF r
  <2>6. r.pc \notin Computing /\ r.pc \notin Claimants
    BY <2>2, <2>3
  <2> QED BY <1>1, <2>1, <2>2, <2>3, <2>4, <2>5, <2>6, JobStays DEF r
<1> QED BY <1>2, <1>3, <1>4, <1>5, <1>6, <1>7, <1>8

\* Reconciling a week.
LEMMA SafeReconciling ==
    ASSUME Inv, TypeOK', NEW j \in Job, Reconciling(j)
    PROVE  Safe'
<1> USE DEF records, chain, given
<1>1. job[j].week \in Week /\ job[j].pc # "idle"
  <2>1. job[j].pc # "idle"
    BY DEF At, Reconciling, RecRead, RecList, RecPlayer, Ledger, Finalize
  <2> QED BY <2>1 DEF Inv, JobsKnow
<1>2. ASSUME NEW r, Set(j, r), job[j].pc \in Owners,
             UNCHANGED <<settle, outbox, tx, vault, attempts>>,
             r.week = job[j].week, r.seen = job[j].seen,
             r.pc \in {"recPlayer", "ledger", "finalize", "unlock"}
      PROVE  Safe'
  <2>1. r.pc \notin Claimants /\ r.pc \notin Computing
    BY <1>2 DEF Claimants, Computing
  <2>2. OutboxKeeps(j)
    BY <1>2, OutboxSame
  <2> QED BY <1>1, <1>2, <2>1, <2>2, JobStays
<1>3. CASE RecRead(j)
  <2> DEFINE s == settle[job[j].week]
             pc == IF s.status = "allocating" THEN "recList" ELSE "unlock"
             r == [job[j] EXCEPT !.seen = s, !.pc = pc]
  <2>1. Set(j, r) /\ UNCHANGED <<settle, outbox, tx, vault, attempts>>
    BY <1>3 DEF RecRead, Week_
  <2>2. r.pc = pc /\ r.week = job[j].week /\ r.seen = s
    BY DEF Inv, TypeOK, JobState
  <2>3. pc \notin Computing /\ pc \notin Claimants
    BY DEF Computing, Claimants
  <2>4. pc \in Owners => Taken(job[j].week)
    BY DEF Owners, Claimants, Taken
  <2>5. s.attempt <= attempts
    BY <1>1 DEF Inv, Drawn
  <2> HIDE DEF r, pc
  <2> QED BY <1>1, <2>1, <2>2, <2>3, <2>4, <2>5, JobReads
<1>4. CASE RecList(j)
  <2>0. PICK amounts \in Listed(job[j].week) :
          Set(j, [job[j] EXCEPT
                    !.players = player[job[j].week], !.alloc = amounts,
                    !.todo = Payable(amounts),
                    !.pc = IF Payable(amounts) = {} THEN "ledger"
                           ELSE "recPlayer"])
    BY <1>4 DEF RecList, Week_
  <2> DEFINE listed == player[job[j].week]
             pc == IF Payable(amounts) = {} THEN "ledger" ELSE "recPlayer"
             r == [job[j] EXCEPT !.players = listed, !.alloc = amounts,
                                 !.todo = Payable(amounts), !.pc = pc]
  <2>1. Set(j, r) /\ UNCHANGED <<settle, outbox, tx, vault, attempts>>
    BY <1>4, <2>0 DEF RecList
  <2>2. pc \in {"ledger", "recPlayer"}
    OBVIOUS
  <2> HIDE DEF pc, listed
  <2>3. r.pc = pc /\ r.week = job[j].week /\ r.seen = job[j].seen
    BY DEF Inv, TypeOK, JobState
  <2>4. job[j].pc \in Owners
    BY <1>4 DEF Owners, RecList, At
  <2> HIDE DEF r
  <2> QED BY <1>2, <2>1, <2>2, <2>3, <2>4
<1>5. CASE RecPlayer(j)
  <2> DEFINE missed(p) == job[j].missed \/ Missed(j, p)
             next(p) == Next_(j, job[j].todo \ {p},
                              IF missed(p) THEN "unlock" ELSE "ledger")
  <2>1. PICK p \in job[j].todo : Set(j, [next(p) EXCEPT !.missed = missed(p)])
    BY <1>5 DEF RecPlayer
  <2> DEFINE r == [next(p) EXCEPT !.missed = missed(p)]
  <2>2. p \in Player /\ {"unlock", "ledger"} \subseteq PC
    BY DEF Inv, TypeOK, JobState, PC
  <2>3. next(p) \in JobState
    BY <2>2, NextTyped_ DEF Inv
  <2>4. /\ next(p).pc \in {"unlock", "ledger", "recPlayer"}
        /\ next(p).week = job[j].week /\ next(p).seen = job[j].seen
    BY <1>5, NextIs DEF Inv, RecPlayer, At
  <2>5. r.pc = next(p).pc /\ r.week = next(p).week /\ r.seen = next(p).seen
    <3> HIDE DEF next, missed
    <3> QED BY <2>3 DEF JobState
  <2>6. job[j].pc \in Owners
    BY <1>5 DEF Owners, RecPlayer, At
  <2>7. UNCHANGED <<settle, outbox, tx, vault, attempts>>
    BY <1>5 DEF RecPlayer
  <2> HIDE DEF next, missed
  <2>8. Set(j, r)
    BY <2>1
  <2> HIDE DEF r
  <2> QED BY <1>2, <2>4, <2>5, <2>6, <2>7, <2>8
<1>6. CASE Ledger(j)
  <2> DEFINE r == [job[j] EXCEPT !.pc = "finalize"]
  <2>1. Set(j, r) /\ UNCHANGED <<settle, outbox, tx, vault, attempts>>
    BY <1>6 DEF Ledger, Go
  <2>2. r.pc = "finalize" /\ r.week = job[j].week /\ r.seen = job[j].seen
    BY DEF Inv, TypeOK, JobState
  <2>3. job[j].pc \in Owners
    BY <1>6 DEF Owners, Ledger, At
  <2> HIDE DEF r
  <2> QED BY <1>2, <2>1, <2>2, <2>3
<1>7. CASE Finalize(j)
  <2> DEFINE w == job[j].week
             new == [job[j].seen EXCEPT !.status = "finalized"]
             r == [job[j] EXCEPT !.pc = "unlock"]
             s == [r EXCEPT !.seen = settle'[w]]
  <2>1. /\ settle' = IF Wins(j, "allocating") THEN [settle EXCEPT ![w] = new]
                     ELSE settle
        /\ Set(j, s) /\ UNCHANGED <<outbox, tx, vault, attempts>>
    BY <1>7 DEF Finalize, Conclude, Write, Week_
  <2>2. new.attempt = settle[w].attempt /\ new.status = "finalized"
    <3>1. job[j].seen \in Settled
      BY DEF Inv, TypeOK, JobState
    <3>2. job[j].pc \in Owners
      BY <1>7 DEF Owners, Finalize, At
    <3> QED BY <3>1, <3>2 DEF Inv, OwnersKnow, Settled
  <2>3. s.pc = "unlock" /\ s.week = w /\ s.seen = settle'[w]
    BY DEF Inv, TypeOK, JobState
  <2> HIDE DEF new, s
  <2>4. SettleKeeps
    <3>1. ASSUME NEW v \in Week
          PROVE  /\ settle'[v].attempt = settle[v].attempt
                 /\ settle'[v].status \in {settle[v].status, "finalized"}
      <4>1. settle \in [Week -> Settled]
        BY DEF Inv, TypeOK
      <4> QED BY <2>1, <2>2, <4>1
    <3> QED BY <2>1, <3>1 DEF SettleKeeps, Taken, Inv, Drawn
  <2>5. OutboxKeeps(j)
    BY <2>1, OutboxSame
  <2>6. attempts <= attempts'
    BY <2>1 DEF Inv, TypeOK
  <2>7. settle'[w].attempt <= attempts'
    BY <1>1, <2>4 DEF SettleKeeps
  <2>8. JobMoves(j, s)
    BY <1>1, <2>3, <2>7 DEF JobMoves, Computing, Owners, Claimants
  <2> QED BY <2>1, <2>4, <2>5, <2>6, <2>8, JobKeeps
<1> QED BY <1>3, <1>4, <1>5, <1>6, <1>7 DEF Reconciling

\* A batch that is mined is of one attempt, which was not mined before.
LEMMA SafeMine ==
    ASSUME Inv, TypeOK', NEW a \in Attempt, Mine(a)
    PROVE  Safe'
<1>1. /\ tx[a] = "flying" /\ vault' = Append(vault, a)
      /\ UNCHANGED <<settle, outbox, attempts, job>>
  BY DEF Mine, records
<1>2. \A b \in Attempt : tx'[b] = IF b = a THEN "mined" ELSE tx[b]
  BY DEF Mine, Inv, TypeOK
<1>3. \A b \in Attempt : /\ tx'[b] = "none" <=> tx[b] = "none"
                         /\ Sent(b)' <=> Sent(b)
  BY <1>1, <1>2 DEF Sent
<1>4. JobsKnow' /\ OwnersKnow' /\ ClaimIsInOutbox'
  BY <1>1 DEF Inv, JobsKnow, OwnersKnow, ClaimIsInOutbox, Taken
<1>5. Drawn'
  BY <1>1, <1>3 DEF Inv, Drawn
<1>6. OneClaimant'
  <2>1. \A k \in Job : job[k].pc \in Claimants =>
          /\ job[k].seen.attempt \in Attempt
          /\ tx'[job[k].seen.attempt] = "none"
    BY <1>3, ClaimantTyped DEF Inv, OneClaimant, Own
  <2> QED BY <1>1, <2>1 DEF Inv, OneClaimant
<1>7. SentWeek' /\ BatchIsOnRecord'
  BY <1>1, <1>3 DEF Inv, SentWeek, BatchIsOnRecord, Taken
<1>8. VaultIsMined'
  <2>1. /\ vault \in Seq(Attempt)
        /\ \A n \in DOMAIN vault : tx[vault[n]] = "mined"
    BY DEF Inv, TypeOK, VaultIsMined
  <2>2. \A n \in DOMAIN vault : vault[n] \in Attempt /\ vault[n] # a
    BY <1>1, <2>1
  <2>3. \A n \in DOMAIN vault' :
          \/ n \in DOMAIN vault /\ vault'[n] = vault[n]
          \/ n = Len(vault) + 1 /\ vault'[n] = a
    BY <1>1, <2>1
  <2>4. \A n \in DOMAIN vault' : tx'[vault'[n]] = "mined"
    BY <1>2, <2>1, <2>2, <2>3
  <2>5. \A m, n \in DOMAIN vault' : vault'[m] = vault'[n] => m = n
    BY <2>2, <2>3 DEF Inv, VaultIsMined
  <2> QED BY <2>4, <2>5 DEF VaultIsMined
<1> QED BY <1>4, <1>5, <1>6, <1>7, <1>8 DEF Safe

\* A batch that reverts was in flight, and pays nothing.
LEMMA SafeRevert ==
    ASSUME Inv, TypeOK', NEW a \in Attempt, Revert(a)
    PROVE  Safe'
<1>1. tx[a] = "flying" /\ UNCHANGED <<settle, outbox, vault, attempts, job>>
  BY DEF Revert, records
<1>2. \A b \in Attempt : tx'[b] = IF b = a THEN "reverted" ELSE tx[b]
  BY DEF Revert, Inv, TypeOK
<1>3. \A b \in Attempt : /\ tx'[b] = "none" <=> tx[b] = "none"
                         /\ Sent(b)' => Sent(b)
  BY <1>1, <1>2 DEF Sent
<1>4. JobsKnow' /\ OwnersKnow' /\ ClaimIsInOutbox'
  BY <1>1 DEF Inv, JobsKnow, OwnersKnow, ClaimIsInOutbox, Taken
<1>5. Drawn'
  BY <1>1, <1>3 DEF Inv, Drawn
<1>6. OneClaimant'
  <2>1. \A k \in Job : job[k].pc \in Claimants =>
          /\ job[k].seen.attempt \in Attempt
          /\ tx'[job[k].seen.attempt] = "none"
    BY <1>3, ClaimantTyped DEF Inv, OneClaimant, Own
  <2> QED BY <1>1, <2>1 DEF Inv, OneClaimant
<1>7. SentWeek' /\ BatchIsOnRecord'
  BY <1>1, <1>3 DEF Inv, SentWeek, BatchIsOnRecord, Taken
<1>8. VaultIsMined'
  <2>1. \A n \in DOMAIN vault : vault[n] \in Attempt /\ vault[n] # a
    BY <1>1 DEF Inv, TypeOK, VaultIsMined
  <2> QED BY <1>1, <1>2, <2>1 DEF Inv, VaultIsMined
<1> QED BY <1>4, <1>5, <1>6, <1>7, <1>8 DEF Safe

\* An operator who waits for the proof resets no week with a batch that pays.
LEMMA SafeReset ==
    ASSUME Inv, TypeOK', NEW w \in Week, Reset(w), OperatorResets # "unseen"
    PROVE  Safe'
<1>1. /\ tx[settle[w].attempt] \in {"none", "reverted"}
      /\ \A j \in Job : job[j].week # w
      /\ UNCHANGED <<outbox, tx, vault, attempts, job>>
  BY OperatorAssumption DEF Reset, Week_, chain, given
<1>2. \A v \in Week : settle'[v] = IF v = w
                        THEN [status |-> "computed", attempt |-> None]
                        ELSE settle[v]
  BY DEF Reset, Inv, TypeOK
<1>3. JobsKnow' /\ ClaimIsInOutbox' /\ OneClaimant' /\ VaultIsMined'
  BY <1>1 DEF Inv, JobsKnow, ClaimIsInOutbox, OneClaimant, VaultIsMined
<1>4. OwnersKnow'
  <2>1. \A j \in Job : job[j].pc \in Owners =>
          job[j].week \in Week /\ job[j].week # w
    BY <1>1 DEF Inv, JobsKnow, Owners, Claimants
  <2> QED BY <1>1, <1>2, <2>1 DEF Inv, OwnersKnow, Taken
<1>5. Drawn'
  <2>1. 0 <= attempts
    BY DEF Inv, TypeOK
  <2> QED BY <1>1, <1>2, <2>1 DEF Inv, Drawn, None
<1>6. SentWeek'
  BY <1>1 DEF Inv, SentWeek, Sent
<1>7. BatchIsOnRecord'
  <2>1. \A a \in Attempt :
          Sent(a) => outbox[a].week \in Week /\ outbox[a].week # w
    BY <1>1 DEF Inv, BatchIsOnRecord, SentWeek, Sent
  <2> QED BY <1>1, <1>2, <2>1 DEF Inv, BatchIsOnRecord, Sent, Taken
<1> QED BY <1>3, <1>4, <1>5, <1>6, <1>7 DEF Safe

\* What touches none of what the invariant is about.
LEMMA SafeRest ==
    ASSUME Inv, LockExpires \/ Age \/ UNCHANGED vars
    PROVE  Safe'
<1>1. UNCHANGED <<settle, outbox, tx, vault, attempts, job>>
  BY DEF LockExpires, Age, vars, records, chain, given
<1> QED BY <1>1 DEF Inv, Safe, JobsKnow, OwnersKnow, Drawn, OneClaimant,
          ClaimIsInOutbox, SentWeek, BatchIsOnRecord, VaultIsMined, Sent, Taken

-----------------------------------------------------------------------------
(* Final statuses.                                                         *)

FinalKept == \A w \in Week : settle[w].status \in {"finalized", "aborted"}
                               => settle'[w] = settle[w]

\* A compare-and-set from a status that is not final changes no final one.
LEMMA WriteFinal ==
    ASSUME TypeOK, NEW j \in Job, NEW new, NEW r,
           NEW from, from \notin {"finalized", "aborted"},
           Write(j, from, new, r)
    PROVE  FinalKept
<1> SUFFICES ASSUME NEW w \in Week,
                    settle[w].status \in {"finalized", "aborted"}
             PROVE  settle'[w] = settle[w]
  BY DEF FinalKept
<1>1. settle' = IF settle[job[j].week].status = from
                THEN [settle EXCEPT ![job[j].week] = new] ELSE settle
  BY DEF Write, Wins, Week_
<1>2. settle \in [Week -> Settled]
  BY DEF TypeOK
<1> QED BY <1>1, <1>2

\* Every step leaves a week that is finalized or aborted as it is.
LEMMA FinalStep ==
    ASSUME TypeOK, JobsKnow, [Next]_vars
    PROVE  FinalKept
<1>1. ASSUME UNCHANGED settle PROVE FinalKept
  BY <1>1 DEF FinalKept
<1>2. ASSUME NEW j \in Job, job[j].pc \in Computing
      PROVE  job[j].seen.status \notin {"finalized", "aborted"}
  BY <1>2 DEF JobsKnow
<1>3. ASSUME NEW j \in Job,
             Close(j) \/ NothingToPay(j) \/ Claim(j) \/ Finalize(j)
      PROVE  FinalKept
  BY <1>3, WriteFinal DEF Close, NothingToPay, Claim, Finalize, Conclude
<1>4. ASSUME NEW j \in Job, Empty(j) \/ NoSeason(j) \/ Compute(j)
      PROVE  FinalKept
  <2>1. job[j].pc \in Computing
    BY <1>4 DEF Empty, NoSeason, Compute, At, Computing
  <2> QED BY <1>2, <1>4, <2>1, WriteFinal
          DEF Empty, NoSeason, Compute, Conclude
<1>5. ASSUME NEW j \in Job, Authorize(j)
      PROVE  FinalKept
  BY <1>1, <1>5, WriteFinal DEF Authorize, Conclude, records
<1>6. ASSUME NEW w \in Week, Reset(w)
      PROVE  FinalKept
  BY <1>6 DEF Reset, FinalKept, TypeOK
<1>7. ASSUME NEW j \in Job,
             \/ \E w \in Week : Take(j, w) \/ Reconcile(j, w)
             \/ Unlock(j) \/ Read(j) \/ Throw(j) \/ Crash(j)
             \/ List(j) \/ Split(j) \/ Pend(j) \/ Reject(j)
      PROVE  UNCHANGED settle
  BY <1>7 DEF Take, Reconcile, Unlock, Read, Throw, Crash, List, Split, Pend,
              Reject, records
<1>8. ASSUME NEW j \in Job,
             \/ Outbox(j) \/ Simulate(j) \/ Send(j) \/ Confirm(j)
             \/ Uncertain(j) \/ Allocated(j)
             \/ RecRead(j) \/ RecList(j) \/ RecPlayer(j) \/ Ledger(j)
      PROVE  UNCHANGED settle
  BY <1>8 DEF Outbox, Simulate, Send, Confirm, Uncertain, Allocated, RecRead,
              RecList, RecPlayer, Ledger, records
<1>9. ASSUME \/ \E a \in Attempt : Mine(a) \/ Revert(a)
             \/ LockExpires \/ Age \/ UNCHANGED vars
      PROVE  UNCHANGED settle
  BY <1>9 DEF Mine, Revert, LockExpires, Age, vars, records
<1> QED BY <1>1, <1>3, <1>4, <1>5, <1>6, <1>7, <1>8, <1>9
     DEF Next, Settling, Reconciling

-----------------------------------------------------------------------------
(* The theorems.                                                           *)

\* Initially nothing is recorded, sent or under way.
LEMMA InvInit == Init => Inv
<1> SUFFICES ASSUME Init PROVE Inv
  OBVIOUS
<1>1. \A j \in Job : job[j] = Idle
  BY DEF Init
<1>2. Idle.pc = "idle" /\ Idle.seen.attempt = 0
  BY DEF Idle, Absent, None
<1>3. /\ "idle" \notin Computing /\ "idle" \notin Owners
      /\ "idle" \notin Claimants
  BY DEF Computing, Owners, Claimants
<1>4. TypeOK
  <2>1. job \in [Job -> JobState] /\ settle \in [Week -> Settled]
    BY IdleTyped DEF Init
  <2>2. player \in [Week -> [Player -> PlayerWeek]]
    BY IdleTyped DEF Init
  <2>3. outbox \in [Attempt ->
          [status : {"none", "pending", "confirmed", "uncertain"},
           week : {None} \union Week, amounts : Amounts_]]
    BY IdleTyped DEF Init
  <2>4. attempts \in 0..MaxAttempts
    BY AmountAssumption DEF Init
  <2>5. /\ entered \in [Week -> SUBSET Player] /\ orderly \in BOOLEAN
        /\ ledger \in [Week -> Nat] /\ aged \in Nat
        /\ vault \in Seq(Attempt) /\ lock \in Job \union {"free", "dead"}
        /\ tx \in [Attempt -> {"none", "flying", "mined", "reverted"}]
    BY DEF Init
  <2> QED BY <2>1, <2>2, <2>3, <2>4, <2>5 DEF TypeOK
<1>5. JobsKnow /\ OwnersKnow /\ OneClaimant /\ ClaimIsInOutbox
  BY <1>1, <1>2, <1>3
     DEF JobsKnow, OwnersKnow, OneClaimant, ClaimIsInOutbox, Claimants
<1>6. Drawn
  BY <1>1, <1>2 DEF Init, Drawn, Absent, None
<1>7. SentWeek /\ BatchIsOnRecord /\ VaultIsMined
  BY DEF Init, SentWeek, BatchIsOnRecord, VaultIsMined, Sent
<1> QED BY <1>4, <1>5, <1>6, <1>7 DEF Inv

\* Every step keeps the invariant, with an operator who waits for the proof.
LEMMA InvStep ==
    ASSUME OperatorResets # "unseen", Inv, [Next]_vars
    PROVE  Inv'
<1>1. TypeOK'
  BY TypeStep DEF Inv
<1>2. Safe'
  BY <1>1, SafeTaking, SafeComputing, SafeAllocating, SafeReconciling,
     SafeMine, SafeRevert, SafeReset, SafeRest DEF Next, Settling
<1> QED BY <1>1, <1>2 DEF Inv, Safe

\* The inductive invariant: who may still send which batch, and that every
\* batch sent is on record under the attempt its week was taken with.
THEOREM Invariance ==
    ASSUME OperatorResets # "unseen"
    PROVE  Spec => []Inv
<1>1. Inv /\ [Next]_vars => Inv'
  BY InvStep
<1> QED BY <1>1, InvInit, PTL DEF Spec

\* The records, jobs and batches have their types in every reachable state.
THEOREM TypeCorrect ==
    ASSUME OperatorResets # "unseen"
    PROVE  Spec => []TypeOK
<1>1. Inv => TypeOK
  BY DEF Inv
<1> QED BY <1>1, Invariance, PTL

\* No week is allocated twice, whatever jobs overlap, fail and run again.
THEOREM PaidOnce ==
    ASSUME OperatorResets # "unseen"
    PROVE  Spec => []AtMostOneBatch
<1>1. Inv => AtMostOneBatch
  BY DEF Inv, BatchIsOnRecord, VaultIsMined, AtMostOneBatch
<1> QED BY <1>1, Invariance, PTL

\* Every batch sent is on record: its week is allocating or finalized under
\* its attempt, and its outbox record was written.
THEOREM OnRecord ==
    ASSUME OperatorResets # "unseen"
    PROVE  Spec => []BatchIsOnRecord
<1>1. Inv => BatchIsOnRecord
  BY DEF Inv
<1> QED BY <1>1, Invariance, PTL

\* A week that is finalized or aborted stays as it is.
THEOREM FinalStatus ==
    ASSUME OperatorResets # "unseen"
    PROVE  Spec => FinalStatusStays
<1>1. Inv /\ [Next]_vars
        => [\A w \in Week : settle[w].status \in {"finalized", "aborted"}
              => settle'[w] = settle[w]]_vars
  BY FinalStep DEF Inv, FinalKept
<1> QED BY <1>1, Invariance, PTL DEF Spec, FinalStatusStays

-----------------------------------------------------------------------------
(* While invocations end before the mutex expires, no write lands after its *)
(* job has failed and no operator steps in, records agree with the batch.   *)

Agree == \A a \in Attempt : Sent(a) =>
           \A p \in Player :
             player[outbox[a].week][p].amount = outbox[a].amounts[p]

W(j) == job[j].week
Amount(w, p) == player[w][p].amount

\* What a job does before it takes the week, and all it needs the mutex for.
Before == Computing \union {"pend", "authorize", "claim"}
Exclusive == {"read", "close"} \union Before \union Claimants
                \union {"wait", "uncertain", "allocated"}

\* A week has an attempt from its transition to "allocating" on, and one of
\* its own.
AttemptsKnown ==
    /\ \A w \in Week :
         /\ ~Taken(w) => settle[w].attempt = None
         /\ settle[w].status = "allocating" => settle[w].attempt # None
    /\ \A v, w \in Week :
         settle[v].attempt = settle[w].attempt /\ settle[v].attempt # None
           => v = w

OnlyEntered ==
    \A w \in Week : \A p \in Player \ entered[w] : Amount(w, p) = 0

\* The holder of the mutex is alone.
HasLock(j) ==
    /\ job[j].pc \in Exclusive => lock = j
    /\ job[j].pc # "stray"

\* What it saw of a week it has not taken yet is so.
SawWeek(j) ==
    /\ job[j].pc = "close" => settle[W(j)].status = "absent"
    /\ job[j].pc \in Before =>
         /\ settle[W(j)] = job[j].seen
         /\ job[j].seen.status \in {"closed", "computed"}
    /\ job[j].pc \in {"pend", "authorize", "claim"} =>
         settle[W(j)].status = "computed"

\* The players it listed are, but for the amounts it has written.
SawPlayers(j) ==
    /\ job[j].pc \in {"empty", "season", "compute"} =>
         job[j].players = player[W(j)]
    /\ job[j].pc \in {"compute", "pend"} =>
         \A p \in Player \ entered[W(j)] : job[j].alloc[p] = 0
    /\ job[j].pc = "pend" =>
         /\ job[j].todo \subseteq entered[W(j)]
         /\ \A p \in job[j].todo : job[j].players[p] = player[W(j)][p]
         /\ \A p \in entered[W(j)] \ job[j].todo :
              Amount(W(j), p) = job[j].alloc[p]

\* From then on its amounts are those of the records, and of its batch.
KnowsAmounts(j) ==
    /\ job[j].pc \in {"authorize", "claim", "wait", "allocated", "recPlayer"}
                        \union Claimants
         => \A p \in Player : job[j].alloc[p] = Amount(W(j), p)
    /\ job[j].pc = "recPlayer" =>
         \A p \in Player : job[j].players[p].amount = Amount(W(j), p)
    /\ job[j].pc \in {"simulate", "send"} =>
         outbox[Own(j)].amounts = job[j].alloc

JobOk(j) == HasLock(j) /\ SawWeek(j) /\ SawPlayers(j) /\ KnowsAmounts(j)

RecordsInv ==
    /\ AttemptsKnown /\ OnlyEntered /\ Agree
    /\ \A j \in Job : JobOk(j)

\* What the step of job j leaves of the weeks, records and batches of others.
SettleBy(j) ==
    \A w \in Week : settle'[w] = settle[w] \/ Taken(w) \/ lock = j
PlayersBy(j) ==
    \A w \in Week :
        \/ player'[w] = player[w]
        \/ /\ Taken(w)
           /\ \A p \in Player : player'[w][p].amount = Amount(w, p)
        \/ ~Taken(w) /\ lock = j
OutboxBy(j) ==
    \A a \in Attempt :
        \/ outbox'[a].amounts = outbox[a].amounts
           /\ outbox'[a].week = outbox[a].week
        \/ lock = j /\ tx[a] = "none"
LockBy(j) == \A k \in Job : k # j /\ lock = k => lock' = k

\* A job works exclusively only with the mutex, and before it takes the week
\* nobody else has.
LEMMA JobFacts ==
    ASSUME Inv, RecordsInv, NEW k \in Job
    PROVE  /\ job[k].pc \in Exclusive => lock = k
           /\ job[k].pc \in Before \union {"close"}
                => W(k) \in Week /\ ~Taken(W(k))
           /\ job[k].pc \in Owners => W(k) \in Week /\ Taken(W(k))
<1>1. HasLock(k) /\ SawWeek(k)
  BY DEF RecordsInv, JobOk
<1>2. job[k].pc # "idle" => W(k) \in Week
  BY DEF Inv, JobsKnow, W
<1>3. job[k].pc \in Owners => Taken(W(k))
  BY DEF Inv, OwnersKnow, W
<1>4. "idle" \notin Before /\ "idle" \notin Owners
  BY DEF Before, Owners, Claimants, Computing
<1> QED BY <1>1, <1>2, <1>3, <1>4 DEF HasLock, SawWeek, Taken

\* The step of j leaves the other jobs in order.
LEMMA Others ==
    ASSUME Inv, RecordsInv, NEW j, NEW k \in Job, k # j, job'[k] = job[k],
           entered' = entered, LockBy(j), SettleBy(j), PlayersBy(j),
           OutboxBy(j)
    PROVE  JobOk(k)'
<1> DEFINE w == W(k)
<1>0. JobOk(k)
  BY DEF RecordsInv
<1>1. job[k].pc \in Exclusive => lock = k /\ lock' = k
  BY JobFacts DEF LockBy
<1>2. HasLock(k)'
  BY <1>0, <1>1 DEF HasLock, JobOk
<1>3. job[k].pc \in Before \union {"close"} =>
        /\ w \in Week /\ ~Taken(w) /\ lock = k
        /\ settle'[w] = settle[w] /\ player'[w] = player[w]
  <2> HAVE job[k].pc \in Before \union {"close"}
  <2>1. job[k].pc \in Exclusive
    BY DEF Exclusive
  <2>2. w \in Week /\ ~Taken(w) /\ lock = k
    BY <2>1, JobFacts
  <2> QED BY <2>2 DEF SettleBy, PlayersBy
<1>4. SawWeek(k)'
  BY <1>0, <1>3 DEF JobOk, SawWeek, W, Before
<1>5. SawPlayers(k)'
  <2>1. job[k].pc \in {"empty", "season", "compute", "pend"} =>
          job[k].pc \in Before
    BY DEF Before, Computing
  <2> QED BY <1>0, <1>3, <2>1 DEF JobOk, SawPlayers, W, Amount
<1>6. ASSUME job[k].pc \in {"authorize", "claim", "wait", "allocated",
                            "recPlayer"} \union Claimants
      PROVE  \A p \in Player : player'[w][p].amount = Amount(w, p)
  <2>1. CASE job[k].pc = "recPlayer"
    <3>1. w \in Week /\ Taken(w)
      BY <2>1, JobFacts DEF Owners
    <3> QED BY <3>1 DEF PlayersBy, Amount
  <2>2. CASE job[k].pc # "recPlayer"
    <3>1. job[k].pc \in Exclusive
      BY <1>6, <2>2 DEF Exclusive, Before
    <3>2. w \in Week
      BY <1>6, JobFacts DEF Owners, Before
    <3> QED BY <1>1, <3>1, <3>2 DEF PlayersBy, Amount
  <2> QED BY <2>1, <2>2
<1>7. job[k].pc \in {"simulate", "send"} =>
        outbox'[Own(k)].amounts = outbox[Own(k)].amounts
  <2> HAVE job[k].pc \in {"simulate", "send"}
  <2>1. Own(k) \in Attempt
    BY ClaimantTyped DEF Inv, Claimants
  <2>2. lock = k
    BY <1>1 DEF Exclusive, Claimants
  <2> QED BY <2>1, <2>2 DEF OutboxBy
<1>8. KnowsAmounts(k)'
  <2>1. W(k)' = w /\ Own(k)' = Own(k)
    BY DEF W, Own
  <2>2. KnowsAmounts(k)
    BY <1>0 DEF JobOk
  <2>3. ASSUME job[k].pc \in {"authorize", "claim", "wait", "allocated",
                              "recPlayer"} \union Claimants
        PROVE  \A p \in Player : job[k].alloc[p] = player'[w][p].amount
    BY <1>6, <2>2, <2>3 DEF KnowsAmounts, Amount
  <2>4. ASSUME job[k].pc = "recPlayer"
        PROVE  \A p \in Player :
                 job[k].players[p].amount = player'[w][p].amount
    BY <1>6, <2>2, <2>4 DEF KnowsAmounts, Amount
  <2> QED BY <1>7, <2>1, <2>2, <2>3, <2>4 DEF KnowsAmounts, Amount, W
<1> QED BY <1>2, <1>4, <1>5, <1>8 DEF JobOk

\* A batch that is out keeps its amounts, and its week its own.
LEMMA BatchKept ==
    ASSUME Inv, RecordsInv, NEW j, PlayersBy(j), OutboxBy(j),
           NEW a \in Attempt, Sent(a)
    PROVE  \A p \in Player :
             player'[outbox'[a].week][p].amount = outbox'[a].amounts[p]
<1>1. outbox[a].week \in Week /\ Taken(outbox[a].week)
  BY DEF Inv, SentWeek, BatchIsOnRecord
<1>2. /\ outbox'[a].amounts = outbox[a].amounts
      /\ outbox'[a].week = outbox[a].week
  BY DEF OutboxBy, Sent
<1>3. \A p \in Player :
        player'[outbox[a].week][p].amount = player[outbox[a].week][p].amount
  BY <1>1 DEF PlayersBy, Amount
<1> QED BY <1>2, <1>3 DEF RecordsInv, Agree

\* A step of a job that leaves itself in order leaves the records in order.
LEMMA StepKeeps ==
    ASSUME Inv, RecordsInv, NEW j \in Job, NEW r, Set(j, r),
           entered' = entered, LockBy(j), SettleBy(j), PlayersBy(j),
           OutboxBy(j), AttemptsKnown', OnlyEntered', JobOk(j)',
           \A a \in Attempt : Sent(a)' => Sent(a)
    PROVE  RecordsInv'
<1>1. \A k \in Job : k # j => job'[k] = job[k]
  BY DEF Set
<1>2. \A k \in Job : JobOk(k)'
  BY <1>1, Others
<1>3. Agree'
  BY BatchKept DEF Agree
<1> QED BY <1>2, <1>3 DEF RecordsInv

\* The lock stays, or is freed by its holder.
LEMMA LockKept ==
    ASSUME NEW j \in Job, NEW x,
           \/ lock' = lock \/ lock \notin Job
           \/ lock' = IF lock = j THEN x ELSE lock
    PROVE  LockBy(j)
BY DEF LockBy

\* A job on its way out, or about to read, is in order.
LEMMA Leaves ==
    ASSUME NEW j, job'[j].pc \in {"idle", "unlock", "recRead", "recList",
                                  "ledger", "finalize"}
    PROVE  JobOk(j)'
BY DEF JobOk, HasLock, SawWeek, SawPlayers, KnowsAmounts, Exclusive, Before,
       Computing, Claimants

\* A step that writes no week, no record and no batch.
LEMMA Quiet ==
    ASSUME Inv, RecordsInv, NEW j \in Job, NEW r, Set(j, r),
           UNCHANGED <<entered, settle, player, tx>>, LockBy(j),
           \A a \in Attempt : /\ outbox'[a].amounts = outbox[a].amounts
                              /\ outbox'[a].week = outbox[a].week,
           JobOk(j)'
    PROVE  RecordsInv'
<1>1. SettleBy(j) /\ PlayersBy(j) /\ OutboxBy(j)
  BY DEF SettleBy, PlayersBy, OutboxBy
<1>2. \A a \in Attempt : Sent(a)' => Sent(a)
  BY DEF Sent
<1>3. AttemptsKnown'
  BY DEF RecordsInv, AttemptsKnown, Taken
<1>4. OnlyEntered'
  BY DEF RecordsInv, OnlyEntered, Amount
<1> QED BY <1>1, <1>2, <1>3, <1>4, StepKeeps

\* What a job becomes, and the fields of what it was.
LEMMA Becomes ==
    ASSUME Inv, NEW j \in Job, NEW r, Set(j, r)
    PROVE  /\ job'[j] = r
           /\ job[j] \in JobState
BY DEF Set, Inv, TypeOK

\* A job that only goes on with another step keeps all it knows.
LEMMA Goes ==
    ASSUME Inv, NEW j \in Job, NEW pc, Go(j, pc)
    PROVE  /\ job'[j] = [job[j] EXCEPT !.pc = pc]
           /\ job'[j].pc = pc /\ job'[j].week = job[j].week
           /\ job'[j].seen = job[j].seen /\ job'[j].alloc = job[j].alloc
           /\ job'[j].players = job[j].players /\ job'[j].todo = job[j].todo
           /\ job'[j].first = job[j].first
<1>1. job'[j] = [job[j] EXCEPT !.pc = pc] /\ job[j] \in JobState
  BY Becomes DEF Go
<1> QED BY <1>1 DEF JobState

\* A job that takes up a week.
LEMMA Takes ==
    ASSUME Inv, NEW j \in Job, NEW pc, NEW w,
           Set(j, [Idle EXCEPT !.pc = pc, !.week = w])
    PROVE  job'[j].pc = pc
<1> DEFINE r == [Idle EXCEPT !.pc = pc, !.week = w]
<1>1. r.pc = pc
  BY IdleTyped DEF JobState
<1>2. Set(j, r)
  OBVIOUS
<1> HIDE DEF r
<1> QED BY <1>1, <1>2, Becomes

\* Taking up a week, leaving it, being killed.
LEMMA RecTaking ==
    ASSUME Inv, RecordsInv, NEW j \in Job,
           \/ \E w \in Week : Take(j, w) \/ Reconcile(j, w)
           \/ Unlock(j) \/ Read(j) \/ Throw(j) \/ Crash(j)
    PROVE  RecordsInv'
<1> USE DEF records, chain, given
<1>0. HasLock(j)
  BY DEF RecordsInv, JobOk
<1>1. ASSUME NEW w \in Week, Take(j, w) PROVE RecordsInv'
  <2> DEFINE r == [Idle EXCEPT !.pc = "read", !.week = w]
  <2>1. Set(j, r) /\ lock = "free" /\ lock' = j
    BY <1>1 DEF Take
  <2>2. job'[j].pc = "read"
    BY <2>1, Takes
  <2>3. JobOk(j)'
    BY <2>1, <2>2 DEF JobOk, HasLock, SawWeek, SawPlayers, KnowsAmounts,
       Before, Computing, Claimants
  <2>4. LockBy(j)
    BY <2>1, JobAssumption, LockKept
  <2> HIDE DEF r
  <2> QED BY <1>1, <2>1, <2>3, <2>4, Quiet DEF Take
<1>2. ASSUME NEW w \in Week, Reconcile(j, w) PROVE RecordsInv'
  <2> DEFINE r == [Idle EXCEPT !.pc = "recRead", !.week = w]
  <2>1. Set(j, r) /\ lock' = lock
    BY <1>2 DEF Reconcile
  <2>2. job'[j].pc = "recRead"
    BY <2>1, Takes
  <2>3. JobOk(j)' /\ LockBy(j)
    BY <2>1, <2>2, Leaves, LockKept
  <2> HIDE DEF r
  <2> QED BY <1>2, <2>1, <2>3, Quiet DEF Reconcile
<1>3. CASE Unlock(j) \/ Crash(j)
  <2>1. Set(j, Idle) /\ LockBy(j)
    BY <1>3, LockKept DEF Unlock, Crash
  <2>2. job'[j].pc = "idle"
    BY <2>1, Becomes DEF Idle
  <2> QED BY <1>3, <2>1, <2>2, Leaves, Quiet DEF Unlock, Crash
<1>4. CASE Throw(j)
  <2> DEFINE pc == IF job[j].pc \in Allocating THEN "uncertain" ELSE "unlock"
  <2>1. Go(j, pc) /\ lock' = lock
    BY <1>4 DEF Throw
  <2>2. job'[j].pc = pc
    BY <2>1, Goes
  <2>3. JobOk(j)'
    <3>1. CASE pc = "unlock"
      BY <2>2, <3>1, Leaves
    <3>2. CASE pc = "uncertain"
      <4>1. lock = j
        BY <1>0, <3>2 DEF HasLock, Exclusive, Claimants, Allocating
      <4> QED BY <2>1, <2>2, <3>2, <4>1 DEF JobOk, HasLock, SawWeek,
              SawPlayers, KnowsAmounts, Before, Computing, Claimants
    <3> QED BY <3>1, <3>2
  <2> QED BY <1>4, <2>1, <2>3, LockKept, Quiet DEF Throw, Go
<1>5. CASE Read(j)
  <2> DEFINE s == settle[W(j)]
             pc == CASE s.status \in {"finalized", "aborted"} -> "unlock"
                     [] s.status = "allocating"               -> "recRead"
                     [] s.status = "absent"                   -> "close"
                     [] s.status \in {"closed", "computed"}   -> "list"
             r == [job[j] EXCEPT !.seen = s, !.pc = pc]
  <2>1. Set(j, r) /\ lock' = lock /\ job[j].pc = "read"
    BY <1>5 DEF Read, W, Week_, At
  <2>2. lock = j
    BY <1>0, <2>1 DEF HasLock, Exclusive
  <2>3. W(j) \in Week
    BY <2>1 DEF Inv, JobsKnow, W
  <2>4. s.status \in {"absent", "closed", "computed", "allocating",
                      "finalized", "aborted"}
    BY <2>3 DEF Inv, TypeOK, Settled
  <2>5. /\ pc \in {"unlock", "recRead", "close", "list"}
        /\ pc = "close" => s.status = "absent"
        /\ pc = "list" => s.status \in {"closed", "computed"}
    BY <2>4
  <2>6. job'[j].pc = pc /\ job'[j].seen = s /\ job'[j].week = job[j].week
    <3> HIDE DEF s, pc
    <3>1. job'[j] = r /\ job[j] \in JobState
      BY <2>1, Becomes
    <3> QED BY <3>1 DEF JobState
  <2>7. settle'[job'[j].week] = s
    BY <1>5, <2>6 DEF Read, W
  <2>8. JobOk(j)'
    <3> HIDE DEF s, pc
    <3>1. CASE pc \in {"unlock", "recRead"}
      BY <2>6, <3>1, Leaves
    <3>2. CASE pc \in {"close", "list"}
      <4>1. HasLock(j)'
        BY <2>1, <2>2, <2>6, <3>2 DEF HasLock
      <4>2. SawWeek(j)'
        BY <2>5, <2>6, <2>7, <3>2 DEF SawWeek, W, Before, Computing
      <4>3. SawPlayers(j)' /\ KnowsAmounts(j)'
        BY <2>6, <3>2 DEF SawPlayers, KnowsAmounts, Claimants
      <4> QED BY <4>1, <4>2, <4>3 DEF JobOk
    <3> QED BY <2>5, <3>1, <3>2
  <2> HIDE DEF r
  <2> QED BY <1>5, <2>1, <2>8, LockKept, Quiet DEF Read
<1> QED BY <1>1, <1>2, <1>3, <1>4, <1>5

\* A compare-and-set of the week of j, and what j goes on with.
LEMMA WriteIs ==
    ASSUME Inv, NEW j \in Job, W(j) \in Week, NEW from, NEW new,
           NEW r \in JobState, Write(j, from, new, r)
    PROVE  /\ settle'[W(j)] = IF settle[W(j)].status = from THEN new
                              ELSE settle[W(j)]
           /\ \A w \in Week : w # W(j) => settle'[w] = settle[w]
           /\ job'[j].pc = r.pc /\ job'[j].week = r.week
           /\ job'[j].alloc = r.alloc /\ job'[j].players = r.players
           /\ job'[j].todo = r.todo /\ job'[j].missed = r.missed
           /\ job'[j].seen = settle'[W(j)]
<1>1. settle \in [Week -> Settled]
  BY DEF Inv, TypeOK
<1>2. settle' = IF settle[W(j)].status = from
                THEN [settle EXCEPT ![W(j)] = new] ELSE settle
  BY DEF Write, Wins, Week_, W
<1>3. job'[j] = [r EXCEPT !.seen = settle'[W(j)]]
  BY Becomes DEF Write, Week_, W
<1>4. /\ job'[j].pc = r.pc /\ job'[j].week = r.week
      /\ job'[j].alloc = r.alloc /\ job'[j].players = r.players
      /\ job'[j].todo = r.todo /\ job'[j].missed = r.missed
      /\ job'[j].seen = settle'[W(j)]
  BY <1>3 DEF JobState
<1> QED BY <1>1, <1>2, <1>4

\* The attempts stay known when a compare-and-set writes a fresh one or none.
LEMMA WriteKnown ==
    ASSUME Inv, AttemptsKnown, NEW j \in Job, W(j) \in Week, NEW from, NEW new,
           NEW r \in JobState, Write(j, from, new, r),
           new.status \notin {"allocating", "finalized"} => new.attempt = None,
           new.status = "allocating" => new.attempt # None,
           \/ new.attempt \in {None, settle[W(j)].attempt}
           \/ \A w \in Week : settle[w].attempt # new.attempt
    PROVE  AttemptsKnown'
<1>1. /\ settle'[W(j)] = new \/ settle'[W(j)] = settle[W(j)]
      /\ \A w \in Week : w # W(j) => settle'[w] = settle[w]
  BY WriteIs
<1>2. ASSUME NEW w \in Week
      PROVE  /\ ~Taken(w)' => settle'[w].attempt = None
             /\ settle'[w].status = "allocating" => settle'[w].attempt # None
  BY <1>1 DEF AttemptsKnown, Taken
<1>3. ASSUME NEW v \in Week, NEW w \in Week,
             settle'[v].attempt = settle'[w].attempt, settle'[v].attempt # None
      PROVE  v = w
  BY <1>1, <1>3 DEF AttemptsKnown
<1> QED BY <1>2, <1>3 DEF AttemptsKnown

\* A compare-and-set of a job with the mutex, or of a week taken.
LEMMA Writes ==
    ASSUME Inv, RecordsInv, NEW j \in Job, W(j) \in Week, NEW from, NEW new,
           NEW r \in JobState, Write(j, from, new, r),
           lock = j \/ Taken(W(j)),
           UNCHANGED <<entered, player, outbox, lock, tx>>,
           AttemptsKnown', JobOk(j)'
    PROVE  RecordsInv'
<1> DEFINE s == [r EXCEPT !.seen = settle'[W(j)]]
<1>1. Set(j, s)
  BY DEF Write, W, Week_
<1>2. SettleBy(j)
  BY WriteIs DEF SettleBy
<1>3. PlayersBy(j) /\ OutboxBy(j) /\ LockBy(j)
  BY LockKept DEF PlayersBy, OutboxBy
<1>4. \A a \in Attempt : Sent(a)' => Sent(a)
  BY DEF Sent
<1>5. OnlyEntered'
  BY DEF RecordsInv, OnlyEntered, Amount
<1> HIDE DEF s
<1> QED BY <1>1, <1>2, <1>3, <1>4, <1>5, StepKeeps

\* Concluding a week that is not taken.
LEMMA RecConcludes ==
    ASSUME Inv, RecordsInv, NEW j \in Job, job[j].pc \in Before, NEW from,
           NEW to \in {"finalized", "aborted"}, Conclude(j, from, to)
    PROVE  RecordsInv'
<1> DEFINE new == [job[j].seen EXCEPT !.status = to]
           r == [job[j] EXCEPT !.pc = "unlock"]
<1>1. W(j) \in Week /\ ~Taken(W(j)) /\ lock = j
  BY JobFacts DEF Exclusive
<1>2. settle[W(j)] = job[j].seen /\ settle[W(j)] \in Settled
  BY <1>1 DEF RecordsInv, JobOk, SawWeek, Inv, TypeOK
<1>3. settle[W(j)].attempt = None
  BY <1>1 DEF RecordsInv, AttemptsKnown
<1>4. new.status = to /\ new.attempt = None
  BY <1>2, <1>3 DEF Settled
<1>5. r \in JobState /\ r.pc = "unlock"
  <2>1. "unlock" \in PC
    BY DEF PC
  <2>2. r \in JobState
    BY <2>1, PcTyped DEF Inv
  <2> QED BY <2>2 DEF Inv, TypeOK, JobState
<1>6. /\ Write(j, from, new, r)
      /\ UNCHANGED <<entered, player, outbox, lock, tx>>
  BY DEF Conclude, chain, given
<1> HIDE DEF new, r
<1>7. AttemptsKnown'
  BY <1>1, <1>4, <1>5, <1>6, WriteKnown DEF RecordsInv
<1>8. JobOk(j)'
  BY <1>1, <1>5, <1>6, WriteIs, Leaves
<1> QED BY <1>1, <1>5, <1>6, <1>7, <1>8, Writes

\* Closing, computing, taking and finalizing a week.
LEMMA RecWriting ==
    ASSUME Inv, RecordsInv, NEW j \in Job,
           Close(j) \/ Compute(j) \/ Claim(j) \/ Finalize(j)
    PROVE  RecordsInv'
<1> USE DEF chain, given
<1>0. W(j) \in Week
  BY DEF Close, Compute, Claim, Finalize, Conclude, At, Inv, JobsKnow, W
<1>1. JobOk(j) /\ AttemptsKnown
  BY DEF RecordsInv
<1>2. settle[W(j)] \in Settled
  BY <1>0 DEF Inv, TypeOK
<1>3. {"list", "unlock", "pend", "outbox"} \subseteq PC
  BY DEF PC
<1>4. CASE Close(j)
  <2> DEFINE new == [status |-> "closed", attempt |-> None]
             pc == IF settle'[W(j)].status \in {"closed", "computed"}
                   THEN "list" ELSE "unlock"
             r == [job[j] EXCEPT !.pc = pc]
  <2>1. /\ Write(j, "absent", new, r) /\ job[j].pc = "close"
        /\ UNCHANGED <<entered, player, outbox, lock, tx>>
    BY <1>4 DEF Close, W, Week_, At
  <2>2. r \in JobState /\ r.pc = pc /\ r.week = job[j].week
    <3>1. pc \in PC
      BY <1>3
    <3> HIDE DEF pc
    <3>2. job[j] \in JobState
      BY DEF Inv, TypeOK
    <3> QED BY <3>1, <3>2, PcTyped DEF Inv, JobState
  <2>3. new.status = "closed" /\ new.attempt = None
    OBVIOUS
  <2>4. lock = j /\ settle[W(j)].status = "absent"
    BY <1>1, <2>1 DEF JobOk, HasLock, SawWeek, Exclusive
  <2> HIDE DEF new, r
  <2>5. AttemptsKnown'
    BY <1>0, <1>1, <2>1, <2>2, <2>3, WriteKnown
  <2>6. /\ job'[j].pc = "list" /\ job'[j].week = job[j].week
        /\ settle'[W(j)] = new /\ job'[j].seen = new
    BY <1>0, <2>1, <2>2, <2>3, <2>4, WriteIs
  <2>7. JobOk(j)'
    <3>1. W(j)' = W(j)
      BY <2>6 DEF W
    <3> QED BY <2>1, <2>3, <2>4, <2>6, <3>1 DEF JobOk, HasLock, SawWeek,
            SawPlayers, KnowsAmounts, Claimants, Before, Computing
  <2> QED BY <1>0, <2>1, <2>2, <2>4, <2>5, <2>7, Writes
<1>5. CASE Compute(j)
  <2> DEFINE new == [job[j].seen EXCEPT !.status = "computed"]
             r == [job[j] EXCEPT !.pc = "pend", !.todo = entered[W(j)]]
  <2>1. /\ Write(j, job[j].seen.status, new, r) /\ job[j].pc = "compute"
        /\ UNCHANGED <<entered, player, outbox, lock, tx>>
    BY <1>5 DEF Compute, W, Week_, At
  <2>2. job[j] \in JobState /\ entered[W(j)] \in SUBSET Player
    BY <1>0 DEF Inv, TypeOK
  <2>3. /\ r \in JobState /\ r.pc = "pend" /\ r.todo = entered[W(j)]
        /\ r.week = job[j].week /\ r.alloc = job[j].alloc
        /\ r.players = job[j].players
    BY <1>3, <2>2 DEF JobState
  <2>4. /\ lock = j /\ settle[W(j)] = job[j].seen /\ ~Taken(W(j))
        /\ job[j].players = player[W(j)]
        /\ \A p \in Player \ entered[W(j)] : job[j].alloc[p] = 0
    BY <1>1, <2>1, JobFacts DEF JobOk, HasLock, SawWeek, SawPlayers, Exclusive,
       Before, Computing
  <2>5. new.status = "computed" /\ new.attempt = None
    BY <1>0, <1>1, <1>2, <2>4 DEF Settled, AttemptsKnown
  <2> HIDE DEF new, r
  <2>6. AttemptsKnown'
    BY <1>0, <1>1, <2>1, <2>3, <2>5, WriteKnown
  <2>7. /\ job'[j].pc = "pend" /\ job'[j].week = job[j].week
        /\ job'[j].alloc = job[j].alloc /\ job'[j].players = job[j].players
        /\ job'[j].todo = entered[W(j)]
        /\ settle'[W(j)] = new /\ job'[j].seen = new
    BY <1>0, <2>1, <2>3, <2>4, WriteIs
  <2>8. W(j)' = W(j)
    BY <2>7 DEF W
  <2>9. HasLock(j)' /\ SawWeek(j)'
    BY <2>1, <2>4, <2>5, <2>7, <2>8 DEF HasLock, SawWeek, Before
  <2>10. SawPlayers(j)'
    BY <2>1, <2>2, <2>4, <2>7, <2>8 DEF SawPlayers, Amount
  <2>11. KnowsAmounts(j)'
    BY <2>7 DEF KnowsAmounts, Claimants
  <2>12. JobOk(j)'
    BY <2>9, <2>10, <2>11 DEF JobOk
  <2> QED BY <1>0, <2>1, <2>3, <2>4, <2>6, <2>12, Writes
<1>6. CASE Claim(j)
  <2> DEFINE new == Claimed(j)
             pc == IF settle'[W(j)].attempt = attempts + 1
                   THEN "outbox" ELSE "unlock"
             r == [job[j] EXCEPT !.pc = pc]
  <2>1. /\ Write(j, "computed", new, r) /\ job[j].pc = "claim"
        /\ UNCHANGED <<entered, player, outbox, lock, tx>>
    BY <1>6 DEF Claim, W, Week_, At
  <2>2. r \in JobState /\ r.pc = pc /\ r.week = job[j].week
        /\ r.alloc = job[j].alloc
    <3>1. pc \in PC
      BY <1>3
    <3> HIDE DEF pc
    <3>2. job[j] \in JobState
      BY DEF Inv, TypeOK
    <3> QED BY <3>1, <3>2, PcTyped DEF Inv, JobState
  <2>3. /\ lock = j /\ settle[W(j)] = job[j].seen
        /\ settle[W(j)].status = "computed"
        /\ \A p \in Player : job[j].alloc[p] = Amount(W(j), p)
    BY <1>1, <2>1 DEF JobOk, HasLock, SawWeek, KnowsAmounts, Exclusive,
       Before
  <2>4. new.status = "allocating" /\ new.attempt = attempts + 1
    BY <1>2, <2>3 DEF Settled, Claimed
  <2>5. /\ attempts + 1 # None
        /\ \A w \in Week : settle[w].attempt # attempts + 1
    <3>1. attempts \in Nat
      BY DEF Inv, TypeOK
    <3>2. \A w \in Week : settle[w].attempt \in Nat
      BY DEF Inv, TypeOK, Settled, None, Attempt
    <3> QED BY <3>1, <3>2 DEF Inv, Drawn, None
  <2> HIDE DEF new, r
  <2>6. AttemptsKnown'
    BY <1>0, <1>1, <2>1, <2>2, <2>4, <2>5, WriteKnown
  <2>7. /\ job'[j].pc = "outbox" /\ job'[j].week = job[j].week
        /\ job'[j].alloc = job[j].alloc
    BY <1>0, <2>1, <2>2, <2>3, <2>4, WriteIs
  <2>8. W(j)' = W(j)
    BY <2>7 DEF W
  <2>9. JobOk(j)'
    BY <2>1, <2>3, <2>7, <2>8 DEF JobOk, HasLock, SawWeek, SawPlayers,
       KnowsAmounts, Amount, Before, Computing
  <2> QED BY <1>0, <2>1, <2>2, <2>3, <2>6, <2>9, Writes
<1>7. CASE Finalize(j)
  <2> DEFINE new == [job[j].seen EXCEPT !.status = "finalized"]
             r == [job[j] EXCEPT !.pc = "unlock"]
  <2>1. /\ Write(j, "allocating", new, r) /\ job[j].pc = "finalize"
        /\ UNCHANGED <<entered, player, outbox, lock, tx>>
    BY <1>7 DEF Finalize, Conclude, At
  <2>2. job[j] \in JobState /\ r \in JobState /\ r.pc = "unlock"
    <3>1. r \in JobState /\ job[j] \in JobState
      BY <1>3, PcTyped DEF Inv, TypeOK
    <3> QED BY <3>1 DEF JobState
  <2>3. Taken(W(j)) /\ settle[W(j)].attempt = job[j].seen.attempt
    BY <2>1 DEF Inv, OwnersKnow, Owners, W
  <2>4. new.status = "finalized" /\ new.attempt = settle[W(j)].attempt
    BY <2>2, <2>3 DEF JobState, Settled
  <2> HIDE DEF new, r
  <2>5. AttemptsKnown'
    BY <1>0, <1>1, <2>1, <2>2, <2>4, WriteKnown
  <2>6. JobOk(j)'
    BY <1>0, <2>1, <2>2, WriteIs, Leaves
  <2> QED BY <1>0, <2>1, <2>2, <2>3, <2>5, <2>6, Writes
<1> QED BY <1>4, <1>5, <1>6, <1>7

\* Listing, splitting and authorizing.
LEMMA RecComputing ==
    ASSUME Inv, RecordsInv, orderly, NEW j \in Job,
           \/ List(j) \/ Empty(j) \/ NoSeason(j) \/ Split(j)
           \/ Reject(j) \/ NothingToPay(j) \/ Authorize(j)
    PROVE  RecordsInv'
<1> USE DEF records, chain, given
<1>1. JobOk(j) /\ AttemptsKnown
  BY DEF RecordsInv
<1>2. job[j] \in JobState
  BY DEF Inv, TypeOK
<1>3. CASE List(j)
  <2> DEFINE pc == IF entered[W(j)] = {} THEN "empty" ELSE "season"
             r == [job[j] EXCEPT !.players = player[W(j)], !.pc = pc]
  <2>1. Set(j, r) /\ job[j].pc = "list"
    BY <1>3 DEF List, W, Week_, At
  <2>2. /\ job'[j].pc = pc /\ job'[j].week = job[j].week
        /\ job'[j].seen = job[j].seen /\ job'[j].players = player[W(j)]
    <3>1. job'[j] = r
      BY <2>1, Becomes
    <3> QED BY <1>2, <3>1 DEF JobState
  <2>3. pc \in {"empty", "season"}
    OBVIOUS
  <2> HIDE DEF pc, r
  <2>4. W(j)' = W(j)
    BY <2>2 DEF W
  <2>5. /\ lock = j /\ settle[W(j)] = job[j].seen
        /\ job[j].seen.status \in {"closed", "computed"}
    BY <1>1, <2>1 DEF JobOk, HasLock, SawWeek, Exclusive, Before, Computing
  <2>6. JobOk(j)'
    BY <1>3, <2>2, <2>3, <2>4, <2>5 DEF List, JobOk, HasLock, SawWeek,
       SawPlayers, KnowsAmounts, Claimants
  <2> QED BY <1>3, <2>1, <2>6, LockKept, Quiet DEF List
<1>4. CASE Empty(j) \/ NoSeason(j) \/ NothingToPay(j)
  BY <1>4, RecConcludes
     DEF Empty, NoSeason, NothingToPay, At, Before, Computing
<1>5. CASE Split(j)
  <2>1. PICK a \in Allocations(W(j)) :
          Set(j, [job[j] EXCEPT !.alloc = a, !.pc = "compute"])
    BY <1>5 DEF Split, W, Week_
  <2> DEFINE r == [job[j] EXCEPT !.alloc = a, !.pc = "compute"]
  <2>2. job[j].pc = "season"
    BY <1>5 DEF Split, At
  <2>3. /\ job'[j].pc = "compute" /\ job'[j].week = job[j].week
        /\ job'[j].seen = job[j].seen /\ job'[j].players = job[j].players
        /\ job'[j].alloc = a
    <3>1. job'[j] = r
      BY <2>1, Becomes
    <3> QED BY <1>2, <3>1 DEF JobState
  <2>4. W(j)' = W(j)
    BY <2>3 DEF W
  <2>5. /\ lock = j /\ settle[W(j)] = job[j].seen
        /\ job[j].seen.status \in {"closed", "computed"}
        /\ job[j].players = player[W(j)]
    BY <1>1, <2>2 DEF JobOk, HasLock, SawWeek, SawPlayers, Exclusive, Before,
       Computing
  <2>6. \A p \in Player \ entered[W(j)] : a[p] = 0
    BY DEF Allocations
  <2>7. JobOk(j)'
    BY <1>5, <2>3, <2>4, <2>5, <2>6 DEF Split, JobOk, HasLock, SawWeek,
       SawPlayers, KnowsAmounts, Claimants
  <2>8. Set(j, r)
    BY <2>1
  <2> HIDE DEF r
  <2> QED BY <1>5, <2>7, <2>8, LockKept, Quiet DEF Split
<1>6. CASE Reject(j)
  BY <1>6 DEF Reject
<1>7. CASE Authorize(j)
  <2>1. job[j].pc = "authorize"
    BY <1>7 DEF Authorize, At
  <2>2. CASE Conclude(j, "computed", "aborted")
    BY <2>1, <2>2, RecConcludes DEF Before
  <2>3. CASE /\ Go(j, "claim")
             /\ UNCHANGED <<entered, records, lock, chain, attempts>>
    <3>1. /\ lock = j /\ settle[W(j)] = job[j].seen
          /\ job[j].seen.status \in {"closed", "computed"}
          /\ settle[W(j)].status = "computed"
          /\ \A p \in Player : job[j].alloc[p] = Amount(W(j), p)
      BY <1>1, <2>1 DEF JobOk, HasLock, SawWeek, KnowsAmounts, Exclusive,
         Before
    <3>2. W(j)' = W(j) /\ job'[j].pc = "claim" /\ job'[j].seen = job[j].seen
          /\ job'[j].alloc = job[j].alloc
      BY <2>3, Goes DEF W
    <3>3. JobOk(j)'
      BY <2>3, <3>1, <3>2 DEF JobOk, HasLock, SawWeek, SawPlayers,
         KnowsAmounts, Claimants, Amount
    <3> QED BY <2>3, <3>3, LockKept, Quiet DEF Go
  <2> QED BY <1>7, <2>2, <2>3 DEF Authorize
<1> QED BY <1>3, <1>4, <1>5, <1>6, <1>7

\* A player-week record written, and the others.
LEMMA WritesPlayer ==
    ASSUME Inv, NEW w \in Week, NEW p \in Player, NEW from, NEW new,
           WritePlayer(w, p, from, new)
    PROVE  /\ player'[w][p] = IF player[w][p].status = from THEN new
                              ELSE player[w][p]
           /\ \A q \in Player : q # p => player'[w][q] = player[w][q]
           /\ \A v \in Week : v # w => player'[v] = player[v]
BY DEF WritePlayer, Inv, TypeOK

\* The amounts written one after the other.
LEMMA RecPend ==
    ASSUME Inv, RecordsInv, NEW j \in Job, Pend(j)
    PROVE  RecordsInv'
<1>0. job[j].pc = "pend" /\ JobOk(j) /\ AttemptsKnown
  BY DEF RecordsInv, JobOk, HasLock, Pend, At
<1>1. PICK p \in job[j].todo :
        /\ WritePlayer(W(j), p, job[j].players[p].status, Pending(j, p))
        /\ Set(j, Next_(j, job[j].todo \ {p}, "authorize"))
  BY <1>0 DEF Pend, W, Week_, At
<1> DEFINE todo == job[j].todo \ {p}
           r == Next_(j, todo, "authorize")
<1>2. W(j) \in Week /\ ~Taken(W(j)) /\ lock = j
  BY <1>0, JobFacts DEF Exclusive, Before
<1>3. /\ settle[W(j)] = job[j].seen /\ settle[W(j)].status = "computed"
      /\ job[j].seen.status \in {"closed", "computed"}
      /\ job[j].todo \subseteq entered[W(j)]
      /\ \A q \in job[j].todo : job[j].players[q] = player[W(j)][q]
      /\ \A q \in Player \ entered[W(j)] : job[j].alloc[q] = 0
      /\ \A q \in entered[W(j)] \ job[j].todo :
           player[W(j)][q].amount = job[j].alloc[q]
  BY <1>0 DEF JobOk, SawWeek, SawPlayers, Before, Amount
<1>4. job[j] \in JobState /\ p \in Player /\ p \in entered[W(j)]
      /\ entered[W(j)] \subseteq Player
  BY <1>2, <1>3 DEF Inv, TypeOK, JobState
<1>5. Pending(j, p).amount = job[j].alloc[p]
  <2>1. job[j].players[p] \in PlayerWeek
    BY <1>4 DEF JobState
  <2> QED BY <2>1 DEF Pending, PlayerWeek
<1>6. /\ player'[W(j)][p].amount = job[j].alloc[p]
      /\ \A q \in Player : q # p => player'[W(j)][q] = player[W(j)][q]
      /\ \A v \in Week : v # W(j) => player'[v] = player[v]
  BY <1>1, <1>2, <1>3, <1>4, <1>5, WritesPlayer
<1>7. /\ job'[j].pc = IF todo = {} THEN "authorize" ELSE "pend"
      /\ job'[j].todo = todo /\ job'[j].week = job[j].week
      /\ job'[j].seen = job[j].seen /\ job'[j].alloc = job[j].alloc
      /\ job'[j].players = job[j].players
  <2>1. job'[j] = r
    BY <1>1, Becomes
  <2> QED BY <1>0, <1>4, <2>1 DEF JobState, Next_
<1>8. UNCHANGED <<entered, settle, outbox, tx, lock>>
  BY DEF Pend, chain, given
<1>9. W(j)' = W(j) /\ job'[j].pc \in {"authorize", "pend"}
  BY <1>7 DEF W
<1>10. HasLock(j)' /\ SawWeek(j)'
  BY <1>2, <1>3, <1>7, <1>8, <1>9 DEF HasLock, SawWeek
<1>11. SawPlayers(j)'
  <2>1. /\ todo \subseteq entered[W(j)]
        /\ \A q \in todo : job[j].players[q] = player'[W(j)][q]
        /\ \A q \in entered[W(j)] \ todo :
             player'[W(j)][q].amount = job[j].alloc[q]
    BY <1>3, <1>4, <1>6
  <2> HIDE DEF todo
  <2> QED BY <1>3, <1>7, <1>8, <1>9, <2>1 DEF SawPlayers, Amount
<1>12. OnlyEntered'
  BY <1>4, <1>6, <1>8 DEF RecordsInv, OnlyEntered, Amount
<1>13. KnowsAmounts(j)'
  <2> SUFFICES ASSUME todo = {}, NEW q \in Player
               PROVE  job[j].alloc[q] = player'[W(j)][q].amount
    BY <1>7, <1>9 DEF KnowsAmounts, Amount, Claimants
  <2>1. CASE q \in entered[W(j)]
    BY <1>3, <1>6, <2>1
  <2>2. CASE q \notin entered[W(j)]
    BY <1>2, <1>3, <1>4, <1>6, <2>2 DEF RecordsInv, OnlyEntered, Amount
  <2> QED BY <2>1, <2>2
<1>14. JobOk(j)'
  BY <1>10, <1>11, <1>13 DEF JobOk
<1>15. AttemptsKnown'
  BY <1>0, <1>8 DEF AttemptsKnown, Taken
<1>16. SettleBy(j) /\ PlayersBy(j) /\ OutboxBy(j) /\ LockBy(j)
  BY <1>2, <1>6, <1>8 DEF SettleBy, PlayersBy, OutboxBy, LockBy
<1>17. \A a \in Attempt : Sent(a)' => Sent(a)
  BY <1>8 DEF Sent
<1>18. Set(j, r)
  BY <1>1
<1> HIDE DEF r
<1> QED BY <1>8, <1>12, <1>14, <1>15, <1>16, <1>17, <1>18, StepKeeps

\* The outbox record, the simulation, the receipt.
LEMMA RecAllocating ==
    ASSUME Inv, RecordsInv, NEW j \in Job,
           Outbox(j) \/ Simulate(j) \/ Confirm(j) \/ Uncertain(j)
    PROVE  RecordsInv'
<1> USE DEF records, chain, given
<1>0. JobOk(j) /\ job[j] \in JobState
  BY DEF RecordsInv, Inv, TypeOK
<1>1. Own(j) \in Attempt \/ job[j].pc = "wait" \/ job[j].pc = "uncertain"
  BY ClaimantTyped DEF Outbox, Simulate, Confirm, Uncertain, At, Claimants, Inv
<1>2. lock = j
  BY JobFacts DEF Outbox, Simulate, Confirm, Uncertain, At, Claimants,
     Exclusive
<1>3. CASE Outbox(j)
  <2>1. job[j].pc = "outbox" /\ Go(j, "simulate")
    BY <1>3 DEF Outbox, At
  <2>2. Own(j) \in Attempt /\ tx[Own(j)] = "none"
    BY <1>1, <2>1 DEF Inv, OneClaimant, Claimants, Own
  <2>3. \A a \in Attempt : a # Own(j) => outbox'[a] = outbox[a]
    BY <1>3 DEF Outbox, Inv, TypeOK
  <2>4. outbox'[Own(j)].amounts = job[j].alloc
    BY <1>3, <2>2 DEF Outbox, Inv, TypeOK
  <2>5. W(j)' = W(j) /\ job'[j].pc = "simulate" /\ Own(j)' = Own(j)
        /\ job'[j].alloc = job[j].alloc
    BY <2>1, Goes DEF W, Own
  <2>6. \A p \in Player : job[j].alloc[p] = Amount(W(j), p)
    BY <1>0, <2>1 DEF JobOk, KnowsAmounts, Claimants
  <2>7. JobOk(j)'
    BY <1>2, <1>3, <2>4, <2>5, <2>6 DEF Outbox, JobOk, HasLock, SawWeek,
       SawPlayers, KnowsAmounts, Amount, Before, Computing, Claimants
  <2>8. SettleBy(j) /\ PlayersBy(j) /\ OutboxBy(j) /\ LockBy(j)
    BY <1>2, <1>3, <2>2, <2>3 DEF Outbox, SettleBy, PlayersBy, OutboxBy, LockBy
  <2>9. AttemptsKnown' /\ OnlyEntered'
    BY <1>3 DEF Outbox, RecordsInv, AttemptsKnown, Taken, OnlyEntered, Amount
  <2>10. \A a \in Attempt : Sent(a)' => Sent(a)
    BY <1>3 DEF Outbox, Sent
  <2> QED BY <1>3, <2>1, <2>7, <2>8, <2>9, <2>10, StepKeeps DEF Outbox, Go
<1>4. CASE Simulate(j)
  <2> DEFINE r == [job[j] EXCEPT !.first = Len(vault) + 1, !.pc = "send"]
  <2>1. Set(j, r) /\ job[j].pc = "simulate"
    BY <1>4 DEF Simulate, At
  <2>2. /\ job'[j].pc = "send" /\ job'[j].week = job[j].week
        /\ job'[j].seen = job[j].seen /\ job'[j].alloc = job[j].alloc
    <3>1. job'[j] = r
      BY <2>1, Becomes
    <3> QED BY <1>0, <3>1 DEF JobState
  <2>3. W(j)' = W(j) /\ Own(j)' = Own(j)
    BY <2>2 DEF W, Own
  <2>4. /\ \A p \in Player : job[j].alloc[p] = Amount(W(j), p)
        /\ outbox[Own(j)].amounts = job[j].alloc
    BY <1>0, <2>1 DEF JobOk, KnowsAmounts, Claimants
  <2>5. JobOk(j)'
    BY <1>2, <1>4, <2>2, <2>3, <2>4 DEF Simulate, JobOk, HasLock, SawWeek,
       SawPlayers, KnowsAmounts, Amount, Before, Computing, Claimants
  <2> HIDE DEF r
  <2> QED BY <1>4, <2>1, <2>5, LockKept, Quiet DEF Simulate
<1>5. CASE Confirm(j)
  <2> DEFINE r == [job[j] EXCEPT !.pc = "allocated",
                                 !.todo = Payable(job[j].alloc)]
  <2>1. Set(j, r) /\ job[j].pc = "wait"
    BY <1>5 DEF Confirm, At
  <2>2. /\ job'[j].pc = "allocated" /\ job'[j].week = job[j].week
        /\ job'[j].seen = job[j].seen /\ job'[j].alloc = job[j].alloc
    <3>1. job'[j] = r
      BY <2>1, Becomes
    <3> QED BY <1>0, <3>1 DEF JobState
  <2>3. W(j)' = W(j)
    BY <2>2 DEF W
  <2>4. \A p \in Player : job[j].alloc[p] = Amount(W(j), p)
    BY <1>0, <2>1 DEF JobOk, KnowsAmounts
  <2>5. JobOk(j)'
    BY <1>2, <1>5, <2>2, <2>3, <2>4 DEF Confirm, JobOk, HasLock, SawWeek,
       SawPlayers, KnowsAmounts, Amount, Before, Computing, Claimants
  <2>6. \A a \in Attempt : /\ outbox'[a].amounts = outbox[a].amounts
                           /\ outbox'[a].week = outbox[a].week
    BY <1>5 DEF Confirm, Inv, TypeOK
  <2> HIDE DEF r
  <2> QED BY <1>5, <2>1, <2>5, <2>6, LockKept, Quiet DEF Confirm
<1>6. CASE Uncertain(j)
  <2>1. \A a \in Attempt : /\ outbox'[a].amounts = outbox[a].amounts
                           /\ outbox'[a].week = outbox[a].week
    BY <1>6 DEF Uncertain, Inv, TypeOK
  <2>2. JobOk(j)'
    <3>1. job'[j].pc = "unlock"
      BY <1>6, Goes DEF Uncertain
    <3> QED BY <3>1, Leaves
  <2> QED BY <1>6, <2>1, <2>2, LockKept, Quiet DEF Uncertain, Go
<1> QED BY <1>3, <1>4, <1>5, <1>6

\* The batch is sent for the amounts on record.
LEMMA RecSend ==
    ASSUME Inv, RecordsInv, NEW j \in Job, Send(j)
    PROVE  RecordsInv'
<1> USE DEF records, given
<1>1. job[j].pc = "send" /\ Go(j, "wait") /\ JobOk(j)
  BY DEF Send, At, RecordsInv
<1>2. lock = j
  BY <1>1, JobFacts DEF Claimants, Exclusive
<1>3. /\ \A p \in Player : job[j].alloc[p] = Amount(W(j), p)
      /\ outbox[Own(j)].amounts = job[j].alloc
      /\ outbox[Own(j)].week = W(j)
  BY <1>1 DEF JobOk, KnowsAmounts, Claimants, Inv, ClaimIsInOutbox, Own, W
<1>4. W(j)' = W(j) /\ job'[j].pc = "wait" /\ job'[j].alloc = job[j].alloc
  BY <1>1, Goes DEF W
<1>5. JobOk(j)'
  BY <1>2, <1>3, <1>4 DEF Send, JobOk, HasLock, SawWeek, SawPlayers,
     KnowsAmounts, Amount, Before, Computing, Claimants
<1>6. SettleBy(j) /\ PlayersBy(j) /\ OutboxBy(j) /\ LockBy(j)
  BY DEF Send, SettleBy, PlayersBy, OutboxBy, LockBy
<1>7. \A k \in Job : JobOk(k)'
  <2>1. \A k \in Job : k # j => job'[k] = job[k]
    BY <1>1 DEF Go, Set
  <2> QED BY <1>5, <1>6, <2>1, Others DEF Send
<1>8. AttemptsKnown' /\ OnlyEntered'
  BY DEF Send, RecordsInv, AttemptsKnown, Taken, OnlyEntered, Amount
<1>9. ASSUME NEW a \in Attempt, Sent(a)'
      PROVE  \A p \in Player :
               player'[outbox'[a].week][p].amount = outbox'[a].amounts[p]
  <2>1. CASE a = Own(j)
    BY <1>3, <2>1 DEF Send, Amount
  <2>2. CASE a # Own(j)
    <3>1. Sent(a)
      BY <1>9, <2>2 DEF Send, Sent, Inv, TypeOK
    <3> QED BY <1>6, <3>1, BatchKept
  <2> QED BY <2>1, <2>2
<1> QED BY <1>7, <1>8, <1>9 DEF RecordsInv, Agree

\* A step that writes player records of a week that is taken, and leaves
\* their amounts.
LEMMA Settles ==
    ASSUME Inv, RecordsInv, NEW j \in Job, NEW r, Set(j, r),
           W(j) \in Week, Taken(W(j)),
           UNCHANGED <<entered, settle, outbox, tx, lock>>,
           \A p \in Player : player'[W(j)][p].amount = player[W(j)][p].amount,
           \A v \in Week : v # W(j) => player'[v] = player[v],
           JobOk(j)'
    PROVE  RecordsInv'
<1>1. PlayersBy(j) /\ SettleBy(j) /\ OutboxBy(j) /\ LockBy(j)
  BY DEF PlayersBy, SettleBy, OutboxBy, LockBy, Amount
<1>2. OnlyEntered'
  <2> SUFFICES ASSUME NEW v \in Week, NEW p \in Player \ entered[v]
               PROVE  player'[v][p].amount = 0
    BY DEF OnlyEntered, Amount
  <2>1. player'[v][p].amount = player[v][p].amount
    OBVIOUS
  <2> QED BY <2>1 DEF RecordsInv, OnlyEntered, Amount
<1>3. AttemptsKnown'
  BY DEF RecordsInv, AttemptsKnown, Taken
<1>4. \A a \in Attempt : Sent(a)' => Sent(a)
  BY DEF Sent
<1> QED BY <1>1, <1>2, <1>3, <1>4, StepKeeps

\* The rewards of a confirmed batch, one after the other.
LEMMA RecAllocated ==
    ASSUME Inv, RecordsInv, NEW j \in Job, Allocated(j)
    PROVE  RecordsInv'
<1>1. PICK p \in job[j].todo :
        /\ WritePlayer(W(j), p, "pending",
             [status |-> "allocated", amount |-> job[j].alloc[p],
              id |-> job[j].first])
        /\ Set(j, Next_(j, job[j].todo \ {p}, "ledger"))
  BY DEF Allocated, W, Week_
<1> DEFINE new == [status |-> "allocated", amount |-> job[j].alloc[p],
                   id |-> job[j].first]
           todo == job[j].todo \ {p}
           r == Next_(j, todo, "ledger")
<1>2. job[j].pc = "allocated" /\ JobOk(j) /\ job[j] \in JobState
  BY DEF Allocated, At, RecordsInv, Inv, TypeOK
<1>3. W(j) \in Week /\ Taken(W(j)) /\ lock = j
  BY <1>2, JobFacts DEF Owners, Exclusive
<1>4. \A q \in Player : job[j].alloc[q] = player[W(j)][q].amount
  BY <1>2 DEF JobOk, KnowsAmounts, Amount
<1>5. p \in Player
  BY <1>2 DEF JobState
<1>6. /\ \A q \in Player : player'[W(j)][q].amount = player[W(j)][q].amount
      /\ \A v \in Week : v # W(j) => player'[v] = player[v]
  <2>1. new.amount = player[W(j)][p].amount
    BY <1>4, <1>5
  <2> HIDE DEF new
  <2>2. WritePlayer(W(j), p, "pending", new)
    BY <1>1 DEF new
  <2> QED BY <1>3, <1>5, <2>1, <2>2, WritesPlayer
<1>7. /\ job'[j].pc = IF todo = {} THEN "ledger" ELSE "allocated"
      /\ job'[j].week = job[j].week /\ job'[j].alloc = job[j].alloc
  <2>1. job'[j] = r
    BY <1>1, Becomes
  <2> QED BY <1>2, <2>1 DEF JobState, Next_
<1>8. UNCHANGED <<entered, settle, outbox, tx, lock>>
  BY DEF Allocated, chain, given
<1>9. JobOk(j)'
  <2> DEFINE pc == IF todo = {} THEN "ledger" ELSE "allocated"
  <2>1. CASE todo = {}
    BY <1>7, <2>1, Leaves
  <2>2. CASE todo # {}
    <3>1. job'[j].pc = "allocated" /\ W(j)' = W(j)
      BY <1>7, <2>2 DEF W
    <3>2. KnowsAmounts(j)'
      BY <1>4, <1>6, <1>7, <3>1 DEF KnowsAmounts, Amount
    <3> QED BY <1>3, <1>8, <3>1, <3>2 DEF JobOk, HasLock, SawWeek, SawPlayers,
            Before, Computing
  <2> QED BY <2>1, <2>2
<1>10. Set(j, r)
  BY <1>1
<1> HIDE DEF r
<1> QED BY <1>3, <1>6, <1>8, <1>9, <1>10, Settles

\* What a reconciliation reads and records.
LEMMA RecReconciling ==
    ASSUME Inv, RecordsInv, NEW j \in Job,
           RecRead(j) \/ RecList(j) \/ Ledger(j)
    PROVE  RecordsInv'
<1> USE DEF records, chain, given
<1>0. job[j] \in JobState
  BY DEF Inv, TypeOK
<1>1. W(j) \in Week
  BY DEF RecRead, RecList, Ledger, At, Inv, JobsKnow, W
<1>2. CASE RecRead(j)
  <2> DEFINE s == settle[W(j)]
             r == [job[j] EXCEPT !.seen = s, !.pc =
                     IF s.status = "allocating" THEN "recList" ELSE "unlock"]
  <2>1. Set(j, r)
    BY <1>2 DEF RecRead, W, Week_
  <2>2. job'[j].pc \in {"recList", "unlock"}
    <3>1. job'[j] = r
      BY <2>1, Becomes
    <3> HIDE DEF s
    <3> QED BY <1>0, <3>1 DEF JobState
  <2>3. JobOk(j)'
    BY <2>2, Leaves
  <2> HIDE DEF r
  <2> QED BY <1>2, <2>1, <2>3, LockKept, Quiet DEF RecRead
<1>3. CASE RecList(j)
  <2>0. PICK amounts \in Listed(W(j)) :
          Set(j, [job[j] EXCEPT
                    !.players = player[W(j)], !.alloc = amounts,
                    !.todo = Payable(amounts),
                    !.pc = IF Payable(amounts) = {} THEN "ledger"
                           ELSE "recPlayer"])
    BY <1>3 DEF RecList, W, Week_
  <2> DEFINE listed == player[W(j)]
             r == [job[j] EXCEPT
                     !.players = listed, !.alloc = amounts,
                     !.todo = Payable(amounts),
                     !.pc = IF Payable(amounts) = {} THEN "ledger"
                            ELSE "recPlayer"]
  <2>1. Set(j, r)
    BY <2>0
  <2>2. /\ job'[j].pc = IF Payable(amounts) = {} THEN "ledger" ELSE "recPlayer"
        /\ job'[j].week = job[j].week /\ job'[j].alloc = amounts
        /\ job'[j].players = listed
    <3>1. job'[j] = r
      BY <2>1, Becomes
    <3> HIDE DEF listed
    <3> QED BY <1>0, <3>1 DEF JobState
  <2>3. CASE Payable(amounts) = {}
    <3>1. job'[j].pc = "ledger"
      BY <2>2, <2>3
    <3>2. JobOk(j)'
      BY <3>1, Leaves
    <3> HIDE DEF r
    <3> QED BY <1>3, <2>1, <3>2, LockKept, Quiet DEF RecList
  <2>4. CASE Payable(amounts) # {}
    <3>1. job'[j].pc = "recPlayer" /\ W(j)' = W(j)
      BY <2>2, <2>4 DEF W
    <3>2. amounts # Nothing
      BY <2>4 DEF Payable, Nothing
    <3>3. \A p \in Player : amounts[p] = listed[p].amount
      BY <1>1, <2>0, <3>2 DEF Listed, RecordsInv, OnlyEntered, Amount
    <3>4. player' = player
      BY <1>3 DEF RecList
    <3>5. JobOk(j)'
      <4>1. HasLock(j)' /\ SawWeek(j)' /\ SawPlayers(j)'
        BY <3>1 DEF HasLock, SawWeek, SawPlayers, Exclusive, Before, Computing,
           Claimants
      <4>2. KnowsAmounts(j)'
        BY <2>2, <3>1, <3>3, <3>4 DEF KnowsAmounts, Amount
      <4> QED BY <4>1, <4>2 DEF JobOk
    <3> HIDE DEF r
    <3> QED BY <1>3, <2>1, <3>5, LockKept, Quiet DEF RecList
  <2> QED BY <2>3, <2>4
<1>4. CASE Ledger(j)
  <2>1. Go(j, "finalize")
    BY <1>4 DEF Ledger
  <2>2. job'[j].pc = "finalize"
    BY <2>1, Goes
  <2>3. JobOk(j)'
    BY <2>2, Leaves
  <2> QED BY <1>4, <2>1, <2>3, LockKept, Quiet DEF Ledger, Go
<1> QED BY <1>2, <1>3, <1>4

\* What RecPlayer does to the job and to the player p it looks at.
LEMMA PlayerLookedAt ==
    ASSUME Inv, NEW j \in Job, RecPlayer(j)
    PROVE  \E p \in job[j].todo : \E missed \in BOOLEAN :
             /\ missed = (job[j].missed \/ Missed(j, p))
             /\ \/ player' = player /\ (Known(j, p) \/ Missed(j, p))
                \/ /\ ~Known(j, p) /\ ~Missed(j, p)
                   /\ WritePlayer(W(j), p, "pending",
                        [job[j].players[p] EXCEPT !.status = "allocated",
                                                  !.id = Match(j, p)])
             /\ \E r : Set(j, r)
             /\ job'[j].pc = IF job[j].todo \ {p} # {} THEN "recPlayer"
                             ELSE IF missed THEN "unlock" ELSE "ledger"
             /\ job'[j].todo = job[j].todo \ {p}
             /\ job'[j].missed = missed
             /\ job'[j].week = job[j].week /\ job'[j].seen = job[j].seen
             /\ job'[j].alloc = job[j].alloc
             /\ job'[j].players = job[j].players
<1> DEFINE missed(p) == job[j].missed \/ Missed(j, p)
           next(p) == Next_(j, job[j].todo \ {p},
                            IF missed(p) THEN "unlock" ELSE "ledger")
<1>1. PICK p \in job[j].todo :
        /\ IF Known(j, p) \/ Missed(j, p) THEN UNCHANGED player
           ELSE WritePlayer(W(j), p, "pending",
                  [job[j].players[p] EXCEPT !.status = "allocated",
                                            !.id = Match(j, p)])
        /\ Set(j, [next(p) EXCEPT !.missed = missed(p)])
  BY DEF RecPlayer, W, Week_
<1>2. job[j] \in JobState /\ job[j].pc = "recPlayer"
  BY DEF Inv, TypeOK, RecPlayer, At
<1>3. missed(p) \in BOOLEAN
  <2>1. job[j].missed \in BOOLEAN
    BY <1>2 DEF JobState
  <2>2. Missed(j, p) \in BOOLEAN
    BY DEF Missed
  <2> QED BY <2>1, <2>2
<1>4. job'[j] = [next(p) EXCEPT !.missed = missed(p)]
  <2> DEFINE r == [next(p) EXCEPT !.missed = missed(p)]
  <2>1. Set(j, r)
    BY <1>1
  <2> HIDE DEF r, next
  <2>2. job'[j] = r
    BY <2>1, Becomes
  <2> QED BY <2>2 DEF r
<1> DEFINE miss == missed(p)
           last == IF miss THEN "unlock" ELSE "ledger"
           todo == job[j].todo \ {p}
<1>5. next(p) = [job[j] EXCEPT !.todo = todo,
                               !.pc = IF todo = {} THEN last ELSE @]
  BY DEF Next_
<1>6. job'[j] = [[job[j] EXCEPT !.todo = todo,
                                !.pc = IF todo = {} THEN last ELSE @]
                   EXCEPT !.missed = miss]
  BY <1>4, <1>5
<1> HIDE DEF miss, last
<1>7. /\ job'[j].pc = IF todo = {} THEN last ELSE job[j].pc
      /\ job'[j].todo = todo /\ job'[j].missed = miss
      /\ job'[j].week = job[j].week /\ job'[j].seen = job[j].seen
      /\ job'[j].alloc = job[j].alloc /\ job'[j].players = job[j].players
  <2> HIDE DEF todo
  <2> QED BY <1>2, <1>6 DEF JobState
<1>8. /\ miss \in BOOLEAN /\ miss = (job[j].missed \/ Missed(j, p))
      /\ last = IF miss THEN "unlock" ELSE "ledger"
  BY <1>3 DEF miss, last
<1>9. \E r : Set(j, r)
  BY <1>1
<1>10. \/ player' = player /\ (Known(j, p) \/ Missed(j, p))
       \/ /\ ~Known(j, p) /\ ~Missed(j, p)
          /\ WritePlayer(W(j), p, "pending",
               [job[j].players[p] EXCEPT !.status = "allocated",
                                         !.id = Match(j, p)])
  BY <1>1
<1> HIDE DEF missed, next
<1> QED BY <1>2, <1>7, <1>8, <1>9, <1>10

\* One player after the other is looked for on-chain.
LEMMA RecRecPlayer ==
    ASSUME Inv, RecordsInv, NEW j \in Job, RecPlayer(j)
    PROVE  RecordsInv'
<1>1. PICK p \in job[j].todo :
        /\ \/ player' = player
           \/ WritePlayer(W(j), p, "pending",
                [job[j].players[p] EXCEPT !.status = "allocated",
                                          !.id = Match(j, p)])
        /\ \E r : Set(j, r)
        /\ job'[j].pc \in {"recPlayer", "unlock", "ledger"}
        /\ job'[j].week = job[j].week /\ job'[j].seen = job[j].seen
        /\ job'[j].alloc = job[j].alloc
        /\ job'[j].players = job[j].players
  BY PlayerLookedAt
<1>2. /\ job[j].pc = "recPlayer" /\ JobOk(j) /\ job[j] \in JobState
      /\ UNCHANGED <<entered, settle, outbox, tx, lock>>
  BY DEF RecPlayer, At, RecordsInv, Inv, TypeOK, chain, given
<1>3. W(j) \in Week /\ Taken(W(j))
  BY <1>2, JobFacts DEF Owners
<1>4. /\ \A q \in Player : job[j].alloc[q] = player[W(j)][q].amount
      /\ \A q \in Player : job[j].players[q].amount = player[W(j)][q].amount
  BY <1>2 DEF JobOk, KnowsAmounts, Amount
<1>5. p \in Player
  BY <1>2 DEF JobState
<1>6. /\ \A q \in Player : player'[W(j)][q].amount = player[W(j)][q].amount
      /\ \A v \in Week : v # W(j) => player'[v] = player[v]
  <2> DEFINE new == [job[j].players[p] EXCEPT !.status = "allocated",
                                              !.id = Match(j, p)]
  <2>1. new.amount = player[W(j)][p].amount
    <3>1. job[j].players[p] \in PlayerWeek
      BY <1>2, <1>5 DEF JobState
    <3> QED BY <1>4, <1>5, <3>1 DEF PlayerWeek
  <2>2. player' = player \/ WritePlayer(W(j), p, "pending", new)
    BY <1>1
  <2> HIDE DEF new
  <2> QED BY <1>3, <1>5, <2>1, <2>2, WritesPlayer
<1>7. JobOk(j)'
  <2>1. CASE job'[j].pc = "recPlayer"
    <3>1. W(j)' = W(j)
      BY <1>1 DEF W
    <3>2. KnowsAmounts(j)'
      BY <1>1, <1>4, <1>6, <2>1, <3>1 DEF KnowsAmounts, Amount
    <3> QED BY <2>1, <3>2 DEF JobOk, HasLock, SawWeek, SawPlayers, Exclusive,
            Before, Computing, Claimants
  <2>2. CASE job'[j].pc # "recPlayer"
    BY <1>1, <2>2, Leaves
  <2> QED BY <2>1, <2>2
<1>8. PICK r : Set(j, r)
  BY <1>1
<1> QED BY <1>2, <1>3, <1>6, <1>7, <1>8, Settles

\* The chain, the expiry of the mutex and the operator.
LEMMA RecAround ==
    ASSUME Inv, RecordsInv, orderly,
           \/ \E a \in Attempt : Mine(a) \/ Revert(a)
           \/ \E w \in Week : Reset(w)
           \/ LockExpires \/ Age
    PROVE  RecordsInv'
<1> USE DEF records, given
<1>1. ASSUME NEW a \in Attempt, Mine(a) \/ Revert(a)
      PROVE  RecordsInv'
  <2>1. UNCHANGED <<entered, settle, player, outbox, lock, job>>
    BY <1>1 DEF Mine, Revert
  <2>2. \A b \in Attempt : Sent(b)' => Sent(b)
    BY <1>1 DEF Mine, Revert, Sent, Inv, TypeOK
  <2>3. Agree'
    BY <2>1, <2>2 DEF RecordsInv, Agree
  <2> QED BY <2>1, <2>3 DEF RecordsInv, AttemptsKnown, Taken, OnlyEntered,
          Amount, JobOk, HasLock, SawWeek, SawPlayers, KnowsAmounts, W, Own
<1>2. CASE LockExpires
  <2>1. UNCHANGED <<entered, settle, player, outbox, tx, job>>
    BY <1>2 DEF LockExpires, chain, given
  <2>2. \A j \in Job : lock # j
    BY <1>2, JobAssumption DEF LockExpires
  <2>3. \A j \in Job : HasLock(j)'
    BY <2>1, <2>2 DEF RecordsInv, JobOk, HasLock
  <2>4. Agree'
    BY <2>1 DEF RecordsInv, Agree, Sent
  <2> QED BY <2>1, <2>3, <2>4 DEF RecordsInv, AttemptsKnown, Taken,
          OnlyEntered, Amount, JobOk, SawWeek, SawPlayers, KnowsAmounts, W, Own
<1>3. CASE Age
  <2>1. UNCHANGED <<entered, settle, player, outbox, tx, lock, job>>
    BY <1>3 DEF Age
  <2>2. Agree'
    BY <2>1 DEF RecordsInv, Agree, Sent
  <2> QED BY <2>1, <2>2 DEF RecordsInv, AttemptsKnown, Taken, OnlyEntered,
          Amount, JobOk, HasLock, SawWeek, SawPlayers, KnowsAmounts, W, Own
<1>4. \A w \in Week : ~Reset(w)
  BY DEF Reset
<1> QED BY <1>1, <1>2, <1>3, <1>4

\* Initially nothing is on record.
LEMMA RecInit == Init => RecordsInv
<1> SUFFICES ASSUME Init PROVE RecordsInv
  OBVIOUS
<1> USE DEF Init
<1>1. AttemptsKnown
  BY DEF AttemptsKnown, Absent, Taken, None
<1>2. OnlyEntered
  BY DEF OnlyEntered, Amount, Fresh
<1>3. Agree
  BY DEF Agree, Sent
<1>4. ASSUME NEW j \in Job
      PROVE  JobOk(j)
  <2>1. job[j].pc = "idle"
    BY DEF Idle
  <2> QED BY <2>1 DEF JobOk, HasLock, SawWeek, SawPlayers, KnowsAmounts,
          Exclusive, Before, Computing, Claimants
<1> QED BY <1>1, <1>2, <1>3, <1>4 DEF RecordsInv

\* Every step keeps the records in order.
LEMMA RecNext ==
    ASSUME Inv, RecordsInv, orderly, Next
    PROVE  RecordsInv'
<1>1. ASSUME NEW j \in Job,
             \/ \E w \in Week : Take(j, w) \/ Reconcile(j, w)
             \/ Settling(j) \/ Reconciling(j) \/ Unlock(j) \/ Throw(j)
             \/ Crash(j)
      PROVE  RecordsInv'
  BY <1>1, RecTaking, RecWriting, RecComputing, RecPend, RecAllocating,
     RecSend, RecAllocated, RecReconciling, RecRecPlayer
     DEF Settling, Reconciling
<1> QED BY <1>1, RecAround DEF Next

\* So does a step that changes nothing.
LEMMA RecStep ==
    orderly /\ Inv /\ RecordsInv /\ [Next]_vars => RecordsInv'
<1> SUFFICES ASSUME orderly, Inv, RecordsInv, [Next]_vars
             PROVE  RecordsInv'
  OBVIOUS
<1>1. CASE Next
  BY <1>1, RecNext
<1>2. CASE vars' = vars
  BY <1>2 DEF vars, RecordsInv, AttemptsKnown, Taken, OnlyEntered,
     Agree, Sent, Amount, JobOk, HasLock, SawWeek, SawPlayers,
     KnowsAmounts, W, Own
<1> QED BY <1>1, <1>2

-----------------------------------------------------------------------------
(* What the ledger holds and what players are told.                        *)

Amounts(w) == [p \in Player |-> Amount(w, p)]

\* The vault holds a reward of amount x for p, the i-th batch or a later one.
Rewarded(p, x, i) == \E n \in DOMAIN vault : n >= i /\ Paid(n)[p] = x

\* The ledger holds what a week that is taken pays, or nothing of it.
Booked(w) ==
    ledger[w] # 0 => Taken(w) /\ ledger[w] = UnitsOf(Sum(Amounts(w)))

\* Players are told only of a week that is taken, and of rewards that exist.
Told(w) ==
    \A p \in Player : player[w][p].status = "allocated" =>
        Taken(w) /\ Rewarded(p, Amount(w, p), player[w][p].id)

\* The batch of attempt a is in the vault, the i-th or a later one.
InVault(a, i) == \E n \in DOMAIN vault : vault[n] = a /\ n >= i

\* The batch a job has simulated will come after, or has.
Placed(j) ==
    /\ job[j].pc = "send" => job[j].first <= Len(vault) + 1
    /\ job[j].pc = "wait" =>
         \/ tx[Own(j)] # "mined" /\ job[j].first <= Len(vault) + 1
         \/ InVault(Own(j), job[j].first)
    /\ job[j].pc \in {"wait", "allocated"} => Own(j) \in Attempt
    /\ job[j].pc = "allocated" => InVault(Own(j), job[j].first)

\* A job about to book a week knows its amounts, or of none.
Books(j) == job[j].pc = "ledger" => job[j].alloc \in {Amounts(W(j)), Nothing}

PaidInv ==
    /\ \A w \in Week : Booked(w) /\ Told(w)
    /\ \A j \in Job : Placed(j) /\ Books(j)

\* The vault only grows, and what is in it stays as it is.
VaultKeeps ==
    /\ DOMAIN vault \subseteq DOMAIN vault'
    /\ \A n \in DOMAIN vault :
         /\ vault'[n] = vault[n]
         /\ outbox'[vault[n]].amounts = outbox[vault[n]].amounts

\* The batch of an attempt mined in this step comes last.
LEMMA Mines ==
    ASSUME Inv, NEW a \in Attempt, Mine(a)
    PROVE  /\ vault' = Append(vault, a) /\ vault \in Seq(Attempt)
           /\ Len(vault') = Len(vault) + 1
           /\ DOMAIN vault' = 1..(Len(vault) + 1)
           /\ vault'[Len(vault) + 1] = a
           /\ \A n \in DOMAIN vault : n \in DOMAIN vault' /\ vault'[n] = vault[n]
           /\ outbox' = outbox /\ tx' = [tx EXCEPT ![a] = "mined"]
<1>1. vault \in Seq(Attempt) /\ vault' = Append(vault, a)
  BY DEF Inv, TypeOK, Mine
<1>2. outbox' = outbox /\ tx' = [tx EXCEPT ![a] = "mined"]
  BY DEF Mine, records
<1> QED BY <1>1, <1>2

\* Every step keeps the vault.
LEMMA VaultStep ==
    ASSUME Inv, [Next]_vars
    PROVE  VaultKeeps
<1>1. ASSUME UNCHANGED <<vault, outbox>> PROVE VaultKeeps
  BY <1>1 DEF VaultKeeps
<1>2. \A n \in DOMAIN vault : vault[n] \in Attempt /\ tx[vault[n]] = "mined"
  BY DEF Inv, TypeOK, VaultIsMined
<1>3. ASSUME NEW a \in Attempt, Mine(a) PROVE VaultKeeps
  BY <1>3, Mines DEF VaultKeeps
<1>4. ASSUME NEW j \in Job, Outbox(j) PROVE VaultKeeps
  <2>0. job[j].pc \in Claimants
    BY <1>4 DEF Outbox, At, Claimants
  <2>1. tx[Own(j)] # "mined"
    BY <2>0, ClaimantUnsent DEF Inv, Sent
  <2> QED BY <1>2, <1>4, <2>1 DEF Outbox, VaultKeeps, chain, Inv, TypeOK
<1>5. ASSUME NEW j \in Job, Confirm(j) \/ Uncertain(j) PROVE VaultKeeps
  <2>1. \A a \in Attempt : outbox'[a].amounts = outbox[a].amounts
    <3>1. \E x : outbox' = [outbox EXCEPT ![Own(j)].status = x]
      <4>1. CASE Confirm(j)
        BY <4>1 DEF Confirm
      <4>2. CASE Uncertain(j)
        BY <4>2 DEF Uncertain
      <4> QED BY <1>5, <4>1, <4>2
    <3>2. PICK x : outbox' = [outbox EXCEPT ![Own(j)].status = x]
      BY <3>1
    <3> QED BY <3>2 DEF Inv, TypeOK
  <2> QED BY <1>2, <1>5, <2>1 DEF Confirm, Uncertain, VaultKeeps, chain
<1>6. ASSUME NEW j \in Job,
             \/ \E w \in Week : Take(j, w) \/ Reconcile(j, w)
             \/ Unlock(j) \/ Read(j) \/ Throw(j) \/ Crash(j) \/ Close(j)
             \/ List(j) \/ Split(j) \/ Pend(j) \/ Reject(j) \/ Empty(j)
             \/ NoSeason(j) \/ Compute(j) \/ NothingToPay(j) \/ Authorize(j)
      PROVE  UNCHANGED <<vault, outbox>>
  BY <1>6 DEF Take, Reconcile, Unlock, Read, Throw, Crash, Close, List, Split,
     Pend, Reject, Empty, NoSeason, Compute, NothingToPay, Authorize,
     Conclude, records, chain
<1>7. ASSUME NEW j \in Job,
             \/ Claim(j) \/ Simulate(j) \/ Send(j) \/ Allocated(j)
             \/ RecRead(j) \/ RecList(j) \/ RecPlayer(j) \/ Ledger(j)
             \/ Finalize(j)
      PROVE  UNCHANGED <<vault, outbox>>
  BY <1>7 DEF Claim, Simulate, Send, Allocated, RecRead, RecList, RecPlayer,
     Ledger, Finalize, Conclude, records, chain
<1>8. ASSUME \/ \E a \in Attempt : Revert(a)
             \/ \E w \in Week : Reset(w)
             \/ LockExpires \/ Age \/ UNCHANGED vars
      PROVE  UNCHANGED <<vault, outbox>>
  BY <1>8 DEF Revert, Reset, LockExpires, Age, vars, records, chain
<1> QED BY <1>1, <1>3, <1>4, <1>5, <1>6, <1>7, <1>8
     DEF Next, Settling, Reconciling

\* A batch is mined before the step or by it.
LEMMA MinedStep ==
    ASSUME Inv, [Next]_vars, NEW a \in Attempt, tx'[a] = "mined"
    PROVE  tx[a] = "mined" \/ Mine(a)
<1>1. ASSUME UNCHANGED tx PROVE tx[a] = "mined"
  BY <1>1
<1>2. ASSUME NEW b \in Attempt, Mine(b) PROVE tx[a] = "mined" \/ Mine(a)
  BY <1>2 DEF Mine, Inv, TypeOK
<1>3. ASSUME NEW b \in Attempt, Revert(b) PROVE tx[a] = "mined"
  BY <1>3 DEF Revert, Inv, TypeOK
<1>4. ASSUME NEW j \in Job, Send(j) PROVE tx[a] = "mined"
  BY <1>4 DEF Send, Inv, TypeOK
<1>5. ASSUME NEW j \in Job,
             \/ \E w \in Week : Take(j, w) \/ Reconcile(j, w)
             \/ Unlock(j) \/ Read(j) \/ Throw(j) \/ Crash(j) \/ Close(j)
             \/ List(j) \/ Split(j) \/ Pend(j) \/ Reject(j) \/ Empty(j)
             \/ NoSeason(j) \/ Compute(j) \/ NothingToPay(j) \/ Authorize(j)
      PROVE  UNCHANGED tx
  BY <1>5 DEF Take, Reconcile, Unlock, Read, Throw, Crash, Close, List, Split,
     Pend, Reject, Empty, NoSeason, Compute, NothingToPay, Authorize,
     Conclude, chain
<1>6. ASSUME NEW j \in Job,
             \/ Claim(j) \/ Simulate(j) \/ Outbox(j) \/ Allocated(j)
             \/ Confirm(j) \/ Uncertain(j)
             \/ RecRead(j) \/ RecList(j) \/ RecPlayer(j) \/ Ledger(j)
             \/ Finalize(j)
      PROVE  UNCHANGED tx
  BY <1>6 DEF Claim, Simulate, Outbox, Allocated, Confirm, Uncertain, RecRead,
     RecList, RecPlayer, Ledger, Finalize, Conclude, chain
<1>7. ASSUME (\E w \in Week : Reset(w)) \/ LockExpires \/ Age
             \/ UNCHANGED vars
      PROVE  UNCHANGED tx
  BY <1>7 DEF Reset, LockExpires, Age, vars, chain
<1> QED BY <1>1, <1>2, <1>3, <1>4, <1>5, <1>6, <1>7
     DEF Next, Settling, Reconciling

\* What a step does to a week that is taken: it stays taken.
TakenStays == \A w \in Week : Taken(w) => Taken(w)'

\* A compare-and-set takes no week back.
LEMMA WriteTaken ==
    ASSUME TypeOK, NEW j \in Job, NEW from, NEW new, NEW r,
           Write(j, from, new, r),
           \/ from \notin {"allocating", "finalized"}
           \/ new.status = "finalized"
    PROVE  TakenStays
<1> SUFFICES ASSUME NEW w \in Week, Taken(w) PROVE Taken(w)'
  BY DEF TakenStays
<1>1. CASE settle' = settle
  BY <1>1 DEF Taken
<1>2. CASE settle' = [settle EXCEPT ![Week_(j)] = new]
           /\ settle[Week_(j)].status = from
  BY <1>2 DEF Taken, TypeOK
<1> QED BY <1>1, <1>2 DEF Write, Wins

\* In an orderly system a week that is taken stays so.
LEMMA TakenStep ==
    ASSUME orderly, TypeOK, JobsKnow, [Next]_vars
    PROVE  TakenStays
<1>1. ASSUME UNCHANGED settle PROVE TakenStays
  BY <1>1 DEF TakenStays, Taken
<1>2. ASSUME NEW j \in Job, job[j].pc \in Computing
      PROVE  job[j].seen.status \notin {"allocating", "finalized"}
  BY <1>2 DEF JobsKnow
<1>3. ASSUME NEW j \in Job, Close(j) \/ NothingToPay(j) \/ Claim(j)
      PROVE  TakenStays
  BY <1>3, WriteTaken DEF Close, NothingToPay, Claim, Conclude
<1>4. ASSUME NEW j \in Job, Finalize(j)
      PROVE  TakenStays
  <2> DEFINE new == [job[j].seen EXCEPT !.status = "finalized"]
  <2>1. new.status = "finalized"
    BY DEF TypeOK, JobState, Settled
  <2> HIDE DEF new
  <2>2. Write(j, "allocating", new, [job[j] EXCEPT !.pc = "unlock"])
    BY <1>4 DEF Finalize, Conclude, new
  <2> QED BY <2>1, <2>2, WriteTaken
<1>5. ASSUME NEW j \in Job, Empty(j) \/ NoSeason(j) \/ Compute(j)
      PROVE  TakenStays
  <2>1. job[j].pc \in Computing
    BY <1>5 DEF Empty, NoSeason, Compute, At, Computing
  <2> QED BY <1>2, <1>5, <2>1, WriteTaken
          DEF Empty, NoSeason, Compute, Conclude
<1>6. ASSUME NEW j \in Job, Authorize(j)
      PROVE  TakenStays
  BY <1>1, <1>6, WriteTaken DEF Authorize, Conclude, records
<1>7. \A w \in Week : ~Reset(w)
  BY DEF Reset
<1>8. ASSUME NEW j \in Job,
             \/ \E w \in Week : Take(j, w) \/ Reconcile(j, w)
             \/ Unlock(j) \/ Read(j) \/ Throw(j) \/ Crash(j)
             \/ List(j) \/ Split(j) \/ Pend(j) \/ Reject(j)
      PROVE  UNCHANGED settle
  BY <1>8 DEF Take, Reconcile, Unlock, Read, Throw, Crash, List, Split, Pend,
              Reject, records
<1>9. ASSUME NEW j \in Job,
             \/ Outbox(j) \/ Simulate(j) \/ Send(j) \/ Confirm(j)
             \/ Uncertain(j) \/ Allocated(j)
             \/ RecRead(j) \/ RecList(j) \/ RecPlayer(j) \/ Ledger(j)
      PROVE  UNCHANGED settle
  BY <1>9 DEF Outbox, Simulate, Send, Confirm, Uncertain, Allocated, RecRead,
              RecList, RecPlayer, Ledger, records
<1>10. ASSUME \/ \E a \in Attempt : Mine(a) \/ Revert(a)
              \/ LockExpires \/ Age \/ UNCHANGED vars
       PROVE  UNCHANGED settle
  BY <1>10 DEF Mine, Revert, LockExpires, Age, vars, records
<1> QED BY <1>1, <1>3, <1>4, <1>5, <1>6, <1>7, <1>8, <1>9, <1>10
     DEF Next, Settling, Reconciling

\* Rewards stay, and so do batches in the vault.
LEMMA RewardStays ==
    ASSUME VaultKeeps, NEW p, NEW x, NEW i, Rewarded(p, x, i)
    PROVE  Rewarded(p, x, i)'
BY DEF VaultKeeps, Rewarded, Paid

LEMMA InVaultStays ==
    ASSUME VaultKeeps, NEW a, NEW i, InVault(a, i)
    PROVE  InVault(a, i)'
BY DEF VaultKeeps, InVault

\* The vault's length, and that it does not shrink.
LEMMA VaultGrows ==
    ASSUME Inv, Inv', VaultKeeps
    PROVE  Len(vault) \in Nat /\ Len(vault') \in Nat /\ Len(vault) <= Len(vault')
<1>1. vault \in Seq(Attempt) /\ vault' \in Seq(Attempt)
  BY DEF Inv, TypeOK
<1>2. /\ Len(vault) \in Nat /\ Len(vault') \in Nat
      /\ DOMAIN vault = 1..Len(vault) /\ DOMAIN vault' = 1..Len(vault')
  BY <1>1
<1>3. CASE Len(vault) = 0
  BY <1>2, <1>3
<1>4. CASE Len(vault) # 0
  <2>1. Len(vault) \in DOMAIN vault
    BY <1>2, <1>4
  <2>2. Len(vault) \in DOMAIN vault'
    BY <2>1 DEF VaultKeeps
  <2> QED BY <1>2, <2>2
<1> QED BY <1>2, <1>3, <1>4

\* A job that does not move stays where it is in regard to the vault.
LEMMA PlacedStays ==
    ASSUME Inv, Inv', [Next]_vars, NEW j \in Job, job'[j] = job[j], Placed(j)
    PROVE  Placed(j)'
<1>1. VaultKeeps
  BY VaultStep
<1>2. /\ Len(vault) \in Nat /\ Len(vault') \in Nat
      /\ Len(vault) <= Len(vault') /\ job[j].first \in Nat
  BY <1>1, VaultGrows DEF Inv, TypeOK, JobState
<1>3. Own(j)' = Own(j)
  BY DEF Own
<1>4. ASSUME job[j].pc = "wait", job[j].first <= Len(vault) + 1,
             tx[Own(j)] # "mined", tx'[Own(j)] = "mined"
      PROVE  InVault(Own(j), job[j].first)'
  <2>1. Own(j) \in Attempt
    BY <1>4 DEF Placed
  <2>2. Mine(Own(j))
    BY <1>4, <2>1, MinedStep
  <2>3. /\ Len(vault) + 1 \in DOMAIN vault'
        /\ vault'[Len(vault) + 1] = Own(j)
    BY <1>2, <2>1, <2>2, Mines
  <2> QED BY <1>2, <1>3, <1>4, <2>3 DEF InVault
<1>5. InVault(Own(j), job[j].first) => InVault(Own(j), job[j].first)'
  <2>1. PICK a, i : a = Own(j) /\ i = job[j].first
    OBVIOUS
  <2>2. InVault(a, i) => InVault(a, i)'
    BY <1>1, InVaultStays
  <2> QED BY <1>3, <2>1, <2>2 DEF InVault
<1> QED BY <1>2, <1>3, <1>4, <1>5 DEF Placed

\* What the players of a week are told stays true when their records stay.
LEMMA ToldStays ==
    ASSUME TakenStays, VaultKeeps, NEW w \in Week, Told(w),
           player'[w] = player[w]
    PROVE  Told(w)'
<1> SUFFICES ASSUME NEW p \in Player, player'[w][p].status = "allocated"
             PROVE  /\ Taken(w)'
                    /\ Rewarded(p, Amount(w, p), player[w][p].id)'
  BY DEF Told
<1>1. Taken(w) /\ Rewarded(p, Amount(w, p), player[w][p].id)
  BY DEF Told
<1>2. Amount(w, p)' = Amount(w, p) /\ player'[w][p].id = player[w][p].id
  BY DEF Amount
<1>3. Rewarded(p, Amount(w, p), player[w][p].id)'
  <2>1. PICK x, i : x = Amount(w, p) /\ i = player[w][p].id
    OBVIOUS
  <2>2. Rewarded(p, x, i)'
    BY <1>1, <2>1, RewardStays
  <2> QED BY <1>2, <2>1, <2>2 DEF Rewarded
<1> QED BY <1>1, <1>3 DEF TakenStays

\* What is booked stays so when the amounts of a week that is taken stay.
LEMMA BookedStays ==
    ASSUME TakenStays, NEW w \in Week, Booked(w), ledger' = ledger,
           Taken(w) => \A p \in Player : player'[w][p].amount = Amount(w, p)
    PROVE  Booked(w)'
<1> SUFFICES ASSUME ledger[w] # 0
             PROVE  Taken(w)' /\ ledger[w] = UnitsOf(Sum(Amounts(w)'))
  BY DEF Booked, UnitsOf, Sum
<1>1. Taken(w) /\ ledger[w] = UnitsOf(Sum(Amounts(w)))
  BY DEF Booked
<1>2. Amounts(w)' = Amounts(w)
  BY <1>1 DEF Amounts, Amount
<1> QED BY <1>1, <1>2 DEF TakenStays

\* A step that writes no ledger and no player records, and after which no job
\* is about to send, to wait or to book that was not before.
LEMMA PaidQuiet ==
    ASSUME Inv, Inv', PaidInv, TakenStays, [Next]_vars,
           ledger' = ledger, player' = player,
           \A j \in Job :
             \/ job'[j] = job[j]
             \/ job'[j].pc \notin {"send", "wait", "allocated", "ledger"}
             \/ Placed(j)' /\ Books(j)'
    PROVE  PaidInv'
<1>1. VaultKeeps
  BY VaultStep
<1>2. ASSUME NEW w \in Week
      PROVE  Booked(w)' /\ Told(w)'
  BY <1>1, BookedStays, ToldStays DEF PaidInv, Amount
<1>3. ASSUME NEW j \in Job
      PROVE  Placed(j)' /\ Books(j)'
  <2>1. CASE job'[j] = job[j]
    <3>1. Placed(j)'
      BY <2>1, PlacedStays DEF PaidInv
    <3>2. Books(j)'
      BY <2>1 DEF PaidInv, Books, W, Amounts, Amount
    <3> QED BY <3>1, <3>2
  <2>2. CASE job'[j].pc \notin {"send", "wait", "allocated", "ledger"}
    BY <2>2 DEF Placed, Books
  <2> QED BY <2>1, <2>2
<1> QED BY <1>2, <1>3 DEF PaidInv

\* The steps of a job that only goes on.
LEMMA PaidGoes ==
    ASSUME Inv, Inv', PaidInv, TakenStays, [Next]_vars, NEW j \in Job, NEW pc,
           Go(j, pc), pc \notin {"send", "wait", "allocated", "ledger"},
           ledger' = ledger, player' = player
    PROVE  PaidInv'
<1>1. job'[j].pc = pc
  BY Goes
<1>2. \A k \in Job : k # j => job'[k] = job[k]
  BY DEF Go, Set
<1> QED BY <1>1, <1>2, PaidQuiet

\* And of one that goes on, elsewhere, with what it has read.
LEMMA PaidSets ==
    ASSUME Inv, Inv', PaidInv, TakenStays, [Next]_vars, NEW j \in Job, NEW r,
           Set(j, r), r.pc \notin {"send", "wait", "allocated", "ledger"},
           ledger' = ledger, player' = player
    PROVE  PaidInv'
<1>1. job'[j] = r
  BY Becomes
<1>2. \A k \in Job : k # j => job'[k] = job[k]
  BY DEF Set
<1> QED BY <1>1, <1>2, PaidQuiet

\* A compare-and-set of a settlement pays nobody.
LEMMA PaidWrites ==
    ASSUME Inv, Inv', PaidInv, TakenStays, [Next]_vars, NEW j \in Job,
           NEW from, NEW new, NEW pc,
           Write(j, from, new, [job[j] EXCEPT !.pc = pc]),
           pc \notin {"send", "wait", "allocated", "ledger"},
           ledger' = ledger, player' = player
    PROVE  PaidInv'
<1>1. job[j] \in JobState
  BY DEF Inv, TypeOK
<1>2. PICK x : Set(j, [[job[j] EXCEPT !.pc = pc] EXCEPT !.seen = x])
  BY DEF Write
<1>3. [[job[j] EXCEPT !.pc = pc] EXCEPT !.seen = x].pc = pc
  BY <1>1 DEF JobState
<1> QED BY <1>2, <1>3, PaidSets

\* Taking up a week and leaving it.
LEMMA PaidTaking ==
    ASSUME Inv, Inv', PaidInv, TakenStays, [Next]_vars, NEW j \in Job,
           \/ \E w \in Week : Take(j, w) \/ Reconcile(j, w)
           \/ Unlock(j) \/ Read(j) \/ Throw(j) \/ Crash(j)
    PROVE  PaidInv'
<1> USE DEF records
<1>1. ASSUME NEW w \in Week, Take(j, w) \/ Reconcile(j, w)
      PROVE  PaidInv'
  <2>1. PICK pc \in {"read", "recRead"} :
          Set(j, [Idle EXCEPT !.pc = pc, !.week = w])
    BY <1>1 DEF Take, Reconcile
  <2>2. job'[j].pc = pc
    BY <2>1, Takes
  <2>3. \A k \in Job : k # j => job'[k] = job[k]
    BY <2>1 DEF Set
  <2> QED BY <1>1, <2>2, <2>3, PaidQuiet DEF Take, Reconcile
<1>2. CASE Unlock(j) \/ Crash(j)
  <2>1. Set(j, Idle) /\ Idle.pc = "idle"
    BY <1>2 DEF Unlock, Crash, Idle
  <2> QED BY <1>2, <2>1, PaidSets DEF Unlock, Crash
<1>3. CASE Throw(j)
  <2>1. PICK pc \in {"uncertain", "unlock"} : Go(j, pc)
    BY <1>3 DEF Throw
  <2> QED BY <1>3, <2>1, PaidGoes DEF Throw
<1>4. CASE Read(j)
  <2>1. job[j] \in JobState /\ W(j) \in Week
    BY <1>4 DEF Read, At, Inv, TypeOK, JobsKnow, W
  <2>2. settle[W(j)].status \in {"absent", "closed", "computed",
            "allocating", "finalized", "aborted"}
    BY <2>1 DEF Inv, TypeOK, Settled
  <2>3. PICK s, pc :
          /\ Set(j, [job[j] EXCEPT !.seen = s, !.pc = pc])
          /\ pc \in {"unlock", "recRead", "close", "list"}
    BY <1>4, <2>2 DEF Read, W, Week_
  <2>4. [job[j] EXCEPT !.seen = s, !.pc = pc].pc = pc
    BY <2>1 DEF JobState
  <2> QED BY <1>4, <2>3, <2>4, PaidSets DEF Read
<1> QED BY <1>1, <1>2, <1>3, <1>4

\* Concluding a week.
LEMMA PaidConcludes ==
    ASSUME Inv, Inv', PaidInv, TakenStays, [Next]_vars, NEW j \in Job,
           NEW from, NEW to, Conclude(j, from, to)
    PROVE  PaidInv'
<1>1. PICK new, pc : /\ Write(j, from, new, [job[j] EXCEPT !.pc = pc])
                     /\ pc = "unlock"
  BY DEF Conclude
<1>2. ledger' = ledger /\ player' = player
  BY DEF Conclude
<1> QED BY <1>1, <1>2, PaidWrites

\* Computing a week and claiming it.
LEMMA PaidComputing ==
    ASSUME Inv, Inv', PaidInv, TakenStays, [Next]_vars, NEW j \in Job,
           \/ Close(j) \/ List(j) \/ Empty(j) \/ NoSeason(j) \/ Split(j)
           \/ Compute(j) \/ NothingToPay(j) \/ Authorize(j) \/ Claim(j)
    PROVE  PaidInv'
<1> USE DEF records
<1>0. job[j] \in JobState
  BY DEF Inv, TypeOK
<1>1. CASE Close(j)
  <2>1. PICK pc \in {"list", "unlock"} :
          Write(j, "absent", [status |-> "closed", attempt |-> None],
                [job[j] EXCEPT !.pc = pc])
    BY <1>1 DEF Close
  <2> QED BY <1>1, <2>1, PaidWrites DEF Close
<1>2. CASE List(j)
  <2>1. PICK pc \in {"empty", "season"} :
          Set(j, [job[j] EXCEPT !.players = player[Week_(j)], !.pc = pc])
    BY <1>2 DEF List
  <2>2. [job[j] EXCEPT !.players = player[Week_(j)], !.pc = pc].pc = pc
    BY <1>0 DEF JobState
  <2> QED BY <1>2, <2>1, <2>2, PaidSets DEF List
<1>3. CASE Empty(j) \/ NoSeason(j) \/ NothingToPay(j)
  BY <1>3, PaidConcludes DEF Empty, NoSeason, NothingToPay
<1>4. CASE Split(j)
  <2>1. PICK a \in Allocations(Week_(j)) :
          Set(j, [job[j] EXCEPT !.alloc = a, !.pc = "compute"])
    BY <1>4 DEF Split
  <2>2. [job[j] EXCEPT !.alloc = a, !.pc = "compute"].pc = "compute"
    BY <1>0 DEF JobState
  <2> QED BY <1>4, <2>1, <2>2, PaidSets DEF Split
<1>5. CASE Compute(j)
  <2>1. PICK todo, x :
          Set(j, [[job[j] EXCEPT !.pc = "pend", !.todo = todo]
                    EXCEPT !.seen = x])
    BY <1>5 DEF Compute, Write
  <2>2. [[job[j] EXCEPT !.pc = "pend", !.todo = todo]
           EXCEPT !.seen = x].pc = "pend"
    BY <1>0 DEF JobState
  <2> QED BY <1>5, <2>1, <2>2, PaidSets DEF Compute
<1>6. CASE Authorize(j)
  <2>1. CASE Conclude(j, "computed", "aborted")
    BY <2>1, PaidConcludes
  <2>2. CASE Go(j, "claim") /\ UNCHANGED <<given, records, lock, chain, attempts>>
    BY <2>2, PaidGoes
  <2> QED BY <1>6, <2>1, <2>2 DEF Authorize
<1>7. CASE Claim(j)
  <2>1. PICK pc \in {"outbox", "unlock"} :
          Write(j, "computed", Claimed(j), [job[j] EXCEPT !.pc = pc])
    BY <1>7 DEF Claim
  <2> QED BY <1>7, <2>1, PaidWrites DEF Claim
<1> QED BY <1>1, <1>2, <1>3, <1>4, <1>5, <1>6, <1>7

\* Sending the batch and having it confirmed.
LEMMA PaidAllocating ==
    ASSUME Inv, Inv', PaidInv, TakenStays, [Next]_vars, NEW j \in Job,
           Outbox(j) \/ Simulate(j) \/ Send(j) \/ Confirm(j) \/ Uncertain(j)
    PROVE  PaidInv'
<1> USE DEF records
<1>0. job[j] \in JobState
  BY DEF Inv, TypeOK
<1>1. CASE Outbox(j)
  <2>1. Go(j, "simulate")
    BY <1>1 DEF Outbox
  <2> QED BY <1>1, <2>1, PaidGoes DEF Outbox
<1>2. CASE Simulate(j)
  <2> DEFINE r == [job[j] EXCEPT !.first = Len(vault) + 1, !.pc = "send"]
  <2>1. Set(j, r) /\ vault' = vault /\ ledger' = ledger /\ player' = player
    BY <1>2 DEF Simulate, chain
  <2>2. r.first = Len(vault) + 1 /\ r.pc = "send"
    BY <1>0 DEF JobState
  <2>3. job'[j].first = Len(vault) + 1 /\ job'[j].pc = "send"
    <3> HIDE DEF r
    <3> QED BY <2>1, <2>2, Becomes
  <2>4. Len(vault) \in Nat
    BY DEF Inv, TypeOK
  <2>5. Placed(j)' /\ Books(j)'
    BY <2>1, <2>3, <2>4 DEF Placed, Books
  <2>6. \A k \in Job : k # j => job'[k] = job[k]
    BY <2>1 DEF Set
  <2> QED BY <2>1, <2>5, <2>6, PaidQuiet
<1>3. CASE Send(j)
  <2>1. /\ Go(j, "wait") /\ job[j].pc = "send"
        /\ vault' = vault /\ ledger' = ledger /\ player' = player
        /\ tx' = [tx EXCEPT ![Own(j)] = "flying"]
    BY <1>3 DEF Send, At
  <2>2. job'[j].pc = "wait" /\ job'[j].first = job[j].first /\ Own(j)' = Own(j)
    BY <2>1, Goes DEF Own
  <2>3. Own(j) \in Attempt
    BY <2>1, ClaimantTyped DEF Inv, Claimants
  <2>4. tx'[Own(j)] = "flying"
    BY <2>1, <2>3 DEF Inv, TypeOK
  <2>5. job[j].first <= Len(vault) + 1
    BY <2>1 DEF PaidInv, Placed
  <2>6. Placed(j)' /\ Books(j)'
    BY <2>1, <2>2, <2>3, <2>4, <2>5 DEF Placed, Books
  <2>7. \A k \in Job : k # j => job'[k] = job[k]
    BY <2>1 DEF Go, Set
  <2> QED BY <2>1, <2>6, <2>7, PaidQuiet
<1>4. CASE Confirm(j)
  <2> DEFINE todo == Payable(job[j].alloc)
             r == [job[j] EXCEPT !.pc = "allocated", !.todo = todo]
  <2>1. /\ Set(j, r) /\ job[j].pc = "wait" /\ tx[Own(j)] = "mined"
        /\ vault' = vault /\ ledger' = ledger /\ player' = player
    BY <1>4 DEF Confirm, At, chain
  <2>2. r.pc = "allocated" /\ r.first = job[j].first /\ r.seen = job[j].seen
    <3> HIDE DEF todo
    <3> QED BY <1>0 DEF JobState
  <2>3. /\ job'[j].pc = "allocated" /\ job'[j].first = job[j].first
        /\ Own(j)' = Own(j)
    <3> HIDE DEF r
    <3> QED BY <2>1, <2>2, Becomes DEF Own
  <2>4. InVault(Own(j), job[j].first) /\ Own(j) \in Attempt
    BY <2>1 DEF PaidInv, Placed
  <2>5. Placed(j)' /\ Books(j)'
    BY <2>1, <2>3, <2>4 DEF Placed, Books, InVault
  <2>6. \A k \in Job : k # j => job'[k] = job[k]
    BY <2>1 DEF Set
  <2> QED BY <2>1, <2>5, <2>6, PaidQuiet
<1>5. CASE Uncertain(j)
  <2>1. Go(j, "unlock")
    BY <1>5 DEF Uncertain
  <2> QED BY <1>5, <2>1, PaidGoes DEF Uncertain
<1> QED BY <1>1, <1>2, <1>3, <1>4, <1>5

\* Reading what there is to reconcile, and finalizing.
LEMMA PaidReconciling ==
    ASSUME Inv, RecordsInv, Inv', PaidInv, TakenStays, [Next]_vars,
           NEW j \in Job, RecRead(j) \/ RecList(j) \/ Finalize(j)
    PROVE  PaidInv'
<1> USE DEF records
<1>0. job[j] \in JobState
  BY DEF Inv, TypeOK
<1>1. CASE RecRead(j)
  <2>1. PICK s, pc :
          /\ Set(j, [job[j] EXCEPT !.seen = s, !.pc = pc])
          /\ pc \in {"unlock", "recList"}
    BY <1>1 DEF RecRead
  <2>2. [job[j] EXCEPT !.seen = s, !.pc = pc].pc = pc
    BY <1>0 DEF JobState
  <2> QED BY <1>1, <2>1, <2>2, PaidSets DEF RecRead
<1>2. CASE RecList(j)
  <2>1. PICK a \in Listed(W(j)), pc \in {"ledger", "recPlayer"} :
          Set(j, [job[j] EXCEPT
                    !.players = player[W(j)], !.alloc = a,
                    !.todo = Payable(a), !.pc = pc])
    BY <1>2 DEF RecList, W, Week_
  <2>2. PICK r : /\ Set(j, r) /\ r.pc = pc /\ r.alloc = a
                 /\ r.week = job[j].week
    <3> DEFINE r == [job[j] EXCEPT
                       !.players = player[W(j)], !.alloc = a,
                       !.todo = Payable(a), !.pc = pc]
    <3>1. r.pc = pc /\ r.alloc = a /\ r.week = job[j].week
      BY <1>0 DEF JobState
    <3>2. Set(j, r)
      BY <2>1
    <3> HIDE DEF r
    <3> QED BY <3>1, <3>2
  <2>3. player' = player /\ ledger' = ledger /\ W(j) \in Week
    BY <1>2 DEF RecList, At, Inv, JobsKnow, W
  <2>4. a \in {Amounts(W(j)), Nothing}
    <3>1. \A p \in Player \ entered[W(j)] : Amount(W(j), p) = 0
      BY <2>3 DEF RecordsInv, OnlyEntered
    <3>2. [p \in Player |-> IF p \in entered[W(j)]
                            THEN player[W(j)][p].amount ELSE 0]
            = Amounts(W(j))
      BY <3>1 DEF Amounts, Amount
    <3> QED BY <3>2 DEF Listed
  <2>5. /\ job'[j].pc = pc /\ job'[j].alloc = a /\ W(j)' = W(j)
    BY <2>2, Becomes DEF W
  <2>6. Books(j)'
    BY <2>3, <2>4, <2>5 DEF Books, Amounts, Amount
  <2>7. Placed(j)'
    BY <2>1, <2>5 DEF Placed
  <2>8. \A k \in Job : k # j => job'[k] = job[k]
    BY <2>2 DEF Set
  <2> QED BY <2>3, <2>6, <2>7, <2>8, PaidQuiet
<1>3. CASE Finalize(j)
  BY <1>3, PaidConcludes DEF Finalize
<1> QED BY <1>1, <1>2, <1>3

\* An empty entry: reconciliation of amounts that it could not read.
LEMMA NothingBooked == UnitsOf(Sum(Nothing)) = 0
<1>1. Sum(Nothing) = 0
  <2>1. \A p \in Player : Nothing[p] \in Nat
                          /\ Nothing[p] = Nothing[p] + 1 * Nothing[p]
    BY DEF Nothing
  <2>2. Total(Player, Nothing) \in Nat
    BY <2>1, SetAssumption, TotalType
  <2>3. Total(Player, Nothing)
          = Total(Player, Nothing) + 1 * Total(Player, Nothing)
    BY <2>1, SetAssumption, TotalLinear
  <2>4. \A t \in Nat : t = t + 1 * t => t = 0
    OBVIOUS
  <2>5. Total(Player, Nothing) = 0
    BY <2>2, <2>3, <2>4
  <2> QED BY <2>5 DEF Sum
<1>2. \A x \in Nat \ {0} : (0 + x - 1) \div x = 0
  OBVIOUS
<1> QED BY <1>1, <1>2, AmountAssumption DEF UnitsOf

\* A week is booked by a job that owns it, once.
LEMMA PaidLedger ==
    ASSUME Inv, Inv', PaidInv, TakenStays, [Next]_vars, NEW j \in Job,
           Ledger(j)
    PROVE  PaidInv'
<1>1. /\ job[j].pc = "ledger" /\ Go(j, "finalize")
      /\ player' = player
      /\ ledger' = [ledger EXCEPT ![W(j)] =
                      IF @ = 0 THEN UnitsOf(Sum(job[j].alloc)) ELSE @]
  BY DEF Ledger, At, W, Week_
<1>2. W(j) \in Week /\ Taken(W(j))
  BY <1>1 DEF Inv, JobsKnow, OwnersKnow, Owners, W
<1>3. job[j].alloc \in {Amounts(W(j)), Nothing}
  BY <1>1 DEF PaidInv, Books
<1>4. VaultKeeps
  BY VaultStep
<1>5. ASSUME NEW w \in Week
      PROVE  Booked(w)' /\ Told(w)'
  <2>1. Told(w)'
    BY <1>1, <1>4, ToldStays DEF PaidInv
  <2>2. Amounts(w)' = Amounts(w)
    BY <1>1 DEF Amounts, Amount
  <2>3. ledger'[w] # 0 => Taken(w) /\ ledger'[w] = UnitsOf(Sum(Amounts(w)))
    <3>1. CASE w = W(j) /\ ledger[w] = 0
      BY <1>1, <1>2, <1>3, <3>1, NothingBooked DEF Inv, TypeOK
    <3>2. CASE w # W(j) \/ ledger[w] # 0
      BY <1>1, <3>2 DEF PaidInv, Booked, Inv, TypeOK
    <3> QED BY <3>1, <3>2
  <2>4. Booked(w)'
    BY <2>2, <2>3 DEF Booked, TakenStays, UnitsOf, Sum
  <2> QED BY <2>1, <2>4
<1>6. ASSUME NEW k \in Job
      PROVE  Placed(k)' /\ Books(k)'
  <2>1. CASE k = j
    <3>1. job'[j].pc = "finalize"
      BY <1>1, Goes
    <3> QED BY <2>1, <3>1 DEF Placed, Books
  <2>2. CASE k # j
    <3>1. job'[k] = job[k]
      BY <1>1, <2>2 DEF Go, Set
    <3>2. Placed(k)'
      BY <3>1, PlacedStays DEF PaidInv
    <3> QED BY <1>1, <3>1, <3>2 DEF PaidInv, Books, W, Amounts, Amount
  <2> QED BY <2>1, <2>2
<1> QED BY <1>5, <1>6 DEF PaidInv

\* Players of a week that is taken are told of one more reward.
LEMMA ToldOne ==
    ASSUME TakenStays, VaultKeeps, NEW w \in Week, Taken(w), Told(w),
           \A q \in Player : player'[w][q].amount = Amount(w, q),
           NEW p \in Player,
           \A q \in Player : q # p => player'[w][q] = player[w][q],
           NEW i,
           \/ player'[w][p] = player[w][p]
           \/ player'[w][p].id = i /\ Rewarded(p, Amount(w, p), i)
    PROVE  Told(w)'
<1> SUFFICES ASSUME NEW q \in Player, player'[w][q].status = "allocated"
             PROVE  Rewarded(q, Amount(w, q), player[w][q].id)'
  BY DEF Told, TakenStays
<1>1. Rewarded(q, Amount(w, q), player'[w][q].id)
  <2>1. CASE player'[w][q] = player[w][q]
    BY <2>1 DEF Told
  <2>2. CASE player'[w][q] # player[w][q]
    BY <2>2
  <2> QED BY <2>1, <2>2
<1>2. PICK x, n : x = Amount(w, q) /\ n = player'[w][q].id
  OBVIOUS
<1>3. Rewarded(q, x, n)'
  BY <1>1, <1>2, RewardStays
<1>4. x = Amount(w, q)'
  BY <1>2 DEF Amount
<1> QED BY <1>2, <1>3, <1>4 DEF Rewarded

\* A step of j that writes player records of one week.
LEMMA PaidPlayers ==
    ASSUME Inv, Inv', PaidInv, TakenStays, [Next]_vars, NEW j \in Job,
           NEW w \in Week, ledger' = ledger, Told(w)',
           \A v \in Week : v # w => player'[v] = player[v],
           Taken(w) => \A q \in Player : player'[w][q].amount = Amount(w, q),
           \A k \in Job : k # j => job'[k] = job[k],
           Placed(j)', Books(j)'
    PROVE  PaidInv'
<1>1. VaultKeeps
  BY VaultStep
<1>2. \A v \in Week : Taken(v) =>
        \A q \in Player : player'[v][q].amount = Amount(v, q)
  BY DEF Amount
<1>3. ASSUME NEW v \in Week
      PROVE  Booked(v)' /\ Told(v)'
  <2>1. Booked(v)'
    BY <1>2, BookedStays DEF PaidInv
  <2>2. CASE v # w
    BY <1>1, <2>1, <2>2, ToldStays DEF PaidInv
  <2> QED BY <2>1, <2>2
<1>4. ASSUME NEW k \in Job, k # j
      PROVE  Placed(k)' /\ Books(k)'
  <2>1. job'[k] = job[k]
    BY <1>4
  <2>2. Placed(k)'
    BY <2>1, PlacedStays DEF PaidInv
  <2>3. Books(k)'
    <3> SUFFICES ASSUME job[k].pc = "ledger"
                 PROVE  job[k].alloc \in {Amounts(W(k))', Nothing}
      BY <2>1 DEF Books, Nothing
    <3>1. W(k) \in Week /\ Taken(W(k))
      BY DEF Inv, JobsKnow, OwnersKnow, Owners, W
    <3>2. Amounts(W(k))' = Amounts(W(k))
      BY <1>2, <2>1, <3>1 DEF Amounts, Amount, W
    <3> QED BY <3>2 DEF PaidInv, Books
  <2> QED BY <2>2, <2>3
<1> QED BY <1>3, <1>4 DEF PaidInv

\* Before a week is taken nobody is told anything.
LEMMA PaidPend ==
    ASSUME Inv, RecordsInv, Inv', PaidInv, TakenStays, [Next]_vars,
           NEW j \in Job, Pend(j)
    PROVE  PaidInv'
<1>0. job[j].pc = "pend" /\ JobOk(j)
  BY DEF RecordsInv, JobOk, HasLock, Pend, At
<1>1. PICK p \in job[j].todo :
        /\ WritePlayer(W(j), p, job[j].players[p].status, Pending(j, p))
        /\ Set(j, Next_(j, job[j].todo \ {p}, "authorize"))
  BY <1>0 DEF Pend, W, Week_, At
<1>2. W(j) \in Week /\ ~Taken(W(j))
  BY <1>0, JobFacts DEF Before
<1>3. job[j] \in JobState /\ p \in Player
      /\ job[j].players[p] \in PlayerWeek
      /\ job[j].players[p] = player[W(j)][p]
  BY <1>0 DEF Inv, TypeOK, JobState, JobOk, SawPlayers
<1>4. \A q \in Player : player[W(j)][q].status # "allocated"
  BY <1>2 DEF PaidInv, Told
<1>5. Pending(j, p).status # "allocated"
  BY <1>3, <1>4 DEF Pending, PlayerWeek
<1>6. /\ \A q \in Player : player'[W(j)][q].status # "allocated"
      /\ \A v \in Week : v # W(j) => player'[v] = player[v]
  BY <1>1, <1>2, <1>3, <1>4, <1>5, WritesPlayer
<1>7. job'[j].pc \in {"authorize", "pend"} /\ W(j)' = W(j)
  <2>1. job'[j] = Next_(j, job[j].todo \ {p}, "authorize")
    BY <1>1, Becomes
  <2> QED BY <1>0, <1>3, <2>1 DEF JobState, Next_, W
<1>8. Placed(j)' /\ Books(j)'
  BY <1>7 DEF Placed, Books
<1>9. ledger' = ledger /\ \A k \in Job : k # j => job'[k] = job[k]
  BY <1>1 DEF Pend, Set
<1>10. PICK w \in Week : w = W(j)
  BY <1>2
<1>11. Told(w)'
  BY <1>6, <1>10 DEF Told
<1>12. ~Taken(w) /\ \A v \in Week : v # w => player'[v] = player[v]
  BY <1>2, <1>6, <1>10
<1> QED BY <1>8, <1>9, <1>11, <1>12, PaidPlayers

\* The batch in the vault is the job's, and pays what the records say.
LEMMA OwnBatch ==
    ASSUME Inv, RecordsInv, NEW j \in Job, job[j].pc = "allocated",
           Own(j) \in Attempt, NEW i, InVault(Own(j), i), NEW p \in Player
    PROVE  Rewarded(p, Amount(W(j), p), i)
<1>1. PICK n \in DOMAIN vault : vault[n] = Own(j) /\ n >= i
  BY DEF InVault
<1>2. Sent(Own(j)) /\ Own(j) # None
  BY <1>1 DEF Inv, VaultIsMined, Sent, Attempt, None
<1>3. /\ outbox[Own(j)].week \in Week
      /\ settle[outbox[Own(j)].week].attempt = Own(j)
  BY <1>2 DEF Inv, SentWeek, BatchIsOnRecord
<1>4. W(j) \in Week /\ settle[W(j)].attempt = Own(j)
  BY DEF Inv, JobsKnow, OwnersKnow, Owners, W, Own
<1>5. outbox[Own(j)].week = W(j)
  BY <1>2, <1>3, <1>4 DEF RecordsInv, AttemptsKnown
<1>6. Amount(W(j), p) = outbox[Own(j)].amounts[p]
  BY <1>2, <1>5 DEF RecordsInv, Agree, Amount
<1> QED BY <1>1, <1>6 DEF Rewarded, Paid

\* Players are told of a batch that the job has seen mined.
LEMMA PaidAllocated ==
    ASSUME Inv, RecordsInv, Inv', PaidInv, TakenStays, [Next]_vars,
           NEW j \in Job, Allocated(j)
    PROVE  PaidInv'
<1>1. PICK p \in job[j].todo :
        /\ WritePlayer(W(j), p, "pending",
             [status |-> "allocated", amount |-> job[j].alloc[p],
              id |-> job[j].first])
        /\ Set(j, Next_(j, job[j].todo \ {p}, "ledger"))
  BY DEF Allocated, W, Week_
<1>2. job[j].pc = "allocated" /\ JobOk(j) /\ job[j] \in JobState
      /\ p \in Player
  BY DEF Allocated, At, RecordsInv, Inv, TypeOK, JobState
<1>3. W(j) \in Week /\ Taken(W(j))
  BY <1>2, JobFacts DEF Owners
<1>4. \A q \in Player : job[j].alloc[q] = Amount(W(j), q)
  BY <1>2 DEF JobOk, KnowsAmounts
<1>0. PICK w \in Week : w = W(j)
  BY <1>3
<1>5. PICK new, i :
        /\ w = W(j) /\ i = job[j].first
        /\ WritePlayer(w, p, "pending", new)
        /\ new.amount = Amount(w, p) /\ new.id = i
  BY <1>0, <1>1, <1>2, <1>3, <1>4
<1>6. /\ player'[w][p] = new \/ player'[w][p] = player[w][p]
      /\ \A q \in Player : q # p => player'[w][q] = player[w][q]
      /\ \A v \in Week : v # w => player'[v] = player[v]
  BY <1>2, <1>5, WritesPlayer
<1>7. \A q \in Player : player'[w][q].amount = Amount(w, q)
  BY <1>5, <1>6 DEF Amount
<1>8. InVault(Own(j), i) /\ Own(j) \in Attempt
  BY <1>2, <1>5 DEF PaidInv, Placed
<1>9. Rewarded(p, Amount(w, p), i)
  BY <1>2, <1>5, <1>8, OwnBatch
<1>10. VaultKeeps
  BY VaultStep
<1>11. Told(w)'
  <2>1. \/ player'[w][p] = player[w][p]
        \/ player'[w][p].id = i /\ Rewarded(p, Amount(w, p), i)
    BY <1>5, <1>6, <1>9
  <2>2. Told(w) /\ Taken(w)
    BY <1>3, <1>5 DEF PaidInv
  <2> QED BY <1>2, <1>6, <1>7, <1>10, <2>1, <2>2, ToldOne
<1>12. /\ job'[j].pc \in {"allocated", "ledger"} /\ W(j)' = W(j)
       /\ job'[j].alloc = job[j].alloc /\ job'[j].first = job[j].first
       /\ Own(j)' = Own(j)
  <2>1. job'[j] = Next_(j, job[j].todo \ {p}, "ledger")
    BY <1>1, Becomes
  <2> QED BY <1>2, <2>1 DEF JobState, Next_, W, Own
<1>13. /\ ledger' = ledger /\ vault' = vault
       /\ \A k \in Job : k # j => job'[k] = job[k]
  BY <1>1 DEF Allocated, Set, chain
<1>14. Placed(j)'
  BY <1>5, <1>8, <1>12, <1>13 DEF Placed, InVault
<1>15. Books(j)'
  <2>1. job[j].alloc = Amounts(W(j))
    BY <1>2, <1>4 DEF JobState, Amounts_, Amounts
  <2>2. Amounts(W(j))' = Amounts(W(j))
    BY <1>5, <1>7, <1>12 DEF Amounts, Amount
  <2> QED BY <1>12, <2>1, <2>2 DEF Books
<1> QED BY <1>6, <1>7, <1>11, <1>13, <1>14, <1>15, PaidPlayers

\* A reward that matches is one of the vault, of the amount looked for.
LEMMA MatchRewards ==
    ASSUME Inv, NEW j \in Job, NEW p, Matches(j, p) # {}, NEW x,
           job[j].alloc[p] = x
    PROVE  Rewarded(p, x, Match(j, p))
<1>1. Match(j, p) \in Matches(j, p)
  BY MatchIn DEF Inv
<1>2. Match(j, p) \in DOMAIN vault /\ Paid(Match(j, p))[p] = x
  BY <1>1 DEF Matches
<1>3. Match(j, p) \in Nat
  BY MatchTyped DEF Inv
<1>4. \A n \in Nat : n >= n
  OBVIOUS
<1> QED BY <1>2, <1>3, <1>4 DEF Rewarded

\* Reconciliation tells players of rewards it has found.
LEMMA PaidRecPlayer ==
    ASSUME Inv, RecordsInv, Inv', PaidInv, TakenStays, [Next]_vars,
           NEW j \in Job, RecPlayer(j)
    PROVE  PaidInv'
<1>1. PICK p \in job[j].todo :
        /\ \/ player' = player
           \/ /\ ~Missed(j, p) /\ ~Known(j, p)
              /\ WritePlayer(W(j), p, "pending",
                   [job[j].players[p] EXCEPT !.status = "allocated",
                                             !.id = Match(j, p)])
        /\ \E r : Set(j, r)
        /\ job'[j].pc \in {"recPlayer", "unlock", "ledger"}
        /\ job'[j].week = job[j].week /\ job'[j].alloc = job[j].alloc
  BY PlayerLookedAt
<1>2. job[j].pc = "recPlayer" /\ JobOk(j) /\ job[j] \in JobState
      /\ p \in Player /\ job[j].players[p] \in PlayerWeek
  BY DEF RecPlayer, At, RecordsInv, Inv, TypeOK, JobState
<1>3. W(j) \in Week /\ Taken(W(j))
  BY <1>2, JobFacts DEF Owners
<1>4. /\ \A q \in Player : job[j].alloc[q] = Amount(W(j), q)
      /\ job[j].players[p].amount = Amount(W(j), p)
  BY <1>2 DEF JobOk, KnowsAmounts
<1>0. PICK w \in Week : w = W(j)
  BY <1>3
<1>5. PICK i : w = W(j) /\ i = Match(j, p)
  BY <1>0
<1>6. /\ \/ player'[w][p] = player[w][p]
         \/ /\ ~Missed(j, p) /\ player'[w][p].id = i
            /\ player'[w][p].amount = Amount(w, p)
      /\ \A q \in Player : q # p => player'[w][q] = player[w][q]
      /\ \A v \in Week : v # w => player'[v] = player[v]
  <2>1. CASE player' = player
    BY <2>1
  <2>2. CASE player' # player
    <3>1. PICK new : /\ new = [job[j].players[p] EXCEPT !.status = "allocated",
                                                        !.id = Match(j, p)]
                     /\ WritePlayer(w, p, "pending", new)
      BY <1>1, <1>5, <2>2
    <3>2. new.id = i /\ new.amount = Amount(w, p)
      BY <1>2, <1>4, <1>5, <3>1 DEF PlayerWeek
    <3>3. ~Missed(j, p)
      BY <1>1, <2>2
    <3>4. /\ player'[w][p] = new \/ player'[w][p] = player[w][p]
          /\ \A q \in Player : q # p => player'[w][q] = player[w][q]
          /\ \A v \in Week : v # w => player'[v] = player[v]
      BY <1>2, <3>1, WritesPlayer
    <3> QED BY <3>2, <3>3, <3>4
  <2> QED BY <2>1, <2>2
<1>7. \A q \in Player : player'[w][q].amount = Amount(w, q)
  BY <1>6 DEF Amount
<1>8. ~Missed(j, p) => Rewarded(p, Amount(w, p), i) \/ Known(j, p)
  <2>1. ~Missed(j, p) => Known(j, p) \/ Matches(j, p) # {}
    BY DEF Missed
  <2>2. PICK x : x = Amount(w, p)
    OBVIOUS
  <2>3. job[j].alloc[p] = x
    BY <1>2, <1>4, <1>5, <2>2
  <2> QED BY <1>5, <2>1, <2>2, <2>3, MatchRewards
<1>9. VaultKeeps
  BY VaultStep
<1>10. Told(w)'
  <2>1. \/ player'[w][p] = player[w][p]
        \/ player'[w][p].id = i /\ Rewarded(p, Amount(w, p), i)
    <3>1. CASE Known(j, p)
      BY <1>1, <3>1
    <3>2. CASE ~Known(j, p)
      BY <1>6, <1>8, <3>2
    <3> QED BY <3>1, <3>2
  <2>2. Told(w) /\ Taken(w)
    BY <1>3, <1>5 DEF PaidInv
  <2> QED BY <1>2, <1>6, <1>7, <1>9, <2>1, <2>2, ToldOne
<1>11. ledger' = ledger /\ \A k \in Job : k # j => job'[k] = job[k]
  BY <1>1 DEF RecPlayer, Set
<1>12. Placed(j)'
  BY <1>1 DEF Placed
<1>13. Books(j)'
  <2>1. job[j].alloc = Amounts(W(j))
    BY <1>2, <1>4 DEF JobState, Amounts_, Amounts
  <2>2. Amounts(W(j))' = Amounts(W(j)) /\ W(j)' = W(j)
    BY <1>1, <1>5, <1>7 DEF Amounts, Amount, W
  <2> QED BY <1>1, <2>1, <2>2 DEF Books
<1> QED BY <1>6, <1>7, <1>10, <1>11, <1>12, <1>13, PaidPlayers

\* Whether a behaviour is orderly is settled from the start.
LEMMA OrderlyStays ==
    ASSUME [Next]_vars
    PROVE  orderly' = orderly
<1>1. ASSUME NEW j \in Job,
             \/ \E w \in Week : Take(j, w) \/ Reconcile(j, w)
             \/ Unlock(j) \/ Read(j) \/ Throw(j) \/ Crash(j) \/ Close(j)
             \/ List(j) \/ Split(j) \/ Pend(j) \/ Reject(j) \/ Empty(j)
             \/ NoSeason(j) \/ Compute(j) \/ NothingToPay(j) \/ Authorize(j)
      PROVE  orderly' = orderly
  BY <1>1 DEF Take, Reconcile, Unlock, Read, Throw, Crash, Close, List, Split,
     Pend, Reject, Empty, NoSeason, Compute, NothingToPay, Authorize,
     Conclude, given
<1>2. ASSUME NEW j \in Job,
             \/ Claim(j) \/ Simulate(j) \/ Send(j) \/ Allocated(j)
             \/ Outbox(j) \/ Confirm(j) \/ Uncertain(j)
             \/ RecRead(j) \/ RecList(j) \/ RecPlayer(j) \/ Ledger(j)
             \/ Finalize(j)
      PROVE  orderly' = orderly
  BY <1>2 DEF Claim, Simulate, Send, Allocated, Outbox, Confirm, Uncertain,
     RecRead, RecList, RecPlayer, Ledger, Finalize, Conclude, given
<1>3. ASSUME \/ \E a \in Attempt : Mine(a) \/ Revert(a)
             \/ \E w \in Week : Reset(w)
             \/ LockExpires \/ Age \/ UNCHANGED vars
      PROVE  orderly' = orderly
  BY <1>3 DEF Mine, Revert, Reset, LockExpires, Age, vars, given
<1> QED BY <1>1, <1>2, <1>3 DEF Next, Settling, Reconciling

\* What happens around the jobs.
LEMMA PaidAround ==
    ASSUME Inv, Inv', PaidInv, TakenStays, [Next]_vars,
           \/ \E a \in Attempt : Mine(a) \/ Revert(a)
           \/ LockExpires \/ Age \/ UNCHANGED vars
    PROVE  PaidInv'
<1>1. ledger' = ledger /\ player' = player /\ job' = job
  BY DEF Mine, Revert, LockExpires, Age, vars, records
<1> QED BY <1>1, PaidQuiet

\* Initially nothing is booked, told or under way.
LEMMA PaidInit == Init => PaidInv
<1> SUFFICES ASSUME Init PROVE PaidInv
  OBVIOUS
<1>1. \A w \in Week : Booked(w) /\ Told(w)
  BY DEF Init, Booked, Told, Fresh
<1>2. \A j \in Job : Placed(j) /\ Books(j)
  BY DEF Init, Idle, Placed, Books
<1> QED BY <1>1, <1>2 DEF PaidInv

\* Every step of an orderly system keeps what is booked and told in order.
LEMMA PaidStep ==
    ASSUME orderly, Inv, Inv', RecordsInv, PaidInv, [Next]_vars
    PROVE  PaidInv'
<1>1. TakenStays
  BY TakenStep DEF Inv
<1>2. \A w \in Week : ~Reset(w)
  BY DEF Reset
<1>3. \A j \in Job : ~Reject(j)
  BY DEF Reject
<1>4. ASSUME NEW j \in Job,
             \/ \E w \in Week : Take(j, w) \/ Reconcile(j, w)
             \/ Settling(j) \/ Reconciling(j) \/ Unlock(j) \/ Throw(j)
             \/ Crash(j)
      PROVE  PaidInv'
  BY <1>1, <1>3, <1>4, PaidTaking, PaidComputing, PaidPend, PaidAllocating,
     PaidAllocated, PaidReconciling, PaidRecPlayer, PaidLedger
     DEF Settling, Reconciling
<1> QED BY <1>1, <1>2, <1>4, PaidAround DEF Next

-----------------------------------------------------------------------------
(* The theorems about an orderly system.                                   *)

Orderly == Inv /\ (orderly => RecordsInv /\ PaidInv)

\* The inductive invariant of the behaviours in which invocations end before
\* the mutex expires and nothing else disturbs them, next to all others.
THEOREM OrderlyInvariance ==
    ASSUME OperatorResets # "unseen"
    PROVE  Spec => []Orderly
<1>1. Init => Orderly
  BY InvInit, RecInit, PaidInit DEF Orderly
<1>2. Orderly /\ [Next]_vars => Orderly'
  <2> SUFFICES ASSUME Orderly, [Next]_vars PROVE Orderly'
    OBVIOUS
  <2>1. Inv /\ Inv'
    BY InvStep DEF Orderly
  <2>2. orderly' = orderly
    BY OrderlyStays
  <2>3. orderly => RecordsInv' /\ PaidInv'
    BY <2>1, RecStep, PaidStep DEF Orderly
  <2> QED BY <2>1, <2>2, <2>3 DEF Orderly
<1> QED BY <1>1, <1>2, PTL DEF Spec

\* What reconciliation looks for on-chain is what was sent, although a job
\* that computes a week again takes new amounts: RecordsMatchBatch.
THEOREM RecordsAgree ==
    ASSUME OperatorResets # "unseen"
    PROVE  Spec => []RecordsMatchBatch
<1>1. Orderly => RecordsMatchBatch
  BY DEF Orderly, RecordsInv, Agree, RecordsMatchBatch
<1> QED BY <1>1, OrderlyInvariance, PTL

\* The ledger holds a week's batch once or not at all, for any weeks, seasons
\* and decoding of the records: LedgerIsBatch.
THEOREM LedgerBatch ==
    ASSUME OperatorResets # "unseen"
    PROVE  Spec => []LedgerIsBatch
<1>1. Orderly => LedgerIsBatch
  <2> SUFFICES ASSUME Orderly, orderly, NEW a \in Attempt, Sent(a)
               PROVE  ledger[outbox[a].week]
                        \in {0, UnitsOf(Sum(outbox[a].amounts))}
    BY DEF LedgerIsBatch
  <2>1. outbox[a].week \in Week
    BY DEF Orderly, Inv, SentWeek
  <2>2. outbox[a].amounts = Amounts(outbox[a].week)
    <3>1. outbox[a].amounts \in Amounts_
      BY DEF Orderly, Inv, TypeOK
    <3>2. \A p \in Player : Amount(outbox[a].week, p) = outbox[a].amounts[p]
      BY DEF Orderly, RecordsInv, Agree, Amount
    <3> QED BY <3>1, <3>2 DEF Amounts, Amounts_
  <2>3. Booked(outbox[a].week)
    BY <2>1 DEF Orderly, PaidInv
  <2> QED BY <2>2, <2>3 DEF Booked
<1> QED BY <1>1, OrderlyInvariance, PTL

\* Whoever is recorded as allocated has a reward of that amount in the vault,
\* for any weeks, seasons and log window: AllocatedIsPaid.
THEOREM AllocatedPaid ==
    ASSUME OperatorResets # "unseen"
    PROVE  Spec => []AllocatedIsPaid
<1>1. Orderly => AllocatedIsPaid
  BY DEF Orderly, PaidInv, Told, Rewarded, Amount, AllocatedIsPaid
<1> QED BY <1>1, OrderlyInvariance, PTL

=============================================================================
