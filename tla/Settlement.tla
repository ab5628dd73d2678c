----------------------------- MODULE Settlement -----------------------------
(***************************************************************************)
(* The weekly game-reward settlement: the settlement and reconciliation    *)
(* routes of app/api/games/mpgr-run, with the allocation store they keep   *)
(* in Redis and the reward vault they allocate from.                       *)
(*                                                                         *)
(* A job is one invocation of a route.  It works through awaited calls,    *)
(* one action each, and may fail or be killed at every one.  Settlement    *)
(* jobs take a global mutex, reconciliation jobs take none.  The vault has *)
(* no idempotency key: a second allocateRewardsBatch pays a second time.   *)
(*                                                                         *)
(* Statuses advance by compare-and-set: upsertWeeklySettlement writes the  *)
(* whole record if the stored status is the expected one, and returns the  *)
(* record that is then stored, whoever wrote it.                           *)
(***************************************************************************)
EXTENDS Amounts, Sequences

CONSTANTS
    Job,             \* concurrent invocations of the two routes
    Week,            \* weeks to settle
    Season,          \* Season[w]: the vault season (a month) week w falls in
    Player,
    PoolCap,         \* WEEKLY_POOL_CAP_RAW
    Budget,          \* GAMES_LIFETIME_BUDGET_RAW
    Balance,         \* what the vault was funded with
    Scale,           \* LEDGER_SCALE: raw amount per unit of the ledger
    MaxAttempts,     \* bound: allocation attempts
    Shares,          \* a player gets 1/Shares of a pool (MAX_SHARE_..., 0.2)
    OperatorResets   \* when does an operator reset a stuck week?

ASSUME SetAssumption ==
    IsFiniteSet(Player) /\ Week \subseteq Nat \ {0} /\ DOMAIN Season = Week
ASSUME AmountAssumption ==
    /\ {PoolCap, Budget, Balance, MaxAttempts} \subseteq Nat
    /\ {Scale, Shares} \subseteq Nat \ {0}
ASSUME OperatorAssumption == OperatorResets \in {"proven", "unseen"}
ASSUME JobAssumption == {"free", "dead"} \cap Job = {}

None == 0
Attempt == 1..MaxAttempts      \* allocationAttemptIds, in the order drawn

VARIABLES
    entered,    \* entered[w]: the eligible players of week w
    orderly,    \* invocations end before the mutex expires (120 s < 300 s),
                \* no write lands after its job has failed, no week is reset
    settle,     \* the weekly settlement records: [status, attempt]
    player,     \* the player-week records: [status, amount, id]
    outbox,     \* the outbox records: [status, week, amounts]
    ledger,     \* ledger[w]: the units recorded for week w
    lock,       \* the mutex: a job, "free", or "dead"
    tx,         \* the batches: "none", "flying", "mined" or "reverted"
    vault,      \* the attempts whose batches were mined, in order
    aged,       \* how many of them are out of the log window
    attempts,   \* attempt ids drawn so far
    job         \* the jobs

given == <<entered, orderly>>
records == <<settle, player, outbox, ledger>>
chain == <<tx, vault, aged>>
vars == <<entered, orderly, settle, player, outbox, ledger, lock, tx, vault,
          aged, attempts, job>>

Nothing == [p \in Player |-> 0]
Fresh == [status |-> "none", amount |-> 0, id |-> None]
Absent == [status |-> "absent", attempt |-> None]
Idle == [pc |-> "idle", week |-> None, seen |-> Absent,
         players |-> [p \in Player |-> Fresh], alloc |-> Nothing,
         first |-> None, todo |-> {}, missed |-> FALSE]

Init ==
    /\ entered \in [Week -> SUBSET Player] /\ orderly \in BOOLEAN
    /\ settle = [w \in Week |-> Absent]
    /\ player = [w \in Week |-> [p \in Player |-> Fresh]]
    /\ outbox = [a \in Attempt |->
                   [status |-> "none", week |-> None, amounts |-> Nothing]]
    /\ ledger = [w \in Week |-> 0]
    /\ lock = "free"
    /\ tx = [a \in Attempt |-> "none"]
    /\ vault = <<>> /\ aged = 0
    /\ attempts = 0
    /\ job = [j \in Job |-> Idle]

-----------------------------------------------------------------------------
(* Amounts: of an allocation, in the ledger, in the vault.                 *)

Sum(amounts) == Total(Player, amounts)
Payable(amounts) == {p \in Player : amounts[p] > 0}

\* The ledger counts in units and rounds up.
UnitsOf(raw) == (raw + Scale - 1) \div Scale
LedgerTotal == Scale * Total(Week, ledger)

Paid(n) == outbox[vault[n]].amounts
Spent == Total(DOMAIN vault, [n \in DOMAIN vault |-> Sum(Paid(n))])
Available == Balance - Spent

Least(x, y) == IF x <= y THEN x ELSE y
Remaining == IF LedgerTotal <= Budget THEN Budget - LedgerTotal ELSE 0
Pool == Least(PoolCap, Least(Remaining, Available))

\* What computeAllocations may split a pool into.
Allocations(w) ==
    {a \in [Player -> 0..PoolCap] :
        /\ \A p \in Player \ entered[w] : a[p] = 0
        /\ \A p \in Player : a[p] <= Pool \div Shares
        /\ Sum(a) <= Pool}

-----------------------------------------------------------------------------
(* Jobs and compare-and-set.                                               *)

At(j, pc) == job[j].pc = pc
Week_(j) == job[j].week
Own(j) == job[j].seen.attempt
Set(j, r) == job' = [job EXCEPT ![j] = r]
Go(j, pc) == Set(j, [job[j] EXCEPT !.pc = pc])

\* Mutant: a record that exists is replaced whatever its status.
Wins_AnyStatus(j, from) ==
    from = "absent" <=> settle[Week_(j)].status = "absent"
Wins(j, from) == settle[Week_(j)].status = from

\* upsertWeeklySettlement(new, from): job j goes on with r, having seen the
\* record that is stored after the call.
Write(j, from, new, r) ==
    /\ settle' = IF Wins(j, from) THEN [settle EXCEPT ![Week_(j)] = new]
                 ELSE settle
    /\ Set(j, [r EXCEPT !.seen = settle'[Week_(j)]])

\* { ...settlement, status }, written when the stored status is still from.
Conclude(j, from, to) ==
    /\ Write(j, from, [job[j].seen EXCEPT !.status = to],
             [job[j] EXCEPT !.pc = "unlock"])
    /\ UNCHANGED <<given, player, outbox, ledger, lock, chain, attempts>>

\* upsertPlayerWeekRecord(new, from).
WritePlayer(w, p, from, new) ==
    player' = IF player[w][p].status = from
              THEN [player EXCEPT ![w][p] = new] ELSE player

Next_(j, todo, pc) ==
    [job[j] EXCEPT !.todo = todo, !.pc = IF todo = {} THEN pc ELSE @]

-----------------------------------------------------------------------------
(* withSettlementLock and the reading of the week.                         *)

Take(j, w) ==
    /\ At(j, "idle")
    /\ lock = "free"
    /\ lock' = j
    /\ Set(j, [Idle EXCEPT !.pc = "read", !.week = w])
    /\ UNCHANGED <<given, records, chain, attempts>>

\* The reconciliation route takes no lock, and frees none.
Reconcile(j, w) ==
    /\ At(j, "idle")
    /\ Set(j, [Idle EXCEPT !.pc = "recRead", !.week = w])
    /\ UNCHANGED <<given, records, lock, chain, attempts>>

Unlock(j) ==
    /\ At(j, "unlock")
    /\ lock' = IF lock = j THEN "free" ELSE lock
    /\ Set(j, Idle)
    /\ UNCHANGED <<given, records, chain, attempts>>

Read(j) ==
    /\ At(j, "read")
    /\ LET s == settle[Week_(j)] IN
       Set(j, [job[j] EXCEPT !.seen = s, !.pc =
         CASE s.status \in {"finalized", "aborted"} -> "unlock"
           [] s.status = "allocating"               -> "recRead"
           [] s.status = "absent"                   -> "close"
           [] s.status \in {"closed", "computed"}   -> "list"])
    /\ UNCHANGED <<given, records, lock, chain, attempts>>

\* Mutant: a new week is recorded as open.
Close_Open(j) ==
    /\ At(j, "close")
    /\ Write(j, "absent", [status |-> "open", attempt |-> None],
             [job[j] EXCEPT !.pc = "unlock"])
    /\ UNCHANGED <<given, player, outbox, ledger, lock, chain, attempts>>

Close(j) ==
    /\ At(j, "close")
    /\ Write(j, "absent", [status |-> "closed", attempt |-> None],
             [job[j] EXCEPT !.pc =
                IF settle'[Week_(j)].status \in {"closed", "computed"}
                THEN "list" ELSE "unlock"])
    /\ UNCHANGED <<given, player, outbox, ledger, lock, chain, attempts>>

-----------------------------------------------------------------------------
(* Computing the week.                                                     *)

List(j) ==
    /\ At(j, "list")
    /\ Set(j, [job[j] EXCEPT !.players = player[Week_(j)],
                 !.pc = IF entered[Week_(j)] = {} THEN "empty" ELSE "season"])
    /\ UNCHANGED <<given, records, lock, chain, attempts>>

Empty(j) ==
    /\ At(j, "empty")
    /\ Conclude(j, job[j].seen.status, "finalized")

\* The vault season does not exist, or is finalized.
NoSeason(j) ==
    /\ At(j, "season")
    /\ Conclude(j, job[j].seen.status, "aborted")

\* The ledger's total and the vault's balance give the pool.
Split(j) ==
    /\ At(j, "season")
    /\ \E a \in Allocations(Week_(j)) :
         Set(j, [job[j] EXCEPT !.alloc = a, !.pc = "compute"])
    /\ UNCHANGED <<given, records, lock, chain, attempts>>

Compute(j) ==
    /\ At(j, "compute")
    /\ Write(j, job[j].seen.status, [job[j].seen EXCEPT !.status = "computed"],
             [job[j] EXCEPT !.pc = "pend", !.todo = entered[Week_(j)]])
    /\ UNCHANGED <<given, player, outbox, ledger, lock, chain, attempts>>

Pending(j, p) ==
    [job[j].players[p] EXCEPT
        !.amount = job[j].alloc[p],
        !.status = IF job[j].alloc[p] > 0 THEN "pending" ELSE @]

\* Mutant: amounts already pending are left as they are.
Pend_NewOnly(j) ==
    /\ At(j, "pend")
    /\ \E p \in job[j].todo :
         /\ WritePlayer(Week_(j), p, "none", Pending(j, p))
         /\ Set(j, Next_(j, job[j].todo \ {p}, "authorize"))
    /\ UNCHANGED <<given, settle, outbox, ledger, lock, chain, attempts>>

\* Promise.all over the players: each write expects the status listed.
Pend(j) ==
    /\ At(j, "pend") \/ At(j, "stray")
    /\ \E p \in job[j].todo :
         /\ WritePlayer(Week_(j), p, job[j].players[p].status, Pending(j, p))
         /\ Set(j, Next_(j, job[j].todo \ {p},
                        IF At(j, "pend") THEN "authorize" ELSE "unlock"))
    /\ UNCHANGED <<given, settle, outbox, ledger, lock, chain, attempts>>

\* It rejects at the first error, with the other writes still under way.
Reject(j) ==
    /\ ~orderly
    /\ At(j, "pend")
    /\ lock' = IF lock = j THEN "free" ELSE lock
    /\ Go(j, "stray")
    /\ UNCHANGED <<given, records, chain, attempts>>

NothingToPay(j) ==
    /\ At(j, "authorize")
    /\ Payable(job[j].alloc) = {}
    /\ Conclude(j, "computed", "finalized")

\* The signer is not a reward manager of the vault, or is.
Authorize(j) ==
    /\ At(j, "authorize")
    /\ Payable(job[j].alloc) # {}
    /\ \/ Conclude(j, "computed", "aborted")
       \/ Go(j, "claim")
          /\ UNCHANGED <<given, records, lock, chain, attempts>>

-----------------------------------------------------------------------------
(* Allocating on-chain.                                                    *)

Claimed(j) == [job[j].seen EXCEPT !.status = "allocating",
                                  !.attempt = attempts + 1]

\* Mutant: the job goes on although another one won the transition.
Claim_Unchecked(j) ==
    /\ At(j, "claim")
    /\ attempts < MaxAttempts
    /\ attempts' = attempts + 1
    /\ settle' = IF Wins(j, "computed")
                 THEN [settle EXCEPT ![Week_(j)] = Claimed(j)] ELSE settle
    /\ Set(j, [job[j] EXCEPT !.seen = Claimed(j), !.pc = "outbox"])
    /\ UNCHANGED <<given, player, outbox, ledger, lock, chain>>

\* computed -> allocating, with an attempt id of this job's own: whoever
\* reads another's id back lost, and leaves.
Claim(j) ==
    /\ At(j, "claim")
    /\ attempts < MaxAttempts
    /\ attempts' = attempts + 1
    /\ Write(j, "computed", Claimed(j),
             [job[j] EXCEPT !.pc =
                IF settle'[Week_(j)].attempt = attempts + 1
                THEN "outbox" ELSE "unlock"])
    /\ UNCHANGED <<given, player, outbox, ledger, lock, chain>>

Outbox(j) ==
    /\ At(j, "outbox")
    /\ outbox' = [outbox EXCEPT ![Own(j)] =
         [status |-> "pending", week |-> Week_(j), amounts |-> job[j].alloc]]
    /\ Go(j, "simulate")
    /\ UNCHANGED <<given, settle, player, ledger, lock, chain, attempts>>

\* simulateContract returns the id the first reward would get now.  A batch
\* has consecutive ids: its place in the vault stands for them.
Simulate(j) ==
    /\ At(j, "simulate")
    /\ Sum(job[j].alloc) <= Available
    /\ Set(j, [job[j] EXCEPT !.first = Len(vault) + 1, !.pc = "send"])
    /\ UNCHANGED <<given, records, lock, chain, attempts>>

Send(j) ==
    /\ At(j, "send")
    /\ tx' = [tx EXCEPT ![Own(j)] = "flying"]
    /\ Go(j, "wait")
    /\ UNCHANGED <<given, records, lock, vault, aged, attempts>>

\* Mutant: the status of the receipt is not looked at.
Confirm_AnyReceipt(j) ==
    /\ At(j, "wait")
    /\ tx[Own(j)] \in {"mined", "reverted"}
    /\ outbox' = [outbox EXCEPT ![Own(j)].status = "confirmed"]
    /\ Set(j, [job[j] EXCEPT !.pc = "allocated",
                             !.todo = Payable(job[j].alloc)])
    /\ UNCHANGED <<given, settle, player, ledger, lock, chain, attempts>>

\* The receipt arrives in time, and the outbox is updated.
Confirm(j) ==
    /\ At(j, "wait")
    /\ tx[Own(j)] = "mined"
    /\ outbox' = [outbox EXCEPT ![Own(j)].status = "confirmed"]
    /\ Set(j, [job[j] EXCEPT !.pc = "allocated",
                             !.todo = Payable(job[j].alloc)])
    /\ UNCHANGED <<given, settle, player, ledger, lock, chain, attempts>>

\* Whatever was thrown since the outbox was written: nothing is retried.
Uncertain(j) ==
    /\ At(j, "uncertain")
    /\ outbox' = [outbox EXCEPT ![Own(j)].status =
                    IF @ = "pending" THEN "uncertain" ELSE @]
    /\ Go(j, "unlock")
    /\ UNCHANGED <<given, settle, player, ledger, lock, chain, attempts>>

Allocated(j) ==
    /\ At(j, "allocated")
    /\ \E p \in job[j].todo :
         /\ WritePlayer(Week_(j), p, "pending",
              [status |-> "allocated", amount |-> job[j].alloc[p],
               id |-> job[j].first])
         /\ Set(j, Next_(j, job[j].todo \ {p}, "ledger"))
    /\ UNCHANGED <<given, settle, outbox, ledger, lock, chain, attempts>>

\* Mutant: the entry is added again.
Ledger_Again(j) ==
    /\ At(j, "ledger")
    /\ ledger' = [ledger EXCEPT ![Week_(j)] = @ + UnitsOf(Sum(job[j].alloc))]
    /\ Go(j, "finalize")
    /\ UNCHANGED <<given, settle, player, outbox, lock, chain, attempts>>

\* recordTreasuryLedgerEntryOnce; it records no empty entry.
Ledger(j) ==
    /\ At(j, "ledger")
    /\ ledger' = [ledger EXCEPT ![Week_(j)] =
                    IF @ = 0 THEN UnitsOf(Sum(job[j].alloc)) ELSE @]
    /\ Go(j, "finalize")
    /\ UNCHANGED <<given, settle, player, outbox, lock, chain, attempts>>

Finalize(j) ==
    /\ At(j, "finalize")
    /\ Conclude(j, "allocating", "finalized")

-----------------------------------------------------------------------------
(* reconcileSettlement.                                                    *)

RecRead(j) ==
    /\ At(j, "recRead")
    /\ LET s == settle[Week_(j)] IN
       Set(j, [job[j] EXCEPT !.seen = s, !.pc =
                 IF s.status = "allocating" THEN "recList" ELSE "unlock"])
    /\ UNCHANGED <<given, records, lock, chain, attempts>>

\* A record that arrives as raw JSON is deserialized.  One that the Redis
\* client has decoded keeps its amounts as strings, and "5n" > 0n is false.
Listed(w) ==
    {[p \in Player |-> IF p \in entered[w] THEN player[w][p].amount ELSE 0],
     Nothing}

RecList(j) ==
    /\ At(j, "recList")
    /\ \E amounts \in Listed(Week_(j)) :
         Set(j, [job[j] EXCEPT
                   !.players = player[Week_(j)], !.alloc = amounts,
                   !.todo = Payable(amounts),
                   !.pc = IF Payable(amounts) = {} THEN "ledger"
                          ELSE "recPlayer"])
    /\ UNCHANGED <<given, records, lock, chain, attempts>>

\* Rewards of p with the expected amount and season, of any week.
Matches(j, p) ==
    {n \in DOMAIN vault : /\ Season[outbox[vault[n]].week] = Season[Week_(j)]
                          /\ Paid(n)[p] = job[j].alloc[p]}
Match(j, p) == CHOOSE n \in Matches(j, p) : \A m \in Matches(j, p) : n <= m
Known(j, p) == job[j].players[p].status = "allocated"

Missed(j, p) == ~Known(j, p) /\ (Matches(j, p) = {} \/ Match(j, p) <= aged)

\* The first match counts if the log of its allocation is still found.
RecPlayer(j) ==
    /\ At(j, "recPlayer")
    /\ \E p \in job[j].todo :
         LET missed == job[j].missed \/ Missed(j, p) IN
         /\ IF Known(j, p) \/ Missed(j, p) THEN UNCHANGED player
            ELSE WritePlayer(Week_(j), p, "pending",
                   [job[j].players[p] EXCEPT !.status = "allocated",
                                             !.id = Match(j, p)])
         /\ Set(j, [Next_(j, job[j].todo \ {p},
                          IF missed THEN "unlock" ELSE "ledger")
                      EXCEPT !.missed = missed])
    /\ UNCHANGED <<given, settle, outbox, ledger, lock, chain, attempts>>

-----------------------------------------------------------------------------
(* What may happen to a job, and around it.                                *)

Allocating == {"simulate", "send", "wait"}

\* A call throws: the allocation's errors are caught, others end the job.
Throw(j) ==
    /\ job[j].pc \notin {"idle", "unlock"}
    /\ Go(j, IF job[j].pc \in Allocating THEN "uncertain" ELSE "unlock")
    /\ UNCHANGED <<given, records, lock, chain, attempts>>

\* The function is killed, its lock left behind.
Crash(j) ==
    /\ ~At(j, "idle")
    /\ lock' = IF lock = j THEN "dead" ELSE lock
    /\ Set(j, Idle)
    /\ UNCHANGED <<given, records, chain, attempts>>

LockExpires ==
    /\ lock # "free"
    /\ orderly => lock = "dead"
    /\ lock' = "free"
    /\ UNCHANGED <<given, records, chain, attempts, job>>

Mine(a) ==
    /\ tx[a] = "flying"
    /\ Sum(outbox[a].amounts) <= Available
    /\ tx' = [tx EXCEPT ![a] = "mined"]
    /\ vault' = Append(vault, a)
    /\ UNCHANGED <<given, records, lock, aged, attempts, job>>

Revert(a) ==
    /\ tx[a] = "flying"
    /\ tx' = [tx EXCEPT ![a] = "reverted"]
    /\ UNCHANGED <<given, records, lock, vault, aged, attempts, job>>

\* 2000 blocks later: findRewardAllocationTxHash finds none of these.
Age ==
    /\ aged # Len(vault)
    /\ aged' = Len(vault)
    /\ UNCHANGED <<given, records, lock, tx, vault, attempts, job>>

\* A stuck week is reset to "computed" when none of its rewards is on-chain:
\* "unseen", as the recovery runbook has it; or only when it is "proven" that
\* none will be, as the rewards runbook has it.
Reset(w) ==
    /\ ~orderly
    /\ settle[w].status = "allocating"
    /\ OperatorResets = "proven"
          => tx[settle[w].attempt] \in {"none", "reverted"}
    /\ \A n \in DOMAIN vault : outbox[vault[n]].week # w
    /\ \A j \in Job : Week_(j) # w
    /\ settle' = [settle EXCEPT ![w] = [status |-> "computed",
                                        attempt |-> None]]
    /\ UNCHANGED <<given, player, outbox, ledger, lock, chain, attempts,
                   job>>

Settling(j) ==
    \/ Read(j) \/ Close(j) \/ List(j) \/ Empty(j) \/ NoSeason(j) \/ Split(j)
    \/ Compute(j) \/ Pend(j) \/ Reject(j) \/ NothingToPay(j) \/ Authorize(j)
    \/ Claim(j) \/ Outbox(j) \/ Simulate(j) \/ Send(j) \/ Confirm(j)
    \/ Uncertain(j) \/ Allocated(j)

Reconciling(j) ==
    RecRead(j) \/ RecList(j) \/ RecPlayer(j) \/ Ledger(j) \/ Finalize(j)

Next ==
    \/ \E j \in Job :
         \/ \E w \in Week : Take(j, w) \/ Reconcile(j, w)
         \/ Settling(j) \/ Reconciling(j) \/ Unlock(j) \/ Throw(j) \/ Crash(j)
    \/ \E a \in Attempt : Mine(a) \/ Revert(a)
    \/ \E w \in Week : Reset(w)
    \/ LockExpires \/ Age

Spec == Init /\ [][Next]_vars

-----------------------------------------------------------------------------
(* Properties.                                                             *)

PC == {"idle", "read", "close", "list", "empty", "season", "compute", "pend",
       "stray", "authorize", "claim", "outbox", "simulate", "send", "wait",
       "uncertain", "allocated", "recRead", "recList", "recPlayer",
       "ledger", "finalize", "unlock"}
Settled == [status : {"absent", "closed", "computed", "allocating",
                      "finalized", "aborted"},
            attempt : {None} \union Attempt]
Amounts_ == [Player -> Nat]
PlayerWeek == [status : {"none", "pending", "allocated"},
               amount : Nat, id : Nat]

JobState == [pc : PC, week : {None} \union Week, seen : Settled,
             players : [Player -> PlayerWeek], alloc : Amounts_,
             first : Nat, todo : SUBSET Player, missed : BOOLEAN]

TypeOK ==
    /\ entered \in [Week -> SUBSET Player] /\ orderly \in BOOLEAN
    /\ settle \in [Week -> Settled]
    /\ player \in [Week -> [Player -> PlayerWeek]]
    /\ outbox \in [Attempt ->
          [status : {"none", "pending", "confirmed", "uncertain"},
           week : {None} \union Week, amounts : Amounts_]]
    /\ ledger \in [Week -> Nat]
    /\ lock \in Job \union {"free", "dead"}
    /\ tx \in [Attempt -> {"none", "flying", "mined", "reverted"}]
    /\ vault \in Seq(Attempt)
    /\ aged \in Nat
    /\ attempts \in 0..MaxAttempts
    /\ job \in [Job -> JobState]

\* The batch of attempt a may pay, or has paid.
Sent(a) == tx[a] \in {"flying", "mined"}

\* One week is never allocated twice, though jobs overlap when the mutex
\* expires under them, fail anywhere and are run again: only the winner of
\* the transition to "allocating" calls the vault, and calls it once.
AtMostOneBatch ==
    /\ \A a, b \in Attempt :
         Sent(a) /\ Sent(b) /\ outbox[a].week = outbox[b].week => a = b
    /\ \A m, n \in DOMAIN vault : vault[m] = vault[n] => m = n

\* A batch is never sent but for a week that is, and stays, allocating or
\* finalized under that attempt, with the outbox record written before:
\* aborting or finalizing a week can never race its allocation.
Taken(w) == settle[w].status \in {"allocating", "finalized"}
BatchIsOnRecord ==
    \A a \in Attempt : Sent(a) =>
        /\ outbox[a].status # "none"
        /\ settle[outbox[a].week].attempt = a
        /\ Taken(outbox[a].week)

\* A finalized or aborted week stays as it is, whatever overlapping jobs,
\* late writes and reconciliations still do.
FinalStatusStays ==
    [][\A w \in Week : settle[w].status \in {"finalized", "aborted"}
         => settle'[w] = settle[w]]_vars

\* What reconciliation will look for on-chain is what was sent: the amounts
\* in the player records agree with the batch, although a job that computes
\* a week again takes new amounts.
RecordsMatchBatch ==
    orderly =>
        \A a \in Attempt : Sent(a) =>
            \A p \in Player :
                player[outbox[a].week][p].amount = outbox[a].amounts[p]

\* The ledger holds a week's batch once or not at all, though the settlement
\* and reconciliations that take no lock, overlap it and read records anew all
\* book the week, from the amounts they know.  (It may miss a batch for good.)
LedgerIsBatch ==
    orderly =>
        \A a \in Attempt : Sent(a) =>
            ledger[outbox[a].week] \in {0, UnitsOf(Sum(outbox[a].amounts))}

\* Nobody is told of a reward that does not exist: of a player recorded as
\* allocated the vault holds a reward of that amount, at the recorded id, or
\* after it where other batches were mined between the simulation and this.
AllocatedIsPaid ==
    orderly =>
        \A w \in Week, p \in Player : player[w][p].status = "allocated" =>
            \E n \in DOMAIN vault :
                n >= player[w][p].id /\ Paid(n)[p] = player[w][p].amount

\* "If every payable player is confirmed, the settlement is finalized.
\* Otherwise it remains allocating": a week that was allocated is finalized
\* only when its batch is mined.
FinalizedIsPaid ==
    \A w \in Week :
        settle[w].status = "finalized" /\ settle[w].attempt # None
          => tx[settle[w].attempt] = "mined"

-----------------------------------------------------------------------------
(* The inductive invariant, for an operator who waits for the proof.       *)

Computing == {"list", "empty", "season", "compute"}
Claimants == {"outbox", "simulate", "send"}
Owners == Claimants \union {"wait", "uncertain", "allocated", "ledger",
                            "finalize", "recList", "recPlayer"}

\* A job that works on a week knows which; it computes a week only if it
\* has not seen it past "computed".
JobsKnow ==
    \A j \in Job :
        /\ job[j].pc # "idle" => job[j].week \in Week
        /\ job[j].pc \in Computing
              => job[j].seen.status \in {"closed", "computed"}

\* A job that allocates or reconciles a week knows its attempt.
OwnersKnow ==
    \A j \in Job : job[j].pc \in Owners =>
        /\ settle[job[j].week].attempt = job[j].seen.attempt
        /\ Taken(job[j].week)

\* Attempt ids are fresh: no record, job or batch is ahead of the counter.
Drawn ==
    /\ \A w \in Week : settle[w].attempt <= attempts
    /\ \A j \in Job : job[j].seen.attempt <= attempts
    /\ \A a \in Attempt : tx[a] # "none" => a <= attempts

\* Only one job may still send an attempt's batch, and none once it is sent.
OneClaimant ==
    \A j \in Job : job[j].pc \in Claimants =>
        /\ job[j].seen.attempt # None
        /\ tx[job[j].seen.attempt] = "none"
        /\ \A k \in Job :
             job[k].pc \in Claimants
               /\ job[k].seen.attempt = job[j].seen.attempt => k = j

\* It has written the outbox record of its week before.
ClaimIsInOutbox ==
    \A j \in Job : job[j].pc \in {"simulate", "send"} =>
        /\ outbox[job[j].seen.attempt].status # "none"
        /\ outbox[job[j].seen.attempt].week = job[j].week

SentWeek == \A a \in Attempt : Sent(a) => outbox[a].week \in Week

VaultIsMined ==
    /\ \A n \in DOMAIN vault : tx[vault[n]] = "mined"
    /\ \A m, n \in DOMAIN vault : vault[m] = vault[n] => m = n

Inv ==
    /\ TypeOK
    /\ JobsKnow /\ OwnersKnow /\ Drawn /\ OneClaimant
    /\ ClaimIsInOutbox /\ SentWeek /\ BatchIsOnRecord /\ VaultIsMined

=============================================================================
