---------------------------- MODULE GoalRuntime ----------------------------
(***************************************************************************)
(* The evaluation of one autonomous goal by concurrent scheduler ticks:    *)
(* lib/autonomy/runtime.ts, with the store calls of redis-store.ts it      *)
(* makes, the scheduler's selection, and the user's goal route.            *)
(*                                                                         *)
(* A tick reads the goal and then works through Redis calls, one action    *)
(* each; anything may happen in between.  Its program counter is an agenda *)
(* (tick[t].main, the steps still to do); the broadcast work that runs     *)
(* under the time budget, and outlives it, has its own (tick[t].work).     *)
(* Every goal write is a compare-and-set on the updatedAt the tick read:   *)
(* "goal" \in tick[t].fresh says that its snapshot is still the latest.    *)
(***************************************************************************)
EXTENDS Integers, Sequences, FiniteSets

CONSTANTS
    Tick,        \* concurrent ticks: the cron's and the browsers' heartbeats
    MaxSlot,     \* bound: evaluation slots a run goes through
    MaxTrades,   \* goal.maxTrades
    MaxVerify,   \* AUTONOMY_LIMITS.maxVerificationAttempts
    MaxActions,  \* policy.maxActionsPerDay
    MaxEdits,    \* bound: requests of the user
    MaxCrashes,  \* bound: ticks killed
    Unreliable,  \* bounded store calls that may be lost or land late
    Legacy       \* may the goal be one an older build left EXECUTING?

ASSUME TickAssumption ==
    Tick # {} /\ IsFiniteSet(Tick) /\ {"free", "dead"} \cap Tick = {}
ASSUME BoundAssumption ==
    /\ {MaxSlot, MaxTrades, MaxVerify} \subseteq Nat \ {0}
    /\ {MaxActions, MaxEdits, MaxCrashes} \subseteq Nat
ASSUME UnreliableAssumption ==
    /\ Unreliable \subseteq {"mark", "markX", "commit", "relU", "relP",
                             "drop", "fail"}
    /\ Legacy \in BOOLEAN

\* An execution id is the goal and its slot, executionKeyForSlot.  Slots are
\* numbered in the order nextEvaluationAt takes them; the one after the last
\* stands for a later time no tick of this run reaches.
Exec == 1..MaxSlot
None == 0

VARIABLES
    goal,         \* [status, slot, pending, attempts, verified]
    claims,       \* execution ids claimed SET NX
    lease,        \* the evaluation lease: a tick, "free", or "dead"
    res,          \* reservation states of this goal's executions
    rec,          \* action records: "none", "failed", or "hash" if it has one
    tx,           \* transactions: "none", "flying", "mined", "reverted"
    late,         \* store calls given up on that may still land: <<call, id>>
    tick,         \* the ticks
    \* Observations the code does not keep:
    hashed,       \* executions whose adapter returned a hash
    edits, crashes

store == <<claims, lease, res, rec, late>>
seen == <<hashed, edits, crashes>>
vars == <<goal, claims, lease, res, rec, tx, late, tick,
          hashed, edits, crashes>>

\* ACTIVE and WAITING: every guard of the runtime treats them alike.
Open == {"OPEN"}

NoSnapshot == [exec |-> None, verified |-> 0, hash |-> FALSE]
Idle == [main |-> <<>>, work |-> "none", fresh |-> {},
         goal |-> NoSnapshot, current |-> NoSnapshot]

Created(status) == [status |-> status, slot |-> 1, pending |-> None,
                    attempts |-> 0, verified |-> 0]

Activated ==
    /\ \E status \in Open : goal = Created(status)
    /\ claims = {}
    /\ res = [e \in Exec |-> "none"]
    /\ tx = [e \in Exec |-> "none"]

\* An older build wrote EXECUTING before it broadcast.
LeftExecuting ==
    /\ goal = Created("EXECUTING")
    /\ claims = {1}
    /\ \E first \in {"R", "A"} :
         /\ res = [e \in Exec |-> IF e = 1 THEN first ELSE "none"]
         /\ \E sent \in IF first = "A" THEN {"none", "flying"} ELSE {"none"} :
              tx = [e \in Exec |-> IF e = 1 THEN sent ELSE "none"]

Init ==
    /\ Activated \/ (Legacy /\ LeftExecuting)
    /\ lease = "free"
    /\ rec = [e \in Exec |-> "none"]
    /\ late = {}
    /\ tick = [t \in Tick |-> Idle]
    /\ hashed = {}
    /\ edits = 0 /\ crashes = 0

-----------------------------------------------------------------------------
(* A tick's bookkeeping.                                                   *)

At(t, step) == tick[t].main # <<>> /\ Head(tick[t].main) = step
Rest(t) == Tail(tick[t].main)
ExecOf(t) == tick[t].goal.exec

Put(t, r) ==
    [tick EXCEPT ![t] = IF r.main = <<>> /\ r.work = "none" THEN Idle ELSE r]
Then(t, steps) == [tick[t] EXCEPT !.main = steps]
Go(t, steps) == tick' = Put(t, Then(t, steps))

Stale(ticks) == [u \in Tick |-> [ticks[u] EXCEPT !.fresh = {}]]

\* Mutants: a write that forgets to compare updatedAt, or the status.
MayWrite_AnyVersion(t, which, from) == goal.status \in from
MayWrite_AnyStatus(t, which, from) == which \in tick[t].fresh

\* CAS_GOAL_SCRIPT's test of the status and of the updatedAt t read.
MayWrite(t, which, from) ==
    /\ goal.status \in from
    /\ which \in tick[t].fresh

\* transitionGoal: the tick goes on with r if it writes g, with q if not.
Try(t, which, from, g, r, q) ==
    IF MayWrite(t, which, from)
    THEN goal' = g /\ tick' = Stale(Put(t, r))
    ELSE tick' = Put(t, q) /\ UNCHANGED goal

\* The patches: a new nextEvaluationAt is the next slot.
Later == IF goal.slot <= MaxSlot THEN goal.slot + 1 ELSE goal.slot
Parked == [goal EXCEPT !.status = "OPEN", !.slot = Later,
                       !.pending = None, !.attempts = 0]
Failed == [goal EXCEPT !.status = "FAILED", !.pending = None, !.attempts = 0]

\* A failure parks the goal unless it is the strike that fails it: the last
\* of maxConsecutiveFailures, or one with a terminal code.
Patch(step) == IF step \in {"strike", "failStrike"} THEN {Parked, Failed}
               ELSE {Parked}

-----------------------------------------------------------------------------
(* The spend reservation, as the day ledger answers for one execution id.  *)

\* Mutant: a release as "unattempted" that ignores the attempt marker.
After_MarkerIgnored(call, s) ==
    IF call \in {"relU", "relP"} /\ s \in {"R", "A"} THEN "F" ELSE s

After(call, s) ==
    CASE call = "mark"   -> IF s = "R" THEN "A" ELSE s
      [] call = "markX"  -> IF s = "A" THEN "X" ELSE s
      [] call = "commit" -> IF s \in {"R", "A"} THEN "C" ELSE s
      [] call = "relU"   -> IF s = "R" THEN "F" ELSE s
      [] call = "relP"   -> IF s \in {"R", "A"} THEN "F" ELSE s
      [] OTHER           -> s

Land(call, e) ==
    /\ res' = [res EXCEPT ![e] = After(call, @)]
    /\ claims' = IF call = "drop" THEN claims \ {e} ELSE claims

\* A store call raced against BROADCAST_STORE_BUDGET_MS: given up on, it may
\* be lost or may still land.
GivenUp(call, e) ==
    /\ call \in Unreliable
    /\ late' \in {late, late \union {<<call, e>>}}
    /\ UNCHANGED <<res, claims>>
Bounded(call, e) == GivenUp(call, e) \/ (Land(call, e) /\ UNCHANGED late)

LandsLate ==
    \E c \in late :
        /\ Land(c[1], c[2])
        /\ late' = late \ {c}
        /\ UNCHANGED <<goal, lease, rec, tx, tick, seen>>

-----------------------------------------------------------------------------
(* evaluateGoal up to the lease.                                           *)

Closing == <<"lease", "closeRead", "closeClaim", "close", "closeRec", "free">>
Reaping == <<"lease", "reapRead", "reapWrite", "relU", "rec", "free">>

Snapshot == [exec |-> IF goal.pending # None THEN goal.pending ELSE goal.slot,
             verified |-> goal.verified, hash |-> FALSE]

\* isDue and the unleased read of evaluateGoal.
Load(t) ==
    /\ tick[t] = Idle
    /\ \/ goal.status = "EXECUTING"
       \/ goal.status \in Open /\ goal.slot \in Exec
    /\ tick' = [tick EXCEPT ![t] =
         [Idle EXCEPT !.fresh = {"goal"}, !.goal = Snapshot,
            !.main = IF goal.pending # None THEN <<"verify">>
                     ELSE IF goal.status \in Open THEN <<"check">>
                     ELSE Reaping]]
    /\ UNCHANGED <<goal, store, tx, seen>>

\* Mutant: a slot already claimed is taken for a duplicate tick's and left.
CheckClaim_Skip(t) ==
    /\ At(t, "check")
    /\ Go(t, IF ExecOf(t) \in claims THEN <<>> ELSE <<"lease", "evaluate">>)
    /\ UNCHANGED <<goal, store, tx, seen>>

CheckClaim(t) ==
    /\ At(t, "check")
    /\ Go(t, IF ExecOf(t) \in claims THEN Closing ELSE <<"lease", "evaluate">>)
    /\ UNCHANGED <<goal, store, tx, seen>>

\* Mutant: a lease written without NX.
TakeLease_Held(t) ==
    /\ At(t, "lease")
    /\ lease' = t /\ Go(t, Rest(t))
    /\ UNCHANGED <<goal, claims, res, rec, late, tx, seen>>

TakeLease(t) ==
    /\ At(t, "lease")
    /\ IF lease = "free"
       THEN lease' = t /\ Go(t, Rest(t))
       ELSE Go(t, <<>>) /\ UNCHANGED lease          \* LEASE_BUSY
    /\ UNCHANGED <<goal, claims, res, rec, late, tx, seen>>

FreeLease(t) ==
    /\ At(t, "free")
    /\ lease' = IF lease = t THEN "free" ELSE lease
    /\ Go(t, Rest(t))
    /\ UNCHANGED <<goal, claims, res, rec, late, tx, seen>>

\* closeIfUnresolvedBroadcast re-reads the goal and its slot's claim ...
CloseRead(t) ==
    /\ At(t, "closeRead")
    /\ IF goal.status \in Open
       THEN tick' = Put(t, [Then(t, Rest(t)) EXCEPT
              !.fresh = @ \union {"current"}, !.current = Snapshot])
       ELSE Go(t, <<"free">>)
    /\ UNCHANGED <<goal, store, tx, seen>>

\* ... and without one goes on to evaluate the goal it read at first.
CloseClaim(t) ==
    /\ At(t, "closeClaim")
    /\ LET e == tick[t].current.exec IN
       IF e \in claims
       THEN tick' = Put(t, [Then(t, Rest(t)) EXCEPT
              !.current.hash = rec[e] = "hash"])
       ELSE Go(t, <<"free", "lease", "evaluate">>)
    /\ UNCHANGED <<goal, store, tx, seen>>

\* closeUnresolvedBroadcast: the outcome is UNKNOWN, the goal is FAILED.
Close(t) ==
    /\ At(t, "close")
    /\ Try(t, "current", Open, Failed, Then(t, Rest(t)), Then(t, <<"free">>))
    /\ UNCHANGED <<store, tx, seen>>

CloseRec(t) ==
    /\ At(t, "closeRec")
    /\ rec' = [rec EXCEPT ![tick[t].current.exec] =
                 IF tick[t].current.hash THEN "hash" ELSE "failed"]
    /\ Go(t, Rest(t))
    /\ UNCHANGED <<goal, claims, lease, res, late, tx, seen>>

\* The two later places that find the slot taken close the goal they hold.
CloseHeld(t) ==
    tick' = Put(t, [Then(t, <<"close", "closeRec", "free">>) EXCEPT
        !.current = [@ EXCEPT !.exec = ExecOf(t),
                              !.hash = rec[ExecOf(t)] = "hash"],
        !.fresh = @ \union (IF "goal" \in @ THEN {"current"} ELSE {})])

-----------------------------------------------------------------------------
(* evaluateUnderLease up to the broadcast.                                 *)

\* Expired, parked (condition, policy, authorization, switch), failed (quote,
\* condition, ledger), or on to the broadcast.
Evaluate(t) ==
    /\ At(t, "evaluate")
    /\ \/ \E g \in {[goal EXCEPT !.status = "EXPIRED"], Parked, Failed} :
            Try(t, "goal", Open, g, Then(t, <<"free">>), Then(t, <<"free">>))
       \/ Go(t, <<"claim", "reserve">>) /\ UNCHANGED goal
    /\ UNCHANGED <<store, tx, seen>>

\* park and parkWithFailure, once the slot is claimed.
Park(t) ==
    /\ \E step \in {"park", "strike"} :
         /\ At(t, step)
         /\ \E g \in Patch(step) :
              Try(t, "goal", Open, g, Then(t, <<"free">>), Then(t, <<"free">>))
    /\ UNCHANGED <<store, tx, seen>>

\* Mutant: a claim written without NX.
Claim_NotExclusive(t) ==
    /\ At(t, "claim")
    /\ claims' = claims \union {ExecOf(t)}
    /\ Go(t, Rest(t))
    /\ UNCHANGED <<goal, lease, res, rec, late, tx, seen>>

Claim(t) ==
    /\ At(t, "claim")
    /\ claims' = claims \union {ExecOf(t)}
    /\ IF ExecOf(t) \notin claims THEN Go(t, Rest(t)) ELSE CloseHeld(t)
    /\ UNCHANGED <<goal, lease, res, rec, late, tx, seen>>

Counted == {e \in Exec : res[e] \in {"R", "A", "C", "X"}}

\* The quote is stale, or the budget nearly spent, or the work starts.
Gate(t) ==
    \/ Go(t, <<"relP", "strike">>)
    \/ Go(t, <<"relU", "dropNow", "park">>)
    \/ tick' = Put(t, [Then(t, <<"work">>) EXCEPT !.work = "prepare"])

\* reserveDailySpend and the gates behind it.  Other goals of the policy
\* spend too, so a refusal is always possible; it leaves the claim.
Reserve(t) ==
    /\ At(t, "reserve")
    /\ \/ /\ res[ExecOf(t)] = "none"
          /\ Cardinality(Counted) < MaxActions
          /\ res' = [res EXCEPT ![ExecOf(t)] = "R"]
          /\ Gate(t)
       \/ /\ res[ExecOf(t)] = "none"
          /\ \E step \in {"park", "strike"} : Go(t, <<step>>)
          /\ UNCHANGED res
       \/ /\ res[ExecOf(t)] = "R"
          /\ Gate(t)
          /\ UNCHANGED res
       \/ /\ res[ExecOf(t)] \notin {"none", "R"}
          /\ CloseHeld(t)
          /\ UNCHANGED res
    /\ UNCHANGED <<goal, claims, lease, rec, late, tx, seen>>

-----------------------------------------------------------------------------
(* runBroadcastSteps: from here on the work runs beside its tick, which    *)
(* waits for it until the deadline.                                        *)

Abandoned(t) == ~At(t, "work")
Work(t, to) == tick' = Put(t, [tick[t] EXCEPT !.work = to])

\* gateway.prepare may refuse ...
Prepare(t) ==
    /\ tick[t].work = "prepare"
    /\ \E to \in {"REFUSED", "NOT_PREPARED"} : Work(t, to)
    /\ UNCHANGED <<goal, store, tx, seen>>

\* ... and then the goal is read again: is it still open?
Reread(t) ==
    /\ tick[t].work = "prepare"
    /\ \/ Work(t, IF goal.status \in Open THEN "mark" ELSE "GOAL_CLOSED")
       \/ Work(t, "STATE_UNREADABLE")
    /\ UNCHANGED <<goal, store, tx, seen>>

\* markSpendAttempt.  Only an answer "ATTEMPTING" in time lets it go on.
Mark(t) ==
    /\ tick[t].work = "mark"
    /\ \/ /\ Land("mark", ExecOf(t)) /\ UNCHANGED late
          /\ Work(t, IF res'[ExecOf(t)] = "A" THEN "call"
                     ELSE "ATTEMPT_NOT_RECORDED")
       \/ GivenUp("mark", ExecOf(t)) /\ Work(t, "ATTEMPT_NOT_RECORDED")
    /\ UNCHANGED <<goal, lease, rec, tx, seen>>

\* The emergency switch is read once more; the last test before the adapter
\* is synchronous with its call.
Call(t) ==
    /\ tick[t].work = "call"
    /\ \/ ~Abandoned(t) /\ Work(t, "adapter")
       \/ \E to \in {"SWITCH_REFUSED", "BUDGET_ENDED"} : Work(t, to)
    /\ UNCHANGED <<goal, store, tx, seen>>

\* The adapter broadcasts, at most once ...
Send(t) ==
    /\ tick[t].work = "adapter"
    /\ tx[ExecOf(t)] = "none"
    /\ tx' = [tx EXCEPT ![ExecOf(t)] = "flying"]
    /\ Work(t, "sent")
    /\ UNCHANGED <<goal, store, seen>>

\* ... and returns a hash, a refusal known to precede the broadcast, an
\* error that says nothing about it, or throws.
Return(t) ==
    /\ \/ /\ tick[t].work = "adapter"
          /\ \E to \in {"REFUSED", "RPC_ERROR", "ADAPTER_THREW"} : Work(t, to)
          /\ UNCHANGED hashed
       \/ /\ tick[t].work = "sent"
          /\ \E to \in {"RPC_ERROR", "ADAPTER_THREW"} : Work(t, to)
          /\ UNCHANGED hashed
       \/ /\ tick[t].work = "sent"
          /\ Work(t, "HASH")
          /\ hashed' = hashed \union {ExecOf(t)}
    /\ UNCHANGED <<goal, store, tx, edits, crashes>>

-----------------------------------------------------------------------------
(* What the tick does with the work's result, or without it.               *)

FailInfra == <<"failInfra", "rec", "free">>
FailStrike == <<"failStrike", "rec", "free">>

\* Mutants: an unknown outcome taken for a refusal, or for a broadcast.
UnknownOutcome_Released == {<<"relP">> \o FailInfra}
UnknownOutcome_Submitted == {<<"commit", "submit", "recHash", "free">>}

\* The adapter failed and may have broadcast: the spend becomes AMBIGUOUS.
UnknownOutcome ==
    {<<"markX">> \o FailInfra, <<"markX">> \o FailStrike}

Agenda(result) ==
    CASE result = "REFUSED"              -> {<<"relP">> \o FailStrike,
                                             <<"relP">> \o FailInfra}
      [] result = "NOT_PREPARED"         -> {FailStrike, FailInfra}
      [] result = "GOAL_CLOSED"          -> {<<"relU", "drop", "free">>}
      [] result = "STATE_UNREADABLE"     -> {<<"relU", "drop">> \o FailInfra}
      [] result = "ATTEMPT_NOT_RECORDED" -> {FailInfra}
      [] result = "SWITCH_REFUSED"       -> {<<"failInfra", "free">>}
      [] result = "BUDGET_ENDED"         -> {<<"markX">> \o FailInfra}
      [] result = "ADAPTER_THREW"        -> {<<"markX">> \o FailStrike}
      [] result = "RPC_ERROR"            -> UnknownOutcome
      [] result = "HASH"                 -> {<<"commit", "submit", "recHash",
                                               "free">>}
      [] OTHER                           -> {}

Result == {"REFUSED", "NOT_PREPARED", "GOAL_CLOSED", "STATE_UNREADABLE",
           "ATTEMPT_NOT_RECORDED", "SWITCH_REFUSED", "BUDGET_ENDED",
           "ADAPTER_THREW", "RPC_ERROR", "HASH"}

HandleResult(t) ==
    /\ At(t, "work")
    /\ tick[t].work \in Result
    /\ \E steps \in Agenda(tick[t].work) :
         tick' = Put(t, [Then(t, steps) EXCEPT !.work = "none"])
    /\ UNCHANGED <<goal, store, tx, seen>>

\* untilDeadline: the work goes on in the background.
Deadline(t) ==
    /\ At(t, "work")
    /\ \E steps \in Agenda("BUDGET_ENDED") : Go(t, steps)
    /\ UNCHANGED <<goal, store, tx, seen>>

\* One bounded reservation call, or the bounded drop of the claim.
StoreCall(t) ==
    /\ \E call \in {"relP", "relU", "markX", "commit", "drop"} :
         At(t, call) /\ Bounded(call, ExecOf(t))
    /\ Go(t, Rest(t))
    /\ UNCHANGED <<goal, lease, rec, tx, seen>>

\* releaseExecution at the budget gate, which is not bounded.
DropClaim(t) ==
    /\ At(t, "dropNow")
    /\ claims' = claims \ {ExecOf(t)}
    /\ Go(t, Rest(t))
    /\ UNCHANGED <<goal, lease, res, rec, late, tx, seen>>

\* failAfterClaim's and controlPlaneRefuseAfterClaim's bounded goal write.
FailWrite(t) ==
    /\ \E step \in {"failInfra", "failStrike"} :
         /\ At(t, step)
         /\ \/ \E g \in Patch(step) :
                 Try(t, "goal", Open, g, Then(t, Rest(t)), Then(t, Rest(t)))
            \/ "fail" \in Unreliable /\ Go(t, Rest(t)) /\ UNCHANGED goal
    /\ UNCHANGED <<store, tx, seen>>

\* recordAction replaces the record of this execution.
Record(t) ==
    /\ \E step \in {"rec", "recHash"} :
         /\ At(t, step)
         /\ rec' = [rec EXCEPT ![ExecOf(t)] =
                      IF step = "rec" THEN "failed" ELSE "hash"]
    /\ Go(t, Rest(t))
    /\ UNCHANGED <<goal, claims, lease, res, late, tx, seen>>

\* The slot it moves to is not counted: nothing is evaluated before the
\* verdict, and that moves the goal on.
Submitted(t, snapshot) ==
    [goal EXCEPT !.status = "EXECUTING",
                 !.pending = ExecOf(t), !.attempts = 0,
                 !.verified = snapshot.verified]

\* recordSubmittedGoal: one CAS, and one retry on a goal that is still open.
Submit(t) ==
    /\ At(t, "submit")
    /\ Try(t, "goal", Open, Submitted(t, tick[t].goal), Then(t, Rest(t)),
           Then(t, <<"reopen">> \o Rest(t)))
    /\ UNCHANGED <<store, tx, seen>>

Reopen(t) ==
    /\ At(t, "reopen")
    /\ tick' = Put(t, IF goal.status \in Open
         THEN [Then(t, <<"resubmit">> \o Rest(t)) EXCEPT
                 !.fresh = @ \union {"current"}]
         ELSE Then(t, Rest(t)))
    /\ UNCHANGED <<goal, store, tx, seen>>

Resubmit(t) ==
    /\ At(t, "resubmit")
    /\ Try(t, "current", Open, Submitted(t, tick[t].goal),
           Then(t, Rest(t)), Then(t, Rest(t)))
    /\ UNCHANGED <<store, tx, seen>>

-----------------------------------------------------------------------------
(* recordLateBroadcast, in the background of an abandoned tick.            *)

InWork(t, to) == [tick[t] EXCEPT !.work = to]

LateResult(t) ==
    /\ Abandoned(t)
    /\ tick[t].work \in Result
    /\ tick' = Put(t, IF tick[t].work = "HASH"
         THEN [InWork(t, "lateSubmit") EXCEPT
                 !.fresh = @ \union {"current"}, !.current = Snapshot]
         ELSE InWork(t, "none"))
    /\ UNCHANGED <<goal, store, tx, seen>>

LateSubmit(t) ==
    /\ \/ /\ tick[t].work = "lateSubmit"
          /\ Try(t, "current", Open, Submitted(t, tick[t].current),
                 InWork(t, "lateRec"), InWork(t, "lateReopen"))
       \/ /\ tick[t].work = "lateResubmit"
          /\ Try(t, "current", Open, Submitted(t, tick[t].current),
                 InWork(t, "lateRec"), InWork(t, "lateRec"))
    /\ UNCHANGED <<store, tx, seen>>

LateReopen(t) ==
    /\ tick[t].work = "lateReopen"
    /\ tick' = Put(t, IF goal.status \in Open
         THEN [InWork(t, "lateResubmit") EXCEPT
                 !.fresh = @ \union {"current"}]
         ELSE InWork(t, "lateRec"))
    /\ UNCHANGED <<goal, store, tx, seen>>

LateRecord(t) ==
    /\ tick[t].work = "lateRec"
    /\ rec' = [rec EXCEPT ![ExecOf(t)] = "hash"]
    /\ Work(t, "none")
    /\ UNCHANGED <<goal, claims, lease, res, late, tx, seen>>

-----------------------------------------------------------------------------
(* verifyPending, which takes no lease, and the reap of a legacy goal.     *)

Completed ==
    IF goal.verified + 1 >= MaxTrades
    THEN [Failed EXCEPT !.status = "COMPLETED", !.verified = @ + 1]
    ELSE [Parked EXCEPT !.verified = @ + 1]

\* Mutants: attempts without a limit, or not counted.
Verdicts_Unbounded(sent) ==
    {[goal EXCEPT !.attempts = @ + 1]}
    \union (IF sent = "mined" THEN {Completed} ELSE {})
Verdicts_NotCounted(sent) ==
    {goal} \union (IF sent = "mined" THEN {Completed} ELSE {})

\* What the verdicts that a transaction in this state can get write.  A
\* status call may always fail, and a receipt may not match its quote.
Verdicts(sent) ==
    {IF goal.attempts + 1 >= MaxVerify THEN Failed
     ELSE [goal EXCEPT !.attempts = @ + 1]}
    \union (IF sent = "mined" THEN {Completed} ELSE {})
    \union (IF sent # "flying" THEN {Parked, Failed} ELSE {})

Verify(t) ==
    /\ At(t, "verify")
    /\ \E g \in Verdicts(tx[ExecOf(t)]) :
         Try(t, "goal", {"EXECUTING"}, g, Then(t, <<>>), Then(t, <<>>))
    /\ rec' = [rec EXCEPT ![ExecOf(t)] = "hash"]
    /\ UNCHANGED <<claims, lease, res, late, tx, seen>>

ReapRead(t) ==
    /\ At(t, "reapRead")
    /\ tick' = Put(t, IF goal.status = "EXECUTING" /\ goal.pending = None
         THEN [Then(t, Rest(t)) EXCEPT !.fresh = @ \union {"current"}]
         ELSE Then(t, <<"free">>))
    /\ UNCHANGED <<goal, store, tx, seen>>

ReapWrite(t) ==
    /\ At(t, "reapWrite")
    /\ Try(t, "current", {"EXECUTING"}, Failed,
           Then(t, Rest(t)), Then(t, <<"free">>))
    /\ UNCHANGED <<store, tx, seen>>

-----------------------------------------------------------------------------
(* The user, the chain, the platform.                                      *)

UserWrites(g) ==
    /\ edits < MaxEdits
    /\ edits' = edits + 1
    /\ goal' = g
    /\ tick' = Stale(tick)
    /\ UNCHANGED <<store, tx, hashed, crashes>>

\* The goal route refuses a goal with a pending execution.
User ==
    \/ goal.status \in Open /\ UserWrites([goal EXCEPT !.status = "PAUSED"])
    \/ goal.status = "PAUSED" /\ UserWrites(Parked)              \* resume
    \/ goal.status \in Open \union {"PAUSED"} /\ UserWrites(goal)  \* limits
    \/ /\ goal.status \in Open \union {"PAUSED"}
       /\ UserWrites([goal EXCEPT !.status = "CANCELLED"])

Chain ==
    /\ \E e \in Exec, to \in {"mined", "reverted"} :
         tx[e] = "flying" /\ tx' = [tx EXCEPT ![e] = to]
    /\ UNCHANGED <<goal, store, tick, seen>>

\* The function is killed; a throwing store call ends an evaluation alike.
Crash(t) ==
    /\ crashes < MaxCrashes
    /\ tick[t] # Idle
    /\ crashes' = crashes + 1
    /\ lease' = IF lease = t THEN "dead" ELSE lease
    /\ tick' = [tick EXCEPT ![t] = Idle]
    /\ UNCHANGED <<goal, claims, res, rec, late, tx, hashed, edits>>

\* The lease outlives the longest tick: only a dead one's lease expires.
LeaseExpires ==
    /\ lease = "dead"
    /\ lease' = "free"
    /\ UNCHANGED <<goal, claims, res, rec, late, tx, tick, seen>>

Evaluating(t) ==
    \/ Load(t) \/ CheckClaim(t) \/ TakeLease(t) \/ FreeLease(t)
    \/ CloseRead(t) \/ CloseClaim(t) \/ Close(t) \/ CloseRec(t)
    \/ Evaluate(t) \/ Park(t) \/ Claim(t) \/ Reserve(t)
    \/ HandleResult(t) \/ StoreCall(t) \/ DropClaim(t)
    \/ FailWrite(t) \/ Record(t) \/ Submit(t) \/ Reopen(t) \/ Resubmit(t)
    \/ Verify(t) \/ ReapRead(t) \/ ReapWrite(t)

Working(t) ==
    \/ Prepare(t) \/ Reread(t) \/ Mark(t) \/ Call(t)
    \/ Return(t) \/ LateResult(t) \/ LateSubmit(t) \/ LateReopen(t)
    \/ LateRecord(t)

Next ==
    \/ \E t \in Tick : \/ Evaluating(t) \/ Working(t)
                       \/ Send(t) \/ Deadline(t) \/ Crash(t)
    \/ LandsLate \/ User \/ Chain \/ LeaseExpires

Spec == Init /\ [][Next]_vars

-----------------------------------------------------------------------------
(* Properties.                                                             *)

\* Ticks run again and again (the cron fires every minute), none stays in a
\* call for ever (the platform kills it), and a dead tick's lease expires.
FairSpec ==
    /\ Spec
    /\ \A t \in Tick : WF_vars(Evaluating(t)) /\ WF_vars(Working(t))
    /\ WF_vars(LeaseExpires)

Terminal == {"COMPLETED", "FAILED", "EXPIRED", "CANCELLED"}
Busy == {"prepare", "mark", "call", "adapter", "sent"}
Step == {"verify", "check", "lease", "free", "closeRead", "closeClaim",
         "close", "closeRec", "reapRead", "reapWrite", "evaluate", "park",
         "strike", "claim", "reserve", "work", "relP", "relU",
         "markX", "commit", "drop", "dropNow", "failInfra", "failStrike",
         "rec", "recHash", "submit", "reopen", "resubmit"}
StoreCalls == {"mark", "markX", "commit", "relU", "relP", "drop"}
SnapshotType == [exec : 0..MaxSlot + 1, verified : Nat, hash : BOOLEAN]

TypeOK ==
    /\ goal \in [status : Open \union Terminal \union {"EXECUTING", "PAUSED"},
                 slot : 1..MaxSlot + 1, pending : {None} \union Exec,
                 attempts : 0..MaxVerify - 1, verified : Nat]
    /\ claims \subseteq Exec
    /\ lease \in Tick \union {"free", "dead"}
    /\ res \in [Exec -> {"none", "R", "A", "C", "X", "F"}]
    /\ rec \in [Exec -> {"none", "failed", "hash"}]
    /\ tx \in [Exec -> {"none", "flying", "mined", "reverted"}]
    /\ late \subseteq StoreCalls \X Exec
    /\ tick \in [Tick -> [main : Seq(Step),
                          work : Busy \union Result \union
                                 {"none", "lateSubmit", "lateReopen",
                                  "lateResubmit", "lateRec"},
                          fresh : SUBSET {"goal", "current"},
                          goal : SnapshotType, current : SnapshotType]]
    /\ hashed \subseteq Exec
    /\ edits \in Nat /\ crashes \in Nat

\* Two ticks never make an attempt for the same execution id, though the
\* first may still be at it in the background, its lease long given back.
OneAttemptPerSlot ==
    \A t, u \in Tick :
        /\ tick[t].work \in Busy /\ tick[u].work \in Busy
        /\ ExecOf(t) = ExecOf(u)
        => t = u

\* A goal waits for verification exactly when it holds a hash the adapter
\* returned, and the spend of that execution is counted.
PendingIsBroadcast ==
    /\ ~Legacy => (goal.status = "EXECUTING" <=> goal.pending # None)
    /\ goal.pending # None =>
         goal.pending \in hashed /\ res[goal.pending] \in {"A", "C", "X"}

\* Verification takes no lease, yet a mined trade counts once only: a tick
\* late with the verdict on one transaction never settles the next one.
VerifiedOnce == goal.verified <= Cardinality({e \in Exec : tx[e] = "mined"})

\* A goal the runtime or the user closed stays as it was closed, whatever a
\* slow tick, a late hash or a verification pass still write.
ClosedStaysClosed == [][goal.status \in Terminal => goal' = goal]_vars

\* What a live tick holds for execution e: the attempt, or its hash.
Holds(t, e) ==
    /\ ExecOf(t) = e
    /\ \/ At(t, "work") /\ tick[t].work \in Busy \union Result
       \/ \E step \in {"commit", "submit", "reopen", "resubmit"} : At(t, step)

\* closeUnresolvedBroadcast never closes a goal underneath a live tick.
NeverClosedUnderneath ==
    [][\A t, u \in Tick :
         At(t, "close") /\ goal.status # "FAILED" /\ goal'.status = "FAILED"
           => ~Holds(u, tick[t].current.exec)]_vars

\* The runtime drives the ledger as the ledger requires: what was broadcast
\* was marked first and is never released, and both caps hold.
Reservations == INSTANCE SpendReservations WITH
    Amount <- {1}, MaxDaily <- MaxActions,
    state <- res,
    amt <- [e \in Exec |-> IF res[e] = "none" THEN 0 ELSE 1],
    sent <- {e \in Exec : tx[e] # "none"},
    admitted <- [sum |-> 0, count |-> 0]
ImplementsReservations == Reservations!Spec

\* Also for an execution an older build left behind: what was broadcast is
\* counted, whatever the reap, a late store call or a killed tick do.
BroadcastStaysCounted ==
    \A e \in Exec : tx[e] # "none" => res[e] \in {"A", "C", "X"}

\* A tick killed after its claim does not strand the goal on its slot: some
\* later tick closes it, or it has moved on.
Stranded(e) == goal.status \in Open /\ goal.slot = e /\ e \in claims
SlotIsLeft == \A e \in Exec : Stranded(e) ~> ~Stranded(e)

\* A broadcast gets its verdict, or is given up on.
PendingIsSettled ==
    \A e \in Exec : goal.pending = e ~> goal.pending # e

=============================================================================
