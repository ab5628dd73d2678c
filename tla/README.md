# MPGR-HUB: TLA+ models, model checking and proofs

MPGR-HUB is a Next.js application on Vercel with its state in Upstash Redis. It
trades autonomously for its users on Base, pays weekly game rewards from an
on-chain vault, and has staking, swap and executor contracts of its own. This
directory models the parts whose correctness depends on the *order* in which
concurrent, failing, serverless invocations touch shared state.

A module's comments say what each definition stands for; `PROJECT.json` maps
every definition to its source lines, every property to the mutant that breaks
it, and every hazard to the properties that watch it.

## 1. Inventory

### The autonomy subsystem (`lib/autonomy`, `app/api/agent/autonomy`)

| part | state | operations | what must hold |
|---|---|---|---|
| goal runtime (`runtime.ts`, `scheduler.ts`) | goal records, claims, leases, action records | a tick: evaluate, claim, reserve, mark, broadcast, record, verify, recover; the user: pause, resume, edit, cancel | one attempt per slot; a broadcast is verified once, never forgotten; closed goals stay closed; no goal is stranded |
| spend ledger (`day-ledger-scripts.ts`) | per policy and day: hash, fence, poisoned CSV, archive, write witness | Lua scripts: ensure/import, reserve, mark, commit, ambiguous, release, restore | totals exact under both caps; never undercounts, whatever keys are lost; broadcast spend is never released |
| delegated authorizations (`delegated-*.ts`, `lib/delegated`) | per slot a record and a meta, the wallet's list, a nonce registry; a guard in each process | save, revoke, select, gate, broadcast, consume | a slot is used at most once and for what it was signed, a revoked one not at all; the answer tells whether a transaction may exist |
| emergency switch (`emergency-switch.ts`) | one record, or none | operator writes; read twice per call | disabled means no new broadcast |
| policy, drafts, parsing | none, or drafts | pure checks; activation | deterministic decisions |

A cron fires the scheduler each minute and open browsers send heartbeats that
run the same code, so ticks overlap. A tick has a budget of 45 s (at least 30 s
for the broadcast) in a function of at most 120 s; its lease lasts 120 s, its
claim 24 h; store calls after the broadcast are given up on after 3 s. The
runtime calls the ledger around every broadcast; that contract is
`SpendReservations`.

### Game rewards (`app/api/games/mpgr-run`, `lib/reward-allocation`, `lib/reward-vault`)

| part | state | operations | what must hold |
|---|---|---|---|
| weekly settlement and reconciliation | settlement, player-week and outbox records, treasury ledger, global mutex | close, compute, claim, allocate on-chain, finalize; reconcile | one batch per week; player records and ledger agree with the batches; nobody is told of a reward that does not exist; a week is finalized only when it is paid (it is not: section 3); the budget holds (section 4) |
| sessions and run rewards (`server-session.ts`, three routes, `xp-ledger.ts`) | sessions, the wallet's live set, run records, player-week counts, XP counters | start, checkpoint, submit | a session counts once; caps hold under concurrency; a settled record is frozen |
| replay verifier | none | deterministic simulation | same result as the client |

The settlement cron runs on Mondays at 00:10 UTC, the reconciliation every day
at 06:15; an operator may call both, and follows the recovery runbook.

### Contracts, and the rest

| part | state | operations | what must hold |
|---|---|---|---|
| staking (`MPGRStaking.sol`) | checkpoints, principal, reward pool, one token balance | stake, unstake, claim, exit, fund, extend, re-rate | principal is never paid out as reward; accounts get no more than was released, and lose nothing they earned |
| delegated executor (`MPGRExecutorDelegated.sol`) | four allowlists, fee, pause; no balances of its own | trade by a signed permit; configure; rescue | wallets get what they signed for; only approved code is called; nothing stays behind |
| first executor, swap executors | the like, with native input and paths | trade; configure | not modelled |

Authentication (nonces, sessions), request guards (windows, budgets), x402
proposals, referrals, campaigns and the token refresh manager keep small states
of their own in Redis or in the browser. Routing, quoting, parsing, the MCP
adapters, the architecture console and the UI hold no protocol.
`PROJECT.json` lists every part with its reason.

## 2. Modules

    Amounts                    sums of amounts over finite sets
      SpendReservations        what a spend ledger promises    (abstract)
        DayLedger              the Redis scripts               implements it
        GoalRuntime            ticks driving a ledger          implements it
      Settlement               weekly settlement and reconciliation
      Staking                  the staking contract
      Executor                 the delegated executor contract
    Adapter                    what a call of executeSwap promises (abstract)
      Delegation               slots, switch, broadcaster      implements it
    GameSession                sessions, runs, XP of one wallet
    AmountsProofs, DayLedgerProofs, GoalRuntimeProofs,
    SettlementProofs, ExecutorProofs, StakingProofs,
    DelegationProofs, GameSessionProofs                       theorems
    MC*.tla, MC*.cfg                                           TLC instances

`SpendReservations` joins the two levels of autonomy: `DayLedger` shows that the
scripts keep the protocol for any caller that marks an execution before it
broadcasts; `GoalRuntime` shows that the runtime is such a caller, also when
its attempt markers time out and land late. `Adapter` joins the runtime with
what it calls: at most one transaction per call, none behind a refusal, one
behind a hash, and otherwise nothing is known. GoalRuntime is built on that
promise, and `Delegation` keeps it. GameSession and Settlement meet in the
player's record of a week: GameSession contains the settlement as four steps
(close, list, allocate), Settlement takes the counts as given.

**DayLedger.** Each script is atomic in Redis and is one action. Keys have
expiry days; they may expire, and the ones in `Losable` may be lost at any
time. The clock counts days; ticks of the day and of its midnight spill (day
1) use the ledger. Old writers append to the CSV the way the previous version
did (`FROZEN_LEGACY_CSV_APPEND_SCRIPT`). `book`, `granted` and `sent` are
observations the code does not keep: the last acknowledged state, the answers
given, the broadcasts. Not modelled: the decimal strings of amounts (small
naturals stand for them), corrupt hash fields, two callers of one execution id
(the claim in GoalRuntime excludes them).

**GoalRuntime.** A tick reads the goal and works through an agenda of awaited
calls, one action each; the broadcast work runs beside it, because it outlives
the time budget (`Deadline`) and its late result comes back without the lease.
Every goal write is a compare-and-set on the `updatedAt` the tick read
(`fresh`). ACTIVE and WAITING are one status, since every guard treats them
alike. Policy, condition and quote are nondeterministic; so is a refusal of the
ledger caused by other goals. The adapter is as `Adapter` promises. The user's
route is one atomic read and compare-and-set. Not modelled: the audit
log, equal `updatedAt` milliseconds, the day's end and the claim's 24 h expiry.

**Settlement.** A job is one invocation of either route. Settlement jobs take
the mutex (300 s, longer than the function's 120 s); reconciliation jobs take
none. A call may throw and a job may be killed anywhere. The chain mines or
reverts a batch at any time after it was sent, also after everybody stopped
waiting, and logs leave the queried window (2000 blocks) at any time. `orderly`,
chosen initially, tells two kinds of behaviours apart, and every run and theorem
is about both: in the orderly ones invocations end before the mutex expires, no
write lands after its job has failed, and no week is reset; in the others all of
that may happen. Some properties are promised only of the first. Reconciliation
lists the player records as they were written, or as the Redis client has
decoded them, with strings for amounts (`Listed`). Weights, player caps and the
dust floor are abstracted to what `computeAllocations` guarantees: any split
within the pool that gives nobody more than 1/`Shares` of it. Reward ids are
consecutive within a batch, so the position of the batch in the vault stands for
them. Reconciliation knows a reward by season, player and amount; `Season` gives
the vault season each week is paid in. An operator resets a stuck week when it is
"proven" that its batch will not be mined (docs/GAME_REWARDS_RUNBOOK.md:18), or
when its rewards are merely "unseen" on-chain so far
(docs/SETTLEMENT_RECOVERY_RUNBOOK.md, step 4). Not modelled: status "open", which
is never written; the recording of runs, which is GameSession's; the
authorization checks of the routes; `recordTreasuryLedgerEntry`, which nothing
calls.

**Delegation.** A call of `executeSwap` runs on a server: it reads the switch,
lists the slots, selects the usable one with the first index, reads it again
under the guard of its process, passes the chokepoint (switch and gate once
more), sends, and consumes the slot for the hash in at most two tries. Saving a
slot is five commands (claim the nonce, read the previous record, write record,
meta and list), any of which may fail, applied or not, and give the nonce back;
revocation is a read and a script. Every check that may refuse (flags, quote,
route, signature, expiry, posture, gas) is `Refuse`. A process dies with all its
calls. The chain ends with the node's answer, which may be lost. Requests of a
wallet overlap in any way, as nothing in the route prevents it. `overtaken` is
observed: the slots consumed or revoked while a request that had already checked
them was still to write them. Assumed: the Redis client applies a command at
most once; a revocation is asked for a slot that the list shows.

**GameSession.** One wallet. Creation counts the live sessions, stores the
session and adds it to the set, in three commands; a heartbeat reads the session
and writes it back later; a reward request loads the session, verifies the run,
inserts the run record if there is none, consumes the session, looks whether
the week is open, counts the run, lists the wallet for the week and awards XP.
Every request may stop after any of them. The replay and the validation are a
verdict (`ok`), taken before anything is written. Days end at any time, and the
settlement of a week closes it, lists the player's record, and later writes it
back with an allocation.

**Staking.** A transaction is an action, and time a clock of its own. Amounts are
naturals with the contract's own integer division, so the rounding of
`rewardPerToken` and `earned` is that of the code; widths are not modelled.
`emitted` is what the schedule released while anyone had staked. Left out:
`recoverERC20`, ownership, tokens sent to the pool directly.

**Executor.** A trade is an action of a broadcaster who chooses the permit, the
venue and whether to unwrap. The venue is arbitrary code: it pays any amount and
leaves any part of the input, and the last transfer may be taxed. Permit2 is the
set of permits `used`; a wallet's WETH and ETH are one balance. The owner's
transactions are actions; addresses are one set, so that an address can be
proposed in several roles. The router's allowance is not modelled: what the
venue has not taken is `left`, and a trade with any left reverts. Left out:
ownership, reentrancy (every entry point that moves money is `nonReentrant`),
the cancellation of a permit, MPGRExecutor.sol.

## 3. Runs

Every run has 2 workers and ends within 4 minutes. Deadlock checking is off:
goals are completed, slots, attempts, requests and permits run out, days end.
The bounds (slots, edits, crashes, attempts, days, changes) appear in guards and
are CONSTANTS. `delegation` and `settlement` have a state constraint as well,
named `Bounded` and explained there; the view `Live` of `settlement` merges the
states of a job that is about to leave and reads nothing of what it knew.

Passing:

| run | shows | bounds |
|---|---|---|
| `day_ledger` | totals exact, caps kept, nothing undercounted, no lockout without a loss, protocol kept | 2 executions, amounts 1–2, at most 3 units and 2 actions: two fit or collide; old writers; any key but the CSV may be lost; 3 days |
| `goal_runtime` | exclusive attempts, verdicts counted once, closed stays closed, no closing underneath, and the protocol kept with lost and late attempt markers | 2 ticks, 2 slots and trades, 1 edit |
| `goal_runtime_crash` | no slot is held and no pending verdict open for ever after a kill at any point, also for the goal an older build left EXECUTING | 2 ticks, 1 slot, 1 crash, 2 edits |
| `settlement` | one batch per week, on record, with overlapping jobs, late writes and resets on proof; in orderly behaviours records and ledger agree with the batch, and nobody is told of a reward that does not exist | 2 jobs, 1 week, 2 players, 2 attempts; not orderly: 1 eligible player, no aging of logs |
| `delegation` | the keys of a listed slot agree and no revoked slot is sent, but where a save was overtaken; only broadcasts consume; the promise of `Adapter` is kept | 2 calls on 2 servers, 2 overlapping requests, 2 slots of 1 goal (one each while the requests overlap); 1 revocation, kill or switch change |
| `game_session` | a session counts once, XP stays under its cap, a settled record is frozen | 2 sessions, 2 reward requests, 1 heartbeat; 1 live session and 1 XP run allowed; 2 days, each a week |
| `staking` | checkpoints stay behind the clock, principal is covered, no more is paid than released, nothing earned is lost | 2 accounts, at most 3 tokens staked and 3 funded, 3 blocks; precision 2, so that divisions round |
| `executor` | allowlists agree, wallets get what they signed for, only approved code is called | 5 addresses (2 tokens, a router, 2 modules), 2 permits, 3 changes by the owner, 1 change of code each, 1 token astray |

Two ticks (jobs, requests, calls) suffice for the races: each hazard is between
one that holds an outdated view and one that moved on; a third adds none of a
new kind. Two slots or attempts make "the next one" exist while the first is
unresolved; two servers, because the guard of a process excludes a second call
in it. Caps of one collide at two. One week means one batch in the vault: that
another week's batch is mined first, or taken for this one's, is covered by the
theorems only. A job that misses a log goes on like one that throws, so the
behaviours without aging lose nothing of a new kind. The ledger without old
writers, where the poison may be lost as well, is covered by the theorems, which
hold for every `Losable` the assumption allows. Releases and claim drops may
land late in GoalRuntime too (`Unreliable`), but two edits and two slots with
all of them are too large for a run.

Violations. Each run checks one statement of a comment or a document which the
code does not keep; `PROJECT.json` quotes it.

| run | statement | what happens instead |
|---|---|---|
| `delegation_revoke` | a hash once bound to a slot stays bound | a revocation that read the slot before its consumption writes the old record back |
| `delegation_overtaken` | revoked authorizations can never execute (INV-4) | a save that checked its slot before the revocation writes it active again after it, and the next run sends it |
| `settlement_unpaid` | a week is finalized only if every payable player is confirmed | amounts of decoded records are strings, and "5n" > 0n is false: nobody is payable, and the week is finalized unpaid, without a ledger entry |
| `staking_funded` | rewards cannot exceed the funded pool | a schedule extended after its predecessor's end releases its rate for the gap as well |

**Fairness.** GoalRuntime: ticks are started every minute and take no call for
ever (the platform kills the function), a dead tick's lease expires. Nothing is
assumed of the user or the chain. Settlement, Delegation, GameSession,
Staking and Executor assume none: a call may end anywhere, and nothing in them
has to happen.

## 4. Other disagreements

Between code and comments, met while modelling. The modules allow what is
described, and no run reports it.

Autonomy:

* a goal whose time budget ends during the adapter's call is parked and may be
  broadcast again, though "uncertain broadcasts are never re-submitted"
  (`runtime.ts:1182`, 23);
* the retry of `recordSubmittedGoal` is against a field edit (`runtime.ts:1330`),
  and may write stale statistics over a verdict (1341);
* the TTL of hash, fence and poison is said to be refreshed on every write; only
  the hash's and the witness's is (`Renewed`);
* a claim without a recorded hash is read as an interrupted tick; it may also be
  a refusal whose park lost to an edit;
* the action record that keeps an unwritable hash may be replaced by the late
  record of another attempt;
* "EXECUTING leaves the slot untouched", but it moves it;
* overlapping saves of one slot, besides what `delegation_overtaken` shows, can
  leave a listed slot whose record is consumed or revoked and whose meta is not,
  or the other way round; `ListedIsGoverned` excepts the slots `overtaken`;
* selection takes the first usable slot of the policy, then refuses it if it is
  another goal's or expired (`delegated-authorization.ts:157-203`), and never
  tries the next one; indexes of listed slots are never freed; a nonce claim
  that could not be given back blocks its slot for 31 days.

Game rewards:

* where `settlement_unpaid` happens after the batch was mined, the week's ledger
  entry is missing for good, as its amount is computed from nobody;
* a week left allocating has no ledger entry, and the next week's pool is
  computed from the budget its batch already took, although two settlements "can
  never both read the same remaining budget" (`allocation-store.ts:28`);
* a reset when rewards are merely unseen pays twice if the batch is still
  mined (`OperatorResets = "unseen"`);
* a retry from "computed" derives amounts again, and late writes of the first
  job (`~orderly`) may change what is pending;
* a player is confirmed by any reward of the season with the same user, amount
  and type (`settlement-reconciliation.ts:16-20`), that of another week included:
  with two weeks of a season a batch that was never sent is booked
  (docs/GAME_REWARDS_RUNBOOK.md:15 expects the week to remain allocating);
* reward ids come from the simulation, and shift when another batch is mined
  first: `AllocatedIsPaid` promises the reward at the recorded id or after it;
* reconciliation finds logs of the last 1999 blocks, about 67 minutes, and runs
  about six hours after the settlement: a week whose job did not live to see its
  batch mined is not finalized by it, unless an operator reconciles within the
  hour. That a mined week is finalized is therefore no property;
* the settlement writes back the player's record it listed: a run counted in
  between is lost (`settlement/route.ts:113`, 189-202);
* a heartbeat that overlaps the consumption of its session writes it back alive
  (`server-session.ts:121-130`); the run record is what keeps it from counting
  twice. Concurrent creations each count before the other adds, and exceed the
  limit of live sessions (53-58);
* a request that dies after its run record was inserted is not repeated: the
  retry is a duplicate, and the run never counts. One that dies between the count
  and the index leaves a counted record that no settlement lists.

Contracts:

* `depositRewards` restarts a finished schedule without `updateReward`
  (`MPGRStaking.sol:255-272`), and what accrued since the last checkpoint is lost
  (TASK2_DEPLOYMENT_ANALYSIS.md:55-66 describes it). `EarnedNeverDrops` excepts
  exactly this operation;
* the fee is not part of what a wallet signs: the broadcaster names
  `expectedFeeAmount`. A trade signed under the old fee therefore reverts only
  if its broadcaster repeats the old fee, while the comment on `setFeeBps`
  (`MPGRExecutorDelegated.sol:467-469`) says that it reverts. The server's own
  gate refuses any fee but 25 basis points (`mcp-trade-service.ts:1385`).

## 5. Proofs

TLAPS checks, for every value of the constants:

* **DayLedger** (`DayLedgerProofs`), from the assumptions named in the module:
  type correctness, every property of `day_ledger`, and the refinement of
  `SpendReservations`. The caps and totals are not inductive: what makes a
  *re-import* harmless is that a lost hash is never taken for a new day. The
  invariant `IInv` therefore says that a day is `Untouched` (no hash, fence or
  witness yet, nothing promised) or `Imported` (the witness or the poison
  still tells, and the imported sum is that of the old writers), that every key
  outlasts the day's ticks, and that what was granted or broadcast is still
  counted in `book`.
* **GoalRuntime** (`GoalRuntimeProofs`), for any ticks, slots, edits, crashes and
  `Unreliable` calls: type correctness, `ClosedStaysClosed`,
  `NeverClosedUnderneath`, `OneAttemptPerSlot`, `BroadcastStaysCounted`,
  `PendingIsBroadcast`, `VerifiedOnce`, and, but for goals of an older build
  (`~Legacy`), the refinement of `SpendReservations`. `IInv` has four parts, each
  inductive given those before it. `ControlInv`: the agendas a tick can be in,
  and that a tick past its lease step has the lease. `BroadcastInv`: an execution
  has one `Owner`, which has the claim, and no claim is dropped, now or late,
  once somebody may broadcast; a release is on its way only for an attempt that
  is over. `HashInv`: a hash is held by one tick or is the goal's. `VerdictInv`:
  what a goal, or a tick's outdated copy of it, counts as verified are mined
  trades *nobody waits for* (`Settled`), which is what makes a second verdict
  impossible though verification takes no lease. Ticks move in some fifty ways,
  all of which take the next step of an agenda; the lemmas on agendas turn a
  step into what it does to the tick, once for all four parts.
* **Sums** (`AmountsProofs`): `Total(S, f)` is the cardinality of a set of units,
  not a recursion, so that the facts about adding to and removing from a sum
  can be proved, and from them, by a smallest counterexample, that sums are
  linear and monotone.
* **Settlement** (`SettlementProofs`), for any jobs, weeks, seasons and players,
  for records read raw or decoded and any log window, and for an operator who
  waits for the proof (`OperatorResets # "unseen"`; the other one pays twice,
  section 4): type correctness, `AtMostOneBatch`, `BatchIsOnRecord` and
  `FinalStatusStays` in all behaviours, `RecordsMatchBatch`, `LedgerIsBatch` and
  `AllocatedIsPaid` in the orderly ones. None of the first is inductive: what
  excludes the second batch is *who may still send one*. The invariant `Inv`
  says that attempt ids are fresh (`Drawn`); that a job past the claim knows the
  attempt its week was taken with, and that the week is still taken
  (`OwnersKnow`); that an attempt has one claimant, and none once its batch is
  sent (`OneClaimant`), who has written the outbox record of its own week
  (`ClaimIsInOutbox`); and that a mined batch is mined once (`VaultIsMined`).
  Jobs move in some twenty ways; all but the steps of the chain and of the
  operator are instances of one lemma (`JobKeeps`): a step that keeps the
  attempt of every week taken, keeps the outbox record of every batch sent, and
  leaves a job a claimant only of what it claimed, keeps `Inv`.

  The second group adds, where `orderly`, two layers. `RecordsInv`: what a job has
  seen of a week it has not taken yet is still so, because it is alone with the
  mutex (`SawWeek`, `SawPlayers`), and from then on its amounts are those of the
  records and of its batch (`KnowsAmounts`); so `RecordsMatchBatch`, although
  amounts are computed again by every retry. `PaidInv`: an entry of the ledger
  presupposes a week that is taken, and is of its amounts (`Booked`), because a
  job about to book knows these or, from decoded records, nothing (`Books`); a
  player recorded as allocated presupposes a reward in the vault, at the recorded
  id or after it (`Told`), because the batch of a job that waits goes behind all
  that was there when it was simulated (`Placed`), and what reconciliation finds,
  be it another week's, is there.

* **Executor** (`ExecutorProofs`), for any wallets, addresses, permits and fees:
  the agreement of the allowlists (`TypeOK`), `SignedTradesOnly` and
  `OnlyApprovedCodeRuns`. The last needs `ApprovalsKept`: what the maps let a
  trade call is what the owner approved, and of a module the code it is pinned
  to; a trade then compares the pinned code with the code it calls.
* **Staking** (`StakingProofs`), for any accounts, amounts, rates and schedules:
  that no checkpoint is ahead of another (`TypeOK`), `PrincipalIsCovered`,
  `EarnedNeverDrops` and `RewardsWithinEmission`. The first two are inductive
  together. For the third, every transaction but a deposit takes its schedule
  over from a checkpoint (`FromCheckpoint`), and the accrual formula, rounding
  included, is monotone in the reward per token; what an account loses is what
  this account is paid (`PaidUp`). The fourth says nothing of what
  rounding drops, so it is not inductive: `EmissionInv` keeps the books in units
  of 1/PRECISION, where each account is `Due` its share undivided, and adds what
  the schedule released since the checkpoint (`Unbooked`). A checkpoint moves no
  more from `Unbooked` to the accounts than it holds (`AccruedIsReleased`), and
  what an account can claim is what it is due, rounded down (`EarnedIsDue`).

* **Delegation** (`DelegationProofs`), for any calls, processes, requests and
  slots, requests overlapping as they like: type correctness,
  `ConsumedIsBroadcast`, the refinement of `Adapter`, `ListedIsGoverned` and
  `OnlyOvertakenIsSent`. `IInv` carries what a process knows across its awaits:
  any copy of a record, in Redis, in a call about to consume or in a DELETE
  about to revoke, names as its consumer only a call that sent that slot
  (`Bound`). `SInv` adds, of every slot not `overtaken`, that revocations stick:
  a slot that a request has checked is still free or usable (`SaveOk`), and a
  call that read a slot as revoked finds it revoked when it writes (`FlightOk`);
  so no write that passes the meta undoes a revocation.

* **GameSession** (`GameSessionProofs`), for any sessions, requests, caps and
  days: `TypeOK`, `CountedOnce` and `FrozenStays`. A count alone does not tell
  which runs it counted, so the invariant bounds it by the records that no
  request is *about to* count (`Backed`): a request adds its session to that set
  in the step that counts it, and never a session that another request still
  credits, since the record is written once (`Alone`). A record that the
  settlement writes back was counted when it listed it (`WeekOk`).

Only model-checked: all liveness (`SlotIsLeft`, `PendingIsSettled`), which the
prover does not cover. Each violation is a
counterexample of TLC.

## 6. Plan

1. Settlement and GameSession composed through the player-week records; several
   wallets.
2. The swap executors (residual balances along a path) on the pattern of
   `Executor`; the first executor.
3. `Auth` (nonces, sessions), `RequestGuard` (windows), `Proposals` (x402),
   `Referral`, `Campaign`, `RefreshManager` (single flight).
4. `computeAllocations` as an operator over integers, against its promise that
   a split never exceeds the pool.

## 7. Not modelled

Parsing, prompts, routing, quoting and every page have no state whose order
matters. The replay verifier and the game engine are deterministic arithmetic
on floats. What is left of the protocols is in the plan. `PROJECT.json` gives the
reason for each part.
