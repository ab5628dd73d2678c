------------------------------ MODULE Staking ------------------------------
(***************************************************************************)
(* The staking pool: contracts/MPGRStaking.sol with its accrual math,      *)
(* contracts/libraries/RewardMath.sol.  One transaction is one action; a   *)
(* transaction that reverts changes nothing, so it is no step.  The token  *)
(* is a plain ERC-20 whose balance of the pool is `held`.                  *)
(***************************************************************************)
EXTENDS Integers, Amounts

CONSTANTS
    User,         \* accounts that stake
    Amount,       \* token amounts a caller may name
    Length,       \* durations the owner may name
    APR,          \* targets the owner may name, in units of 1/Unit
    MINIMUM_STAKE, REWARDS_DURATION, INITIAL_APR_BPS,
    MIN_APR_BPS, MAX_APR_BPS,
    Unit,         \* 10_000 basis points
    Year,         \* 365 days
    PRECISION,    \* 1e18
    MaxTime,      \* bound: the last timestamp
    MaxStaked,    \* bound: the tokens accounts stake at a time
    MaxFunded     \* bound: the tokens the owner ever funds

ASSUME StakingAssumption ==
    /\ IsFiniteSet(User)
    /\ {Amount, Length, APR} \subseteq SUBSET Nat
    /\ {MINIMUM_STAKE, MIN_APR_BPS, MAX_APR_BPS, INITIAL_APR_BPS,
        MaxTime, MaxStaked, MaxFunded} \subseteq Nat
    /\ {REWARDS_DURATION, Unit, Year, PRECISION} \subseteq Nat \ {0}

VARIABLES
    now,                     \* block.timestamp
    paused,
    rewardState,             \* the global checkpoint, a RewardState
    totalStaked,
    balanceOf,               \* the principal of each account
    userRewardPerTokenPaid,  \* how far each account is checkpointed
    rewards,                 \* checkpointed and unclaimed, per account
    rewardPoolBalance,
    currentAPRBps,
    held,                    \* the pool's balance of the token
    \* Observations the contract does not keep:
    emitted,                 \* what the schedule released while anyone staked
    paidOut                  \* rewards transferred to accounts

accounts == <<totalStaked, balanceOf>>
observed == <<emitted, paidOut>>
vars == <<now, paused, rewardState, totalStaked, balanceOf,
          userRewardPerTokenPaid, rewards, rewardPoolBalance, currentAPRBps,
          held, emitted, paidOut>>

RewardState == [rewardRate : Nat, periodFinish : Nat, lastUpdateTime : Nat,
                rewardPerTokenStored : Nat]

Init ==
    /\ now = 0
    /\ paused = FALSE
    /\ rewardState = [rewardRate |-> 0, periodFinish |-> 0,
                      lastUpdateTime |-> 0, rewardPerTokenStored |-> 0]
    /\ totalStaked = 0
    /\ balanceOf = [u \in User |-> 0]
    /\ userRewardPerTokenPaid = [u \in User |-> 0]
    /\ rewards = [u \in User |-> 0]
    /\ rewardPoolBalance = 0
    /\ currentAPRBps = 0
    /\ held = 0
    /\ emitted = 0
    /\ paidOut = 0

lastTimeRewardApplicable ==
    IF now < rewardState.periodFinish THEN now ELSE rewardState.periodFinish

rewardPerToken ==
    rewardState.rewardPerTokenStored +
        IF totalStaked = 0 THEN 0
        ELSE ((lastTimeRewardApplicable - rewardState.lastUpdateTime)
                 * rewardState.rewardRate * PRECISION) \div totalStaked

earned(u) ==
    (balanceOf[u] * (rewardPerToken - userRewardPerTokenPaid[u]))
        \div PRECISION + rewards[u]

\* Mutant: the checkpoint takes the time past the end of the schedule.
Checkpoint_PastEnd ==
    [rewardState EXCEPT !.rewardPerTokenStored = rewardPerToken,
                        !.lastUpdateTime = now]

\* updateReward, its global half: the schedule up to now is on the books.
Checkpoint ==
    [rewardState EXCEPT !.rewardPerTokenStored = rewardPerToken,
                        !.lastUpdateTime = lastTimeRewardApplicable]

\* Mutant: the account is not moved up to the checkpoint it was settled at.
Settle_Again(u) ==
    /\ rewards' = [rewards EXCEPT ![u] = earned(u)]
    /\ UNCHANGED userRewardPerTokenPaid

\* updateReward, its other half, in a transaction that pays nothing.
Settle(u) ==
    /\ rewards' = [rewards EXCEPT ![u] = earned(u)]
    /\ userRewardPerTokenPaid' =
           [userRewardPerTokenPaid EXCEPT ![u] = rewardPerToken]

\* Mutant: the check is against the pool's balance, the books are left alone.
Pay_FromBalance(u) ==
    /\ earned(u) <= held
    /\ rewards' = [rewards EXCEPT ![u] = 0]
    /\ userRewardPerTokenPaid' =
           [userRewardPerTokenPaid EXCEPT ![u] = rewardPerToken]
    /\ UNCHANGED rewardPoolBalance
    /\ paidOut' = paidOut + earned(u)

\* _payReward, after updateReward: whatever u earned, out of the reward pool.
Pay(u) ==
    /\ earned(u) <= rewardPoolBalance
    /\ rewards' = [rewards EXCEPT ![u] = 0]
    /\ userRewardPerTokenPaid' =
           [userRewardPerTokenPaid EXCEPT ![u] = rewardPerToken]
    /\ rewardPoolBalance' = rewardPoolBalance - earned(u)
    /\ paidOut' = paidOut + earned(u)

\* _unstake
Withdraw(u, a) ==
    /\ a > 0
    /\ a <= balanceOf[u]
    /\ balanceOf' = [balanceOf EXCEPT ![u] = @ - a]
    /\ totalStaked' = totalStaked - a

RateFor(staked, apr) == ((staked * apr) \div Unit) \div Year

\* The first stake after the target was set for an empty pool starts it.
Activates ==
    /\ rewardState.rewardRate = 0
    /\ currentAPRBps > 0
    /\ now < rewardState.periodFinish

Stake(u, a) ==
    LET rate == RateFor(totalStaked + a, currentAPRBps)
    IN  /\ ~paused
        /\ a > 0
        /\ a >= MINIMUM_STAKE
        /\ Activates => /\ rate > 0
                        /\ rate * (rewardState.periodFinish - now)
                               <= rewardPoolBalance
        /\ rewardState' = IF Activates
                          THEN [Checkpoint EXCEPT !.rewardRate = rate]
                          ELSE Checkpoint
        /\ Settle(u)
        /\ totalStaked' = totalStaked + a
        /\ balanceOf' = [balanceOf EXCEPT ![u] = @ + a]
        /\ held' = held + a
        /\ UNCHANGED <<now, paused, rewardPoolBalance, currentAPRBps, observed>>

Unstake(u, a) ==
    /\ Withdraw(u, a)
    /\ rewardState' = Checkpoint
    /\ Settle(u)
    /\ held' = held - a
    /\ UNCHANGED <<now, paused, rewardPoolBalance, currentAPRBps, observed>>

ClaimRewards(u) ==
    /\ earned(u) > 0
    /\ Pay(u)
    /\ rewardState' = Checkpoint
    /\ held' = held - earned(u)
    /\ UNCHANGED <<now, paused, accounts, currentAPRBps, emitted>>

\* The principal leaves with the reward, or neither does.
Exit(u) ==
    /\ Withdraw(u, balanceOf[u])
    /\ Pay(u)
    /\ rewardState' = Checkpoint
    /\ held' = held - balanceOf[u] - earned(u)
    /\ UNCHANGED <<now, paused, currentAPRBps, emitted>>

Fund(a) ==
    /\ rewardPoolBalance' = rewardPoolBalance + a
    /\ held' = held + a

\* The first funding starts the default schedule, as does one after the end.
Starts == rewardState.rewardRate = 0 \/ now >= rewardState.periodFinish

\* The only operation that moves the schedule without a checkpoint.
DepositRewards(a) ==
    LET rate == a \div REWARDS_DURATION
    IN  /\ a > 0
        /\ Fund(a)
        /\ IF Starts
           THEN /\ rate > 0
                /\ rewardState' =
                       [rewardState EXCEPT
                           !.rewardRate = rate,
                           !.periodFinish = now + REWARDS_DURATION,
                           !.lastUpdateTime = now]
                /\ currentAPRBps' = INITIAL_APR_BPS
           ELSE UNCHANGED <<rewardState, currentAPRBps>>
        /\ UNCHANGED <<now, paused, accounts, userRewardPerTokenPaid, rewards,
                       observed>>

Remaining == IF rewardState.periodFinish > now
             THEN rewardState.periodFinish - now ELSE 0

\* Mutant: the new rate is set without updateReward.
SetAPR_Unchecked(apr) ==
    LET rate == RateFor(totalStaked, apr)
    IN  /\ apr \in MIN_APR_BPS..MAX_APR_BPS
        /\ rate * Remaining <= rewardPoolBalance
        /\ currentAPRBps' = apr
        /\ rewardState' = [rewardState EXCEPT !.rewardRate = rate]
        /\ UNCHANGED <<now, paused, accounts, userRewardPerTokenPaid, rewards,
                       rewardPoolBalance, held, observed>>

SetAPR(apr) ==
    LET rate == RateFor(totalStaked, apr)
    IN  /\ apr \in MIN_APR_BPS..MAX_APR_BPS
        /\ rate * Remaining <= rewardPoolBalance
        /\ currentAPRBps' = apr
        /\ rewardState' = [Checkpoint EXCEPT !.rewardRate = rate]
        /\ UNCHANGED <<now, paused, accounts, userRewardPerTokenPaid, rewards,
                       rewardPoolBalance, held, observed>>

\* After the end of a schedule the checkpoint stays at that end, so that the
\* next schedule also releases its rate for the time in between.
Backdated(rate) ==
    IF totalStaked = 0 THEN 0 ELSE rate * (now - lastTimeRewardApplicable)

ExtendRewardSchedule(a, length) ==
    LET rate == (a + Remaining * rewardState.rewardRate) \div length
    IN  /\ a > 0
        /\ length > 0
        /\ rate > 0
        /\ now + length >= rewardState.periodFinish
        /\ rate * length <= rewardPoolBalance + a
        /\ rewardState' = [Checkpoint EXCEPT !.rewardRate = rate,
                                             !.periodFinish = now + length]
        /\ Fund(a)
        /\ emitted' = emitted + Backdated(rate)
        /\ UNCHANGED <<now, paused, accounts, userRewardPerTokenPaid, rewards,
                       currentAPRBps, paidOut>>

Pause ==
    /\ paused' = ~paused
    /\ UNCHANGED <<now, rewardState, accounts, userRewardPerTokenPaid, rewards,
                   rewardPoolBalance, currentAPRBps, held, observed>>

\* A block: the schedule releases its rate as long as somebody has staked.
Tick ==
    /\ now < MaxTime
    /\ now' = now + 1
    /\ emitted' = IF totalStaked > 0 /\ now < rewardState.periodFinish
                  THEN emitted + rewardState.rewardRate ELSE emitted
    /\ UNCHANGED <<paused, rewardState, accounts, userRewardPerTokenPaid,
                   rewards, rewardPoolBalance, currentAPRBps, held, paidOut>>

\* What callers can still bring in.
MayStake(a) == totalStaked + a <= MaxStaked
MayFund(a) == rewardPoolBalance + paidOut + a <= MaxFunded

Next ==
    \/ \E u \in User :
         \/ \E a \in Amount : (MayStake(a) /\ Stake(u, a)) \/ Unstake(u, a)
         \/ ClaimRewards(u)
         \/ Exit(u)
    \/ \E a \in Amount :
         /\ MayFund(a)
         /\ \/ DepositRewards(a)
            \/ \E length \in Length : ExtendRewardSchedule(a, length)
    \/ \E apr \in APR : SetAPR(apr)
    \/ Pause
    \/ Tick

Spec == Init /\ [][Next]_vars

-----------------------------------------------------------------------------
Owed == Total(User, [u \in User |-> earned(u)])

\* Type invariant; every account's checkpoint is behind the pool's, and the
\* pool's behind both the clock and the end of the schedule.  Were it ahead, a
\* subtraction would revert and no stake could be withdrawn.
TypeOK ==
    /\ now \in Nat
    /\ paused \in BOOLEAN
    /\ rewardState \in RewardState
    /\ {totalStaked, rewardPoolBalance, currentAPRBps, held, emitted, paidOut}
           \subseteq Nat
    /\ {balanceOf, userRewardPerTokenPaid, rewards} \subseteq [User -> Nat]
    /\ rewardState.lastUpdateTime <= lastTimeRewardApplicable
    /\ \A u \in User :
           userRewardPerTokenPaid[u] <= rewardState.rewardPerTokenStored

\* MPGRStaking.sol:81: rewards are never paid out of principal.  Whatever was
\* claimed, withdrawn or funded, the pool holds every account's stake beside
\* the whole reward pool, although both are the same token.
PrincipalIsCovered ==
    /\ totalStaked = Total(User, balanceOf)
    /\ held = totalStaked + rewardPoolBalance

\* However stakes, claims, rate changes and schedules interleave, the accounts
\* together get no more than the schedules released, rounding included.
RewardsWithinEmission == paidOut + Owed <= emitted

\* Account u gets all it has earned, at nobody's expense.
PaidUp(u) ==
    /\ paidOut' = paidOut + earned(u)
    /\ \A v \in User \ {u} : earned(v)' >= earned(v)

\* IMPGRStaking.sol:151, MPGRStaking.sol:311: nothing an account has earned is
\* lost, except by being paid out, or by a deposit that starts a schedule.
EarnedNeverDrops ==
    [][\/ \E a \in Amount : DepositRewards(a) /\ Starts
       \/ \A u \in User : earned(u)' >= earned(u) \/ PaidUp(u)]_vars

\* MPGRStaking.t.sol:68, testRewardsCannotExceedFundedPool.
RewardsAreFunded == Owed <= rewardPoolBalance

=============================================================================
