---------------------------- MODULE StakingProofs ----------------------------
(***************************************************************************)
(* The staking pool keeps every stake beside its reward pool, no           *)
(* checkpoint runs ahead of the clock, no operation drops what was earned, *)
(* and the accounts get no more than was released: proved for all          *)
(* accounts, amounts, rates and schedules, without the bounds.             *)
(***************************************************************************)
EXTENDS Staking, AmountsProofs

-----------------------------------------------------------------------------
(* Arithmetic.                                                             *)

\* Naturals are closed under multiplication ...
LEMMA NatMul == \A x, y \in Nat : x * y \in Nat
OBVIOUS

\* ... and under division.
LEMMA NatDiv == \A x \in Nat, y \in Nat \ {0} : x \div y \in Nat
OBVIOUS

\* Both are monotone: a factor ...
LEMMA MulMono == \A x, y, z \in Nat : x <= y => x * z <= y * z /\ z * x <= z * y
OBVIOUS

\* ... and a dividend.
LEMMA DivMono ==
    ASSUME NEW x \in Nat, NEW y \in Nat, x <= y, NEW z \in Nat \ {0}
    PROVE  x \div z <= y \div z
OBVIOUS

\* Changing the amount of one account changes the sum by the difference.
LEMMA TotalChange ==
    ASSUME NEW f \in [User -> Nat], NEW u \in User, NEW v \in Nat
    PROVE  /\ Total(User, [f EXCEPT ![u] = v]) = Total(User, f) - f[u] + v
           /\ f[u] <= Total(User, f)
           /\ Total(User, f) \in Nat
<1> DEFINE g == [f EXCEPT ![u] = v]
           rest == Total(User \ {u}, f)
<1>1. IsFiniteSet(User) /\ IsFiniteSet(User \ {u})
  BY StakingAssumption, FS_RemoveElement
<1>2. g \in [User -> Nat] /\ g[u] = v
  OBVIOUS
<1>3. Total(User, f) = rest + f[u]
  BY <1>1, TotalRemove
<1>4. Total(User, g) = Total(User \ {u}, g) + g[u]
  <2> HIDE DEF g
  <2> QED BY <1>1, <1>2, TotalRemove
<1>5. Total(User \ {u}, g) = rest
  BY TotalSame
<1>6. rest \in Nat
  BY <1>1, TotalType
<1> HIDE DEF g, rest
<1> QED BY <1>2, <1>3, <1>4, <1>5, <1>6 DEF g

-----------------------------------------------------------------------------
(* What has accrued in a state.                                            *)

\* The part of rewardPerToken that is not on the books yet.
Accrued(elapsed) ==
    IF totalStaked = 0 THEN 0
    ELSE (elapsed * rewardState.rewardRate * PRECISION) \div totalStaked

\* What accrues is a natural number.
LEMMA AccruedTyped ==
    ASSUME TypeOK, NEW e \in Nat
    PROVE  Accrued(e) \in Nat
<1>1. rewardState.rewardRate \in Nat /\ PRECISION \in Nat /\ totalStaked \in Nat
  BY StakingAssumption DEF TypeOK, RewardState
<1>2. e * rewardState.rewardRate \in Nat
  BY <1>1, NatMul
<1>3. e * rewardState.rewardRate * PRECISION \in Nat
  BY <1>1, <1>2, NatMul
<1> QED BY <1>1, <1>3, NatDiv DEF Accrued

\* The schedule is behind the clock and its own end, the checkpoint behind it.
LEMMA Clock ==
    ASSUME TypeOK
    PROVE  /\ lastTimeRewardApplicable \in Nat
           /\ lastTimeRewardApplicable <= now
           /\ lastTimeRewardApplicable <= rewardState.periodFinish
           /\ lastTimeRewardApplicable - rewardState.lastUpdateTime \in Nat
BY DEF TypeOK, RewardState, lastTimeRewardApplicable

\* The reward per token is ahead of every checkpoint.
LEMMA RewardPerTokenTyped ==
    ASSUME TypeOK
    PROVE  /\ rewardPerToken \in Nat
           /\ rewardState.rewardPerTokenStored <= rewardPerToken
           /\ \A u \in User : userRewardPerTokenPaid[u] <= rewardPerToken
<1>1. rewardPerToken = rewardState.rewardPerTokenStored
          + Accrued(lastTimeRewardApplicable - rewardState.lastUpdateTime)
  BY DEF rewardPerToken, Accrued
<1>2. Accrued(lastTimeRewardApplicable - rewardState.lastUpdateTime) \in Nat
  BY Clock, AccruedTyped
<1>3. rewardState.rewardPerTokenStored \in Nat
  BY DEF TypeOK, RewardState
<1>4. rewardPerToken \in Nat /\ rewardState.rewardPerTokenStored <= rewardPerToken
  BY <1>1, <1>2, <1>3
<1> QED BY <1>3, <1>4 DEF TypeOK

\* What an account earned is a natural number: no subtraction reverts.
LEMMA EarnedTyped ==
    ASSUME TypeOK, NEW u \in User
    PROVE  earned(u) \in Nat
<1>1. rewardPerToken - userRewardPerTokenPaid[u] \in Nat
  BY RewardPerTokenTyped DEF TypeOK
<1>2. balanceOf[u] \in Nat /\ rewards[u] \in Nat
  BY DEF TypeOK
<1>3. balanceOf[u] * (rewardPerToken - userRewardPerTokenPaid[u]) \in Nat
  BY <1>1, <1>2, NatMul
<1>4. (balanceOf[u] * (rewardPerToken - userRewardPerTokenPaid[u]))
          \div PRECISION \in Nat
  BY <1>3, NatDiv, StakingAssumption
<1> QED BY <1>2, <1>4 DEF earned

\* What a checkpoint leaves of the schedule, and what it moves.
LEMMA CheckpointTyped ==
    ASSUME TypeOK
    PROVE  /\ Checkpoint \in RewardState
           /\ Checkpoint.rewardRate = rewardState.rewardRate
           /\ Checkpoint.periodFinish = rewardState.periodFinish
           /\ Checkpoint.rewardPerTokenStored = rewardPerToken
           /\ Checkpoint.lastUpdateTime = lastTimeRewardApplicable
BY Clock, RewardPerTokenTyped DEF Checkpoint, TypeOK, RewardState

\* A rate is a natural number.
LEMMA RateTyped ==
    ASSUME NEW s \in Nat, NEW apr \in Nat
    PROVE  RateFor(s, apr) \in Nat
<1>1. (s * apr) \div Unit \in Nat
  BY NatMul, NatDiv, StakingAssumption
<1> QED BY <1>1, NatDiv, StakingAssumption DEF RateFor

-----------------------------------------------------------------------------
(* The inductive invariant.                                                *)

IInv == TypeOK /\ PrincipalIsCovered

\* At first nothing is staked, funded or owed.
LEMMA InitOk == Init => IInv
<1> SUFFICES ASSUME Init PROVE IInv
  OBVIOUS
<1>1. TypeOK
  <2>1. rewardState \in RewardState /\ lastTimeRewardApplicable = 0
    BY DEF Init, RewardState, lastTimeRewardApplicable
  <2>2. {balanceOf, userRewardPerTokenPaid, rewards} \subseteq [User -> Nat]
    BY DEF Init
  <2>3. /\ rewardState.lastUpdateTime <= lastTimeRewardApplicable
        /\ \A u \in User :
             userRewardPerTokenPaid[u] <= rewardState.rewardPerTokenStored
    BY <2>1 DEF Init
  <2>4. {totalStaked, rewardPoolBalance, currentAPRBps, held, emitted, paidOut}
            \subseteq Nat
    BY DEF Init
  <2> QED BY <2>1, <2>2, <2>3, <2>4 DEF Init, TypeOK
<1>2. Total(User, balanceOf) = 0
  <2>1. Units(User, balanceOf) = {}
    BY DEF Init, Units
  <2> QED BY <2>1, FS_EmptySet DEF Total
<1> QED BY <1>1, <1>2 DEF IInv, PrincipalIsCovered, Init

\* A new state of the schedule, taken over from a checkpoint.
FromCheckpoint ==
    /\ now' = now
    /\ rewardState' \in RewardState
    /\ rewardState'.rewardPerTokenStored = rewardPerToken
    /\ rewardState'.lastUpdateTime = lastTimeRewardApplicable
    /\ rewardState'.periodFinish >= rewardState.periodFinish

\* After it no checkpoint is ahead: neither the pool's nor, if they are as
\* before or have just been settled, the accounts'.
LEMMA CheckpointsKept ==
    ASSUME TypeOK, FromCheckpoint,
           \A v \in User : userRewardPerTokenPaid'[v]
                               \in {userRewardPerTokenPaid[v], rewardPerToken}
    PROVE  /\ rewardState'.lastUpdateTime <= lastTimeRewardApplicable'
           /\ \A v \in User :
                userRewardPerTokenPaid'[v] <= rewardState'.rewardPerTokenStored
<1>1. rewardState'.lastUpdateTime <= lastTimeRewardApplicable'
  BY Clock DEF FromCheckpoint, TypeOK, RewardState, lastTimeRewardApplicable
<1> QED BY <1>1, RewardPerTokenTyped DEF FromCheckpoint

\* A stake is added to both sums, after a checkpoint.
LEMMA StakeOk ==
    ASSUME IInv, NEW u \in User, NEW a \in Nat, Stake(u, a)
    PROVE  IInv' /\ FromCheckpoint
<1>1. /\ earned(u) \in Nat /\ rewardPerToken \in Nat /\ totalStaked \in Nat
      /\ balanceOf \in [User -> Nat] /\ balanceOf[u] \in Nat
      /\ held \in Nat /\ rewardPoolBalance \in Nat /\ currentAPRBps \in Nat
  BY EarnedTyped, RewardPerTokenTyped DEF IInv, TypeOK
<1>2. FromCheckpoint
  <2>1. RateFor(totalStaked + a, currentAPRBps) \in Nat
    <3>1. totalStaked + a \in Nat
      BY <1>1
    <3> QED BY <3>1, <1>1, RateTyped
  <2> QED BY <2>1, CheckpointTyped DEF Stake, IInv, FromCheckpoint, RewardState
<1>3. TypeOK'
  <2>1. /\ rewards' \in [User -> Nat] /\ userRewardPerTokenPaid' \in [User -> Nat]
        /\ \A v \in User : userRewardPerTokenPaid'[v]
                               \in {userRewardPerTokenPaid[v], rewardPerToken}
    BY <1>1 DEF Stake, Settle, IInv, TypeOK
  <2>2. /\ rewardState'.lastUpdateTime <= lastTimeRewardApplicable'
        /\ \A v \in User :
             userRewardPerTokenPaid'[v] <= rewardState'.rewardPerTokenStored
    BY <1>2, <2>1, CheckpointsKept DEF IInv
  <2>3. rewardState' \in RewardState
    BY <1>2 DEF FromCheckpoint
  <2> QED BY <1>1, <2>1, <2>2, <2>3 DEF Stake, IInv, TypeOK, observed
<1>4. PrincipalIsCovered'
  <2>1. balanceOf' = [balanceOf EXCEPT ![u] = balanceOf[u] + a]
    BY DEF Stake
  <2>2. Total(User, balanceOf') = totalStaked - balanceOf[u] + (balanceOf[u] + a)
    <3>1. balanceOf[u] + a \in Nat
      BY <1>1
    <3> QED BY <3>1, <1>1, <2>1, TotalChange DEF IInv, PrincipalIsCovered
  <2>3. totalStaked' = Total(User, balanceOf')
    BY <2>2, <1>1 DEF Stake
  <2>4. held' = totalStaked' + rewardPoolBalance'
    BY <1>1 DEF Stake, IInv, PrincipalIsCovered
  <2> QED BY <2>3, <2>4 DEF PrincipalIsCovered
<1> QED BY <1>2, <1>3, <1>4 DEF IInv

\* _unstake takes no more than the account's stake off both sums.
LEMMA WithdrawOk ==
    ASSUME IInv, NEW u \in User, NEW a \in Nat, Withdraw(u, a)
    PROVE  /\ balanceOf' \in [User -> Nat] /\ totalStaked' \in Nat
           /\ totalStaked' = Total(User, balanceOf')
           /\ totalStaked' = totalStaked - a
<1>1. balanceOf \in [User -> Nat] /\ a <= balanceOf[u] /\ totalStaked \in Nat
  BY DEF IInv, TypeOK, Withdraw
<1>2. balanceOf[u] - a \in Nat
  BY <1>1
<1>3. balanceOf' = [balanceOf EXCEPT ![u] = balanceOf[u] - a]
  BY DEF Withdraw
<1>4. /\ Total(User, balanceOf') = totalStaked - balanceOf[u] + (balanceOf[u] - a)
      /\ balanceOf[u] <= totalStaked
  BY <1>1, <1>2, <1>3, TotalChange DEF IInv, PrincipalIsCovered
<1> QED BY <1>1, <1>2, <1>3, <1>4 DEF Withdraw

\* A transaction that checkpoints, and settles or pays account u.
LEMMA PayoutOk ==
    ASSUME IInv, NEW u \in User, UNCHANGED now, rewardState' = Checkpoint,
           rewards' \in [User -> Nat],
           userRewardPerTokenPaid' =
               [userRewardPerTokenPaid EXCEPT ![u] = rewardPerToken]
    PROVE  /\ FromCheckpoint
           /\ rewardState' \in RewardState
           /\ userRewardPerTokenPaid' \in [User -> Nat]
           /\ rewardState'.lastUpdateTime <= lastTimeRewardApplicable'
           /\ \A v \in User :
                userRewardPerTokenPaid'[v] <= rewardState'.rewardPerTokenStored
<1>1. FromCheckpoint
  BY CheckpointTyped DEF IInv, FromCheckpoint, RewardState
<1>2. rewardPerToken \in Nat
  BY RewardPerTokenTyped DEF IInv
<1>3. /\ userRewardPerTokenPaid' \in [User -> Nat]
      /\ \A v \in User : userRewardPerTokenPaid'[v]
                             \in {userRewardPerTokenPaid[v], rewardPerToken}
  BY <1>2 DEF IInv, TypeOK
<1> QED BY <1>1, <1>3, CheckpointsKept DEF IInv, FromCheckpoint

\* An unstaked amount leaves the books and the balance.
LEMMA UnstakeOk ==
    ASSUME IInv, NEW u \in User, NEW a \in Nat, Unstake(u, a)
    PROVE  IInv' /\ FromCheckpoint
<1>1. rewards' \in [User -> Nat]
  BY EarnedTyped DEF Unstake, Settle, IInv, TypeOK
<1>2. /\ balanceOf' \in [User -> Nat] /\ totalStaked' \in Nat
      /\ totalStaked' = Total(User, balanceOf') /\ totalStaked' = totalStaked - a
  BY WithdrawOk DEF Unstake
<1>3. held' = totalStaked' + rewardPoolBalance' /\ held' \in Nat
  BY <1>2 DEF Unstake, IInv, TypeOK, PrincipalIsCovered
<1>4. /\ FromCheckpoint
      /\ rewardState' \in RewardState
      /\ userRewardPerTokenPaid' \in [User -> Nat]
      /\ rewardState'.lastUpdateTime <= lastTimeRewardApplicable'
      /\ \A v \in User :
           userRewardPerTokenPaid'[v] <= rewardState'.rewardPerTokenStored
  BY <1>1, PayoutOk DEF Unstake, Settle
<1>5. TypeOK'
  BY <1>1, <1>2, <1>3, <1>4 DEF Unstake, IInv, TypeOK, observed
<1> QED BY <1>2, <1>3, <1>4, <1>5 DEF IInv, PrincipalIsCovered

\* A claim leaves the reward pool and the balance.
LEMMA ClaimOk ==
    ASSUME IInv, NEW u \in User, ClaimRewards(u)
    PROVE  IInv' /\ FromCheckpoint
<1>1. earned(u) \in Nat /\ earned(u) <= rewardPoolBalance
  BY EarnedTyped DEF ClaimRewards, Pay, IInv
<1>2. rewards' \in [User -> Nat]
  BY DEF ClaimRewards, Pay, IInv, TypeOK
<1>3. /\ rewardPoolBalance' \in Nat /\ paidOut' \in Nat /\ held' \in Nat
      /\ held' = totalStaked + rewardPoolBalance'
  BY <1>1 DEF ClaimRewards, Pay, IInv, TypeOK, PrincipalIsCovered
<1>4. /\ FromCheckpoint
      /\ rewardState' \in RewardState
      /\ userRewardPerTokenPaid' \in [User -> Nat]
      /\ rewardState'.lastUpdateTime <= lastTimeRewardApplicable'
      /\ \A v \in User :
           userRewardPerTokenPaid'[v] <= rewardState'.rewardPerTokenStored
  BY <1>2, PayoutOk DEF ClaimRewards, Pay
<1>5. TypeOK'
  BY <1>2, <1>3, <1>4 DEF ClaimRewards, IInv, TypeOK, accounts
<1> QED BY <1>3, <1>4, <1>5
           DEF ClaimRewards, IInv, PrincipalIsCovered, accounts

\* An exit takes both, each out of its own part.
LEMMA ExitOk ==
    ASSUME IInv, NEW u \in User, Exit(u)
    PROVE  IInv' /\ FromCheckpoint
<1>1. /\ earned(u) \in Nat /\ earned(u) <= rewardPoolBalance
      /\ balanceOf[u] \in Nat
  BY EarnedTyped DEF Exit, Pay, IInv, TypeOK
<1>2. rewards' \in [User -> Nat]
  BY DEF Exit, Pay, IInv, TypeOK
<1>3. /\ balanceOf' \in [User -> Nat] /\ totalStaked' \in Nat
      /\ totalStaked' = Total(User, balanceOf')
      /\ totalStaked' = totalStaked - balanceOf[u]
  BY <1>1, WithdrawOk DEF Exit
<1>4. /\ rewardPoolBalance' \in Nat /\ paidOut' \in Nat /\ held' \in Nat
      /\ held' = totalStaked' + rewardPoolBalance'
  BY <1>1, <1>3 DEF Exit, Pay, IInv, TypeOK, PrincipalIsCovered
<1>5. /\ FromCheckpoint
      /\ rewardState' \in RewardState
      /\ userRewardPerTokenPaid' \in [User -> Nat]
      /\ rewardState'.lastUpdateTime <= lastTimeRewardApplicable'
      /\ \A v \in User :
           userRewardPerTokenPaid'[v] <= rewardState'.rewardPerTokenStored
  BY <1>2, PayoutOk DEF Exit, Pay
<1>6. TypeOK'
  BY <1>2, <1>3, <1>4, <1>5 DEF Exit, IInv, TypeOK
<1> QED BY <1>3, <1>4, <1>5, <1>6 DEF IInv, PrincipalIsCovered

\* A deposit is added to the reward pool; the schedule it may start begins now.
LEMMA DepositOk ==
    ASSUME IInv, NEW a \in Nat, DepositRewards(a)
    PROVE  IInv'
<1>1. /\ rewardPoolBalance' \in Nat /\ held' \in Nat
      /\ held' = totalStaked + rewardPoolBalance'
  BY DEF DepositRewards, Fund, IInv, TypeOK, PrincipalIsCovered
<1>2. /\ rewardState' \in RewardState /\ currentAPRBps' \in Nat
      /\ rewardState'.lastUpdateTime <= lastTimeRewardApplicable'
      /\ rewardState'.rewardPerTokenStored = rewardState.rewardPerTokenStored
  <2>1. CASE Starts
    <3> DEFINE rate == a \div REWARDS_DURATION
    <3>1. rate \in Nat /\ REWARDS_DURATION \in Nat /\ now \in Nat
      BY NatDiv, StakingAssumption DEF IInv, TypeOK
    <3>2. INITIAL_APR_BPS \in Nat
      BY StakingAssumption
    <3>3. /\ rewardState' = [rewardState EXCEPT
                                !.rewardRate = rate,
                                !.periodFinish = now + REWARDS_DURATION,
                                !.lastUpdateTime = now]
          /\ currentAPRBps' = INITIAL_APR_BPS /\ now' = now
      BY <2>1 DEF DepositRewards
    <3> HIDE DEF rate
    <3>4. /\ rewardState' \in RewardState /\ rewardState'.lastUpdateTime = now
          /\ rewardState'.periodFinish = now + REWARDS_DURATION
          /\ rewardState'.rewardPerTokenStored = rewardState.rewardPerTokenStored
      <4>1. rewardState \in RewardState /\ now + REWARDS_DURATION \in Nat
        BY <3>1 DEF IInv, TypeOK
      <4>2. rewardState' \in RewardState
        BY <4>1, <3>1, <3>3 DEF RewardState
      <4> QED BY <4>1, <4>2, <3>3 DEF RewardState
    <3>5. lastTimeRewardApplicable' = now
      BY <3>1, <3>3, <3>4 DEF lastTimeRewardApplicable
    <3> QED BY <3>1, <3>2, <3>3, <3>4, <3>5
  <2>2. CASE ~Starts
    BY <2>2 DEF DepositRewards, IInv, TypeOK, lastTimeRewardApplicable
  <2> QED BY <2>1, <2>2
<1>3. TypeOK'
  BY <1>1, <1>2 DEF DepositRewards, IInv, TypeOK, accounts, observed
<1> QED BY <1>1, <1>3 DEF DepositRewards, IInv, PrincipalIsCovered, accounts

\* A new target only changes the rate, after a checkpoint.
LEMMA SetAPROk ==
    ASSUME IInv, NEW apr \in Nat, SetAPR(apr)
    PROVE  IInv' /\ FromCheckpoint
<1>1. RateFor(totalStaked, apr) \in Nat
  BY RateTyped DEF IInv, TypeOK
<1>2. FromCheckpoint
  BY <1>1, CheckpointTyped DEF SetAPR, IInv, FromCheckpoint, RewardState
<1>3. /\ rewardState' \in RewardState
      /\ rewardState'.lastUpdateTime <= lastTimeRewardApplicable'
      /\ \A v \in User :
           userRewardPerTokenPaid'[v] <= rewardState'.rewardPerTokenStored
  BY <1>2, CheckpointsKept DEF SetAPR, IInv, FromCheckpoint
<1>4. TypeOK'
  BY <1>3 DEF SetAPR, IInv, TypeOK, accounts, observed
<1> QED BY <1>2, <1>4 DEF SetAPR, IInv, PrincipalIsCovered, accounts

\* An extended schedule ends no earlier, and goes on from a checkpoint.
LEMMA ExtendOk ==
    ASSUME IInv, NEW a \in Nat, NEW length \in Nat, ExtendRewardSchedule(a, length)
    PROVE  IInv' /\ FromCheckpoint
<1> DEFINE rate == (a + Remaining * rewardState.rewardRate) \div length
<1>1. rate \in Nat
  <2>1. Remaining \in Nat /\ rewardState.rewardRate \in Nat
    BY DEF Remaining, IInv, TypeOK, RewardState
  <2>2. a + Remaining * rewardState.rewardRate \in Nat
    BY <2>1, NatMul
  <2> QED BY <2>2, NatDiv DEF ExtendRewardSchedule
<1>2. now + length \in Nat /\ now + length >= rewardState.periodFinish
  BY DEF ExtendRewardSchedule, IInv, TypeOK
<1>3. rewardState' = [Checkpoint EXCEPT !.rewardRate = rate,
                                        !.periodFinish = now + length]
  BY DEF ExtendRewardSchedule
<1>4. FromCheckpoint
  <2> HIDE DEF rate
  <2>1. now' = now
    BY DEF ExtendRewardSchedule
  <2> QED BY <2>1, <1>1, <1>2, <1>3, CheckpointTyped
          DEF IInv, FromCheckpoint, RewardState
<1>5. /\ rewardState' \in RewardState
      /\ rewardState'.lastUpdateTime <= lastTimeRewardApplicable'
      /\ \A v \in User :
           userRewardPerTokenPaid'[v] <= rewardState'.rewardPerTokenStored
  BY <1>4, CheckpointsKept DEF ExtendRewardSchedule, IInv, FromCheckpoint
<1>6. emitted' \in Nat
  <2> HIDE DEF rate
  <2>1. now - lastTimeRewardApplicable \in Nat
    BY Clock DEF IInv, TypeOK
  <2>2. rate * (now - lastTimeRewardApplicable) \in Nat
    BY <1>1, <2>1, NatMul
  <2>3. Backdated(rate) \in Nat
    BY <2>2 DEF Backdated
  <2>4. emitted' = emitted + Backdated(rate)
    BY DEF ExtendRewardSchedule, rate
  <2> QED BY <2>3, <2>4 DEF IInv, TypeOK
<1>7. /\ rewardPoolBalance' \in Nat /\ held' \in Nat
      /\ held' = totalStaked + rewardPoolBalance'
  BY DEF ExtendRewardSchedule, Fund, IInv, TypeOK, PrincipalIsCovered
<1>8. TypeOK'
  BY <1>5, <1>6, <1>7 DEF ExtendRewardSchedule, IInv, TypeOK, accounts
<1> QED BY <1>4, <1>7, <1>8
        DEF ExtendRewardSchedule, IInv, PrincipalIsCovered, accounts

\* Time passes, and no checkpoint moves.
LEMMA TickOk ==
    ASSUME IInv, Tick
    PROVE  IInv'
<1>1. rewardState.lastUpdateTime <= lastTimeRewardApplicable'
  BY DEF Tick, IInv, TypeOK, RewardState, lastTimeRewardApplicable
<1>2. now' \in Nat /\ emitted' \in Nat
  BY DEF Tick, IInv, TypeOK, RewardState
<1>3. TypeOK'
  BY <1>1, <1>2 DEF Tick, IInv, TypeOK, accounts
<1> QED BY <1>3 DEF Tick, IInv, PrincipalIsCovered, accounts

\* Pausing, or doing nothing.
LEMMA NothingOk ==
    ASSUME IInv, Pause \/ UNCHANGED vars
    PROVE  IInv'
<1>1. /\ UNCHANGED <<now, rewardState, totalStaked, balanceOf, rewards,
                     userRewardPerTokenPaid, rewardPoolBalance, currentAPRBps,
                     held, emitted, paidOut>>
      /\ paused' \in BOOLEAN
  BY DEF Pause, vars, accounts, observed, IInv, TypeOK
<1> QED BY <1>1 DEF IInv, TypeOK, PrincipalIsCovered, lastTimeRewardApplicable

\* The values the operations are called with are numbers.
LEMMA Inputs ==
    /\ \A a \in Amount : a \in Nat
    /\ \A length \in Length : length \in Nat
    /\ \A apr \in APR : apr \in Nat
BY StakingAssumption

\* Every transaction and every block keeps the invariant.
LEMMA StepOk == IInv /\ [Next]_vars => IInv'
<1> SUFFICES ASSUME IInv, [Next]_vars PROVE IInv'
  OBVIOUS
<1>1. CASE \E u \in User : \/ \E a \in Amount : \/ MayStake(a) /\ Stake(u, a)
                                              \/ Unstake(u, a)
                           \/ ClaimRewards(u)
                           \/ Exit(u)
  BY <1>1, Inputs, StakeOk, UnstakeOk, ClaimOk, ExitOk
<1>2. CASE \E a \in Amount :
             /\ MayFund(a)
             /\ \/ DepositRewards(a)
                \/ \E length \in Length : ExtendRewardSchedule(a, length)
  BY <1>2, Inputs, DepositOk, ExtendOk
<1>3. CASE \E apr \in APR : SetAPR(apr)
  BY <1>3, Inputs, SetAPROk
<1>4. CASE Tick
  BY <1>4, TickOk
<1>5. CASE Pause \/ UNCHANGED vars
  BY <1>5, NothingOk
<1> QED BY <1>1, <1>2, <1>3, <1>4, <1>5 DEF Next

-----------------------------------------------------------------------------
(* What an account has earned.                                             *)

\* What RewardPerTokenTyped says of a state holds of the next one too.
LEMMA RewardPerTokenBound ==
    TypeOK => /\ rewardPerToken \in Nat
              /\ rewardState.rewardPerTokenStored <= rewardPerToken
BY RewardPerTokenTyped

\* ... in the form the steps below need.
LEMMA NextRewardPerToken ==
    ASSUME TypeOK'
    PROVE  /\ rewardPerToken' \in Nat
           /\ rewardState'.rewardPerTokenStored <= rewardPerToken'
<1>1. (/\ rewardPerToken \in Nat
       /\ rewardState.rewardPerTokenStored <= rewardPerToken)'
  BY RewardPerTokenBound, PTL
<1> QED BY <1>1

\* The accrual formula never falls as the reward per token rises.
LEMMA AccrualMono ==
    ASSUME NEW b \in Nat, NEW paid \in Nat, NEW x \in Nat, NEW y \in Nat,
           paid <= x, x <= y
    PROVE  (b * (x - paid)) \div PRECISION <= (b * (y - paid)) \div PRECISION
<1> DEFINE d == x - paid
           e == y - paid
<1>1. d \in Nat /\ e \in Nat /\ d <= e
  OBVIOUS
<1> HIDE DEF d, e
<1>2. b * d \in Nat /\ b * e \in Nat /\ b * d <= b * e
  BY <1>1, NatMul, MulMono
<1>3. (b * d) \div PRECISION <= (b * e) \div PRECISION
  BY <1>2, DivMono, StakingAssumption
<1> QED BY <1>3 DEF d, e

\* An account that is left alone keeps what it earned, whatever is checkpointed.
LEMMA LeftAlone ==
    ASSUME IInv, IInv', NEW v \in User, rewardPerToken <= rewardPerToken',
           balanceOf'[v] = balanceOf[v], rewards'[v] = rewards[v],
           userRewardPerTokenPaid'[v] = userRewardPerTokenPaid[v]
    PROVE  earned(v)' >= earned(v)
<1> DEFINE b == balanceOf[v]
           paid == userRewardPerTokenPaid[v]
           before == (b * (rewardPerToken - paid)) \div PRECISION
           after == (b * (rewardPerToken' - paid)) \div PRECISION
<1>1. /\ b \in Nat /\ paid \in Nat /\ rewardPerToken \in Nat
      /\ paid <= rewardPerToken /\ rewards[v] \in Nat
  BY RewardPerTokenTyped DEF IInv, TypeOK
<1>2. rewardPerToken' \in Nat
  BY NextRewardPerToken DEF IInv
<1>3. before <= after
  <2> HIDE DEF b, paid
  <2> QED BY <1>1, <1>2, AccrualMono
<1>4. before \in Nat /\ after \in Nat
  <2> DEFINE d == rewardPerToken - paid
             e == rewardPerToken' - paid
  <2>1. d \in Nat /\ e \in Nat
    BY <1>1, <1>2
  <2> HIDE DEF b, paid, d, e
  <2>2. b * d \in Nat /\ b * e \in Nat
    BY <1>1, <2>1, NatMul
  <2>3. (b * d) \div PRECISION \in Nat /\ (b * e) \div PRECISION \in Nat
    BY <2>2, NatDiv, StakingAssumption
  <2> QED BY <2>3 DEF d, e
<1>5. earned(v) = before + rewards[v] /\ earned(v)' = after + rewards[v]
  BY DEF earned
<1> HIDE DEF before, after
<1> QED BY <1>1, <1>3, <1>4, <1>5

\* An account that is settled keeps what it earned.
LEMMA Settled ==
    ASSUME IInv, IInv', FromCheckpoint, NEW v \in User, rewards'[v] = earned(v),
           userRewardPerTokenPaid'[v] = rewardPerToken
    PROVE  earned(v)' >= earned(v)
<1> DEFINE d == rewardPerToken' - userRewardPerTokenPaid'[v]
<1>1. earned(v) \in Nat
  BY EarnedTyped DEF IInv
<1>2. balanceOf'[v] \in Nat
  BY DEF IInv, TypeOK
<1>3. rewardPerToken' \in Nat /\ rewardPerToken \in Nat
  BY NextRewardPerToken, RewardPerTokenTyped DEF IInv
<1>4. rewardPerToken <= rewardPerToken'
  BY NextRewardPerToken DEF IInv, FromCheckpoint
<1>5. d \in Nat
  BY <1>3, <1>4
<1>6. earned(v)' = (balanceOf'[v] * d) \div PRECISION + rewards'[v]
  BY DEF earned
<1> HIDE DEF d
<1>7. (balanceOf'[v] * d) \div PRECISION \in Nat
  BY <1>2, <1>5, NatMul, NatDiv, StakingAssumption
<1> QED BY <1>1, <1>6, <1>7

\* The reward per token does not fall between checkpoints either.
LEMMA TickAccrues ==
    ASSUME IInv, Tick
    PROVE  rewardPerToken <= rewardPerToken'
<1> DEFINE last == lastTimeRewardApplicable - rewardState.lastUpdateTime
           next == lastTimeRewardApplicable' - rewardState.lastUpdateTime
           k == rewardState.rewardRate
<1>1. /\ last \in Nat /\ next \in Nat /\ last <= next
      /\ k \in Nat /\ totalStaked \in Nat /\ PRECISION \in Nat
      /\ rewardState.rewardPerTokenStored \in Nat
  BY StakingAssumption
     DEF IInv, TypeOK, RewardState, Tick, lastTimeRewardApplicable
<1>2. /\ rewardPerToken = rewardState.rewardPerTokenStored + Accrued(last)
      /\ rewardPerToken' = rewardState.rewardPerTokenStored + Accrued(next)
  BY DEF rewardPerToken, Accrued, Tick, accounts
<1> HIDE DEF last, next
<1>3. Accrued(last) \in Nat /\ Accrued(next) \in Nat
  BY <1>1, AccruedTyped DEF IInv
<1>4. Accrued(last) <= Accrued(next)
  <2> DEFINE x == last * k * PRECISION
             y == next * k * PRECISION
  <2>1. last * k \in Nat /\ next * k \in Nat /\ last * k <= next * k
    BY <1>1, NatMul, MulMono
  <2>2. x \in Nat /\ y \in Nat /\ x <= y
    BY <1>1, <2>1, NatMul, MulMono
  <2>3. CASE totalStaked = 0
    BY <2>3 DEF Accrued
  <2>4. CASE totalStaked # 0
    <3>1. Accrued(last) = x \div totalStaked /\ Accrued(next) = y \div totalStaked
      BY <2>4 DEF Accrued
    <3> HIDE DEF x, y
    <3> QED BY <3>1, <2>2, <2>4, <1>1, DivMono
  <2> QED BY <2>3, <2>4
<1> QED BY <1>1, <1>2, <1>3, <1>4

\* Transactions of an account settle it and leave the others alone; unless they
\* pay it what it earned.
LEMMA AccountStep ==
    ASSUME IInv, IInv', FromCheckpoint, NEW u \in User,
           \A v \in User \ {u} : /\ balanceOf'[v] = balanceOf[v]
                                 /\ rewards'[v] = rewards[v]
                                 /\ userRewardPerTokenPaid'[v] = userRewardPerTokenPaid[v],
           \/ rewards'[u] = earned(u) /\ userRewardPerTokenPaid'[u] = rewardPerToken
           \/ paidOut' = paidOut + earned(u)
    PROVE  \A v \in User : earned(v)' >= earned(v) \/ PaidUp(v)
<1>1. rewardPerToken <= rewardPerToken'
  BY NextRewardPerToken DEF IInv, FromCheckpoint
<1>2. \A v \in User \ {u} : earned(v)' >= earned(v)
  BY <1>1, LeftAlone
<1>3. earned(u)' >= earned(u) \/ paidOut' = paidOut + earned(u)
  BY Settled
<1> QED BY <1>2, <1>3 DEF PaidUp

\* Every step but a deposit that starts a schedule keeps or pays what was
\* earned.
LEMMA EarnedStep ==
    ASSUME IInv, IInv', Next
    PROVE  \/ \E a \in Amount : DepositRewards(a) /\ Starts
           \/ \A v \in User : earned(v)' >= earned(v) \/ PaidUp(v)
<1> DEFINE Kept == \A v \in User : earned(v)' >= earned(v) \/ PaidUp(v)
<1>1. ASSUME NEW u \in User,
             \/ \E a \in Amount : Stake(u, a) \/ Unstake(u, a)
             \/ ClaimRewards(u) \/ Exit(u)
      PROVE  Kept
  <2>1. FromCheckpoint
    BY <1>1, Inputs, StakeOk, UnstakeOk, ClaimOk, ExitOk
  <2>2. \A v \in User \ {u} :
          /\ balanceOf'[v] = balanceOf[v] /\ rewards'[v] = rewards[v]
          /\ userRewardPerTokenPaid'[v] = userRewardPerTokenPaid[v]
    BY <1>1 DEF Stake, Unstake, ClaimRewards, Exit, Settle, Pay, Withdraw,
                accounts, IInv, TypeOK
  <2>3. \/ rewards'[u] = earned(u) /\ userRewardPerTokenPaid'[u] = rewardPerToken
        \/ paidOut' = paidOut + earned(u)
    BY <1>1 DEF Stake, Unstake, ClaimRewards, Exit, Settle, Pay, IInv, TypeOK
  <2> QED BY <2>1, <2>2, <2>3, AccountStep
<1>2. ASSUME UNCHANGED <<balanceOf, rewards, userRewardPerTokenPaid>>,
             rewardPerToken <= rewardPerToken'
      PROVE  Kept
  BY <1>2, LeftAlone
<1>3. ASSUME NEW a \in Amount, DepositRewards(a), ~Starts
      PROVE  Kept
  <2>1. UNCHANGED <<now, rewardState, totalStaked, balanceOf, rewards,
                    userRewardPerTokenPaid>>
    BY <1>3 DEF DepositRewards, accounts
  <2>2. rewardPerToken' = rewardPerToken /\ rewardPerToken \in Nat
    BY <2>1, RewardPerTokenTyped
       DEF rewardPerToken, lastTimeRewardApplicable, IInv
  <2> QED BY <2>1, <2>2, <1>2
<1>4. ASSUME \/ \E a \in Amount, length \in Length : ExtendRewardSchedule(a, length)
             \/ \E apr \in APR : SetAPR(apr)
      PROVE  Kept
  <2>1. FromCheckpoint
    BY <1>4, Inputs, ExtendOk, SetAPROk
  <2>2. rewardPerToken <= rewardPerToken'
    BY <2>1, NextRewardPerToken DEF IInv, FromCheckpoint
  <2> QED BY <2>2, <1>4, <1>2 DEF ExtendRewardSchedule, SetAPR, accounts
<1>5. ASSUME Tick PROVE Kept
  BY <1>5, <1>2, TickAccrues DEF Tick, accounts
<1>6. ASSUME Pause PROVE Kept
  <2>1. UNCHANGED <<now, rewardState, totalStaked, balanceOf, rewards,
                    userRewardPerTokenPaid>>
    BY <1>6 DEF Pause, accounts
  <2>2. rewardPerToken' = rewardPerToken /\ rewardPerToken \in Nat
    BY <2>1, RewardPerTokenTyped
       DEF rewardPerToken, lastTimeRewardApplicable, IInv
  <2> QED BY <2>1, <2>2, <1>2
<1> HIDE DEF Kept
<1>7. (\E a \in Amount : DepositRewards(a) /\ Starts) \/ Kept
  BY <1>1, <1>3, <1>4, <1>5, <1>6 DEF Next
<1> QED BY <1>7 DEF Kept

-----------------------------------------------------------------------------
(* What the accounts are due never exceeds what the schedules released.    *)

\* The laws of sums and products that the books are kept with.
LEMMA NatRing ==
    ASSUME NEW x \in Nat, NEW y \in Nat, NEW z \in Nat
    PROVE  /\ x * (y + z) = x * y + x * z
           /\ x * y = y * x
           /\ x * (y * z) = (x * y) * z
OBVIOUS

\* Division rounds down.
LEMMA NatDivFloor == \A x \in Nat, z \in Nat \ {0} : z * (x \div z) <= x
OBVIOUS

\* A common factor cancels.
LEMMA NatCancel == \A x, y \in Nat, z \in Nat \ {0} : z * x <= z * y => x <= y
OBVIOUS

\* What each account is due where a token has earned r, in units of
\* 1/PRECISION: what rounding drops is still in it.
Due(r) == [u \in User |-> balanceOf[u] * (r - userRewardPerTokenPaid[u])
                              + PRECISION * rewards[u]]

\* What the schedule released since the checkpoint.
Unbooked ==
    IF totalStaked = 0 THEN 0
    ELSE rewardState.rewardRate
             * (lastTimeRewardApplicable - rewardState.lastUpdateTime)

\* The invariant below RewardsWithinEmission: what was paid, what the accounts
\* are due on the books, and what is not on them yet, is within what was
\* released.
EmissionInv ==
    PRECISION * paidOut + Total(User, Due(rewardState.rewardPerTokenStored))
        + PRECISION * Unbooked <= PRECISION * emitted

\* The same with everything up to now on the books.
Covered ==
    PRECISION * paidOut + Total(User, Due(rewardPerToken)) <= PRECISION * emitted

\* What is due is a natural number, at any price ahead of the checkpoints.
LEMMA DueTyped ==
    ASSUME TypeOK, NEW r \in Nat, rewardState.rewardPerTokenStored <= r
    PROVE  /\ Due(r) \in [User -> Nat]
           /\ Total(User, Due(r)) \in Nat
<1>1. ASSUME NEW u \in User
      PROVE  balanceOf[u] * (r - userRewardPerTokenPaid[u])
                 + PRECISION * rewards[u] \in Nat
  <2> DEFINE d == r - userRewardPerTokenPaid[u]
             x == balanceOf[u] * d
             y == PRECISION * rewards[u]
  <2>1. /\ userRewardPerTokenPaid[u] \in Nat
        /\ userRewardPerTokenPaid[u] <= rewardState.rewardPerTokenStored
        /\ rewardState.rewardPerTokenStored \in Nat
    BY DEF TypeOK, RewardState
  <2>2. d \in Nat /\ balanceOf[u] \in Nat /\ rewards[u] \in Nat /\ PRECISION \in Nat
    BY <2>1, StakingAssumption DEF TypeOK
  <2> HIDE DEF d
  <2>3. x \in Nat /\ y \in Nat
    BY <2>2, NatMul
  <2> HIDE DEF x, y
  <2>4. x + y \in Nat
    BY <2>3
  <2> QED BY <2>4 DEF x, y, d
<1>2. Due(r) \in [User -> Nat]
  BY <1>1 DEF Due
<1> QED BY <1>2, TotalType, StakingAssumption

\* Later on, every account is due more by its share of what a token earned.
LEMMA DueLater ==
    ASSUME TypeOK, totalStaked = Total(User, balanceOf), NEW d \in Nat
    PROVE  Total(User, Due(rewardState.rewardPerTokenStored + d))
             = Total(User, Due(rewardState.rewardPerTokenStored)) + d * totalStaked
<1> DEFINE s == rewardState.rewardPerTokenStored
           f == Due(s)
           h == Due(s + d)
<1>1. s \in Nat
  BY DEF TypeOK, RewardState
<1>2. f \in [User -> Nat]
  BY <1>1, DueTyped
<1>3. ASSUME NEW u \in User
      PROVE  h[u] = f[u] + d * balanceOf[u]
  <2> DEFINE b == balanceOf[u]
             p == userRewardPerTokenPaid[u]
             e == s - p
             y == PRECISION * rewards[u]
  <2>1. b \in Nat /\ p \in Nat /\ p <= s
    BY DEF TypeOK
  <2>2. y \in Nat
    BY NatMul, StakingAssumption DEF TypeOK
  <2>3. f[u] = b * (s - p) + y /\ h[u] = b * ((s + d) - p) + y
    BY DEF Due
  <2> HIDE DEF b, p, y, s, f, h
  <2>4. e \in Nat /\ (s + d) - p = e + d
    BY <2>1, <1>1
  <2> HIDE DEF e
  <2>5. b * (e + d) = b * e + b * d /\ b * d = d * b
    BY <2>1, <2>4, NatRing
  <2>6. b * e \in Nat /\ d * b \in Nat
    BY <2>1, <2>4, NatMul
  <2>7. f[u] = b * e + y /\ h[u] = b * e + d * b + y
    BY <2>3, <2>4, <2>5 DEF e
  <2>8. h[u] = f[u] + d * b
    <3> DEFINE x == b * e
               z == d * b
    <3>1. x \in Nat /\ z \in Nat /\ f[u] = x + y /\ h[u] = x + z + y
      BY <2>6, <2>7
    <3> HIDE DEF x, z
    <3>2. h[u] = f[u] + z
      BY <3>1, <2>2
    <3> QED BY <3>2 DEF z
  <2> QED BY <2>8 DEF b
<1>4. \A u \in User : /\ f[u] \in Nat /\ balanceOf[u] \in Nat
                      /\ h[u] = f[u] + d * balanceOf[u]
  BY <1>2, <1>3 DEF TypeOK
<1> HIDE DEF f, h
<1>5. Total(User, h) = Total(User, f) + d * Total(User, balanceOf)
  BY <1>4, TotalLinear, StakingAssumption
<1> QED BY <1>5 DEF f, h, s

\* Rounding the reward per token down takes from the accounts.
LEMMA AccruedIsReleased ==
    ASSUME TypeOK
    PROVE  LET e == lastTimeRewardApplicable - rewardState.lastUpdateTime
           IN  /\ Accrued(e) \in Nat /\ Unbooked \in Nat
               /\ rewardPerToken = rewardState.rewardPerTokenStored + Accrued(e)
               /\ Accrued(e) * totalStaked <= PRECISION * Unbooked
<1> DEFINE e == lastTimeRewardApplicable - rewardState.lastUpdateTime
           k == rewardState.rewardRate
           x == e * k * PRECISION
<1>1. /\ e \in Nat /\ k \in Nat /\ PRECISION \in Nat /\ totalStaked \in Nat
      /\ rewardState.rewardPerTokenStored \in Nat
  BY Clock, StakingAssumption DEF TypeOK, RewardState
<1>2. rewardPerToken = rewardState.rewardPerTokenStored + Accrued(e)
  BY DEF rewardPerToken, Accrued
<1>3. Accrued(e) \in Nat
  <2> HIDE DEF e
  <2> QED BY <1>1, AccruedTyped
<1>4. Unbooked \in Nat
  <2>1. Unbooked = IF totalStaked = 0 THEN 0 ELSE k * e
    BY DEF Unbooked
  <2> HIDE DEF k, e
  <2> QED BY <1>1, <2>1, NatMul
<1>5. CASE totalStaked = 0
  BY <1>1, <1>2, <1>3, <1>4, <1>5 DEF Accrued, Unbooked
<1>6. CASE totalStaked # 0
  <2>1. Accrued(e) = x \div totalStaked /\ Unbooked = k * e
    BY <1>6 DEF Accrued, Unbooked
  <2> HIDE DEF e, k
  <2>2. e * k \in Nat /\ k * e = e * k /\ x = PRECISION * (e * k)
    BY <1>1, NatMul, NatRing
  <2>3. x \in Nat
    BY <1>1, <2>2, NatMul
  <2>4. totalStaked * Accrued(e) <= x
    <3> HIDE DEF x
    <3> QED BY <1>1, <1>6, <2>1, <2>3, NatDivFloor
  <2>5. Accrued(e) * totalStaked = totalStaked * Accrued(e)
    BY <1>1, <1>3, NatRing
  <2>6. Accrued(e) * totalStaked <= PRECISION * Unbooked
    <3> HIDE DEF x
    <3>1. PRECISION * Unbooked = x
      BY <2>1, <2>2
    <3> QED BY <3>1, <2>4, <2>5
  <2> QED BY <1>2, <1>3, <1>4, <2>6 DEF e
<1> QED BY <1>5, <1>6

\* So a checkpoint books no more than was released.
LEMMA CheckpointCovers ==
    ASSUME IInv, EmissionInv
    PROVE  Covered
<1> DEFINE s == rewardState.rewardPerTokenStored
           d == Accrued(lastTimeRewardApplicable - rewardState.lastUpdateTime)
           t == Total(User, Due(s))
           g == d * totalStaked
<1>1. /\ d \in Nat /\ Unbooked \in Nat /\ rewardPerToken = s + d
      /\ g <= PRECISION * Unbooked
  BY AccruedIsReleased DEF IInv
<1>2. Total(User, Due(s + d)) = t + g
  <2> HIDE DEF d
  <2> QED BY <1>1, DueLater DEF IInv, PrincipalIsCovered
<1>3. t \in Nat
  <2>1. s \in Nat
    BY DEF IInv, TypeOK, RewardState
  <2> QED BY <2>1, DueTyped DEF IInv
<1>4. g \in Nat
  <2> HIDE DEF d
  <2> QED BY <1>1, NatMul DEF IInv, TypeOK
<1>5. /\ PRECISION * paidOut \in Nat /\ PRECISION * emitted \in Nat
      /\ PRECISION * Unbooked \in Nat
  BY <1>1, NatMul, StakingAssumption DEF IInv, TypeOK
<1>6. PRECISION * paidOut + t + PRECISION * Unbooked <= PRECISION * emitted
  BY DEF EmissionInv
<1>7. PRECISION * paidOut + (t + g) <= PRECISION * emitted
  <2> DEFINE a == PRECISION * paidOut
             b == PRECISION * Unbooked
             c == PRECISION * emitted
  <2>1. /\ a \in Nat /\ b \in Nat /\ c \in Nat /\ a + t + b <= c /\ g <= b
    BY <1>1, <1>5, <1>6
  <2> HIDE DEF a, b, c, t, g
  <2>2. a + (t + g) <= c
    BY <2>1, <1>3, <1>4
  <2> QED BY <2>2 DEF a, c
<1>8. rewardPerToken = s + d
  BY <1>1
<1> QED BY <1>2, <1>7, <1>8 DEF Covered

\* What an account can claim is what it is due, rounded down.
LEMMA EarnedIsDue ==
    ASSUME IInv, NEW u \in User
    PROVE  PRECISION * earned(u) <= Due(rewardPerToken)[u]
<1> DEFINE x == balanceOf[u] * (rewardPerToken - userRewardPerTokenPaid[u])
           q == x \div PRECISION
           r == rewards[u]
<1>1. x \in Nat
  <2> DEFINE d == rewardPerToken - userRewardPerTokenPaid[u]
  <2>1. d \in Nat /\ balanceOf[u] \in Nat
    BY RewardPerTokenTyped DEF IInv, TypeOK
  <2> HIDE DEF d
  <2>2. balanceOf[u] * d \in Nat
    BY <2>1, NatMul
  <2> QED BY <2>2 DEF d
<1>2. earned(u) = q + r /\ Due(rewardPerToken)[u] = x + PRECISION * r
  BY DEF earned, Due
<1>3. PRECISION \in Nat \ {0} /\ r \in Nat
  BY StakingAssumption DEF IInv, TypeOK
<1> HIDE DEF x, r
<1>4. q \in Nat /\ PRECISION * q <= x
  BY <1>1, <1>3, NatDiv, NatDivFloor
<1> HIDE DEF q
<1>5. /\ PRECISION * (q + r) = PRECISION * q + PRECISION * r
      /\ PRECISION * q \in Nat /\ PRECISION * r \in Nat
  BY <1>3, <1>4, NatRing, NatMul
<1>6. PRECISION * q + PRECISION * r <= x + PRECISION * r
  <2> DEFINE a == PRECISION * q
             b == PRECISION * r
  <2>1. a \in Nat /\ b \in Nat /\ a <= x
    BY <1>4, <1>5
  <2> HIDE DEF a, b
  <2>2. a + b <= x + b
    BY <2>1, <1>1
  <2> QED BY <2>2 DEF a, b
<1> QED BY <1>2, <1>5, <1>6

\* The invariant bounds what the accounts can claim.
LEMMA EmissionBounds ==
    ASSUME IInv, EmissionInv
    PROVE  RewardsWithinEmission
<1> DEFINE claims == [u \in User |-> earned(u)]
           nothing == [u \in User |-> 0]
           scaled == [u \in User |-> PRECISION * earned(u)]
           due == Due(rewardPerToken)
<1>1. due \in [User -> Nat] /\ Total(User, due) \in Nat
  BY RewardPerTokenTyped, DueTyped DEF IInv
<1>2. \A u \in User : /\ claims[u] \in Nat /\ nothing[u] \in Nat
                      /\ scaled[u] \in Nat
                      /\ scaled[u] = nothing[u] + PRECISION * claims[u]
                      /\ scaled[u] <= due[u] /\ due[u] \in Nat
  <2> SUFFICES ASSUME NEW u \in User
               PROVE  /\ claims[u] \in Nat /\ nothing[u] \in Nat
                      /\ scaled[u] \in Nat
                      /\ scaled[u] = nothing[u] + PRECISION * claims[u]
                      /\ scaled[u] <= due[u] /\ due[u] \in Nat
    OBVIOUS
  <2>1. earned(u) \in Nat
    BY EarnedTyped DEF IInv
  <2>2. PRECISION * earned(u) \in Nat
    BY <2>1, NatMul, StakingAssumption
  <2>3. claims[u] = earned(u) /\ nothing[u] = 0 /\ scaled[u] = PRECISION * earned(u)
    OBVIOUS
  <2>4. due[u] \in Nat
    BY <1>1
  <2> HIDE DEF claims, nothing, scaled, due
  <2>5. scaled[u] = nothing[u] + PRECISION * claims[u]
    BY <2>2, <2>3
  <2>6. scaled[u] <= due[u]
    BY <2>3, EarnedIsDue DEF due
  <2> QED BY <2>1, <2>2, <2>3, <2>4, <2>5, <2>6
<1>3. IsFiniteSet(User) /\ PRECISION \in Nat \ {0}
  BY StakingAssumption
<1>4. Total(User, nothing) = 0
  <2>1. Units(User, nothing) = {}
    BY DEF Units
  <2> QED BY <2>1, FS_EmptySet DEF Total
<1>5. Owed = Total(User, claims)
  BY DEF Owed
<1> HIDE DEF claims, nothing, scaled, due
<1>6. Total(User, scaled) = Total(User, nothing) + PRECISION * Total(User, claims)
  BY <1>2, <1>3, TotalLinear
<1>7. Total(User, scaled) <= Total(User, due)
  BY <1>2, <1>3, TotalMono
<1>8. Owed \in Nat /\ PRECISION * Owed \in Nat
  BY <1>2, <1>3, <1>5, TotalType, NatMul
<1>9. PRECISION * Owed <= Total(User, due)
  BY <1>4, <1>5, <1>6, <1>7, <1>8
<1>10. PRECISION * paidOut + Total(User, due) <= PRECISION * emitted
  BY CheckpointCovers DEF Covered, due
<1>11. paidOut \in Nat /\ emitted \in Nat
  BY DEF IInv, TypeOK
<1>12. /\ PRECISION * (paidOut + Owed) = PRECISION * paidOut + PRECISION * Owed
       /\ PRECISION * paidOut \in Nat /\ PRECISION * emitted \in Nat
  BY <1>3, <1>8, <1>11, NatRing, NatMul
<1>13. PRECISION * (paidOut + Owed) <= PRECISION * emitted
  <2> DEFINE a == PRECISION * paidOut
             b == PRECISION * Owed
             c == PRECISION * emitted
  <2>1. /\ a \in Nat /\ b \in Nat /\ c \in Nat
        /\ b <= Total(User, due) /\ a + Total(User, due) <= c
    BY <1>8, <1>9, <1>10, <1>12
  <2> HIDE DEF a, b, c
  <2>2. a + b <= c
    BY <2>1, <1>1 DEF due
  <2> QED BY <2>2, <1>12 DEF a, b, c
<1>14. paidOut + Owed \in Nat
  BY <1>8, <1>11
<1>15. paidOut + Owed <= emitted
  <2> DEFINE a == paidOut + Owed
  <2>1. a \in Nat /\ PRECISION * a <= PRECISION * emitted
    BY <1>13, <1>14
  <2> HIDE DEF a
  <2>2. a <= emitted
    BY <2>1, <1>3, <1>11, NatCancel
  <2> QED BY <2>2 DEF a
<1> QED BY <1>15 DEF RewardsWithinEmission

\* Right after a checkpoint nothing is unbooked, unless the schedule was
\* extended after its end.
LEMMA JustBooked ==
    ASSUME TypeOK', rewardState'.lastUpdateTime = lastTimeRewardApplicable'
    PROVE  Unbooked' = 0
<1> DEFINE k == rewardState'.rewardRate
           l == lastTimeRewardApplicable'
<1>1. k \in Nat /\ rewardState'.lastUpdateTime \in Nat
  BY DEF TypeOK, RewardState
<1>2. Unbooked' = IF totalStaked' = 0 THEN 0
                  ELSE k * (l - rewardState'.lastUpdateTime)
  BY DEF Unbooked
<1> HIDE DEF k, l
<1>3. l - rewardState'.lastUpdateTime = 0
  BY <1>1 DEF l
<1>4. k * 0 = 0
  BY <1>1
<1> QED BY <1>2, <1>3, <1>4

\* A transaction of account u: what it was due is paid, or on the books.
LEMMA AccountBooked ==
    ASSUME IInv, IInv', EmissionInv, FromCheckpoint, NEW u \in User,
           rewardState'.periodFinish = rewardState.periodFinish,
           \A v \in User \ {u} :
             /\ balanceOf'[v] = balanceOf[v] /\ rewards'[v] = rewards[v]
             /\ userRewardPerTokenPaid'[v] = userRewardPerTokenPaid[v],
           userRewardPerTokenPaid'[u] = rewardPerToken,
           paidOut' + rewards'[u] = paidOut + earned(u),
           UNCHANGED emitted
    PROVE  EmissionInv'
<1> DEFINE f == Due(rewardPerToken)
           g == Due(rewardState.rewardPerTokenStored)'
           v == PRECISION * rewards'[u]
<1>1. rewardPerToken \in Nat /\ f \in [User -> Nat] /\ Total(User, f) \in Nat
  BY RewardPerTokenTyped, DueTyped DEF IInv
<1>2. /\ rewards'[u] \in Nat /\ paidOut' \in Nat /\ emitted \in Nat
      /\ balanceOf'[u] \in Nat /\ paidOut \in Nat /\ earned(u) \in Nat
      /\ PRECISION \in Nat
  BY EarnedTyped, StakingAssumption DEF IInv, TypeOK
<1>3. v \in Nat
  BY <1>2, NatMul
<1>4. g = [f EXCEPT ![u] = v]
  <2>1. g = [w \in User |-> balanceOf'[w] * (rewardPerToken
                                               - userRewardPerTokenPaid'[w])
                                + PRECISION * rewards'[w]]
    BY DEF Due, FromCheckpoint
  <2>2. balanceOf'[u] * (rewardPerToken - userRewardPerTokenPaid'[u]) = 0
    BY <1>1, <1>2
  <2>3. g[u] = v
    <3>1. g[u] = balanceOf'[u] * (rewardPerToken - userRewardPerTokenPaid'[u]) + v
      BY <2>1
    <3> HIDE DEF g, v
    <3> QED BY <3>1, <2>2, <1>3
  <2>4. \A w \in User \ {u} : g[w] = f[w]
    <3> SUFFICES ASSUME NEW w \in User \ {u} PROVE g[w] = f[w]
      OBVIOUS
    <3>1. /\ balanceOf'[w] = balanceOf[w] /\ rewards'[w] = rewards[w]
          /\ userRewardPerTokenPaid'[w] = userRewardPerTokenPaid[w]
      OBVIOUS
    <3>2. g[w] = balanceOf'[w] * (rewardPerToken - userRewardPerTokenPaid'[w])
                     + PRECISION * rewards'[w]
      BY <2>1
    <3>3. f[w] = balanceOf[w] * (rewardPerToken - userRewardPerTokenPaid[w])
                     + PRECISION * rewards[w]
      BY DEF Due
    <3> HIDE DEF f, g
    <3> QED BY <3>1, <3>2, <3>3
  <2>5. g = [w \in User |-> g[w]]
    BY <2>1
  <2> HIDE DEF f, g, v
  <2> QED BY <2>3, <2>4, <2>5, <1>1
<1>5. Covered
  BY CheckpointCovers
<1>6. PRECISION * earned(u) <= f[u]
  BY EarnedIsDue
<1>7. Unbooked' = 0
  <2>1. lastTimeRewardApplicable' = lastTimeRewardApplicable
    BY DEF FromCheckpoint, lastTimeRewardApplicable
  <2> QED BY <2>1, JustBooked DEF FromCheckpoint, IInv
<1>8. /\ PRECISION * (paidOut' + rewards'[u]) = PRECISION * paidOut' + v
      /\ PRECISION * (paidOut + earned(u))
           = PRECISION * paidOut + PRECISION * earned(u)
      /\ PRECISION * paidOut \in Nat /\ PRECISION * paidOut' \in Nat
      /\ PRECISION * earned(u) \in Nat /\ PRECISION * emitted \in Nat
  BY <1>2, NatRing, NatMul
<1> DEFINE a == PRECISION * paidOut
           b == PRECISION * paidOut'
           c == PRECISION * earned(u)
           e == PRECISION * emitted
           t == Total(User, f)
<1>9. /\ a \in Nat /\ b \in Nat /\ c \in Nat /\ e \in Nat /\ t \in Nat
      /\ b + v = a + c /\ c <= f[u] /\ a + t <= e
  BY <1>1, <1>5, <1>6, <1>8 DEF Covered
<1>10. Total(User, g) = t - f[u] + v /\ f[u] <= t /\ f[u] \in Nat
  <2> HIDE DEF f, g, v
  <2> QED BY <1>1, <1>3, <1>4, TotalChange
<1>11. PRECISION * Unbooked' = 0
  BY <1>2, <1>7
<1>12. EmissionInv' <=> b + Total(User, g) + PRECISION * Unbooked'
                          <= PRECISION * emitted'
  BY DEF EmissionInv
<1>13. b + (t - f[u] + v) + 0 <= e
  <2> HIDE DEF a, b, c, e, t, f, v
  <2> QED BY <1>3, <1>9, <1>10
<1> HIDE DEF g, b
<1> QED BY <1>10, <1>11, <1>12, <1>13 DEF e

\* What is not booked is a natural number, now ...
LEMMA UnbookedTyped == TypeOK => Unbooked \in Nat
BY AccruedIsReleased

\* ... and after the step.
LEMMA NextUnbooked ==
    ASSUME IInv, IInv'
    PROVE  /\ Unbooked \in Nat /\ Unbooked' \in Nat
           /\ emitted \in Nat /\ emitted' \in Nat
<1>1. (TypeOK => Unbooked \in Nat)'
  BY UnbookedTyped, PTL
<1> QED BY <1>1, UnbookedTyped DEF IInv, TypeOK

\* The accounts are left alone, and what is released and not booked grows by no
\* more than what is released.
LEMMA ReleaseKept ==
    ASSUME IInv, IInv', NEW t \in Nat, NEW u \in Nat,
           PRECISION * paidOut + t + PRECISION * u <= PRECISION * emitted,
           UNCHANGED paidOut, emitted + Unbooked' <= emitted' + u
    PROVE  PRECISION * paidOut' + t + PRECISION * Unbooked'
             <= PRECISION * emitted'
<1>1. /\ PRECISION \in Nat /\ paidOut \in Nat /\ Unbooked' \in Nat
      /\ emitted \in Nat /\ emitted' \in Nat
  BY NextUnbooked, StakingAssumption DEF IInv, TypeOK
<1> DEFINE a == PRECISION * paidOut
           b == PRECISION * u
           c == PRECISION * Unbooked'
           d == PRECISION * emitted
           e == PRECISION * emitted'
<1>2. /\ PRECISION * (emitted + Unbooked') = d + c
      /\ PRECISION * (emitted' + u) = e + b
  BY <1>1, NatRing
<1>3. a \in Nat /\ b \in Nat /\ c \in Nat /\ d \in Nat /\ e \in Nat
  BY <1>1, NatMul
<1>4. PRECISION * (emitted + Unbooked') <= PRECISION * (emitted' + u)
  <2> DEFINE x == emitted + Unbooked'
             y == emitted' + u
  <2>1. x \in Nat /\ y \in Nat /\ x <= y
    <3>1. \A m, n \in Nat : m + n \in Nat
      OBVIOUS
    <3>2. emitted + Unbooked' <= emitted' + u
      OBVIOUS
    <3> QED BY <1>1, <3>1, <3>2, Zenon
  <2> HIDE DEF x, y
  <2>2. PRECISION * x <= PRECISION * y
    BY <1>1, <2>1, MulMono
  <2> QED BY <2>2 DEF x, y
<1>5. a + t + b <= d /\ d + c <= e + b
  BY <1>2, <1>4
<1>6. a + t + c <= e
  <2> HIDE DEF a, b, c, d, e
  <2> QED BY <1>3, <1>5
<1>7. paidOut' = paidOut
  OBVIOUS
<1> QED BY <1>6, <1>7

\* No checkpoint: what the accounts are due on the books stays.
LEMMA BooksKept ==
    ASSUME IInv, IInv', EmissionInv,
           UNCHANGED <<balanceOf, userRewardPerTokenPaid, rewards, paidOut>>,
           rewardState'.rewardPerTokenStored = rewardState.rewardPerTokenStored,
           emitted + Unbooked' <= emitted' + Unbooked
    PROVE  EmissionInv'
<1> DEFINE t == Total(User, Due(rewardState.rewardPerTokenStored))
<1>1. Due(rewardState.rewardPerTokenStored)'
        = Due(rewardState.rewardPerTokenStored)
  BY DEF Due
<1>2. t \in Nat
  <2>1. rewardState.rewardPerTokenStored \in Nat
    BY DEF IInv, TypeOK, RewardState
  <2> QED BY <2>1, DueTyped DEF IInv
<1>3. PRECISION * paidOut + t + PRECISION * Unbooked <= PRECISION * emitted
  BY DEF EmissionInv
<1>4. Unbooked \in Nat
  BY NextUnbooked
<1>5. paidOut' = paidOut
  OBVIOUS
<1> HIDE DEF t
<1>6. PRECISION * paidOut' + t + PRECISION * Unbooked' <= PRECISION * emitted'
  BY <1>2, <1>3, <1>4, <1>5, ReleaseKept
<1> QED BY <1>1, <1>6 DEF EmissionInv, t

\* The owner checkpoints: everybody is due what it was due before, and the pool
\* has released what it has not booked.
LEMMA RateBooked ==
    ASSUME IInv, IInv', EmissionInv, FromCheckpoint,
           UNCHANGED <<balanceOf, userRewardPerTokenPaid, rewards, paidOut>>,
           emitted' = emitted + Unbooked'
    PROVE  EmissionInv'
<1> DEFINE t == Total(User, Due(rewardPerToken))
<1>1. Due(rewardState.rewardPerTokenStored)' = Due(rewardPerToken)
  BY DEF Due, FromCheckpoint
<1>2. t \in Nat
  BY RewardPerTokenTyped, DueTyped DEF IInv
<1>3. PRECISION * paidOut + t + PRECISION * 0 <= PRECISION * emitted
  <2>1. PRECISION * paidOut + t <= PRECISION * emitted
    BY CheckpointCovers DEF Covered
  <2>2. PRECISION * paidOut \in Nat
    BY NatMul, StakingAssumption DEF IInv, TypeOK
  <2>3. PRECISION * 0 = 0
    BY StakingAssumption
  <2> DEFINE a == PRECISION * paidOut
  <2> HIDE DEF a, t
  <2>4. a + t + 0 = a + t
    BY <1>2, <2>2 DEF a
  <2> QED BY <2>1, <2>3, <2>4 DEF a
<1>4. emitted + Unbooked' <= emitted' + 0 /\ 0 \in Nat
  BY NextUnbooked
<1>5. paidOut' = paidOut
  OBVIOUS
<1> HIDE DEF t
<1>6. PRECISION * paidOut' + t + PRECISION * Unbooked' <= PRECISION * emitted'
  BY <1>2, <1>3, <1>4, <1>5, ReleaseKept
<1> QED BY <1>1, <1>6 DEF EmissionInv, t

\* Stakes, withdrawals, claims and exits keep the invariant.
LEMMA AccountEmission ==
    ASSUME IInv, IInv', EmissionInv, NEW u \in User,
           \/ \E a \in Amount : Stake(u, a) \/ Unstake(u, a)
           \/ ClaimRewards(u) \/ Exit(u)
    PROVE  EmissionInv'
<1>1. FromCheckpoint
  BY Inputs, StakeOk, UnstakeOk, ClaimOk, ExitOk
<1>2. \A v \in User \ {u} :
        /\ balanceOf'[v] = balanceOf[v] /\ rewards'[v] = rewards[v]
        /\ userRewardPerTokenPaid'[v] = userRewardPerTokenPaid[v]
  BY DEF Stake, Unstake, ClaimRewards, Exit, Settle, Pay, Withdraw,
         accounts, IInv, TypeOK
<1>3. userRewardPerTokenPaid'[u] = rewardPerToken /\ UNCHANGED emitted
  BY DEF Stake, Unstake, ClaimRewards, Exit, Settle, Pay, observed, IInv,
     TypeOK
<1>4. rewardState'.periodFinish = rewardState.periodFinish
  <2>1. ASSUME NEW a \in Amount, Stake(u, a)
        PROVE  rewardState'.periodFinish = rewardState.periodFinish
    BY <2>1, CheckpointTyped DEF Stake, IInv, RewardState
  <2>2. CASE rewardState' = Checkpoint
    BY <2>2, CheckpointTyped DEF IInv
  <2> QED BY <2>1, <2>2 DEF Unstake, ClaimRewards, Exit
<1>5. paidOut' + rewards'[u] = paidOut + earned(u)
  <2>1. paidOut \in Nat /\ earned(u) \in Nat /\ rewards \in [User -> Nat]
    BY EarnedTyped DEF IInv, TypeOK
  <2>2. \/ rewards'[u] = earned(u) /\ paidOut' = paidOut
        \/ rewards'[u] = 0 /\ paidOut' = paidOut + earned(u)
    BY <2>1 DEF Stake, Unstake, ClaimRewards, Exit, Settle, Pay, observed
  <2> QED BY <2>1, <2>2
<1> QED BY <1>1, <1>2, <1>3, <1>4, <1>5, AccountBooked

\* A deposit that starts a schedule drops what was not booked: less is due.
LEMMA DepositEmission ==
    ASSUME IInv, IInv', EmissionInv, NEW a \in Nat, DepositRewards(a)
    PROVE  EmissionInv'
<1>1. UNCHANGED <<now, totalStaked, balanceOf, userRewardPerTokenPaid, rewards,
                  paidOut, emitted>>
  BY DEF DepositRewards, accounts, observed
<1>2. Unbooked \in Nat /\ emitted \in Nat
  BY NextUnbooked
<1>3. CASE Starts
  <2>1. /\ rewardState'.periodFinish = now + REWARDS_DURATION
        /\ rewardState'.lastUpdateTime = now
        /\ rewardState'.rewardPerTokenStored = rewardState.rewardPerTokenStored
    BY <1>3 DEF DepositRewards, IInv, TypeOK, RewardState
  <2>2. lastTimeRewardApplicable' = now
    BY <1>1, <2>1, StakingAssumption DEF lastTimeRewardApplicable, IInv, TypeOK
  <2>3. Unbooked' = 0
    BY <2>1, <2>2, JustBooked DEF IInv
  <2>4. emitted + Unbooked' <= emitted' + Unbooked
    BY <1>1, <1>2, <2>3
  <2> QED BY <1>1, <2>1, <2>4, BooksKept
<1>4. CASE ~Starts
  <2>1. rewardState' = rewardState
    BY <1>4 DEF DepositRewards
  <2>2. Unbooked' = Unbooked
    BY <1>1, <2>1 DEF Unbooked, lastTimeRewardApplicable
  <2>3. emitted + Unbooked' <= emitted' + Unbooked
    BY <1>1, <1>2, <2>2
  <2> QED BY <1>1, <2>1, <2>3, BooksKept
<1> QED BY <1>3, <1>4

\* A new target books everything up to now at the old rate.
LEMMA SetAPREmission ==
    ASSUME IInv, IInv', EmissionInv, NEW apr \in Nat, SetAPR(apr)
    PROVE  EmissionInv'
<1>1. FromCheckpoint
  BY SetAPROk
<1>2. rewardState'.periodFinish = rewardState.periodFinish
  BY CheckpointTyped DEF SetAPR, IInv, RewardState
<1>3. lastTimeRewardApplicable' = lastTimeRewardApplicable
  BY <1>1, <1>2 DEF FromCheckpoint, lastTimeRewardApplicable
<1>4. Unbooked' = 0
  BY <1>1, <1>3, JustBooked DEF FromCheckpoint, IInv
<1>5. UNCHANGED <<balanceOf, userRewardPerTokenPaid, rewards, paidOut, emitted>>
  BY DEF SetAPR, accounts, observed
<1>6. emitted' = emitted + Unbooked'
  BY <1>4, <1>5 DEF IInv, TypeOK
<1> QED BY <1>1, <1>5, <1>6, RateBooked

\* The gap a schedule releases its rate for is what is not booked yet.
LEMMA ExtendEmission ==
    ASSUME IInv, IInv', EmissionInv, NEW a \in Nat, NEW length \in Nat,
           ExtendRewardSchedule(a, length)
    PROVE  EmissionInv'
<1> DEFINE rate == (a + Remaining * rewardState.rewardRate) \div length
<1>1. FromCheckpoint
  BY ExtendOk
<1>2. /\ rewardState' = [Checkpoint EXCEPT !.rewardRate = rate,
                                           !.periodFinish = now + length]
      /\ emitted' = emitted + Backdated(rate) /\ length > 0
  BY DEF ExtendRewardSchedule
<1> HIDE DEF rate
<1>3. rewardState'.rewardRate = rate /\ rewardState'.periodFinish = now + length
  BY <1>2, CheckpointTyped DEF IInv, RewardState
<1>4. lastTimeRewardApplicable' = now
  BY <1>1, <1>2, <1>3
     DEF FromCheckpoint, lastTimeRewardApplicable, IInv, TypeOK
<1>5. UNCHANGED <<totalStaked, balanceOf, userRewardPerTokenPaid, rewards, paidOut>>
  BY DEF ExtendRewardSchedule, accounts
<1>6. Unbooked' = Backdated(rate)
  BY <1>1, <1>3, <1>4, <1>5 DEF FromCheckpoint, Unbooked, Backdated
<1> QED BY <1>1, <1>2, <1>5, <1>6, RateBooked

\* A block releases what it adds to the unbooked part.
LEMMA TickEmission ==
    ASSUME IInv, IInv', EmissionInv, Tick
    PROVE  EmissionInv'
<1> DEFINE k == rewardState.rewardRate
           e == lastTimeRewardApplicable - rewardState.lastUpdateTime
<1>1. /\ UNCHANGED <<rewardState, totalStaked, balanceOf, rewards, paidOut,
                     userRewardPerTokenPaid>>
      /\ now' = now + 1
      /\ emitted' = IF totalStaked > 0 /\ now < rewardState.periodFinish
                    THEN emitted + k ELSE emitted
  BY DEF Tick, accounts
<1>2. k \in Nat /\ e \in Nat /\ Unbooked \in Nat /\ emitted \in Nat
  BY Clock, NextUnbooked DEF IInv, TypeOK, RewardState
<1>3. CASE totalStaked > 0 /\ now < rewardState.periodFinish
  <2>1. lastTimeRewardApplicable' - rewardState'.lastUpdateTime = e + 1
    BY <1>1, <1>3 DEF IInv, TypeOK, RewardState, lastTimeRewardApplicable
  <2>2. totalStaked # 0 /\ totalStaked' # 0 /\ rewardState'.rewardRate = k
    BY <1>1, <1>3 DEF IInv, TypeOK
  <2>3. Unbooked = k * e /\ Unbooked' = k * (e + 1)
    BY <2>1, <2>2 DEF Unbooked
  <2> HIDE DEF k, e
  <2>4. k * (e + 1) = k * e + k * 1 /\ k * 1 = k
    BY <1>2, NatRing
  <2>5. Unbooked' = Unbooked + k
    BY <2>3, <2>4
  <2>6. emitted + Unbooked' <= emitted' + Unbooked
    BY <1>1, <1>2, <1>3, <2>5 DEF k
  <2> QED BY <1>1, <2>6, BooksKept
<1>4. CASE ~ (totalStaked > 0 /\ now < rewardState.periodFinish)
  <2>1. \/ totalStaked = 0
        \/ lastTimeRewardApplicable' = lastTimeRewardApplicable
    BY <1>1, <1>4 DEF IInv, TypeOK, RewardState, lastTimeRewardApplicable
  <2>2. Unbooked' = Unbooked
    BY <1>1, <2>1 DEF Unbooked
  <2>3. emitted + Unbooked' <= emitted' + Unbooked
    BY <1>1, <1>2, <1>4, <2>2
  <2> QED BY <1>1, <2>3, BooksKept
<1> QED BY <1>3, <1>4

\* Pausing releases nothing.
LEMMA PauseEmission ==
    ASSUME IInv, IInv', EmissionInv, Pause \/ UNCHANGED vars
    PROVE  EmissionInv'
<1>1. UNCHANGED <<now, rewardState, totalStaked, balanceOf, rewards,
                  userRewardPerTokenPaid, emitted, paidOut>>
  BY DEF Pause, vars, accounts, observed
<1>2. Unbooked' = Unbooked
  BY <1>1 DEF Unbooked, lastTimeRewardApplicable
<1>3. emitted + Unbooked' <= emitted' + Unbooked
  BY <1>1, <1>2, NextUnbooked
<1> QED BY <1>1, <1>3, BooksKept

\* Every step keeps the invariant.
LEMMA EmissionStep == IInv /\ IInv' /\ EmissionInv /\ [Next]_vars => EmissionInv'
<1> SUFFICES ASSUME IInv, IInv', EmissionInv, [Next]_vars PROVE EmissionInv'
  OBVIOUS
<1>1. CASE \E u \in User : \/ \E a \in Amount : \/ MayStake(a) /\ Stake(u, a)
                                              \/ Unstake(u, a)
                           \/ ClaimRewards(u)
                           \/ Exit(u)
  BY <1>1, AccountEmission
<1>2. CASE \E a \in Amount :
             /\ MayFund(a)
             /\ \/ DepositRewards(a)
                \/ \E length \in Length : ExtendRewardSchedule(a, length)
  BY <1>2, Inputs, DepositEmission, ExtendEmission
<1>3. CASE \E apr \in APR : SetAPR(apr)
  BY <1>3, Inputs, SetAPREmission
<1>4. CASE Tick
  BY <1>4, TickEmission
<1>5. CASE Pause \/ UNCHANGED vars
  BY <1>5, PauseEmission
<1> QED BY <1>1, <1>2, <1>3, <1>4, <1>5 DEF Next

\* At first nothing is due.
LEMMA EmissionInit == Init => EmissionInv
<1> SUFFICES ASSUME Init PROVE EmissionInv
  OBVIOUS
<1>1. \A u \in User : Due(0)[u] = 0
  BY StakingAssumption DEF Init, Due
<1>2. Total(User, Due(0)) = 0
  <2>1. Units(User, Due(0)) = {}
    BY <1>1 DEF Units
  <2> QED BY <2>1, FS_EmptySet DEF Total
<1>3. /\ rewardState.rewardPerTokenStored = 0 /\ paidOut = 0 /\ emitted = 0
      /\ Unbooked = 0
  BY DEF Init, Unbooked
<1>4. PRECISION * 0 = 0
  BY StakingAssumption
<1> QED BY <1>2, <1>3, <1>4 DEF EmissionInv

-----------------------------------------------------------------------------
(* The theorems.                                                           *)

\* The invariant that carries the two results below it: neither is inductive
\* without the other.
THEOREM Invariance == Spec => []IInv
BY InitOk, StepOk, PTL DEF Spec

\* No checkpoint of MPGRStaking runs ahead of another, so that no subtraction
\* of RewardMath reverts and every stake can be withdrawn.
THEOREM TypeCorrect == Spec => []TypeOK
<1>1. IInv => TypeOK
  BY DEF IInv
<1> QED BY <1>1, Invariance, PTL

\* The pool holds every account's stake beside the whole reward pool.
THEOREM Principal == Spec => []PrincipalIsCovered
<1>1. IInv => PrincipalIsCovered
  BY DEF IInv
<1> QED BY <1>1, Invariance, PTL

\* No stake, withdrawal, claim, rate change, new schedule or passing of time
\* drops what an account earned, except by paying it out; a deposit that starts
\* a schedule may (MPGRStaking.depositRewards takes no checkpoint).
THEOREM NothingEarnedIsLost == Spec => EarnedNeverDrops
<1>1. IInv /\ IInv' /\ [Next]_vars
        => [\/ \E a \in Amount : DepositRewards(a) /\ Starts
            \/ \A u \in User : earned(u)' >= earned(u) \/ PaidUp(u)]_vars
  BY EarnedStep
<1> QED BY <1>1, Invariance, PTL DEF Spec, EarnedNeverDrops

\* However stakes, claims, rate changes and schedules interleave, the accounts
\* together get no more than the schedules of MPGRStaking released: RewardMath
\* rounds against them at every checkpoint.
THEOREM Emission == Spec => []RewardsWithinEmission
<1>1. IInv /\ EmissionInv => RewardsWithinEmission
  BY EmissionBounds
<1>2. Init => EmissionInv
  BY EmissionInit
<1>3. IInv /\ IInv' /\ EmissionInv /\ [Next]_vars => EmissionInv'
  BY EmissionStep
<1> QED BY <1>1, <1>2, <1>3, Invariance, PTL DEF Spec

=============================================================================
