-------------------------- MODULE GameSessionProofs --------------------------
(***************************************************************************)
(* A run is counted at most once, however its requests overlap or fail,    *)
(* and a week that is being paid is left alone.  Proved for any sessions,  *)
(* heartbeats, requests, caps and days.                                    *)
(***************************************************************************)
EXTENDS GameSession, FiniteSetTheorems, TLAPS

-----------------------------------------------------------------------------
(* The inductive invariant.                                                *)

RewardRecord ==
    [pc : {"idle", "verify", "put", "consume", "discard", "week", "count",
           "index", "xp", "done"},
     of : SUBSET Session, ok : BOOLEAN, week : Week]

\* The steps of a request that has kept its session's record, and those before
\* the run is counted.
Uncounted == {"consume", "week", "count"}
Crediting == Uncounted \union {"index", "xp"}

Verified(s, w) == run[s].kept /\ run[s].ok /\ run[s].week = w

RewardOk(r) ==
    /\ reward[r].pc \notin {"idle", "done"} => \E s \in Session : reward[r].of = {s}
    /\ reward[r].pc \in Crediting
         => \A s \in reward[r].of : Verified(s, reward[r].week)

\* One request at most credits a session.
Alone ==
    \A r, o \in Reward :
        /\ reward[r].pc \in Crediting /\ reward[o].pc \in Crediting
        /\ reward[r].of = reward[o].of
        => r = o

\* The runs of a week that no request is about to count.
Backed(w) ==
    {s \in Session :
        /\ Verified(s, w)
        /\ \A r \in Reward : reward[r].pc \in Uncounted => reward[r].of # {s}}

WeekOk(w) ==
    /\ player[w].count <= Cardinality(Backed(w))
    /\ settling[w].status = "listed" => settling[w].count <= player[w].count
    /\ player[w].allocated => settling[w].status = "allocated"

IInv ==
    /\ TypeOK
    /\ \A r \in Reward : RewardOk(r)
    /\ Alone
    /\ \A w \in Week : WeekOk(w)
    /\ \A s \in events : run[s].kept /\ run[s].ok

-----------------------------------------------------------------------------
(* Facts about the data.                                                   *)

\* There are a first day and a first week.
LEMMA Zero == 0 \in Week /\ 0 \in Day
<1>1. 0 \in Day
  BY GameSessionAssumption DEF Day
<1>2. 0 \div DaysPerWeek = 0
  BY GameSessionAssumption
<1> QED BY <1>1, <1>2 DEF Week, WeekOf

\* Every day falls in a week.
LEMMA ThisWeek ==
    ASSUME TypeOK
    PROVE  WeekOf(today) \in Week
BY DEF TypeOK, Week

\* The runs that stand behind a count can be counted.
LEMMA BackedIsFinite ==
    ASSUME NEW w
    PROVE  IsFiniteSet(Backed(w)) /\ Cardinality(Backed(w)) \in Nat
<1>1. Backed(w) \subseteq Session
  BY DEF Backed
<1>2. IsFiniteSet(Backed(w))
  BY <1>1, GameSessionAssumption, FS_Subset
<1> QED BY <1>2, FS_CardinalityType

\* A set of sessions has no more members than one that includes it.
LEMMA Larger ==
    ASSUME NEW S, NEW T, S \subseteq T, T \subseteq Session
    PROVE  /\ IsFiniteSet(S) /\ Cardinality(S) \in Nat
           /\ Cardinality(T) \in Nat /\ Cardinality(S) <= Cardinality(T)
<1>1. IsFiniteSet(T)
  BY GameSessionAssumption, FS_Subset
<1>2. IsFiniteSet(S) /\ Cardinality(S) <= Cardinality(T)
  BY <1>1, FS_Subset
<1> QED BY <1>1, <1>2, FS_CardinalityType

\* A request of one session is that session's.
LEMMA OfIs ==
    ASSUME NEW r, NEW s \in Session, reward[r].of = {s}
    PROVE  Of(r) = s
BY DEF Of

\* The session of a request under way.
LEMMA OfType ==
    ASSUME IInv, NEW r \in Reward, reward[r].pc \notin {"idle", "done"}
    PROVE  Of(r) \in Session /\ reward[r].of = {Of(r)}
<1>1. PICK s \in Session : reward[r].of = {s}
  BY DEF IInv, RewardOk
<1> QED BY <1>1, OfIs

\* The request records keep their type.
LEMMA RewardType ==
    ASSUME IInv, NEW r \in Reward
    PROVE  reward[r] \in RewardRecord /\ reward \in [Reward -> RewardRecord]
BY DEF IInv, TypeOK, RewardRecord

\* A request can be over, or not begun.
LEMMA DoneType == Done \in RewardRecord /\ Done.pc = "done" /\ NoReward \in RewardRecord
BY Zero DEF Done, NoReward, RewardRecord

-----------------------------------------------------------------------------
(* Steps that keep the invariant.                                          *)

\* At first nothing is started, recorded or counted.
LEMMA InitOk == Init => IInv
<1> SUFFICES ASSUME Init PROVE IInv
  OBVIOUS
<1>1. TypeOK
  <2>1. reward \in [Reward -> RewardRecord]
    BY DoneType DEF Init
  <2>2. /\ beat \in [Beat -> [pc : {"idle", "write", "done"}, of : SUBSET Session]]
        /\ run \in [Session -> [kept : BOOLEAN, ok : BOOLEAN, week : Week]]
        /\ player \in [Week -> [count : Nat, allocated : BOOLEAN]]
    BY Zero DEF Init, NoBeat, NoRun
  <2>3. settling \in [Week ->
          [status : {"open", "closed", "listed", "allocated"}, count : Nat]]
    BY DEF Init
  <2>4. xpRuns \in [Day -> 0 .. XpCap] /\ today \in Day
    BY Zero, GameSessionAssumption DEF Init
  <2> QED BY <2>1, <2>2, <2>3, <2>4 DEF Init, TypeOK, RewardRecord
<1>2. \A r \in Reward : RewardOk(r)
  BY DEF Init, RewardOk, NoReward, Crediting, Uncounted
<1>3. Alone
  BY DEF Init, Alone, NoReward, Crediting, Uncounted
<1>4. \A w \in Week : WeekOk(w)
  BY BackedIsFinite DEF Init, WeekOk
<1> QED BY <1>1, <1>2, <1>3, <1>4 DEF IInv, Init

\* A step that keeps every run, and leaves the weeks and the events alone.
LEMMA Keeps ==
    ASSUME IInv, TypeOK', \A r \in Reward : RewardOk(r)', Alone',
           UNCHANGED <<player, settling>>,
           \A w \in Week : Backed(w) \subseteq Backed(w)',
           \A s \in events' : run'[s].kept /\ run'[s].ok
    PROVE  IInv'
<1>1. ASSUME NEW w \in Week PROVE WeekOk(w)'
  <2>1. PICK S, T : S = Backed(w) /\ T = Backed(w)'
    OBVIOUS
  <2>2. S \subseteq T /\ T \subseteq Session
    BY <2>1 DEF Backed
  <2>3. Cardinality(S) \in Nat /\ Cardinality(T) \in Nat
        /\ Cardinality(S) <= Cardinality(T)
    BY <2>2, Larger
  <2>4. player[w].count \in Nat /\ player[w].count <= Cardinality(S)
    BY <2>1 DEF IInv, TypeOK, WeekOk
  <2>5. player'[w].count <= Cardinality(T)
    BY <2>3, <2>4
  <2> QED BY <2>1, <2>5 DEF IInv, WeekOk
<1> QED BY <1>1 DEF IInv

\* A request goes from one step to another, without a run to credit that it
\* had not before.
LEMMA RewardMoves ==
    ASSUME IInv, NEW r \in Reward, NEW q \in RewardRecord,
           reward' = [reward EXCEPT ![r] = q], UNCHANGED run,
           q.pc \notin {"idle", "done"} => \E s \in Session : q.of = {s},
           q.pc \in Crediting => /\ reward[r].pc \in Crediting
                                 /\ q.of = reward[r].of /\ q.week = reward[r].week,
           q.pc \in Uncounted => reward[r].pc \in Uncounted
    PROVE  /\ \A o \in Reward : RewardOk(o)'
           /\ Alone'
           /\ \A w \in Week : Backed(w) \subseteq Backed(w)'
           /\ reward' \in [Reward -> RewardRecord]
<1>1. reward' \in [Reward -> RewardRecord] /\ reward'[r] = q
      /\ \A o \in Reward \ {r} : reward'[o] = reward[o]
  BY RewardType
<1>2. \A o \in Reward : RewardOk(o)
  BY DEF IInv
<1>3. \A o \in Reward : RewardOk(o)'
  BY <1>1, <1>2 DEF RewardOk, Verified
<1>4. Alone'
  BY <1>1 DEF IInv, Alone
<1>5. \A w \in Week : Backed(w) \subseteq Backed(w)'
  BY <1>1 DEF Backed, Verified, Crediting
<1> QED BY <1>1, <1>3, <1>4, <1>5

\* The steps that concern neither the requests nor what they record.
LEMMA AroundOk ==
    ASSUME IInv,
           \/ \E s \in Session : \/ CountActive(s) \/ TooMany(s) \/ SetSession(s)
                                \/ AddActive(s) \/ Expire(s)
                                \/ \E h \in Beat : ReadForBeat(h, s)
           \/ \E h \in Beat : WriteBeat(h)
           \/ Tomorrow
           \/ UNCHANGED vars
    PROVE  IInv'
<1>1. UNCHANGED <<reward, run, player, indexed, settling, events, xpRuns>>
  BY DEF CountActive, TooMany, SetSession, AddActive, Expire, ReadForBeat,
     WriteBeat,
     Tomorrow, vars, week, xp
<1>2. session' \in [Session -> {"none", "live", "consumed", "expired"}]
  <2>1. \/ UNCHANGED session
        \/ \E s \in Session : session' = [session EXCEPT ![s] = "live"]
        \/ \E s \in Session : session' = [session EXCEPT ![s] = "expired"]
        \/ \E h \in Beat : \E s \in beat[h].of : Store(s, "live")
    BY DEF CountActive, TooMany, SetSession, AddActive, Expire, ReadForBeat,
       WriteBeat,
       Tomorrow, vars
  <2>2. session \in [Session -> {"none", "live", "consumed", "expired"}]
    BY DEF IInv, TypeOK
  <2>3. ASSUME NEW s, Store(s, "live")
        PROVE  session' \in [Session -> {"none", "live", "consumed", "expired"}]
    BY <2>2, <2>3 DEF Store
  <2> QED BY <2>1, <2>2, <2>3
<1>3. active' \subseteq Session
  BY DEF CountActive, TooMany, SetSession, AddActive, Expire, ReadForBeat,
     WriteBeat,
     Tomorrow, vars, minting, IInv, TypeOK
<1>4. creation' \in [Session -> {"idle", "counted", "stored", "done"}]
  <2>1. \/ UNCHANGED creation
        \/ \E s \in Session, pc \in {"counted", "stored", "done"} :
              creation' = [creation EXCEPT ![s] = pc]
    BY DEF CountActive, TooMany, SetSession, AddActive, Expire, ReadForBeat,
       WriteBeat,
       Tomorrow, vars, minting, Minting
  <2> QED BY <2>1 DEF IInv, TypeOK
<1>5. beat' \in [Beat -> [pc : {"idle", "write", "done"}, of : SUBSET Session]]
  <2>1. \/ UNCHANGED beat
        \/ \E h \in Beat, s \in Session :
              beat' = [beat EXCEPT ![h] = [pc |-> "write", of |-> {s}]]
        \/ \E h \in Beat : beat' = [beat EXCEPT ![h] = [pc |-> "done", of |-> {}]]
    BY DEF CountActive, TooMany, SetSession, AddActive, Expire, ReadForBeat,
       WriteBeat,
       Tomorrow, vars
  <2> QED BY <2>1 DEF IInv, TypeOK
<1>6. today' \in Day
  BY GameSessionAssumption
     DEF CountActive, TooMany, SetSession, AddActive, Expire,
     ReadForBeat, WriteBeat, Tomorrow, vars, IInv, TypeOK, Day
<1>7. TypeOK'
  BY <1>1, <1>2, <1>3, <1>4, <1>5, <1>6 DEF IInv, TypeOK
<1>8. /\ \A r \in Reward : RewardOk(r)'
      /\ Alone'
      /\ \A w \in Week : Backed(w) \subseteq Backed(w)'
      /\ \A s \in events' : run'[s].kept /\ run'[s].ok
  BY <1>1 DEF IInv, RewardOk, Alone, Backed, Verified
<1> QED BY <1>1, <1>7, <1>8, Keeps

\* A request ends, at any step.
LEMMA EndsOk ==
    ASSUME IInv, NEW r \in Reward, reward' = [reward EXCEPT ![r] = Done],
           UNCHANGED run
    PROVE  /\ \A o \in Reward : RewardOk(o)'
           /\ Alone'
           /\ \A w \in Week : Backed(w) \subseteq Backed(w)'
           /\ reward' \in [Reward -> RewardRecord]
<1>1. PICK q \in RewardRecord : q = Done /\ q.pc = "done"
  BY DoneType
<1> QED BY <1>1, RewardMoves DEF Crediting, Uncounted

\* A request goes on with what it has.
LEMMA GoesOnOk ==
    ASSUME IInv, NEW r \in Reward,
           NEW pc \in {"put", "consume", "discard", "week", "count", "index", "xp"},
           reward[r].pc \notin {"idle", "done"},
           reward' = [reward EXCEPT ![r].pc = pc], UNCHANGED run,
           pc \in Crediting => reward[r].pc \in Crediting,
           pc \in Uncounted => reward[r].pc \in Uncounted
    PROVE  /\ \A o \in Reward : RewardOk(o)'
           /\ Alone'
           /\ \A w \in Week : Backed(w) \subseteq Backed(w)'
           /\ reward' \in [Reward -> RewardRecord]
<1>1. PICK q : q = [reward[r] EXCEPT !.pc = pc]
  OBVIOUS
<1>2. q \in RewardRecord /\ q.pc = pc /\ q.of = reward[r].of /\ q.week = reward[r].week
  BY <1>1, RewardType DEF RewardRecord
<1>3. reward' = [reward EXCEPT ![r] = q]
  BY <1>1, RewardType
<1>4. \E s \in Session : q.of = {s}
  BY <1>2 DEF IInv, RewardOk
<1> QED BY <1>2, <1>3, <1>4, RewardMoves

\* The steps up to the record, and the ends.
LEMMA EarlyOk ==
    ASSUME IInv, NEW r \in Reward,
           Verify(r) \/ Stop(r) \/ \E s \in Session : Load(r, s)
    PROVE  IInv'
<1>1. UNCHANGED <<session, active, creation, beat, run, player, indexed, settling,
                  events, xpRuns, today>>
  BY DEF Verify, Stop, Load, minting, week, xp
<1>2. /\ \A o \in Reward : RewardOk(o)'
      /\ Alone'
      /\ \A w \in Week : Backed(w) \subseteq Backed(w)'
      /\ reward' \in [Reward -> RewardRecord]
  <2>1. CASE reward' = [reward EXCEPT ![r] = Done]
    BY <1>1, <2>1, EndsOk
  <2>2. ASSUME NEW s \in Session, Load(r, s)
        PROVE  \E q \in RewardRecord : /\ reward' = [reward EXCEPT ![r] = q]
                                       /\ q.pc = "verify" /\ q.of = {s}
    <3>1. PICK q : q = [reward[r] EXCEPT !.pc = "verify", !.of = {s}]
      OBVIOUS
    <3>2. q \in RewardRecord /\ q.pc = "verify" /\ q.of = {s}
      BY <3>1, RewardType DEF RewardRecord
    <3>3. reward' = [reward EXCEPT ![r] = q]
      BY <2>2, <3>1, RewardType DEF Load
    <3> QED BY <3>2, <3>3
  <2>3. CASE \E s \in Session : Load(r, s)
    BY <1>1, <2>2, <2>3, RewardMoves DEF Crediting, Uncounted
  <2>4. ASSUME NEW valid \in BOOLEAN, NEW verified \in BOOLEAN, At(r, "verify"),
               reward' = [reward EXCEPT ![r] =
                             [@ EXCEPT !.pc = "put", !.ok = valid /\ verified,
                                       !.week = WeekOf(today)]]
        PROVE  /\ \A o \in Reward : RewardOk(o)'
               /\ Alone'
               /\ \A w \in Week : Backed(w) \subseteq Backed(w)'
               /\ reward' \in [Reward -> RewardRecord]
    <3>1. PICK ok \in BOOLEAN : ok = (valid /\ verified)
      OBVIOUS
    <3>2. WeekOf(today) \in Week
      BY ThisWeek DEF IInv
    <3>3. PICK q : q = [reward[r] EXCEPT !.pc = "put", !.ok = ok,
                                         !.week = WeekOf(today)]
      OBVIOUS
    <3>4. q \in RewardRecord /\ q.pc = "put" /\ q.of = reward[r].of
      BY <3>2, <3>3, RewardType DEF RewardRecord
    <3>5. reward' = [reward EXCEPT ![r] = q]
      BY <2>4, <3>1, <3>3, RewardType
    <3>6. \E s \in Session : q.of = {s}
      BY <2>4, <3>4 DEF At, IInv, RewardOk
    <3> QED BY <1>1, <3>4, <3>5, <3>6, RewardMoves DEF Crediting, Uncounted
  <2> QED BY <2>1, <2>3, <2>4 DEF Verify, Stop
<1>3. TypeOK'
  BY <1>1, <1>2 DEF IInv, TypeOK, RewardRecord
<1> QED BY <1>1, <1>2, <1>3, Keeps DEF IInv

\* The first request of a session keeps its record; nothing was credited, and
\* nothing is about to be, until then.
LEMMA PutRunOk ==
    ASSUME IInv, NEW r \in Reward, PutRun(r)
    PROVE  IInv'
<1> DEFINE s == Of(r)
<1>1. s \in Session /\ reward[r].of = {s} /\ reward[r].pc = "put"
      /\ reward[r] \in RewardRecord
  BY OfType, RewardType DEF PutRun, At
<1>2. UNCHANGED <<session, active, creation, beat, player, indexed, settling,
                  events, xpRuns, today>>
  BY DEF PutRun, minting, week, xp
<1>3. PICK new : new = [kept |-> TRUE, ok |-> reward[r].ok, week |-> reward[r].week]
  OBVIOUS
<1>4. /\ new \in [kept : BOOLEAN, ok : BOOLEAN, week : Week]
      /\ new.kept /\ new.ok = reward[r].ok /\ new.week = reward[r].week
  BY <1>1, <1>3 DEF RewardRecord
<1>5. /\ run' = [run EXCEPT ![s] = IF @.kept THEN @ ELSE new]
      /\ GoesTo(r, IF ~run[s].kept /\ new.ok THEN "consume" ELSE "discard")
  BY <1>3 DEF PutRun
<1> HIDE DEF s
<1>6. /\ run' \in [Session -> [kept : BOOLEAN, ok : BOOLEAN, week : Week]]
      /\ \A t \in Session : run[t].kept => run'[t] = run[t]
      /\ ~run[s].kept => run'[s] = new
      /\ \A t \in Session \ {s} : run'[t] = run[t]
  BY <1>1, <1>4, <1>5 DEF IInv, TypeOK
<1>7. PICK q \in RewardRecord :
         /\ reward' = [reward EXCEPT ![r] = q]
         /\ q.pc \in {"done", "consume", "discard"}
         /\ q.pc # "done" => q.of = {s} /\ q.week = reward[r].week
         /\ q.pc = "consume" => ~run[s].kept /\ new.ok
  <2>1. PICK d \in RewardRecord : d = Done /\ d.pc = "done"
    BY DoneType
  <2>2. ASSUME NEW pc \in {"consume", "discard"}, reward' = [reward EXCEPT ![r].pc = pc]
        PROVE  \E q \in RewardRecord :
                  /\ reward' = [reward EXCEPT ![r] = q]
                  /\ q.pc = pc /\ q.of = {s} /\ q.week = reward[r].week
    <3>1. PICK q : q = [reward[r] EXCEPT !.pc = pc]
      OBVIOUS
    <3>2. q \in RewardRecord /\ q.pc = pc /\ q.of = {s} /\ q.week = reward[r].week
      BY <1>1, <3>1 DEF RewardRecord
    <3>3. reward' = [reward EXCEPT ![r] = q]
      BY <2>2, <3>1, RewardType
    <3> QED BY <3>2, <3>3
  <2>3. CASE ~run[s].kept /\ new.ok
    BY <1>5, <2>1, <2>2, <2>3 DEF GoesTo
  <2>4. CASE ~(~run[s].kept /\ new.ok)
    BY <1>5, <2>1, <2>2, <2>4 DEF GoesTo
  <2> QED BY <2>3, <2>4
<1>8. /\ reward' \in [Reward -> RewardRecord] /\ reward'[r] = q
      /\ \A o \in Reward \ {r} : reward'[o] = reward[o]
  BY <1>7, RewardType
<1>9. TypeOK'
  BY <1>2, <1>6, <1>8 DEF IInv, TypeOK, RewardRecord
\* No other request credits s if its record is new.
<1>10. ~run[s].kept
         => \A o \in Reward : reward[o].pc \in Crediting => reward[o].of # {s}
  BY <1>1 DEF IInv, RewardOk, Verified
<1>11. \A o \in Reward : RewardOk(o)'
  <2>1. ASSUME NEW o \in Reward \ {r} PROVE RewardOk(o)'
    <3>1. RewardOk(o) /\ reward'[o] = reward[o]
      BY <1>8 DEF IInv
    <3>2. reward[o].pc \in Crediting
            => \A t \in reward[o].of : t \in Session /\ Verified(t, reward[o].week)
      BY <3>1, RewardType DEF RewardOk, RewardRecord
    <3> QED BY <1>6, <3>1, <3>2 DEF RewardOk, Verified
  <2>2. RewardOk(r)'
    <3>1. q.pc \in Crediting => q.pc = "consume"
      BY <1>7 DEF Crediting, Uncounted
    <3>2. q.pc = "consume" => run'[s].kept /\ run'[s].ok /\ run'[s].week = q.week
      BY <1>4, <1>6, <1>7
    <3> QED BY <1>1, <1>7, <1>8, <3>1, <3>2 DEF RewardOk, Verified
  <2> QED BY <2>1, <2>2
<1>12. Alone'
  <2>1. q.pc \in Crediting => ~run[s].kept /\ q.of = {s}
    BY <1>7 DEF Crediting, Uncounted
  <2> QED BY <1>8, <1>10, <2>1 DEF IInv, Alone
<1>13. ASSUME NEW w \in Week PROVE Backed(w) \subseteq Backed(w)'
  <2>1. ASSUME NEW t \in Backed(w) PROVE t \in Backed(w)'
    <3>1. /\ t \in Session /\ Verified(t, w)
          /\ \A o \in Reward : reward[o].pc \in Uncounted => reward[o].of # {t}
      BY <2>1 DEF Backed
    <3>2. run'[t] = run[t]
      BY <1>6, <3>1 DEF Verified
    <3>3. q.pc \in Uncounted => q.of # {t}
      BY <1>7, <3>1 DEF Verified, Uncounted
    <3> QED BY <1>8, <3>1, <3>2, <3>3 DEF Backed, Verified
  <2> QED BY <2>1
<1>14. \A t \in events' : run'[t].kept /\ run'[t].ok
  BY <1>2, <1>6 DEF IInv, TypeOK
<1> QED BY <1>2, <1>9, <1>11, <1>12, <1>13, <1>14, Keeps

\* The steps after the record, but the count.
LEMMA LaterOk ==
    ASSUME IInv, NEW r \in Reward, Consume(r) \/ CheckWeek(r) \/ Index(r) \/ Award(r)
    PROVE  IInv'
<1> DEFINE Kept ==
      /\ \A o \in Reward : RewardOk(o)'
      /\ Alone'
      /\ \A w \in Week : Backed(w) \subseteq Backed(w)'
      /\ reward' \in [Reward -> RewardRecord]
<1>1. UNCHANGED <<creation, beat, run, player, settling, today>>
  BY DEF Consume, CheckWeek, Index, Award, minting, week
<1>2. CASE Consume(r)
  <2>1. UNCHANGED <<indexed, events, xpRuns>>
    BY <1>2 DEF Consume, week, xp
  <2>2. Of(r) \in Session
    BY <1>2, OfType DEF Consume
  <2>3. session' \in [Session -> {"none", "live", "consumed", "expired"}]
    BY <1>2, <2>2 DEF Consume, Store, IInv, TypeOK
  <2>4. active' \subseteq Session
    BY <1>2 DEF Consume, IInv, TypeOK
  <2>5. \/ reward' = [reward EXCEPT ![r] = Done]
        \/ reward[r].pc = "consume" /\ reward' = [reward EXCEPT ![r].pc = "week"]
    BY <1>2 DEF Consume
  <2>6. Kept
    BY <1>1, <2>5, EndsOk, GoesOnOk DEF Crediting, Uncounted
  <2>7. TypeOK'
    BY <1>1, <2>1, <2>3, <2>4, <2>6 DEF IInv, TypeOK, RewardRecord
  <2> QED BY <1>1, <2>1, <2>6, <2>7, Keeps DEF IInv
<1>3. CASE CheckWeek(r)
  <2>1. UNCHANGED <<session, active, indexed, events, xpRuns>>
    BY <1>3 DEF CheckWeek, minting, week, xp
  <2>2. \E pc \in {"count", "xp"} : reward' = [reward EXCEPT ![r].pc = pc]
    BY <1>3 DEF CheckWeek
  <2>3. Kept
    BY <1>1, <1>3, <2>2, GoesOnOk DEF CheckWeek, At, Crediting, Uncounted
  <2>4. TypeOK'
    BY <1>1, <2>1, <2>3 DEF IInv, TypeOK, RewardRecord
  <2> QED BY <1>1, <2>1, <2>3, <2>4, Keeps DEF IInv
<1>4. CASE Index(r)
  <2>1. UNCHANGED <<session, active, events, xpRuns>> /\ reward[r].pc = "index"
    BY <1>4 DEF Index, At, minting, xp
  <2>2. indexed' \subseteq Week
    BY <1>4, RewardType DEF Index, IInv, TypeOK, RewardRecord
  <2>3. Kept
    BY <1>1, <1>4, <2>1, EndsOk, GoesOnOk
       DEF Index, GoesTo, Crediting, Uncounted
  <2>4. TypeOK'
    BY <1>1, <2>1, <2>2, <2>3 DEF IInv, TypeOK, RewardRecord
  <2> QED BY <1>1, <2>1, <2>3, <2>4, Keeps DEF IInv
<1>5. CASE Award(r)
  <2>1. UNCHANGED <<session, active, indexed>> /\ reward[r].pc = "xp"
    BY <1>5 DEF Award, At, minting, week
  <2>2. Kept
    BY <1>1, <1>5, EndsOk DEF Award
  <2>3. Of(r) \in Session /\ run[Of(r)].kept /\ run[Of(r)].ok
    BY <2>1, OfType DEF IInv, RewardOk, Verified, Crediting
  <2>4. events' \in {events, events \union {Of(r)}}
    BY <1>5 DEF Award, xp
  <2>5. xpRuns' \in [Day -> 0 .. XpCap]
    <3>1. CASE UNCHANGED xp
      BY <3>1 DEF xp, IInv, TypeOK
    <3>2. CASE xpRuns[today] < XpCap /\ xpRuns' = [xpRuns EXCEPT ![today] = @ + 1]
      <4>1. xpRuns[today] + 1 \in 0 .. XpCap
        BY <3>2, GameSessionAssumption DEF IInv, TypeOK
      <4> QED BY <3>2, <4>1 DEF IInv, TypeOK
    <3> QED BY <1>5, <3>1, <3>2 DEF Award
  <2>6. TypeOK'
    BY <1>1, <2>1, <2>2, <2>3, <2>4, <2>5 DEF IInv, TypeOK, RewardRecord
  <2>7. \A s \in events' : run'[s].kept /\ run'[s].ok
    BY <1>1, <2>3, <2>4 DEF IInv
  <2> QED BY <1>1, <2>2, <2>6, <2>7, Keeps
<1> QED BY <1>2, <1>3, <1>4, <1>5

\* A week's count grows by the one run that only this request could count.
LEMMA CountRunOk ==
    ASSUME IInv, NEW r \in Reward, CountRun(r)
    PROVE  IInv'
<1>1. PICK s \in Session, w \in Week : s = Of(r) /\ w = reward[r].week
  BY OfType, RewardType DEF CountRun, At, RewardRecord
<1>2. reward[r].pc = "count" /\ reward[r].of = {s} /\ Verified(s, w)
  BY <1>1, OfType DEF CountRun, At, IInv, RewardOk, Crediting, Uncounted
<1>3. UNCHANGED <<session, active, creation, beat, run, indexed, settling, events,
                  xpRuns, today>>
  BY DEF CountRun, minting, xp
<1>4. /\ \A o \in Reward : RewardOk(o)'
      /\ Alone'
      /\ \A v \in Week : Backed(v) \subseteq Backed(v)'
      /\ reward' \in [Reward -> RewardRecord]
  BY <1>2, <1>3, EndsOk, GoesOnOk DEF CountRun, GoesTo, Crediting, Uncounted
<1>5. /\ reward'[r].pc \notin Uncounted
      /\ \A o \in Reward \ {r} : reward'[o] = reward[o]
  BY RewardType, DoneType DEF CountRun, GoesTo, Uncounted, RewardRecord
<1>6. s \notin Backed(w) /\ s \in Backed(w)'
  <2>1. s \notin Backed(w)
    BY <1>2 DEF Backed, Uncounted
  <2>2. ASSUME NEW o \in Reward \ {r}, reward[o].pc \in Uncounted
        PROVE  reward[o].of # {s}
    BY <1>2, <2>2 DEF IInv, Alone, Crediting, Uncounted
  <2> QED BY <1>2, <1>3, <1>5, <2>1, <2>2 DEF Backed, Verified
<1>7. CASE player[w].allocated
  <2>1. UNCHANGED player
    BY <1>1, <1>7 DEF CountRun
  <2>2. TypeOK'
    BY <1>3, <1>4, <2>1 DEF IInv, TypeOK, RewardRecord
  <2> QED BY <1>3, <1>4, <2>1, <2>2, Keeps DEF IInv
<1>8. CASE ~player[w].allocated
  <2>1. player' = [player EXCEPT ![w].count = @ + 1]
    BY <1>1, <1>8 DEF CountRun
  <2>2. /\ player' \in [Week -> [count : Nat, allocated : BOOLEAN]]
        /\ player'[w].count = player[w].count + 1
        /\ ~player'[w].allocated
        /\ \A v \in Week \ {w} : player'[v] = player[v]
        /\ player[w].count \in Nat /\ settling[w].count \in Nat
    BY <1>8, <2>1 DEF IInv, TypeOK
  <2>3. TypeOK'
    BY <1>3, <1>4, <2>2 DEF IInv, TypeOK, RewardRecord
  <2>4. PICK S, T : S = Backed(w) /\ T = Backed(w)'
    OBVIOUS
  <2>5. /\ S \subseteq T /\ T \subseteq Session /\ S \union {s} \subseteq T
        /\ S \subseteq Session /\ s \notin S
    BY <1>4, <1>6, <2>4 DEF Backed
  <2>6. IsFiniteSet(S) /\ Cardinality(S) \in Nat
    BY <2>5, Larger
  <2>7. Cardinality(S \union {s}) = Cardinality(S) + 1
    BY <2>5, <2>6, FS_AddElement
  <2>8. Cardinality(S \union {s}) <= Cardinality(T) /\ Cardinality(T) \in Nat
    BY <2>5, Larger
  <2>9. player[w].count <= Cardinality(S)
    BY <2>4 DEF IInv, WeekOk
  <2>10. player'[w].count <= Cardinality(T)
    BY <2>2, <2>6, <2>7, <2>8, <2>9
  <2>11. WeekOk(w)'
    BY <1>3, <2>2, <2>4, <2>10 DEF IInv, WeekOk
  <2>12. ASSUME NEW v \in Week \ {w} PROVE WeekOk(v)'
    <3>1. PICK A, B : A = Backed(v) /\ B = Backed(v)'
      OBVIOUS
    <3>2. A \subseteq B /\ B \subseteq Session
      BY <1>4, <3>1 DEF Backed
    <3>3. Cardinality(A) \in Nat /\ Cardinality(B) \in Nat
          /\ Cardinality(A) <= Cardinality(B)
      BY <3>2, Larger
    <3>4. player[v].count \in Nat /\ player[v].count <= Cardinality(A)
      BY <3>1 DEF IInv, TypeOK, WeekOk
    <3>5. player'[v].count <= Cardinality(B)
      BY <2>2, <3>3, <3>4
    <3> QED BY <1>3, <2>2, <3>1, <3>5 DEF IInv, WeekOk
  <2> QED BY <1>3, <1>4, <2>3, <2>11, <2>12 DEF IInv
<1> QED BY <1>7, <1>8

\* The settlement closes a week, lists its record and writes that back; what it
\* writes back was counted when it listed it.
LEMMA SettlesOk ==
    ASSUME IInv, NEW w \in Week, Close(w) \/ ListPlayer(w) \/ Allocate(w)
    PROVE  IInv'
<1>1. UNCHANGED <<session, active, creation, beat, reward, run, indexed, events,
                  xpRuns, today>>
  BY DEF Close, ListPlayer, Allocate, minting, xp
<1>2. /\ player[w].count \in Nat /\ settling[w].count \in Nat
      /\ player[w].allocated \in BOOLEAN
  BY DEF IInv, TypeOK
<1>3. /\ settling' \in [Week ->
            [status : {"open", "closed", "listed", "allocated"}, count : Nat]]
      /\ \A v \in Week \ {w} : settling'[v] = settling[v]
  <2>1. \E r \in [status : {"open", "closed", "listed", "allocated"}, count : Nat] :
           settling' = [settling EXCEPT ![w] = r]
    <3>1. settling[w]
            \in [status : {"open", "closed", "listed", "allocated"}, count : Nat]
      BY DEF IInv, TypeOK
    <3>2. ASSUME NEW status \in {"closed", "allocated"},
                 settling' = [settling EXCEPT ![w].status = status]
          PROVE  settling' =
                   [settling EXCEPT ![w] = [settling[w] EXCEPT !.status = status]]
      BY <3>2 DEF IInv, TypeOK
    <3>3. \A status \in {"closed", "allocated"} :
             [settling[w] EXCEPT !.status = status]
                \in [status : {"open", "closed", "listed", "allocated"}, count : Nat]
      BY <3>1
    <3>4. CASE ListPlayer(w)
      BY <1>2, <3>4 DEF ListPlayer
    <3> QED BY <3>2, <3>3, <3>4 DEF Close, Allocate
  <2> QED BY <2>1 DEF IInv, TypeOK
<1>4. /\ player' \in [Week -> [count : Nat, allocated : BOOLEAN]]
      /\ \A v \in Week \ {w} : player'[v] = player[v]
  <2>1. \/ UNCHANGED player
        \/ \E r \in [count : Nat, allocated : BOOLEAN] :
              player' = [player EXCEPT ![w] = r]
    BY <1>2 DEF Close, ListPlayer, Allocate
  <2> QED BY <2>1 DEF IInv, TypeOK
<1>5. TypeOK'
  BY <1>1, <1>3, <1>4 DEF IInv, TypeOK
<1>6. \A v \in Week : Cardinality(Backed(v)) \in Nat /\ Backed(v)' = Backed(v)
  BY <1>1, BackedIsFinite DEF Backed, Verified
<1>7. \A v \in Week : WeekOk(v)
  BY DEF IInv
<1>8. WeekOk(w)'
  <2>1. CASE Close(w)
    <3>1. settling'[w].status = "closed" /\ UNCHANGED player
      BY <2>1 DEF Close, IInv, TypeOK
    <3> QED BY <1>6, <1>7, <2>1, <3>1 DEF WeekOk, Close
  <2>2. CASE ListPlayer(w)
    <3>1. /\ settling'[w].status = "listed" /\ UNCHANGED player
          /\ settling'[w].count = player[w].count
      BY <2>2 DEF ListPlayer, IInv, TypeOK
    <3> QED BY <1>2, <1>6, <1>7, <2>2, <3>1 DEF WeekOk, ListPlayer
  <2>3. CASE Allocate(w)
    <3>1. /\ settling'[w].status = "allocated"
          /\ player'[w].count = settling[w].count /\ settling[w].status = "listed"
      BY <2>3 DEF Allocate, IInv, TypeOK
    <3>2. player'[w].count <= Cardinality(Backed(w))
      BY <1>2, <1>6, <1>7, <3>1 DEF WeekOk
    <3> QED BY <1>6, <3>1, <3>2 DEF WeekOk
  <2> QED BY <2>1, <2>2, <2>3
<1>9. \A v \in Week \ {w} : WeekOk(v)'
  BY <1>3, <1>4, <1>6, <1>7 DEF WeekOk
<1>10. (\A r \in Reward : RewardOk(r)') /\ Alone'
       /\ \A s \in events' : run'[s].kept /\ run'[s].ok
  BY <1>1 DEF IInv, RewardOk, Alone, Verified
<1> QED BY <1>5, <1>8, <1>9, <1>10 DEF IInv

\* Every step keeps the invariant.
LEMMA StepOk == IInv /\ [Next]_vars => IInv'
<1> SUFFICES ASSUME IInv, [Next]_vars PROVE IInv'
  OBVIOUS
<1>1. ASSUME NEW r \in Reward,
             \/ Verify(r) \/ Stop(r) \/ PutRun(r) \/ Consume(r) \/ CheckWeek(r)
             \/ CountRun(r) \/ Index(r) \/ Award(r)
             \/ \E s \in Session : Load(r, s)
      PROVE  IInv'
  BY <1>1, EarlyOk, PutRunOk, LaterOk, CountRunOk
<1>2. ASSUME NEW w \in Week, Close(w) \/ ListPlayer(w) \/ Allocate(w) PROVE IInv'
  BY <1>2, SettlesOk
<1> QED BY <1>1, <1>2, AroundOk DEF Next

-----------------------------------------------------------------------------
(* The theorems.                                                           *)

\* The invariant of every behaviour, for the theorems that follow.
THEOREM Invariance == Spec => []IInv
BY InitOk, StepOk, PTL DEF Spec

\* Every variable keeps its shape, and the XP counter of a day its cap.
THEOREM TypeCorrect == Spec => []TypeOK
<1>1. IInv => TypeOK
  BY DEF IInv
<1> QED BY <1>1, Invariance, PTL

\* A week counts no run twice and none without its record; XP neither.
THEOREM RunsCountOnce == Spec => []CountedOnce
<1>1. IInv => CountedOnce
  <2> SUFFICES ASSUME IInv PROVE CountedOnce
    OBVIOUS
  <2>1. ASSUME NEW w \in Week PROVE player[w].count <= Cardinality(Counts(w))
    <3>1. PICK S, T : S = Backed(w) /\ T = Counts(w)
      OBVIOUS
    <3>2. S \subseteq T /\ T \subseteq Session
      BY <3>1 DEF Backed, Counts, Verified
    <3>3. Cardinality(S) \in Nat /\ Cardinality(T) \in Nat
          /\ Cardinality(S) <= Cardinality(T)
      BY <3>2, Larger
    <3>4. player[w].count \in Nat /\ player[w].count <= Cardinality(S)
      BY <3>1 DEF IInv, TypeOK, WeekOk
    <3>5. player[w].count <= Cardinality(T)
      BY <3>3, <3>4
    <3> QED BY <3>1, <3>5
  <2> QED BY <2>1 DEF CountedOnce, IInv
<1> QED BY <1>1, Invariance, PTL

\* A record that is being paid is changed by nothing, not by a request that saw
\* its week open.
THEOREM PaidIsFrozen == Spec => FrozenStays
<1>1. IInv /\ [Next]_vars
        => [\A w \in Week : player[w].allocated => player'[w] = player[w]]_vars
  <2> SUFFICES ASSUME IInv, Next, NEW w \in Week, player[w].allocated
               PROVE  player'[w] = player[w]
    BY DEF vars
  <2>1. settling[w].status = "allocated"
    BY DEF IInv, WeekOk
  <2>2. ASSUME NEW r \in Reward, CountRun(r) PROVE player'[w] = player[w]
    <3>1. reward[r].week \in Week
      BY RewardType DEF RewardRecord
    <3> QED BY <2>2, <3>1 DEF CountRun, IInv, TypeOK
  <2>3. ASSUME NEW v \in Week, Allocate(v) PROVE player'[w] = player[w]
    BY <2>1, <2>3 DEF Allocate, IInv, TypeOK
  <2>4. CASE UNCHANGED player
    BY <2>4
  <2> QED BY <2>2, <2>3, <2>4
             DEF Next, CountActive, TooMany, SetSession, AddActive,
    Expire, ReadForBeat, WriteBeat, Load, Verify, Stop, PutRun, Consume, CheckWeek,
    Index, Award, Close, ListPlayer, Tomorrow, week
<1> QED BY <1>1, Invariance, PTL DEF Spec, FrozenStays

=============================================================================
