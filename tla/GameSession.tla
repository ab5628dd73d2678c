---------------------------- MODULE GameSession ----------------------------
(***************************************************************************)
(* MPGR Run sessions of one wallet and the rewards they back:              *)
(* lib/games/mpgr-run/server-session.ts, the session, checkpoint and       *)
(* reward routes, the run and player-week records of                       *)
(* kv-allocation-store.ts and the capped XP of lib/rewards/xp-ledger.ts.   *)
(* The settlement that closes a week and writes the player's record back   *)
(* is the environment here; Settlement models it.                          *)
(***************************************************************************)
EXTENDS Integers, FiniteSets

CONSTANTS
    Session,         \* session ids, minted once each
    Beat,            \* checkpoint requests
    Reward,          \* reward requests
    MaxLive,         \* MAX_CONCURRENT_SESSIONS_PER_WALLET
    XpCap,           \* DAILY_XP_RUN_CAP
    MinRuns,         \* MIN_VALID_RUNS_FOR_ELIGIBILITY
    DaysPerWeek,
    MaxDay,          \* bound: days that pass
    RewardsEnabled   \* GAME_REWARDS_ENABLED

ASSUME GameSessionAssumption ==
    /\ IsFiniteSet(Session)
    /\ {MaxLive, XpCap, MinRuns, DaysPerWeek} \subseteq Nat \ {0}
    /\ MaxDay \in Nat
    /\ RewardsEnabled \in BOOLEAN

Day == 0 .. MaxDay
WeekOf(d) == d \div DaysPerWeek
Week == {WeekOf(d) : d \in Day}

VARIABLES
    session,   \* session records: "none", "live", "consumed", "expired"
    active,    \* the wallet's sorted set of live sessions
    creation,  \* the request that mints each session
    beat,      \* checkpoint requests
    reward,    \* reward requests
    run,       \* run records: [kept, ok, week] of each session
    player,    \* player-week records: [count, allocated]
    indexed,   \* weeks whose index lists the wallet
    settling,  \* the settlement of each week
    events,    \* XP events by session
    xpRuns,    \* the XP cap counter of each day
    today

minting == <<active, creation>>
week == <<player, indexed, settling>>
xp == <<events, xpRuns>>
vars == <<session, active, creation, beat, reward, run, player, indexed,
          settling, events, xpRuns, today>>

NoRun == [kept |-> FALSE, ok |-> FALSE, week |-> 0]
NoBeat == [pc |-> "idle", of |-> {}]
NoReward == [pc |-> "idle", of |-> {}, ok |-> FALSE, week |-> 0]

Init ==
    /\ session = [s \in Session |-> "none"]
    /\ active = {}
    /\ creation = [s \in Session |-> "idle"]
    /\ beat = [h \in Beat |-> NoBeat]
    /\ reward = [r \in Reward |-> NoReward]
    /\ run = [s \in Session |-> NoRun]
    /\ player = [w \in Week |-> [count |-> 0, allocated |-> FALSE]]
    /\ indexed = {}
    /\ settling = [w \in Week |-> [status |-> "open", count |-> 0]]
    /\ events = {}
    /\ xpRuns = [d \in Day |-> 0]
    /\ today = 0

-----------------------------------------------------------------------------
(* createServerGameSession, for a session id of its own.                   *)

Minting(s, step, next) ==
    /\ creation[s] = step
    /\ creation' = [creation EXCEPT ![s] = next]

\* Expired members are removed, then the rest is counted; an error in either
\* is swallowed and counts as nothing.
CountActive(s) ==
    /\ Minting(s, "idle", "counted")
    /\ active' \in {active, {t \in active : session[t] # "expired"}}
    /\ UNCHANGED <<session, beat, reward, run, week, xp, today>>

TooMany(s) ==
    /\ Minting(s, "idle", "done")
    /\ active' = {t \in active : session[t] # "expired"}
    /\ Cardinality(active') >= MaxLive
    /\ UNCHANGED <<session, beat, reward, run, week, xp, today>>

SetSession(s) ==
    /\ Minting(s, "counted", "stored")
    /\ session' = [session EXCEPT ![s] = "live"]
    /\ UNCHANGED <<active, beat, reward, run, week, xp, today>>

AddActive(s) ==
    /\ Minting(s, "stored", "done")
    /\ active' \in {active, active \union {s}}
    /\ UNCHANGED <<session, beat, reward, run, week, xp, today>>

\* The record's TTL passes, fifteen minutes after it was written.
Expire(s) ==
    /\ session[s] \in {"live", "consumed"}
    /\ session' = [session EXCEPT ![s] = "expired"]
    /\ UNCHANGED <<minting, beat, reward, run, week, xp, today>>

\* A whole record is written back, from a copy read before.
Store(s, state) ==
    session' = [session EXCEPT ![s] = IF @ = "expired" THEN @ ELSE state]

-----------------------------------------------------------------------------
(* recordGameHeartbeat.                                                    *)

ReadForBeat(h, s) ==
    /\ beat[h].pc = "idle"
    /\ session[s] = "live"
    /\ beat' = [beat EXCEPT ![h] = [pc |-> "write", of |-> {s}]]
    /\ UNCHANGED <<session, minting, reward, run, week, xp, today>>

WriteBeat(h) ==
    /\ beat[h].pc = "write"
    /\ \/ \E s \in beat[h].of : Store(s, "live")
       \/ UNCHANGED session
    /\ beat' = [beat EXCEPT ![h] = [pc |-> "done", of |-> {}]]
    /\ UNCHANGED <<minting, reward, run, week, xp, today>>

-----------------------------------------------------------------------------
(* The reward route.                                                       *)

At(r, step) == reward[r].pc = step
Of(r) == CHOOSE s \in Session : s \in reward[r].of
Done == [NoReward EXCEPT !.pc = "done"]

\* A step's answer may not come back: the request fails after it.
GoesTo(r, next) ==
    reward' \in {[reward EXCEPT ![r].pc = next], [reward EXCEPT ![r] = Done]}

Load(r, s) ==
    /\ At(r, "idle")
    /\ session[s] = "live"
    /\ reward' = [reward EXCEPT ![r].pc = "verify", ![r].of = {s}]
    /\ UNCHANGED <<session, minting, beat, run, week, xp, today>>

\* Validation and replay judge the run, which is filed under today's week.
Verify(r) ==
    /\ At(r, "verify")
    /\ \E valid, verified \in BOOLEAN :
         reward' = [reward EXCEPT ![r] =
             IF RewardsEnabled /\ ~verified THEN Done
             ELSE [@ EXCEPT !.pc = "put", !.ok = valid /\ verified,
                            !.week = WeekOf(today)]]
    /\ UNCHANGED <<session, minting, beat, run, week, xp, today>>

\* The request ends here: out of the session's window, without heartbeats, at a
\* command that fails before it is applied, or with the function killed.
Stop(r) ==
    /\ reward[r].pc \notin {"idle", "done"}
    /\ reward' = [reward EXCEPT ![r] = Done]
    /\ UNCHANGED <<session, minting, beat, run, week, xp, today>>

\* Mutant: the record is written without NX, the consumed mark being the guard.
PutRun_Overwrites(r) ==
    LET s == Of(r)
        new == [kept |-> TRUE, ok |-> reward[r].ok, week |-> reward[r].week]
    IN  /\ At(r, "put")
        /\ run' = [run EXCEPT ![s] = new]
        /\ GoesTo(r, IF session[s] = "live" /\ new.ok THEN "consume" ELSE "discard")
        /\ UNCHANGED <<session, minting, beat, week, xp, today>>

\* putRunRecordIfAbsent: the first request of a session keeps its record, and
\* only that one has anything to credit.
PutRun(r) ==
    LET s == Of(r)
        new == [kept |-> TRUE, ok |-> reward[r].ok, week |-> reward[r].week]
    IN  /\ At(r, "put")
        /\ run' = [run EXCEPT ![s] = IF @.kept THEN @ ELSE new]
        /\ GoesTo(r, IF ~run[s].kept /\ new.ok THEN "consume" ELSE "discard")
        /\ UNCHANGED <<session, minting, beat, week, xp, today>>

\* consumeGameSession: the copy loaded before is written back with its mark,
\* and the session leaves the active set; errors are swallowed.
Consume(r) ==
    /\ reward[r].pc \in {"consume", "discard"}
    /\ \/ /\ Store(Of(r), "consumed")
          /\ active' \in {active, active \ reward[r].of}
       \/ UNCHANGED <<session, active>>
    /\ reward' = [reward EXCEPT ![r] = IF @.pc = "discard" THEN Done
                                       ELSE [@ EXCEPT !.pc = "week"]]
    /\ UNCHANGED <<creation, beat, run, week, xp, today>>

CheckWeek(r) ==
    /\ At(r, "week")
    /\ reward' = [reward EXCEPT ![r].pc =
                     IF settling[reward[r].week].status = "open"
                     THEN "count" ELSE "xp"]
    /\ UNCHANGED <<session, minting, beat, run, week, xp, today>>

\* Mutant: the script relies on the route's check of the week.
CountRun_Unchecked(r) ==
    /\ At(r, "count")
    /\ player' = [player EXCEPT ![reward[r].week].count = @ + 1]
    /\ GoesTo(r, "index")
    /\ UNCHANGED <<session, minting, beat, run, indexed, settling, xp, today>>

\* RECORD_VALIDATED_RUN_SCRIPT: a record that is being paid is left alone.
CountRun(r) ==
    LET w == reward[r].week IN
    /\ At(r, "count")
    /\ player' = IF player[w].allocated THEN player
                 ELSE [player EXCEPT ![w].count = @ + 1]
    /\ GoesTo(r, "index")
    /\ UNCHANGED <<session, minting, beat, run, indexed, settling, xp, today>>

Index(r) ==
    /\ At(r, "index")
    /\ indexed' = indexed \union {reward[r].week}
    /\ GoesTo(r, "xp")
    /\ UNCHANGED <<session, minting, beat, run, player, settling, xp, today>>

\* Mutant: the counter is not compared with the cap.
Award_Uncapped(r) ==
    /\ At(r, "xp")
    /\ IF Of(r) \notin events
       THEN /\ xpRuns' = [xpRuns EXCEPT ![today] = @ + 1]
            /\ events' = events \union {Of(r)}
       ELSE UNCHANGED xp
    /\ reward' = [reward EXCEPT ![r] = Done]
    /\ UNCHANGED <<session, minting, beat, run, week, today>>

\* AWARD_CAPPED_GAME_XP_SCRIPT, under the day the script is sent on.
Award(r) ==
    /\ At(r, "xp")
    /\ IF xpRuns[today] < XpCap /\ Of(r) \notin events
       THEN /\ xpRuns' = [xpRuns EXCEPT ![today] = @ + 1]
            /\ events' = events \union {Of(r)}
       ELSE UNCHANGED xp
    /\ reward' = [reward EXCEPT ![r] = Done]
    /\ UNCHANGED <<session, minting, beat, run, week, today>>

-----------------------------------------------------------------------------
(* The settlement of a week that has ended, and time.                      *)

Close(w) ==
    /\ w < WeekOf(today)
    /\ settling[w].status = "open"
    /\ settling' = [settling EXCEPT ![w].status = "closed"]
    /\ UNCHANGED <<session, minting, beat, reward, run, player, indexed, xp, today>>

ListPlayer(w) ==
    /\ settling[w].status = "closed"
    /\ w \in indexed
    /\ player[w].count >= MinRuns
    /\ settling' = [settling EXCEPT ![w] = [status |-> "listed",
                                            count |-> player[w].count]]
    /\ UNCHANGED <<session, minting, beat, reward, run, player, indexed, xp, today>>

\* The record listed is written back, with its share of the batch if it has one.
Allocate(w) ==
    /\ settling[w].status = "listed"
    /\ settling' = [settling EXCEPT ![w].status = "allocated"]
    /\ \E share \in BOOLEAN :
          player' = [player EXCEPT ![w] = [count |-> settling[w].count,
                                          allocated |-> share]]
    /\ UNCHANGED <<session, minting, beat, reward, run, indexed, xp, today>>

Tomorrow ==
    /\ today < MaxDay
    /\ today' = today + 1
    /\ UNCHANGED <<session, minting, beat, reward, run, week, xp>>

Next ==
    \/ \E s \in Session : \/ CountActive(s) \/ TooMany(s) \/ SetSession(s)
                          \/ AddActive(s) \/ Expire(s)
                          \/ \E h \in Beat : ReadForBeat(h, s)
                          \/ \E r \in Reward : Load(r, s)
    \/ \E h \in Beat : WriteBeat(h)
    \/ \E r \in Reward :
          \/ Verify(r) \/ Stop(r) \/ PutRun(r) \/ Consume(r) \/ CheckWeek(r)
          \/ CountRun(r) \/ Index(r) \/ Award(r)
    \/ \E w \in Week : Close(w) \/ ListPlayer(w) \/ Allocate(w)
    \/ Tomorrow

Spec == Init /\ [][Next]_vars

-----------------------------------------------------------------------------
(* Properties.                                                             *)

\* Every variable keeps its shape, and no day counts more XP runs than the cap.
TypeOK ==
    /\ session \in [Session -> {"none", "live", "consumed", "expired"}]
    /\ active \subseteq Session
    /\ creation \in [Session -> {"idle", "counted", "stored", "done"}]
    /\ beat \in [Beat -> [pc : {"idle", "write", "done"}, of : SUBSET Session]]
    /\ reward \in [Reward ->
          [pc : {"idle", "verify", "put", "consume", "discard", "week", "count",
                 "index", "xp", "done"},
           of : SUBSET Session, ok : BOOLEAN, week : Week]]
    /\ run \in [Session -> [kept : BOOLEAN, ok : BOOLEAN, week : Week]]
    /\ player \in [Week -> [count : Nat, allocated : BOOLEAN]]
    /\ indexed \subseteq Week
    /\ settling \in [Week ->
          [status : {"open", "closed", "listed", "allocated"}, count : Nat]]
    /\ events \subseteq Session
    /\ xpRuns \in [Day -> 0 .. XpCap]
    /\ today \in Day

Counts(w) == {s \in Session : run[s].kept /\ run[s].ok /\ run[s].week = w}

\* A week never counts more runs than it has verified run records, and XP goes
\* to sessions with such a record only: also for a session submitted twice at
\* once, submitted again after an answer was lost, or brought back to life by a
\* heartbeat that overlapped its consumption.
CountedOnce ==
    /\ \A w \in Week : player[w].count <= Cardinality(Counts(w))
    /\ \A s \in events : run[s].kept /\ run[s].ok

\* Once the settlement has put a week's record into its batch, no submission
\* changes it, though the route saw the week open before ("must never
\* retroactively change a frozen PlayerWeekRecord", reward/route.ts).
FrozenStays ==
    [][\A w \in Week : player[w].allocated => player'[w] = player[w]]_vars

=============================================================================
