------------------------------ MODULE DayLedger ------------------------------
(***************************************************************************)
(* The policy-day spend ledger of lib/autonomy/day-ledger-scripts.ts: five *)
(* Redis keys for one policy and one UTC day, and the Lua scripts that are *)
(* the only code writing them.  Redis runs a script atomically, so each    *)
(* script is one action.                                                   *)
(*                                                                         *)
(* Protocol, as the scripts implement it:                                  *)
(*  - the first script to touch a day imports the pre-migration CSV into   *)
(*    the hash, once, and fences and poisons the CSV;                      *)
(*  - a spend is reserved (R) under both caps, marked (A) before the       *)
(*    adapter is called, then committed (C), made ambiguous (X) or, when   *)
(*    nothing was broadcast, released (F);                                 *)
(*  - a day whose hash is lost is refused, never restarted at zero.        *)
(*                                                                         *)
(* Instances running the pre-migration code append to the CSV during a     *)
(* rolling deploy; keys expire, and keys in Losable may be lost at once.   *)
(***************************************************************************)
EXTENDS Amounts

CONSTANTS
    Exec,        \* execution ids that reserve spend on this day
    Amount,      \* the amounts a trade may ask for
    MaxDaily,    \* policy.maxDailyRaw
    MaxActions,  \* policy.maxActionsPerDay
    OldWriters,  \* are pre-migration instances still running?
    Losable,     \* keys that may vanish before they expire
    MaxDay       \* bound on the clock, in days since the day began

ASSUME ExecAssumption == IsFiniteSet(Exec)
ASSUME AmountAssumption == Amount \subseteq Nat
ASSUME CapAssumption == MaxDaily \in Nat /\ MaxActions \in Nat
ASSUME DayAssumption == MaxDay \in Nat

Key == {"legacy", "hash", "fence", "archive", "gen"}

\* While old writers run, the poison is all that stops them: the scheme
\* cannot survive its loss.  After the drain it can, as long as the witness
\* stays: when poison, fence, hash and witness are all lost, nothing is left
\* to tell the day from a new one.
ASSUME LosableAssumption ==
    /\ OldWriters \in BOOLEAN
    /\ Losable \subseteq Key
    /\ "legacy" \in Losable => ~OldWriters /\ "gen" \notin Losable

VARIABLES
    legacy,   \* the CSV key: absent, the old writers' CSV, or the poison
    hash,     \* the five bookkeeping fields of the hash, or NoHash
    res,      \* res[e]: state letter of the field res:{e}; "none" if absent
    amt,      \* amt[e]: the amount of that field
    fence,    \* does the fence key exist?
    archive,  \* the archived CSV, or Absent
    gen,      \* the write witness: "none", "zero" or "written"
    expiry,   \* expiry[k]: the day during which key k expires
    day,      \* the clock: 0 is the ledger's own UTC day
    \* Observations no script reads:
    book,     \* book[e]: the last state acknowledged for e, hash lost or not
    granted,  \* executions whose caller was answered "A" and may broadcast
    sent,     \* executions whose adapter did broadcast
    old       \* what old writers were told is recorded: [sum, count]

keys == <<legacy, hash, res, amt, fence, archive, gen, expiry>>
seen == <<book, granted, sent, old>>
vars == <<legacy, hash, res, amt, fence, archive, gen, expiry, day,
          book, granted, sent, old>>

TTL_Short == 1

TTL == 2          \* DAY_LEDGER_TTL_SECONDS, in days
ArchiveTTL == 3   \* DAY_LEDGER_ARCHIVE_TTL_SECONDS

Absent == [kind |-> "absent", sum |-> 0, count |-> 0, clean |-> TRUE]
Poison == [kind |-> "poison", sum |-> 0, count |-> 0, clean |-> FALSE]
Csv(s, c, ok) == [kind |-> "csv", sum |-> s, count |-> c, clean |-> ok]

NoHash == [live |-> FALSE, total |-> 0, count |-> 0,
           legacy |-> 0, legacyCount |-> 0]
FreshHash(s, c) == [live |-> TRUE, total |-> s, count |-> c,
                    legacy |-> s, legacyCount |-> c]

NoReservations == [e \in Exec |-> "none"]

Init ==
    /\ legacy \in {Absent, Csv(0, 1, FALSE)}   \* a CSV may be malformed
                  \union {Csv(a, 1, TRUE) : a \in Amount}
    /\ hash = NoHash
    /\ res = NoReservations
    /\ amt = [e \in Exec |-> 0]
    /\ fence = FALSE
    /\ archive = Absent
    /\ gen = "none"
    /\ expiry = [k \in Key |-> IF k = "legacy" THEN TTL ELSE 0]
    /\ day = 0
    /\ book = NoReservations
    /\ granted = {}
    /\ sent = {}
    /\ old = [sum |-> legacy.sum, count |-> legacy.count]

-----------------------------------------------------------------------------
(* The migration fence: ensure_day_ledger.                                 *)

fenced == fence \/ legacy = Poison

\* The script answers OK and the hash's totals ...
Known == hash.live /\ (fenced \/ legacy = Absent)

\* ... or finds a day nobody touched yet, and imports its CSV.  In every
\* other case it writes nothing and answers UNAVAILABLE or MALFORMED.
MayImport == ~fenced /\ ~hash.live /\ gen = "none" /\ legacy.clean

\* The hash the rest of the script works on.
Ensured ==
    IF MayImport THEN FreshHash(legacy.sum, legacy.count) ELSE hash

Fence_WithoutPoison ==
    /\ archive' = IF legacy = Absent THEN archive ELSE legacy
    /\ fence' = TRUE
    /\ expiry' = [k \in Key |-> day + TTL]
    /\ UNCHANGED legacy

\* What an import writes besides the hash.
Fence ==
    /\ archive' = IF legacy = Absent THEN archive ELSE legacy
    /\ fence' = TRUE
    /\ legacy' = Poison
    /\ expiry' = [k \in Key |->
                    IF k # "archive" THEN day + TTL
                    ELSE IF legacy = Absent THEN expiry[k]
                    ELSE day + ArchiveTTL]

\* EXPIRE of the keys in ks.
Renew(ks) == [k \in Key |-> IF k \in ks THEN day + TTL ELSE expiry[k]]

\* Every mutation of the hash after the import renews only these.
Renewed == Renew({"hash", "gen"})

\* Ticks read and reserve for the day they started in; one may run past
\* midnight, none runs a day late.
InWindow == day <= 1

Ensure ==
    /\ InWindow
    /\ MayImport
    /\ hash' = Ensured
    /\ Fence
    /\ gen' = "zero"
    /\ UNCHANGED <<res, amt, day, seen>>

Reserve_NoActionCap(e, a) ==
    /\ InWindow
    /\ Known /\ res[e] = "none"
    /\ hash.total + a <= MaxDaily
    /\ hash' = [hash EXCEPT !.total = @ + a, !.count = @ + 1]
    /\ res' = [res EXCEPT ![e] = "R"]
    /\ amt' = [amt EXCEPT ![e] = a]
    /\ expiry' = Renewed
    /\ gen' = "written"
    /\ book' = [book EXCEPT ![e] = "R"]
    /\ UNCHANGED <<legacy, archive, fence, day, granted, sent, old>>

\* reserveDaySpend of a new id.  A duplicate id is answered, not counted.
Reserve(e, a) ==
    /\ InWindow
    /\ Known \/ MayImport
    /\ res[e] = "none"
    /\ Ensured.total + a <= MaxDaily
    /\ Ensured.count + 1 <= MaxActions
    /\ hash' = [Ensured EXCEPT !.total = @ + a, !.count = @ + 1]
    /\ res' = [res EXCEPT ![e] = "R"]
    /\ amt' = [amt EXCEPT ![e] = a]
    /\ IF MayImport THEN Fence
       ELSE expiry' = Renewed /\ UNCHANGED <<archive, fence, legacy>>
    /\ gen' = "written"
    /\ book' = [book EXCEPT ![e] = "R"]
    /\ UNCHANGED <<day, granted, sent, old>>

-----------------------------------------------------------------------------
(* The reservation's later life.  These scripts read the hash alone.       *)

Move(e, to) ==
    /\ res' = [res EXCEPT ![e] = to]
    /\ book' = [book EXCEPT ![e] = to]
    /\ gen' = "written"
    /\ expiry' = Renewed
    /\ UNCHANGED <<legacy, amt, fence, archive, day, sent, old>>

\* markSpendAttempt: R -> A; answered "A" again when repeated.
Mark(e) ==
    /\ res[e] \in {"R", "A"}
    /\ granted' = granted \union {e}
    /\ IF res[e] = "R"
       THEN Move(e, "A") /\ UNCHANGED hash
       ELSE UNCHANGED <<keys, day, book, sent, old>>

\* commitDaySpend: R or A -> C.
Commit(e) ==
    /\ res[e] \in {"R", "A"}
    /\ Move(e, "C")
    /\ UNCHANGED <<hash, granted>>

\* markSpendAmbiguous: A -> X.
Ambiguous(e) ==
    /\ res[e] = "A"
    /\ Move(e, "X")
    /\ UNCHANGED <<hash, granted>>

ReleaseAllowed_Twice(e, reason) == res[e] \in {"R", "A", "F"}

ReleaseAllowed_Unattempted(e, reason) == res[e] \in {"R", "A"}

ReleaseAllowed(e, reason) ==
    \/ reason = "P" /\ res[e] \in {"R", "A"}
    \/ reason = "U" /\ res[e] = "R"

\* The caller passes "P" only for a refusal known to precede the broadcast,
\* and gives up its right to broadcast; "U" is a guess any recovery may make.
CallerMayRelease(e, reason) == reason = "P" => e \notin sent

Release_Unchecked(e, reason) ==
    /\ hash.live /\ CallerMayRelease(e, reason)
    /\ hash' = [hash EXCEPT !.total = @ - amt[e], !.count = @ - 1]
    /\ Move(e, "F")
    /\ UNCHANGED granted

Release(e, reason) ==
    /\ ReleaseAllowed(e, reason)
    /\ CallerMayRelease(e, reason)
    /\ amt[e] <= hash.total /\ hash.count >= 1
    /\ hash' = [hash EXCEPT !.total = @ - amt[e], !.count = @ - 1]
    /\ Move(e, "F")
    /\ granted' = IF reason = "P" THEN granted \ {e} ELSE granted

Restore_IgnoringWitness ==
    /\ InWindow /\ fenced /\ ~hash.live /\ gen # "none"
    /\ archive.kind = "csv" /\ archive.clean
    /\ hash' = FreshHash(archive.sum, archive.count)
    /\ res' = NoReservations
    /\ fence' = TRUE
    /\ gen' = "zero"
    /\ expiry' = Renewed
    /\ UNCHANGED <<legacy, amt, archive, day, seen>>

\* restoreDayLedger, run by an operator.
Restore ==
    /\ InWindow
    /\ fenced
    /\ ~hash.live
    /\ gen = "zero"
    /\ archive.kind = "csv" /\ archive.clean
    /\ hash' = FreshHash(archive.sum, archive.count)
    /\ res' = NoReservations
    /\ fence' = TRUE
    /\ gen' = "zero"
    /\ expiry' = Renew({"hash", "gen", "fence"})
    /\ UNCHANGED <<legacy, amt, archive, day, seen>>

-----------------------------------------------------------------------------
(* The surroundings: the caller's adapter, old writers, and Redis itself.  *)

Broadcast(e) ==
    /\ e \in granted
    /\ sent' = sent \union {e}
    /\ UNCHANGED <<keys, day, book, granted, old>>

\* The frozen pre-migration append: it counts fields (the poison has more
\* than any cap), appends, and tells its caller the action is admitted.
OldAppend(a) ==
    /\ OldWriters
    /\ InWindow
    /\ legacy # Poison
    /\ legacy.count + 1 <= MaxActions
    /\ legacy' = Csv(legacy.sum + a, legacy.count + 1, legacy.clean)
    /\ expiry' = Renew({"legacy"})
    /\ old' = [sum |-> old.sum + a, count |-> old.count + 1]
    /\ UNCHANGED <<hash, res, amt, fence, archive, gen, day,
                   book, granted, sent>>

Exists(k) ==
    \/ k = "legacy" /\ legacy # Absent
    \/ k = "hash" /\ hash.live
    \/ k = "fence" /\ fence
    \/ k = "archive" /\ archive # Absent
    \/ k = "gen" /\ gen # "none"

Drop(k) ==
    /\ Exists(k)
    /\ legacy' = IF k = "legacy" THEN Absent ELSE legacy
    /\ hash' = IF k = "hash" THEN NoHash ELSE hash
    /\ res' = IF k = "hash" THEN NoReservations ELSE res
    /\ fence' = IF k = "fence" THEN FALSE ELSE fence
    /\ archive' = IF k = "archive" THEN Absent ELSE archive
    /\ gen' = IF k = "gen" THEN "none" ELSE gen
    /\ UNCHANGED <<amt, expiry, day, seen>>

Expire(k) == expiry[k] <= day /\ Drop(k)

\* A CSV lost before its import leaves no trace to refuse on.
Lose(k) ==
    /\ k \in Losable
    /\ k = "legacy" => legacy = Poison
    /\ Drop(k)

DayPasses ==
    /\ day < MaxDay
    /\ \A k \in Key : Exists(k) => day < expiry[k]
    /\ day' = day + 1
    /\ UNCHANGED <<keys, seen>>

Next ==
    \/ Ensure
    \/ Restore
    \/ DayPasses
    \/ \E e \in Exec :
         \/ \E a \in Amount : Reserve(e, a)
         \/ Mark(e)
         \/ Commit(e)
         \/ Ambiguous(e)
         \/ Broadcast(e)
         \/ \E reason \in {"P", "U"} : Release(e, reason)
    \/ \E a \in Amount : OldAppend(a)
    \/ \E k \in Key : Expire(k) \/ Lose(k)

Spec == Init /\ [][Next]_vars

-----------------------------------------------------------------------------
(* Properties.                                                             *)

Live == {"R", "A", "C", "X"}
State == Live \union {"none", "F"}

\* What the reservations m count, in amounts and in actions.
CountedIn(m) == {e \in Exec : m[e] \in Live}
SpendOf(m) == Total(CountedIn(m), amt)
ActionsOf(m) == Cardinality(CountedIn(m))

CsvType ==
    {Absent, Poison}
      \union [kind : {"csv"}, sum : Nat, count : Nat, clean : BOOLEAN]

TypeOK ==
    /\ legacy \in CsvType
    /\ hash \in [live : BOOLEAN, total : Nat, count : Nat,
                 legacy : Nat, legacyCount : Nat]
    /\ res \in [Exec -> State]
    /\ amt \in [Exec -> Nat]
    /\ fence \in BOOLEAN
    /\ archive \in CsvType
    /\ gen \in {"none", "zero", "written"}
    /\ expiry \in [Key -> Nat]
    /\ day \in Nat
    /\ book \in [Exec -> State]
    /\ granted \subseteq Exec
    /\ sent \subseteq Exec
    /\ old \in [sum : Nat, count : Nat]

\* The running totals are the imported sum plus every live reservation, and
\* the count likewise: dec_sub never meets its precondition's failure, and
\* no release, duplicate or crash leaves the totals off by an amount.
TotalsExact ==
    hash.live =>
        /\ hash.total = hash.legacy + SpendOf(res)
        /\ hash.count = hash.legacyCount + ActionsOf(res)

\* Whenever a script answers with totals, they hold all that was ever
\* promised for the day: every entry an old writer was told is recorded and
\* every reservation acknowledged and not released.  Losing the hash, the
\* fence, the witness or the archive, expiry, and an operator's restore
\* never make the ledger forget a part of it.
AnswersNeverUndercount ==
    InWindow /\ (Known \/ MayImport) =>
        /\ Ensured.total = old.sum + SpendOf(book)
        /\ Ensured.count = old.count + ActionsOf(book)

\* New reservations and old writers' appends never jointly exceed a cap:
\* where the new code admitted anything, all that is promised is in the caps.
JointlyWithinCaps ==
    CountedIn(book) # {} =>
        /\ old.sum + SpendOf(book) <= MaxDaily
        /\ old.count + ActionsOf(book) <= MaxActions

\* What may have been broadcast is counted for the rest of the day, whoever
\* releases, recovers or restores meanwhile.
BroadcastStaysCounted ==
    \A e \in sent :
        /\ book[e] \in {"A", "C", "X"}
        /\ hash.live => res[e] = book[e]

\* The fence locks no tick out of a day that still answers, the midnight
\* spill included, unless a key is lost before its expiry.
Answers == Known \/ MayImport
AvailableUntilLost ==
    [][Answers /\ InWindow' /\ ~Answers'
         => \E k \in Losable : Exists(k) /\ ~Exists(k)' /\ expiry[k] > day]_vars

\* Committed, ambiguous and released reservations are final, and no
\* acknowledged reservation disappears from the books.
FinalStatesStay ==
    [][\A e \in Exec :
         /\ book[e] \in {"C", "X", "F"} => book'[e] = book[e]
         /\ book[e] # "none" /\ hash'.live => res'[e] = book'[e]]_vars

-----------------------------------------------------------------------------
(* The inductive invariant behind the properties above.                    *)

\* A day nobody imported yet: nothing but the CSV exists.
Untouched ==
    /\ ~hash.live /\ ~fence /\ legacy # Poison
    /\ archive = Absent
    /\ gen = "none"
    /\ book = NoReservations
    /\ InWindow => legacy.sum = old.sum /\ legacy.count = old.count

\* Why an imported day is not imported again: the poison is there or, where
\* it may be lost, the witness is.
Guarded ==
    /\ legacy = Poison \/ (legacy = Absent /\ "legacy" \in Losable)
    /\ gen = "none" => "gen" \in Losable

\* An imported day: all that survives of it agrees with the books.
Imported ==
    /\ InWindow => Guarded
    /\ archive \in {Absent, Csv(old.sum, old.count, TRUE)}
    /\ hash.live =>
         /\ hash.legacy = old.sum /\ hash.legacyCount = old.count
         /\ res = book
    /\ gen = "zero" => book = NoReservations

NoHashNoFields == ~hash.live => res = NoReservations

\* Nothing expires in the window.
KeysOutlast == \A k \in Key : Exists(k) => expiry[k] >= TTL

GrantedIsCounted == \A e \in granted \union sent : book[e] \in {"A", "C", "X"}

IInv ==
    /\ TypeOK
    /\ Untouched \/ Imported
    /\ NoHashNoFields
    /\ KeysOutlast
    /\ TotalsExact
    /\ JointlyWithinCaps
    /\ GrantedIsCounted

-----------------------------------------------------------------------------
(* The abstract specification.                                             *)

\* The ledger keeps the abstract reservation protocol: losing keys, expiry
\* and a restore are steps no caller can tell from nothing happening.
Reservations ==
    INSTANCE SpendReservations WITH state <- book, admitted <- old

ImplementsReservations == Reservations!Spec

=============================================================================
