-------------------------- MODULE DayLedgerProofs --------------------------
(***************************************************************************)
(* The day ledger's safety properties, proved for every set of executions, *)
(* every amount and cap, and every choice of keys that may be lost.        *)
(***************************************************************************)
EXTENDS DayLedger, AmountsProofs

\* The reservations a map counts are finitely many.
LEMMA CountedFinite ==
    ASSUME NEW m
    PROVE  /\ IsFiniteSet(CountedIn(m))
           /\ Cardinality(CountedIn(m)) \in Nat
<1>1. CountedIn(m) \in SUBSET Exec
  BY DEF CountedIn
<1>2. IsFiniteSet(CountedIn(m))
  BY <1>1, ExecAssumption, FS_Subset
<1> QED BY <1>2, FS_CardinalityType

\* An empty ledger counts nothing.
LEMMA CountedNone == CountedIn(NoReservations) = {}
BY DEF CountedIn, NoReservations, Live

\* A reservation moving between counted states stays counted.
LEMMA CountedKeep ==
    ASSUME NEW m \in [Exec -> State], NEW e \in Exec, m[e] \in Live,
           NEW s \in Live
    PROVE  CountedIn([m EXCEPT ![e] = s]) = CountedIn(m)
BY DEF CountedIn

\* A released reservation leaves the counted ones ...
LEMMA CountedDrop ==
    ASSUME NEW m \in [Exec -> State], NEW e \in Exec
    PROVE  CountedIn([m EXCEPT ![e] = "F"]) = CountedIn(m) \ {e}
BY DEF CountedIn, Live

\* ... and a new one joins them.
LEMMA CountedAdd ==
    ASSUME NEW m \in [Exec -> State], NEW e \in Exec
    PROVE  CountedIn([m EXCEPT ![e] = "R"]) = CountedIn(m) \union {e}
BY DEF CountedIn, Live

\* What a release subtracts is what the reservation had added.
LEMMA SpendDrop ==
    ASSUME NEW m \in [Exec -> State], NEW e \in Exec, m[e] \in Live,
           NEW f \in [Exec -> Nat]
    PROVE  LET C == CountedIn(m)
               D == CountedIn([m EXCEPT ![e] = "F"])
           IN  /\ Total(C, f) \in Nat /\ Total(D, f) \in Nat
               /\ Total(C, f) = Total(D, f) + f[e]
               /\ Cardinality(D) \in Nat
               /\ Cardinality(C) = Cardinality(D) + 1
<1> DEFINE C == CountedIn(m)
           D == CountedIn([m EXCEPT ![e] = "F"])
<1>1. IsFiniteSet(C) /\ IsFiniteSet(D)
  BY CountedFinite
<1>2. e \in C /\ D = C \ {e}
  BY CountedDrop DEF CountedIn
<1>3. C \subseteq Exec /\ D \subseteq Exec
  BY DEF CountedIn
<1>4. (\A x \in C : f[x] \in Nat) /\ (\A x \in D : f[x] \in Nat)
  BY <1>3
<1> HIDE DEF C, D
<1>5. Total(C, f) \in Nat /\ Total(D, f) \in Nat
  BY <1>1, <1>4, TotalType
<1>6. Total(C, f) = Total(D, f) + f[e]
  BY <1>1, <1>2, <1>4, TotalRemove
<1>7. /\ Cardinality(C) \in Nat /\ Cardinality(D) \in Nat
      /\ Cardinality(D) = Cardinality(C) - 1
  BY <1>1, <1>2, FS_RemoveElement, FS_CardinalityType
<1> QED BY <1>5, <1>6, <1>7 DEF C, D

\* A new reservation of amount a adds a to the spend and one action.
LEMMA SpendAdd ==
    ASSUME NEW m \in [Exec -> State], NEW e \in Exec, m[e] \notin Live,
           NEW f \in [Exec -> Nat], NEW a \in Nat
    PROVE  LET C == CountedIn(m)
               D == CountedIn([m EXCEPT ![e] = "R"])
               g == [f EXCEPT ![e] = a]
           IN  /\ Total(C, f) \in Nat
               /\ Total(D, g) = Total(C, f) + a
               /\ Cardinality(C) \in Nat
               /\ Cardinality(D) = Cardinality(C) + 1
<1> DEFINE C == CountedIn(m)
           D == CountedIn([m EXCEPT ![e] = "R"])
           g == [f EXCEPT ![e] = a]
<1>1. IsFiniteSet(C)
  BY CountedFinite
<1>2. e \notin C /\ D = C \union {e}
  BY CountedAdd DEF CountedIn
<1>3. C \subseteq Exec
  BY DEF CountedIn
<1>4. /\ \A x \in C \union {e} : g[x] \in Nat
      /\ \A x \in C : f[x] \in Nat
      /\ \A x \in C : f[x] = g[x]
      /\ g[e] = a
  BY <1>2, <1>3
<1> HIDE DEF C, D, g
<1>5. Total(C, f) = Total(C, g)
  BY <1>4, TotalSame
<1>6. Total(D, g) = Total(C, g) + a
  BY <1>1, <1>2, <1>4, TotalAdd
<1>7. Total(C, f) \in Nat
  BY <1>1, <1>4, TotalType
<1>8. Cardinality(C) \in Nat /\ Cardinality(D) = Cardinality(C) + 1
  BY <1>1, <1>2, FS_AddElement, FS_CardinalityType
<1> QED BY <1>5, <1>6, <1>7, <1>8 DEF C, D, g

-----------------------------------------------------------------------------
(* Type correctness.                                                       *)

\* A CSV of natural numbers is a value of the CSV key.
LEMMA CsvTyped ==
    /\ Absent \in CsvType /\ Poison \in CsvType
    /\ \A s, c \in Nat, ok \in BOOLEAN : Csv(s, c, ok) \in CsvType
BY DEF CsvType, Absent, Poison, Csv

\* Every value of the CSV key has a natural sum and count.
LEMMA CsvFields ==
    \A c \in CsvType : c.sum \in Nat /\ c.count \in Nat /\ c.clean \in BOOLEAN
<1>1. TRUE \in BOOLEAN /\ FALSE \in BOOLEAN /\ 0 \in Nat
  OBVIOUS
<1>2. Absent.sum \in Nat /\ Absent.count \in Nat /\ Absent.clean \in BOOLEAN
  BY <1>1 DEF Absent
<1>3. Poison.sum \in Nat /\ Poison.count \in Nat /\ Poison.clean \in BOOLEAN
  BY <1>1 DEF Poison
<1> QED BY <1>2, <1>3 DEF CsvType

\* The empty map of reservations is well typed.
LEMMA ReservationsTyped == NoReservations \in [Exec -> State]
BY DEF NoReservations, State

HashType == [live : BOOLEAN, total : Nat, count : Nat,
             legacy : Nat, legacyCount : Nat]

\* The absent hash and a freshly imported one are well typed.
LEMMA HashTyped ==
    /\ NoHash \in HashType
    /\ \A s, c \in Nat : FreshHash(s, c) \in HashType
BY DEF NoHash, FreshHash, HashType

\* Adding one reservation to the totals keeps the hash well typed.
LEMMA HashAddTyped ==
    ASSUME NEW h \in HashType, NEW a \in Nat
    PROVE  [h EXCEPT !.total = @ + a, !.count = @ + 1] \in HashType
<1>1. h.total + a \in Nat /\ h.count + 1 \in Nat
  BY DEF HashType
<1> QED BY <1>1 DEF HashType

\* The hash a script works on is well typed, imported or found.
LEMMA EnsuredTyped == TypeOK => Ensured \in HashType
BY HashTyped, CsvFields DEF TypeOK, Ensured, HashType

\* The initial state is well typed.
LEMMA InitTyped == Init => TypeOK
<1> SUFFICES ASSUME Init PROVE TypeOK
  OBVIOUS
<1>1. legacy \in CsvType
  BY CsvTyped, AmountAssumption DEF Init
<1>2. hash \in HashType
  BY HashTyped DEF Init
<1> QED
  BY <1>1, <1>2, CsvTyped, CsvFields, ReservationsTyped
  DEF Init, TypeOK, HashType, CsvType, TTL

\* What Fence writes is well typed.
LEMMA FenceTyped ==
    ASSUME TypeOK, Fence
    PROVE  /\ legacy' \in CsvType /\ archive' \in CsvType
           /\ fence' \in BOOLEAN /\ expiry' \in [Key -> Nat]
<1>1. legacy' \in CsvType /\ archive' \in CsvType /\ fence' \in BOOLEAN
  BY CsvTyped DEF Fence, TypeOK
<1>2. expiry' \in [Key -> Nat]
  BY DEF Fence, TypeOK, TTL, ArchiveTTL
<1> QED BY <1>1, <1>2

\* EXPIRE leaves every key with a lifetime.
LEMMA RenewTyped ==
    TypeOK => \A ks : Renew(ks) \in [Key -> Nat]
BY DEF TypeOK, Renew, TTL

\* Changing the letter of a reservation keeps the types it touches.
LEMMA MoveTyped ==
    ASSUME TypeOK, NEW e \in Exec, NEW to \in State, Move(e, to)
    PROVE  /\ res' \in [Exec -> State] /\ book' \in [Exec -> State]
           /\ gen' \in {"none", "zero", "written"}
           /\ expiry' \in [Key -> Nat]
           /\ legacy' \in CsvType /\ archive' \in CsvType
           /\ amt' \in [Exec -> Nat] /\ fence' \in BOOLEAN
           /\ day' \in Nat /\ sent' \subseteq Exec
           /\ old' \in [sum : Nat, count : Nat]
BY RenewTyped DEF TypeOK, Move, Renewed

\* Every step keeps the types.
LEMMA NextTyped == TypeOK /\ [Next]_vars => TypeOK'
<1> SUFFICES ASSUME TypeOK, [Next]_vars PROVE TypeOK'
  OBVIOUS
<1> USE DEF HashType
<1>1. CASE Ensure
  BY <1>1, FenceTyped, EnsuredTyped DEF Ensure, TypeOK, seen
<1>2. CASE Restore
  <2>1. archive.sum \in Nat /\ archive.count \in Nat
    BY CsvFields DEF TypeOK
  <2>2. hash' \in HashType
    BY <1>2, <2>1, HashTyped DEF Restore
  <2>3. expiry' \in [Key -> Nat]
    BY <1>2, RenewTyped DEF Restore
  <2> QED
    BY <1>2, <2>2, <2>3, ReservationsTyped DEF Restore, TypeOK, seen
<1>3. CASE DayPasses
  BY <1>3 DEF DayPasses, TypeOK, keys, seen
<1>4. ASSUME NEW e \in Exec, NEW a \in Amount, Reserve(e, a) PROVE TypeOK'
  <2>1. a \in Nat
    BY AmountAssumption
  <2>2. hash' \in HashType
    <3>1. Ensured \in HashType
      BY EnsuredTyped
    <3>2. hash' = [Ensured EXCEPT !.total = @ + a, !.count = @ + 1]
      BY <1>4 DEF Reserve
    <3> QED BY <2>1, <3>1, <3>2, HashAddTyped
  <2>3. /\ res' \in [Exec -> State] /\ amt' \in [Exec -> Nat]
        /\ book' \in [Exec -> State]
    BY <1>4, <2>1 DEF Reserve, TypeOK, State, Live
  <2>4. /\ legacy' \in CsvType /\ archive' \in CsvType
        /\ fence' \in BOOLEAN /\ expiry' \in [Key -> Nat]
    BY <1>4, FenceTyped, RenewTyped DEF Reserve, TypeOK, Renewed
  <2> QED
    BY <1>4, <2>2, <2>3, <2>4 DEF Reserve, TypeOK
<1>5. ASSUME NEW e \in Exec, Mark(e) PROVE TypeOK'
  <2>1. CASE res[e] = "R"
    BY <1>5, <2>1, MoveTyped DEF Mark, TypeOK, State, Live
  <2>2. CASE res[e] # "R"
    BY <1>5, <2>2 DEF Mark, TypeOK, keys
  <2> QED BY <2>1, <2>2
<1>6. ASSUME NEW e \in Exec, Commit(e) PROVE TypeOK'
  BY <1>6, MoveTyped DEF Commit, TypeOK, State, Live
<1>7. ASSUME NEW e \in Exec, Ambiguous(e) PROVE TypeOK'
  BY <1>7, MoveTyped DEF Ambiguous, TypeOK, State, Live
<1>8. ASSUME NEW e \in Exec, Broadcast(e) PROVE TypeOK'
  BY <1>8 DEF Broadcast, TypeOK, keys
<1>9. ASSUME NEW e \in Exec, NEW reason \in {"P", "U"}, Release(e, reason)
      PROVE  TypeOK'
  <2>1. hash' \in HashType
    <3>1. hash.total - amt[e] \in Nat /\ hash.count - 1 \in Nat
      BY <1>9 DEF Release, TypeOK
    <3> QED BY <1>9, <3>1 DEF Release, TypeOK
  <2>2. granted' \subseteq Exec
    BY <1>9 DEF Release, TypeOK
  <2> QED
    BY <1>9, <2>1, <2>2, MoveTyped DEF Release, TypeOK, State
<1>10. ASSUME NEW a \in Amount, OldAppend(a) PROVE TypeOK'
  <2>1. a \in Nat
    BY AmountAssumption
  <2>2. legacy' \in CsvType /\ old' \in [sum : Nat, count : Nat]
    <3>1. legacy \in CsvType /\ old.sum \in Nat /\ old.count \in Nat
      BY DEF TypeOK
    <3>2. /\ legacy.sum + a \in Nat /\ legacy.count + 1 \in Nat
          /\ legacy.clean \in BOOLEAN
          /\ old.sum + a \in Nat /\ old.count + 1 \in Nat
      BY <2>1, <3>1, CsvFields
    <3>3. Csv(legacy.sum + a, legacy.count + 1, legacy.clean) \in CsvType
      BY <3>2, CsvTyped
    <3> QED BY <1>10, <3>2, <3>3 DEF OldAppend
  <2> QED
    BY <1>10, <2>2, RenewTyped DEF OldAppend, TypeOK
<1>11. ASSUME NEW k \in Key, Drop(k) PROVE TypeOK'
  BY <1>11, CsvTyped, HashTyped, ReservationsTyped
  DEF Drop, TypeOK, seen
<1>12. CASE UNCHANGED vars
  BY <1>12 DEF vars, TypeOK
<1> QED
  BY <1>1, <1>2, <1>3, <1>4, <1>5, <1>6, <1>7, <1>8, <1>9, <1>10, <1>11, <1>12
  DEF Next, Expire, Lose

\* Every variable keeps its type, for all values of the constants.
THEOREM TypeCorrect == Spec => []TypeOK
BY InitTyped, NextTyped, PTL DEF Spec

-----------------------------------------------------------------------------
(* The inductive invariant.                                                *)

\* The initial state satisfies the invariant.
LEMMA InitInv == Init => IInv
<1> SUFFICES ASSUME Init PROVE IInv
  OBVIOUS
<1>1. TypeOK
  BY InitTyped
<1>2. Untouched
  <2>1. legacy # Poison
    BY DEF Init, Absent, Poison, Csv
  <2>2. legacy.sum = old.sum /\ legacy.count = old.count
    BY DEF Init
  <2> QED BY <2>1, <2>2 DEF Init, Untouched, NoHash, InWindow
<1>3. NoHashNoFields /\ TotalsExact
  BY DEF Init, NoHashNoFields, TotalsExact, NoHash
<1>4. KeysOutlast
  BY DEF Init, KeysOutlast, Exists, NoHash, TTL, Key
<1>5. JointlyWithinCaps
  BY CountedNone DEF Init, JointlyWithinCaps
<1>6. GrantedIsCounted
  BY DEF Init, GrantedIsCounted
<1> QED BY <1>1, <1>2, <1>3, <1>4, <1>5, <1>6 DEF IInv

\* What an admitting script works on: the exact totals of all that was
\* promised, whether it imports the day or finds it in the hash.
LEMMA EnsuredExact ==
    ASSUME IInv, InWindow, Known \/ MayImport
    PROVE  /\ Ensured.live
           /\ Ensured.legacy = old.sum /\ Ensured.legacyCount = old.count
           /\ Ensured.total = old.sum + SpendOf(res)
           /\ Ensured.count = old.count + ActionsOf(res)
           /\ res = book
           /\ MayImport => Untouched
<1>1. CASE MayImport
  <2>1. Untouched
    BY <1>1, LosableAssumption
    DEF IInv, Imported, Guarded, MayImport, fenced
  <2>2. res = NoReservations /\ book = NoReservations
    BY <1>1, <2>1 DEF IInv, MayImport, NoHashNoFields, Untouched
  <2>3. SpendOf(res) = 0 /\ ActionsOf(res) = 0
    BY <2>2, CountedNone, TotalEmpty, FS_EmptySet DEF SpendOf, ActionsOf
  <2>4. Ensured = FreshHash(old.sum, old.count)
    BY <1>1, <2>1 DEF Untouched, Ensured, MayImport
  <2>5. old.sum \in Nat /\ old.count \in Nat
    BY DEF IInv, TypeOK
  <2>6. /\ Ensured.live /\ Ensured.total = old.sum
        /\ Ensured.count = old.count /\ Ensured.legacy = old.sum
        /\ Ensured.legacyCount = old.count
    BY <2>4 DEF FreshHash
  <2> QED BY <2>1, <2>2, <2>3, <2>5, <2>6
<1>2. CASE ~MayImport
  <2>1. Ensured = hash /\ hash.live
    BY <1>2 DEF Ensured, Known
  <2>2. Imported
    BY <2>1 DEF IInv, Untouched
  <2> QED
    BY <1>2, <2>1, <2>2 DEF IInv, Imported, TotalsExact
<1> QED BY <1>1, <1>2

\* A reservation that exists is in a live hash of an imported day.
LEMMA ReservedFacts ==
    ASSUME IInv, NEW e \in Exec, res[e] # "none"
    PROVE  hash.live /\ Imported /\ res = book
<1>1. hash.live
  BY DEF IInv, NoHashNoFields, NoReservations
<1> QED BY <1>1 DEF IInv, Untouched, Imported

\* The import leaves an imported day, guarded by its poison.
LEMMA FenceImports ==
    ASSUME IInv, InWindow, Untouched, legacy.clean, Fence
    PROVE  /\ legacy' = Poison
           /\ archive' \in {Absent, Csv(old.sum, old.count, TRUE)}
           /\ \A k \in Key :
                expiry'[k] >= TTL \/ (k = "archive" /\ archive' = Absent)
<1>1. legacy = Absent \/ legacy = Csv(old.sum, old.count, TRUE)
  <2>1. legacy \in CsvType /\ legacy # Poison
    BY DEF IInv, TypeOK, Untouched
  <2>2. legacy.sum = old.sum /\ legacy.count = old.count
    BY DEF Untouched
  <2> QED BY <2>1, <2>2 DEF CsvType, Csv
<1>2. archive' \in {Absent, Csv(old.sum, old.count, TRUE)}
  BY <1>1 DEF Fence, Untouched
<1>3. day \in Nat
  BY DEF IInv, TypeOK
<1>4. \A k \in Key : expiry'[k] >= TTL \/ (k = "archive" /\ archive' = Absent)
  BY <1>3 DEF Fence, TTL, ArchiveTTL, Untouched
<1> QED BY <1>2, <1>4 DEF Fence

\* Renewing keys never shortens a lifetime below the window.
LEMMA RenewOutlasts ==
    ASSUME IInv, NEW ks
    PROVE  /\ \A k \in Key : expiry[k] >= TTL => Renew(ks)[k] >= TTL
           /\ \A k \in Key : k \in ks => Renew(ks)[k] >= TTL
BY DEF IInv, TypeOK, Renew, TTL

-----------------------------------------------------------------------------
(* One lemma per script: it keeps the invariant.                           *)

\* Importing a day keeps the invariant.
LEMMA EnsureInv == ASSUME IInv, TypeOK', Ensure PROVE IInv'
<1>1. Untouched /\ res = book
  BY EnsuredExact DEF Ensure
<1>2. /\ hash' = Ensured /\ Fence /\ gen' = "zero" /\ legacy.clean
      /\ InWindow /\ MayImport
      /\ UNCHANGED <<res, amt, day, book, granted, sent, old>>
  BY DEF Ensure, seen, MayImport
<1>3. Ensured.live /\ Ensured.legacy = old.sum
      /\ Ensured.legacyCount = old.count
      /\ Ensured.total = old.sum + SpendOf(res)
      /\ Ensured.count = old.count + ActionsOf(res)
  BY <1>2, EnsuredExact
<1>4. Imported'
  BY <1>1, <1>2, <1>3, FenceImports
  DEF Imported, Guarded, Untouched
<1>5. NoHashNoFields'
  BY <1>2, <1>3 DEF NoHashNoFields
<1>6. KeysOutlast'
  BY <1>1, <1>2, FenceImports DEF KeysOutlast, Exists
<1>7. TotalsExact'
  BY <1>2, <1>3 DEF TotalsExact, SpendOf, ActionsOf
<1>8. JointlyWithinCaps' /\ GrantedIsCounted'
  BY <1>2 DEF IInv, JointlyWithinCaps, GrantedIsCounted, SpendOf, ActionsOf
<1> QED BY <1>4, <1>5, <1>6, <1>7, <1>8 DEF IInv

\* reserveDaySpend keeps it, whether it imports the day or not.
LEMMA ReserveInv ==
    ASSUME IInv, TypeOK', NEW e \in Exec, NEW a \in Amount, Reserve(e, a)
    PROVE  IInv'
<1>1. /\ InWindow
      /\ Known \/ MayImport
      /\ res[e] = "none"
      /\ Ensured.total + a <= MaxDaily
      /\ Ensured.count + 1 <= MaxActions
      /\ hash' = [Ensured EXCEPT !.total = @ + a, !.count = @ + 1]
      /\ res' = [res EXCEPT ![e] = "R"]
      /\ amt' = [amt EXCEPT ![e] = a]
      /\ book' = [book EXCEPT ![e] = "R"]
      /\ gen' = "written"
      /\ UNCHANGED <<day, granted, sent, old>>
  BY DEF Reserve
<1>2. /\ Ensured.live
      /\ Ensured.legacy = old.sum /\ Ensured.legacyCount = old.count
      /\ Ensured.total = old.sum + SpendOf(res)
      /\ Ensured.count = old.count + ActionsOf(res)
      /\ res = book
      /\ MayImport => Untouched
  BY <1>1, EnsuredExact
<1>3. Ensured \in HashType /\ a \in Nat
  BY EnsuredTyped, AmountAssumption DEF IInv
<1>4. /\ hash'.live /\ hash'.legacy = old.sum
      /\ hash'.legacyCount = old.count
      /\ hash'.total = Ensured.total + a
      /\ hash'.count = Ensured.count + 1
  BY <1>1, <1>2, <1>3 DEF HashType
<1>5. /\ SpendOf(res) \in Nat /\ ActionsOf(res) \in Nat
      /\ Total(CountedIn(res'), amt') = SpendOf(res) + a
      /\ Cardinality(CountedIn(res')) = ActionsOf(res) + 1
  <2>1. /\ res \in [Exec -> State] /\ amt \in [Exec -> Nat]
        /\ res[e] \notin Live
    BY <1>1 DEF IInv, TypeOK, Live
  <2> QED BY <1>1, <1>3, <2>1, SpendAdd DEF SpendOf, ActionsOf
<1>6. old.sum \in Nat /\ old.count \in Nat
  BY DEF IInv, TypeOK
<1>7. res' = book'
  BY <1>1, <1>2
<1>8. TotalsExact'
  BY <1>1, <1>2, <1>3, <1>4, <1>5, <1>6 DEF TotalsExact, SpendOf, ActionsOf
<1>9. JointlyWithinCaps'
  BY <1>1, <1>2, <1>3, <1>5, <1>6, <1>7
  DEF JointlyWithinCaps, SpendOf, ActionsOf
<1>10. NoHashNoFields'
  BY <1>4 DEF NoHashNoFields
<1>11. GrantedIsCounted'
  BY <1>1, <1>2 DEF IInv, GrantedIsCounted, TypeOK
<1>12. Imported' /\ KeysOutlast'
  <2>1. CASE MayImport
    <3>1. Untouched /\ legacy.clean /\ Fence
      BY <1>2, <2>1 DEF Reserve, MayImport
    <3>2. Imported'
      BY <1>1, <1>4, <1>7, <3>1, FenceImports DEF Imported, Guarded
    <3>3. KeysOutlast'
      BY <1>1, <3>1, FenceImports DEF KeysOutlast, Exists
    <3> QED BY <3>2, <3>3
  <2>2. CASE ~MayImport
    <3>1. expiry' = Renewed /\ UNCHANGED <<archive, fence, legacy>>
      BY <2>2 DEF Reserve
    <3>2. Imported
      BY <1>1, <2>2 DEF IInv, Untouched, Known
    <3>3. Imported'
      BY <1>1, <1>4, <1>7, <3>1, <3>2
      DEF Imported, Guarded, InWindow
    <3>4. KeysOutlast'
      BY <3>1, RenewOutlasts DEF IInv, KeysOutlast, Exists, Renewed
    <3> QED BY <3>3, <3>4
  <2> QED BY <2>1, <2>2
<1> QED BY <1>8, <1>9, <1>10, <1>11, <1>12 DEF IInv

\* A reservation changing its letter: what does not depend on the letter.
LEMMA MoveInv ==
    ASSUME IInv, NEW e \in Exec, res[e] # "none", NEW to \in State,
           Move(e, to),
           hash'.live = hash.live, hash'.legacy = hash.legacy,
           hash'.legacyCount = hash.legacyCount
    PROVE  /\ res' = book' /\ res' = [res EXCEPT ![e] = to]
           /\ hash.live /\ res = book
           /\ KeysOutlast' /\ Imported'
           /\ UNCHANGED <<amt, old, sent>>
<1>1. hash.live /\ Imported /\ res = book
  BY ReservedFacts
<1>2. /\ res' = [res EXCEPT ![e] = to] /\ book' = [book EXCEPT ![e] = to]
      /\ gen' = "written" /\ expiry' = Renewed
      /\ UNCHANGED <<legacy, amt, fence, archive, day, sent, old>>
  BY DEF Move
<1>3. KeysOutlast'
  BY <1>2, RenewOutlasts DEF IInv, KeysOutlast, Exists, Renewed
<1>4. res' = book'
  BY <1>1, <1>2
<1>5. Imported'
  BY <1>1, <1>2, <1>4 DEF Imported, Guarded, InWindow
<1> QED BY <1>1, <1>2, <1>3, <1>4, <1>5

\* Marking, committing and making ambiguous keep the reservation counted.
LEMMA AdvanceInv ==
    ASSUME IInv, TypeOK', NEW e \in Exec, res[e] \in Live,
           NEW to \in {"A", "C", "X"}, Move(e, to), UNCHANGED hash,
           granted' \subseteq granted \union {e}
    PROVE  IInv'
<1>1. to \in State /\ to \in Live /\ res[e] # "none"
  BY DEF State, Live
<1>2. /\ res' = book' /\ res' = [res EXCEPT ![e] = to]
      /\ hash.live /\ res = book
      /\ KeysOutlast' /\ Imported'
      /\ UNCHANGED <<amt, old, sent>>
  BY <1>1, MoveInv
<1>3. CountedIn(res') = CountedIn(res)
  <2>1. res \in [Exec -> State]
    BY DEF IInv, TypeOK
  <2>2. CountedIn([res EXCEPT ![e] = to]) = CountedIn(res)
    BY <1>1, <2>1, CountedKeep
  <2> QED BY <1>2, <2>2
<1>4. TotalsExact'
  BY <1>2, <1>3 DEF IInv, TotalsExact, SpendOf, ActionsOf
<1>5. JointlyWithinCaps'
  BY <1>2, <1>3 DEF IInv, JointlyWithinCaps, SpendOf, ActionsOf
<1>6. NoHashNoFields'
  BY <1>2 DEF NoHashNoFields
<1>7. GrantedIsCounted'
  BY <1>2 DEF IInv, GrantedIsCounted, TypeOK
<1> QED BY <1>2, <1>4, <1>5, <1>6, <1>7 DEF IInv

\* releaseDaySpend keeps it: what it subtracts had been added.
LEMMA ReleaseInv ==
    ASSUME IInv, TypeOK', NEW e \in Exec, NEW reason \in {"P", "U"},
           Release(e, reason)
    PROVE  IInv'
<1>1. /\ res[e] \in {"R", "A"}
      /\ reason = "U" => res[e] = "R"
      /\ reason = "P" => e \notin sent /\ granted' = granted \ {e}
      /\ reason = "U" => granted' = granted
      /\ Move(e, "F")
      /\ hash' = [hash EXCEPT !.total = @ - amt[e], !.count = @ - 1]
  BY DEF Release, ReleaseAllowed, CallerMayRelease
<1>2. hash \in HashType /\ amt \in [Exec -> Nat] /\ res \in [Exec -> State]
  BY DEF IInv, TypeOK, HashType
<1>3. /\ hash'.live = hash.live /\ hash'.legacy = hash.legacy
      /\ hash'.legacyCount = hash.legacyCount
      /\ hash'.total = hash.total - amt[e]
      /\ hash'.count = hash.count - 1
  BY <1>1, <1>2 DEF HashType
<1>4. /\ res' = book' /\ res' = [res EXCEPT ![e] = "F"]
      /\ hash.live /\ res = book
      /\ KeysOutlast' /\ Imported'
      /\ UNCHANGED <<amt, old, sent>>
  BY <1>1, <1>3, MoveInv DEF State
<1>5. /\ Total(CountedIn(res), amt) \in Nat
      /\ Total(CountedIn(res'), amt) \in Nat
      /\ Total(CountedIn(res), amt) = Total(CountedIn(res'), amt) + amt[e]
      /\ Cardinality(CountedIn(res')) \in Nat
      /\ Cardinality(CountedIn(res)) = Cardinality(CountedIn(res')) + 1
  <2>1. res[e] \in Live
    BY <1>1 DEF Live
  <2> DEFINE r == [res EXCEPT ![e] = "F"]
  <2>2. /\ Total(CountedIn(res), amt) \in Nat
        /\ Total(CountedIn(r), amt) \in Nat
        /\ Total(CountedIn(res), amt) = Total(CountedIn(r), amt) + amt[e]
        /\ Cardinality(CountedIn(r)) \in Nat
        /\ Cardinality(CountedIn(res)) = Cardinality(CountedIn(r)) + 1
    BY <1>2, <2>1, SpendDrop
  <2>3. res' = r
    BY <1>4
  <2> QED BY <2>2, <2>3
<1>6. old.sum \in Nat /\ old.count \in Nat /\ amt[e] \in Nat
      /\ hash.legacy \in Nat /\ hash.legacyCount \in Nat
  BY <1>2 DEF IInv, TypeOK
<1>7. TotalsExact'
  <2>1. /\ hash.total = hash.legacy + Total(CountedIn(res), amt)
        /\ hash.count = hash.legacyCount + Cardinality(CountedIn(res))
    BY <1>4 DEF IInv, TotalsExact, SpendOf, ActionsOf
  <2>2. /\ hash'.total = hash.legacy + Total(CountedIn(res'), amt)
        /\ hash'.count = hash.legacyCount + Cardinality(CountedIn(res'))
    BY <1>3, <1>5, <1>6, <2>1
  <2> QED BY <1>3, <1>4, <2>2 DEF TotalsExact, SpendOf, ActionsOf
<1>8. JointlyWithinCaps'
  <2>1. CountedIn(book) # {}
    BY <1>1, <1>4 DEF CountedIn, Live
  <2> QED
    BY <2>1, <1>4, <1>5, <1>6, CapAssumption
    DEF IInv, JointlyWithinCaps, SpendOf, ActionsOf
<1>9. NoHashNoFields'
  BY <1>3, <1>4 DEF NoHashNoFields
<1>10. GrantedIsCounted'
  <2>1. e \notin granted' /\ e \notin sent'
    BY <1>1, <1>4 DEF IInv, GrantedIsCounted
  <2>2. granted' \subseteq granted
    BY <1>1
  <2> QED BY <1>2, <1>4, <2>1, <2>2 DEF IInv, GrantedIsCounted, TypeOK
<1> QED BY <1>4, <1>7, <1>8, <1>9, <1>10 DEF IInv

\* restoreDayLedger keeps it: the witness says nothing was reserved.
LEMMA RestoreInv == ASSUME IInv, TypeOK', Restore PROVE IInv'
<1>1. /\ InWindow /\ fenced /\ ~hash.live /\ gen = "zero"
      /\ archive.kind = "csv"
      /\ hash' = FreshHash(archive.sum, archive.count)
      /\ res' = NoReservations /\ fence' = TRUE /\ gen' = "zero"
      /\ expiry' = Renew({"hash", "gen", "fence"})
      /\ UNCHANGED <<legacy, amt, archive, day, book, granted, sent, old>>
  BY DEF Restore, seen
<1>2. Imported
  BY <1>1 DEF IInv, Untouched
<1>3. book = NoReservations
  BY <1>1, <1>2 DEF Imported
<1>4. archive = Csv(old.sum, old.count, TRUE)
  <2>1. Absent.kind = "absent"
    BY DEF Absent
  <2> QED BY <1>1, <1>2, <2>1 DEF Imported
<1>5. archive.sum = old.sum /\ archive.count = old.count
  BY <1>4 DEF Csv
<1>6. /\ hash'.live /\ hash'.total = old.sum /\ hash'.legacy = old.sum
      /\ hash'.count = old.count /\ hash'.legacyCount = old.count
  BY <1>1, <1>5 DEF FreshHash
<1>7. Imported'
  BY <1>1, <1>2, <1>3, <1>6 DEF Imported, Guarded, InWindow
<1>8. SpendOf(res)' = 0 /\ ActionsOf(res)' = 0
  BY <1>1, CountedNone, TotalEmpty, FS_EmptySet DEF SpendOf, ActionsOf
<1>9. TotalsExact'
  <2>1. old.sum \in Nat /\ old.count \in Nat
    BY DEF IInv, TypeOK
  <2> QED BY <2>1, <1>6, <1>8 DEF TotalsExact
<1>10. NoHashNoFields'
  BY <1>1 DEF NoHashNoFields
<1>11. KeysOutlast'
  BY <1>1, RenewOutlasts DEF IInv, KeysOutlast, Exists
<1>12. JointlyWithinCaps' /\ GrantedIsCounted'
  BY <1>1 DEF IInv, JointlyWithinCaps, GrantedIsCounted, SpendOf, ActionsOf
<1> QED BY <1>7, <1>9, <1>10, <1>11, <1>12 DEF IInv

\* The caller's broadcast keeps it: only a counted attempt is granted.
LEMMA BroadcastInv ==
    ASSUME IInv, TypeOK', NEW e \in Exec, Broadcast(e) PROVE IInv'
BY DEF Broadcast, keys, IInv, Untouched, Imported, Guarded, InWindow,
       NoHashNoFields, KeysOutlast, Exists, TotalsExact, JointlyWithinCaps,
       GrantedIsCounted, SpendOf, ActionsOf

\* An old writer's append keeps it: the day is not imported yet.
LEMMA OldAppendInv ==
    ASSUME IInv, TypeOK', NEW a \in Amount, OldAppend(a) PROVE IInv'
<1>1. /\ OldWriters /\ InWindow /\ legacy # Poison
      /\ legacy' = Csv(legacy.sum + a, legacy.count + 1, legacy.clean)
      /\ expiry' = Renew({"legacy"})
      /\ old' = [sum |-> old.sum + a, count |-> old.count + 1]
      /\ UNCHANGED <<hash, res, amt, fence, archive, gen, day,
                     book, granted, sent>>
  BY DEF OldAppend
<1>2. Untouched
  BY <1>1, LosableAssumption DEF IInv, Imported, Guarded
<1>3. Untouched'
  BY <1>1, <1>2 DEF Untouched, Csv, Poison, InWindow
<1>4. KeysOutlast'
  <2>1. "legacy" \in {"legacy"}
    OBVIOUS
  <2> QED
    BY <1>1, <1>2, <2>1, RenewOutlasts
    DEF IInv, KeysOutlast, Exists, Untouched
<1>5. JointlyWithinCaps'
  BY <1>1, <1>2, CountedNone DEF JointlyWithinCaps, Untouched
<1>6. NoHashNoFields' /\ TotalsExact' /\ GrantedIsCounted'
  BY <1>1, <1>2
  DEF IInv, NoHashNoFields, TotalsExact, GrantedIsCounted, Untouched
<1> QED BY <1>3, <1>4, <1>5, <1>6 DEF IInv

\* Losing a key: what the window needs is either not losable or not needed.
LEMMA DropInv ==
    ASSUME IInv, TypeOK', NEW k \in Key, Drop(k), Expire(k) \/ Lose(k)
    PROVE  IInv'
<1>1. /\ Exists(k)
      /\ legacy' = IF k = "legacy" THEN Absent ELSE legacy
      /\ hash' = IF k = "hash" THEN NoHash ELSE hash
      /\ res' = IF k = "hash" THEN NoReservations ELSE res
      /\ fence' = IF k = "fence" THEN FALSE ELSE fence
      /\ archive' = IF k = "archive" THEN Absent ELSE archive
      /\ gen' = IF k = "gen" THEN "none" ELSE gen
      /\ UNCHANGED <<amt, expiry, day, book, granted, sent, old>>
  BY DEF Drop, seen
<1>2. InWindow => k \in Losable /\ (k = "legacy" => legacy = Poison)
  <2>1. ASSUME InWindow, Expire(k) PROVE FALSE
    BY <1>1, <2>1 DEF IInv, KeysOutlast, Expire, InWindow, TTL, TypeOK
  <2> QED BY <2>1 DEF Lose
<1>3. (Untouched \/ Imported)'
  <2>1. CASE Untouched
    <3>1. k = "legacy" /\ ~InWindow
      BY <1>1, <1>2, <2>1 DEF Untouched, Exists, Key
    <3> QED BY <1>1, <2>1, <3>1 DEF Untouched, InWindow, Absent, Poison
  <2>2. CASE Imported
    <3>1. ASSUME InWindow PROVE Guarded'
      <4>1. k \in Losable /\ (k = "legacy" => legacy = Poison) /\ Guarded
        BY <1>2, <2>2, <3>1 DEF Imported
      <4>2. CASE k = "legacy"
        <5>1. legacy' = Absent /\ gen' = gen /\ "legacy" \in Losable
          BY <1>1, <4>1, <4>2
        <5> QED BY <4>1, <5>1 DEF Guarded
      <4>3. CASE k # "legacy"
        BY <1>1, <4>1, <4>3 DEF Guarded
      <4> QED BY <4>2, <4>3
    <3>2. hash'.live => hash' = hash /\ res' = res
      BY <1>1 DEF NoHash
    <3> QED BY <1>1, <2>2, <3>1, <3>2 DEF Imported, InWindow
  <2> QED BY <2>1, <2>2 DEF IInv
<1>4. NoHashNoFields' /\ TotalsExact'
  BY <1>1 DEF IInv, NoHashNoFields, TotalsExact, SpendOf, ActionsOf, NoHash
<1>5. KeysOutlast'
  BY <1>1 DEF IInv, KeysOutlast, Exists, NoHash, Absent
<1>6. JointlyWithinCaps' /\ GrantedIsCounted'
  BY <1>1 DEF IInv, JointlyWithinCaps, GrantedIsCounted, SpendOf, ActionsOf
<1> QED BY <1>3, <1>4, <1>5, <1>6 DEF IInv

\* The passing of a day keeps it.
LEMMA DayPassesInv == ASSUME IInv, TypeOK', DayPasses PROVE IInv'
<1>1. /\ day' = day + 1 /\ day \in Nat
      /\ UNCHANGED <<legacy, hash, res, amt, fence, archive, gen, expiry,
                     book, granted, sent, old>>
  BY DEF DayPasses, keys, seen, IInv, TypeOK
<1>2. InWindow' => InWindow
  BY <1>1 DEF InWindow
<1>3. (Untouched \/ Imported)'
  BY <1>1, <1>2 DEF IInv, Untouched, Imported, Guarded
<1>4. NoHashNoFields' /\ TotalsExact' /\ KeysOutlast'
  BY <1>1
  DEF IInv, NoHashNoFields, TotalsExact, KeysOutlast, Exists,
      SpendOf, ActionsOf
<1>5. JointlyWithinCaps' /\ GrantedIsCounted'
  BY <1>1 DEF IInv, JointlyWithinCaps, GrantedIsCounted, SpendOf, ActionsOf
<1> QED BY <1>3, <1>4, <1>5 DEF IInv

\* A stuttering step keeps it.
LEMMA StutterInv == ASSUME IInv, TypeOK', UNCHANGED vars PROVE IInv'
BY DEF vars, IInv, Untouched, Imported, Guarded, InWindow,
       NoHashNoFields, KeysOutlast, Exists, TotalsExact, JointlyWithinCaps,
       GrantedIsCounted, SpendOf, ActionsOf

-----------------------------------------------------------------------------
(* The theorems.                                                           *)

\* Every step keeps the invariant.
LEMMA NextInv == IInv /\ [Next]_vars => IInv'
<1> SUFFICES ASSUME IInv, [Next]_vars PROVE IInv'
  OBVIOUS
<1>0. TypeOK'
  BY NextTyped DEF IInv
<1>1. ASSUME NEW e \in Exec, Mark(e) PROVE IInv'
  <2>1. res[e] \in Live
    BY <1>1 DEF Mark, Live
  <2>2. CASE res[e] = "R"
    BY <1>0, <1>1, <2>1, <2>2, AdvanceInv DEF Mark
  <2>3. CASE res[e] = "A"
    <3>1. /\ UNCHANGED <<keys, day, book, sent, old>>
          /\ granted' = granted \union {e}
      BY <1>1, <2>3 DEF Mark
    <3>2. book[e] = "A"
      BY <2>3, ReservedFacts
    <3>3. GrantedIsCounted'
      BY <3>1, <3>2 DEF IInv, GrantedIsCounted
    <3> QED
      BY <1>0, <3>1, <3>3
      DEF keys, IInv, Untouched, Imported, Guarded, InWindow,
          NoHashNoFields, KeysOutlast, Exists, TotalsExact,
          JointlyWithinCaps, SpendOf, ActionsOf
  <2> QED BY <1>1, <2>2, <2>3 DEF Mark
<1>2. ASSUME NEW e \in Exec, Commit(e) PROVE IInv'
  BY <1>0, <1>2, AdvanceInv DEF Commit, Live
<1>3. ASSUME NEW e \in Exec, Ambiguous(e) PROVE IInv'
  BY <1>0, <1>3, AdvanceInv DEF Ambiguous, Live
<1> QED
  BY <1>0, <1>1, <1>2, <1>3, EnsureInv, ReserveInv, ReleaseInv, RestoreInv,
     BroadcastInv, OldAppendInv, DropInv, DayPassesInv, StutterInv
  DEF Next, Expire, Lose

\* The inductive invariant holds of every reachable state.
THEOREM Invariance == Spec => []IInv
BY InitInv, NextInv, PTL DEF Spec

\* However a day's scripts, callers, old writers, losses and restores
\* interleave, the running totals are exactly the imported sum plus the live
\* reservations.
THEOREM TotalsAlwaysExact == Spec => []TotalsExact
<1>1. IInv => TotalsExact
  BY DEF IInv
<1> QED BY <1>1, Invariance, PTL

\* No answer of the ledger ever misses a unit of what was promised before.
THEOREM NeverUndercounts == Spec => []AnswersNeverUndercount
<1>1. IInv => AnswersNeverUndercount
  BY EnsuredExact DEF AnswersNeverUndercount, SpendOf, ActionsOf
<1> QED BY <1>1, Invariance, PTL

\* Old writers and new reservations never jointly exceed the daily spend or
\* the daily number of actions once the new code has admitted anything.
THEOREM CapsHold == Spec => []JointlyWithinCaps
<1>1. IInv => JointlyWithinCaps
  BY DEF IInv
<1> QED BY <1>1, Invariance, PTL

\* Nothing that may have been broadcast is ever taken off the day's spend.
THEOREM BroadcastNeverReleased == Spec => []BroadcastStaysCounted
<1>1. IInv => BroadcastStaysCounted
  <2> SUFFICES ASSUME IInv, NEW e \in sent
               PROVE  /\ book[e] \in {"A", "C", "X"}
                      /\ hash.live => res[e] = book[e]
    BY DEF BroadcastStaysCounted
  <2> QED BY DEF IInv, GrantedIsCounted, Untouched, Imported
<1> QED BY <1>1, Invariance, PTL

-----------------------------------------------------------------------------
(* The day ledger implements the abstract reservation protocol.            *)

\* The instance counts and adds as this module does.
LEMMA SameCardinality ==
    \A S : Reservations!Cardinality(S) = Cardinality(S)
BY Zenon DEF Reservations!Cardinality, Cardinality

\* The instance forms the same units of amount.
LEMMA SameUnits ==
    \A S, f : Reservations!Units(S, f) = Units(S, f)
BY Zenon DEF Reservations!Units, Units

\* A new reservation is one of the abstract protocol: nothing was reserved
\* for the id before, and the caps hold of all that was ever promised.
LEMMA ReserveImplements ==
    ASSUME IInv, NEW e \in Exec, NEW a \in Amount, Reserve(e, a)
    PROVE  Reservations!Reserve(e, a)
<1>1. /\ InWindow
      /\ Known \/ MayImport
      /\ res[e] = "none"
      /\ Ensured.total + a <= MaxDaily
      /\ Ensured.count + 1 <= MaxActions
      /\ amt' = [amt EXCEPT ![e] = a]
      /\ book' = [book EXCEPT ![e] = "R"]
      /\ UNCHANGED <<sent, old>>
  BY DEF Reserve
<1>2. /\ Ensured.total = old.sum + SpendOf(res)
      /\ Ensured.count = old.count + ActionsOf(res)
      /\ res = book
  BY <1>1, EnsuredExact
<1>3. Reservations!Counted = CountedIn(book)
  BY DEF Reservations!Counted, CountedIn, Live
<1>4. Reservations!Spend = SpendOf(book)
  BY <1>3, SameCardinality, SameUnits
  DEF Reservations!Spend, Reservations!Total, SpendOf, Total
<1>5. /\ old.sum \in Nat /\ old.count \in Nat /\ a \in Nat
      /\ SpendOf(res) \in Nat /\ ActionsOf(res) \in Nat
  <2>1. \A x \in CountedIn(res) : amt[x] \in Nat
    BY DEF IInv, TypeOK, CountedIn
  <2>2. IsFiniteSet(CountedIn(res)) /\ ActionsOf(res) \in Nat
    BY CountedFinite DEF ActionsOf
  <2>3. SpendOf(res) \in Nat
    BY <2>1, <2>2, TotalType DEF SpendOf
  <2> QED BY <2>2, <2>3, AmountAssumption DEF IInv, TypeOK
<1>6. /\ old.sum + Reservations!Spend + a <= MaxDaily
      /\ old.count + Cardinality(Reservations!Counted) + 1 <= MaxActions
  BY <1>1, <1>2, <1>3, <1>4, <1>5 DEF ActionsOf
<1> QED
  BY <1>1, <1>2, <1>6, SameCardinality DEF Reservations!Reserve

\* A step of a script, a writer or the keys is a step of the protocol or none.
LEMMA StepImplements ==
    ASSUME IInv, [Next]_vars
    PROVE  [Reservations!Next]_(Reservations!vars)
<1> USE DEF Reservations!vars
<1>1. ASSUME Ensure \/ Restore \/ DayPasses
      PROVE  UNCHANGED Reservations!vars
  BY <1>1 DEF Ensure, Restore, DayPasses, keys, seen
<1>2. ASSUME NEW k \in Key, Drop(k)
      PROVE  UNCHANGED Reservations!vars
  BY <1>2 DEF Drop, seen
<1>3. ASSUME NEW e \in Exec, NEW a \in Amount, Reserve(e, a)
      PROVE  Reservations!Next
  BY <1>3, ReserveImplements DEF Reservations!Next
<1>4. ASSUME NEW e \in Exec, NEW to \in State, res[e] # "none", Move(e, to)
      PROVE  book[e] = res[e] /\ Reservations!Advance(e, {res[e]}, to)
  <2>1. book[e] = res[e]
    BY <1>4, ReservedFacts
  <2> QED BY <1>4, <2>1 DEF Move, Reservations!Advance
<1>5. ASSUME NEW e \in Exec, Mark(e)
      PROVE  Reservations!Next \/ UNCHANGED Reservations!vars
  <2>1. CASE res[e] = "R"
    BY <1>4, <1>5, <2>1
    DEF Mark, State, Live, Reservations!Next, Reservations!Attempt
  <2>2. CASE res[e] # "R"
    BY <1>5, <2>2 DEF Mark, keys
  <2> QED BY <2>1, <2>2
<1>6. ASSUME NEW e \in Exec, Commit(e) PROVE Reservations!Next
  <2>1. Move(e, "C") /\ res[e] \in {"R", "A"} /\ "C" \in State
    BY <1>6 DEF Commit, State, Live
  <2> QED
    BY <1>4, <2>1
    DEF Reservations!Next, Reservations!Commit, Reservations!Advance
<1>7. ASSUME NEW e \in Exec, Ambiguous(e) PROVE Reservations!Next
  <2>1. Move(e, "X") /\ res[e] = "A" /\ "X" \in State
    BY <1>7 DEF Ambiguous, State, Live
  <2> QED
    BY <1>4, <2>1
    DEF Reservations!Next, Reservations!Ambiguous, Reservations!Advance
<1>8. ASSUME NEW e \in Exec, NEW reason \in {"P", "U"}, Release(e, reason)
      PROVE  Reservations!Next
  <2>1. /\ Move(e, "F") /\ res[e] \in {"R", "A"} /\ "F" \in State
        /\ reason = "P" => e \notin sent
        /\ reason = "U" => res[e] = "R"
    BY <1>8 DEF Release, ReleaseAllowed, CallerMayRelease, State
  <2>2. e \notin sent
    BY <2>1, ReservedFacts DEF IInv, GrantedIsCounted
  <2> QED
    BY <1>4, <2>1, <2>2
    DEF Reservations!Next, Reservations!Release, Reservations!Advance
<1>9. ASSUME NEW e \in Exec, Broadcast(e) PROVE Reservations!Next
  <2>1. book[e] \in {"A", "C", "X"}
    BY <1>9 DEF IInv, GrantedIsCounted, Broadcast
  <2> QED
    BY <1>9, <2>1
    DEF Broadcast, keys, Reservations!Next, Reservations!Broadcast
<1>10. ASSUME NEW a \in Amount, OldAppend(a) PROVE Reservations!Next
  <2>1. Untouched /\ legacy.count = old.count
    BY <1>10, LosableAssumption
    DEF OldAppend, IInv, Imported, Guarded, Untouched
  <2> QED
    BY <1>10, <2>1
    DEF OldAppend, Untouched, NoReservations,
        Reservations!Next, Reservations!Append
<1> QED
  BY <1>1, <1>2, <1>3, <1>5, <1>6, <1>7, <1>8, <1>9, <1>10
  DEF Next, Expire, Lose, vars

\* Lost keys, expiry, old writers and restores included, the scripts keep the
\* abstract reservation protocol.
THEOREM Refinement == Spec => ImplementsReservations
<1>1. Init => Reservations!Init
  <2>1. Init => old \in [sum : Nat, count : Nat]
    BY InitTyped DEF TypeOK
  <2> QED BY <2>1 DEF Init, NoReservations, Reservations!Init
<1> QED
  BY <1>1, StepImplements, Invariance, PTL
  DEF Spec, ImplementsReservations, Reservations!Spec

\* A committed, ambiguous or released reservation is final, and a live hash
\* always shows what was last acknowledged.
THEOREM FinalStates == Spec => FinalStatesStay
<1> DEFINE Kept == \A e \in Exec :
                     /\ book[e] \in {"C", "X", "F"} => book'[e] = book[e]
                     /\ book[e] # "none" /\ hash'.live => res'[e] = book'[e]
<1>1. ASSUME IInv, [Next]_vars PROVE Kept
  <2>1. [Reservations!Next]_(Reservations!vars)
    BY <1>1, StepImplements
  <2>2. \A e \in Exec : book[e] \in {"C", "X", "F"} => book'[e] = book[e]
    BY <1>1, <2>1
    DEF Reservations!Next, Reservations!vars, Reservations!Append,
        Reservations!Reserve, Reservations!Attempt, Reservations!Commit,
        Reservations!Ambiguous, Reservations!Release, Reservations!Advance,
        Reservations!Broadcast, IInv, TypeOK
  <2>3. hash'.live => res' = book'
    BY <1>1, NextInv DEF IInv, Untouched, Imported
  <2> QED BY <2>2, <2>3
<1>2. IInv /\ [Next]_vars => [Kept]_vars
  BY <1>1
<1> QED BY <1>2, Invariance, PTL DEF Spec, FinalStatesStay

-----------------------------------------------------------------------------
(* Availability.                                                           *)

\* A step after which a day in its window no longer answers has lost a key.
LEMMA AnswersStep ==
    ASSUME IInv, [Next]_vars, Answers, InWindow', ~Answers'
    PROVE  \E k \in Losable : Exists(k) /\ ~Exists(k)' /\ expiry[k] > day
<1> USE DEF keys, seen
<1>1. InWindow /\ day \in Nat /\ hash.live \in BOOLEAN
  <2>1. day' \in {day, day + 1} /\ day \in Nat
    BY DEF IInv, TypeOK, Next, vars, Ensure, Restore, DayPasses, Reserve, Mark,
           Move, Commit, Ambiguous, Broadcast, Release, OldAppend, Expire, Lose,
           Drop
  <2>2. hash.live \in BOOLEAN
    BY DEF IInv, TypeOK
  <2> QED BY <2>1, <2>2 DEF InWindow
<1>2. ASSUME UNCHANGED <<legacy, hash, fence, gen>>
      PROVE  FALSE
  BY <1>2 DEF Answers, Known, MayImport, fenced
<1>3. ASSUME hash'.live, fence' \/ legacy' = Poison
      PROVE  FALSE
  BY <1>3 DEF Answers, Known, fenced
<1>4. ASSUME hash.live, hash'.live, UNCHANGED <<legacy, fence>>
      PROVE  FALSE
  BY <1>4 DEF Answers, Known, MayImport, fenced
<1>5. hash.live => legacy = Poison \/ ~OldWriters
  BY <1>1, LosableAssumption DEF IInv, Untouched, Imported, Guarded
<1>6. CASE Ensure
  BY <1>3, <1>6 DEF Ensure, Ensured, FreshHash, Fence
<1>7. CASE Restore
  BY <1>3, <1>7 DEF Restore, FreshHash
<1>8. CASE DayPasses
  BY <1>2, <1>8 DEF DayPasses
<1>9. ASSUME NEW e \in Exec, NEW a \in Amount, Reserve(e, a)
      PROVE  FALSE
  <2>1. CASE MayImport
    <3>1. hash'.live /\ legacy' = Poison
      BY <1>9, <2>1 DEF Reserve, Ensured, FreshHash, Fence
    <3> QED BY <1>3, <3>1
  <2>2. CASE ~MayImport
    <3>1. hash.live /\ UNCHANGED <<legacy, fence>>
      BY <1>9, <2>2 DEF Reserve, Known
    <3>2. hash'.live = hash.live
      BY <1>9, <2>2 DEF Reserve, Ensured, IInv, TypeOK
    <3> QED BY <1>4, <3>1, <3>2
  <2> QED BY <2>1, <2>2
<1>10. ASSUME NEW e \in Exec,
              \/ Mark(e) \/ Commit(e) \/ Ambiguous(e) \/ Broadcast(e)
              \/ \E reason \in {"P", "U"} : Release(e, reason)
       PROVE  FALSE
  <2>1. CASE Broadcast(e)
    BY <1>2, <2>1 DEF Broadcast
  <2>2. CASE Mark(e) \/ Commit(e) \/ Ambiguous(e)
             \/ \E reason \in {"P", "U"} : Release(e, reason)
    <3>1. res[e] # "none" /\ UNCHANGED <<legacy, fence>>
      BY <2>2 DEF Mark, Commit, Ambiguous, Release, ReleaseAllowed, Move
    <3>2. hash.live
      BY <3>1 DEF IInv, NoHashNoFields, NoReservations
    <3>3. hash'.live = hash.live
      BY <2>2 DEF Mark, Commit, Ambiguous, Release, Move, IInv, TypeOK
    <3> QED BY <1>4, <3>1, <3>2, <3>3
  <2> QED BY <1>10, <2>1, <2>2
<1>11. ASSUME NEW a \in Amount, OldAppend(a)
       PROVE  FALSE
  <2>1. ~hash.live
    BY <1>5, <1>11 DEF OldAppend
  <2>2. MayImport
    BY <2>1 DEF Answers, Known
  <2>3. legacy'.clean /\ legacy'.kind = "csv" /\ UNCHANGED <<hash, fence, gen>>
    BY <1>11, <2>2 DEF OldAppend, MayImport, Csv
  <2>4. legacy' # Poison
    BY <2>3 DEF Poison
  <2> QED BY <2>2, <2>3, <2>4 DEF Answers, MayImport, fenced
<1>12. ASSUME NEW k \in Key, Drop(k)
       PROVE  expiry[k] > day /\ ~Exists(k)'
  <2>1. expiry[k] > day
    <3>1. expiry[k] \in Nat /\ expiry[k] >= 2
      BY <1>12 DEF Drop, IInv, KeysOutlast, TypeOK, TTL
    <3> QED BY <1>1, <3>1 DEF InWindow
  <2>2. ~Exists(k)'
    BY <1>12 DEF Drop, Exists, NoHash, Key
  <2> QED BY <2>1, <2>2
<1>13. ASSUME NEW k \in Key, Expire(k)
       PROVE  FALSE
  <2>1. expiry[k] \in Nat /\ expiry[k] <= day
    BY <1>13 DEF Expire, IInv, TypeOK
  <2> QED BY <1>1, <1>12, <1>13, <2>1 DEF Expire
<1>14. ASSUME NEW k \in Key, Lose(k)
       PROVE  \E l \in Losable : Exists(l) /\ ~Exists(l)' /\ expiry[l] > day
  BY <1>12, <1>14 DEF Lose, Drop
<1>15. CASE UNCHANGED vars
  BY <1>2, <1>15 DEF vars
<1> QED BY <1>6, <1>7, <1>8, <1>9, <1>10, <1>11, <1>13, <1>14, <1>15 DEF Next

\* The fence locks no tick out of a day that still answers, unless a key is
\* lost before its expiry.
THEOREM Available == Spec => AvailableUntilLost
<1>1. IInv /\ [Next]_vars
        => [Answers /\ InWindow' /\ ~Answers'
              => \E k \in Losable : Exists(k) /\ ~Exists(k)'
                                      /\ expiry[k] > day]_vars
  BY AnswersStep
<1> QED BY <1>1, Invariance, PTL DEF Spec, AvailableUntilLost

=============================================================================
