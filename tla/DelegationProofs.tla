--------------------------- MODULE DelegationProofs ---------------------------
(***************************************************************************)
(* Delegated execution keeps the adapter's promise and consumes a slot by  *)
(* a broadcast only; the keys of a listed slot agree, and a revoked slot   *)
(* is not sent, unless a save that had checked it was overtaken by a       *)
(* script.  Proved for any calls, processes, requests and slots, with      *)
(* requests that overlap, without the bounds on kills and revocations.     *)
(***************************************************************************)
EXTENDS Delegation, FiniteSetTheorems, TLAPS

-----------------------------------------------------------------------------
(* The inductive invariant of the records and of who has sent what.        *)

Before == {"switch", "list", "again", "chokepoint", "send"}

\* Whoever consumed r, a copy of the record of slot i, has sent slot i.
Bound(r, i) ==
    r # None /\ r.consumedBy # None
        => r.consumedBy \in sent /\ call[r.consumedBy].slot = i

\* What a call knows and has done at its step.
CallOk(c) ==
    /\ call[c].pc \in {"again"} \union Guarded => call[c].slot \in listed
    /\ call[c].pc \in Before \union {"sent", "consume"} => call[c].server \in Server
    /\ call[c].pc \in {"sent", "consume", "hash"} => c \in sent
    /\ call[c].pc \in Before \union {"idle", "refused"} => c \notin sent
    /\ call[c].pc = "consume"
         => /\ call[c].read # None
            /\ call[c].tries \in {1, 2}
            /\ Bound(call[c].read, call[c].slot)
    /\ call[c].pc = "sent" => call[c].tries \in {0, 1}
    /\ call[c].pc \in Before \union {"idle"} => call[c].tries = 0

\* A request has a slot to save until it is done.
PostOk(p) ==
    /\ p \in InPost => post[p].todo # <<>>
    /\ post[p].pc \in {"meta", "list"} => record[Saved(p)] # None

DeleteOk ==
    delete.pc = "revoke" => /\ delete.slot \in listed
                            /\ delete.read # None
                            /\ Bound(delete.read, delete.slot)

RecordsOk ==
    /\ \A i \in listed : record[i] # None
    /\ \A i \in Slot : Bound(record[i], i)

IInv ==
    /\ TypeOK
    /\ \A c \in Call : CallOk(c)
    /\ \A p \in Post : PostOk(p)
    /\ DeleteOk
    /\ RecordsOk

-----------------------------------------------------------------------------
(* Facts about the data.                                                   *)

\* The records the store writes are records, and a changed one is never None.
LEMMA Data ==
    /\ Fresh \in Record /\ Fresh # None /\ Fresh.consumedBy = None
    /\ ~Fresh.revoked
    /\ \A r \in Record : [r EXCEPT !.revoked = TRUE] \in Record \ {None}
    /\ \A r \in Record, c \in Call : [r EXCEPT !.consumedBy = c] \in Record \ {None}
    /\ Idle \in CallRecord
<1>1. None \notin Record
  BY DelegationAssumption
<1>2. /\ Fresh \in Record /\ Fresh.consumedBy = None /\ ~Fresh.revoked
      /\ \A r \in Record : [r EXCEPT !.revoked = TRUE] \in Record
      /\ \A r \in Record, c \in Call : [r EXCEPT !.consumedBy = c] \in Record
  BY DEF Fresh, Record
<1>3. Idle \in CallRecord
  BY DEF Idle, CallRecord, CallPc
<1> QED BY <1>1, <1>2, <1>3

\* A call's record with some of its fields replaced.
LEMMA WithSlot ==
    ASSUME NEW k \in CallRecord, NEW pc \in CallPc, NEW i \in Slot \union {None},
           NEW m, m = [k EXCEPT !.pc = pc, !.slot = i]
    PROVE  /\ m \in CallRecord /\ m.pc = pc /\ m.slot = i
           /\ m.server = k.server /\ m.tries = k.tries
BY DEF CallRecord

\* What is still to be saved after the first slot.
LEMMA Rest ==
    ASSUME NEW s \in Seq(Slot), s # <<>>
    PROVE  /\ Head(s) \in Slot /\ Head(s) = s[1] /\ Tail(s) \in Seq(Slot)
           /\ Len(s) > 1 => Tail(s) # <<>>
           /\ Len(Tail(s)) = Len(s) - 1 /\ Len(s) \in Nat \ {0}
           /\ \A k \in 1..Len(Tail(s)) : Tail(s)[k] = s[k + 1]
OBVIOUS

\* The slots of one request, in some order: distinct slots, one at least.
LEMMA Requests ==
    ASSUME NEW g \in Goal, NEW S \in (SUBSET Free(g)) \ {{}}, NEW s \in SetToSeqs(S)
    PROVE  /\ s \in Seq(Slot) /\ s # <<>>
           /\ \A k \in 1..Len(s) : s[k] \in S
           /\ \A k, l \in 1..Len(s) : k # l => IndexOf(s[k]) # IndexOf(s[l])
<1>1. S \subseteq {g} \X (0 .. MaxSlots - 1) /\ S \subseteq Slot
  BY DEF Free, Slot
<1>2. IsFiniteSet({g} \X (0 .. MaxSlots - 1))
  <2>1. IsFiniteSet({g})
    BY FS_Singleton
  <2>2. 0 \in Int /\ MaxSlots - 1 \in Int
    BY DelegationAssumption
  <2>3. IsFiniteSet(0 .. MaxSlots - 1)
    BY <2>2, FS_Interval
  <2> QED BY <2>1, <2>3, FS_Product
<1>3. IsFiniteSet(S)
  BY <1>1, <1>2, FS_Subset
<1>4. Cardinality(S) \in Nat /\ Cardinality(S) # 0
  <2>1. S # {}
    OBVIOUS
  <2> QED BY <2>1, <1>3, FS_CardinalityType, FS_EmptySet
<1>5. /\ s \in [1..Cardinality(S) -> S]
      /\ \A k, l \in 1..Cardinality(S) : k # l => s[k] # s[l]
  BY DEF SetToSeqs
<1>6. s \in Seq(Slot) /\ Len(s) = Cardinality(S)
  <2> DEFINE n == Cardinality(S)
  <2> HIDE DEF n
  <2>1. n \in Nat /\ s \in [1..n -> Slot]
    BY <1>1, <1>4, <1>5 DEF n
  <2>2. s \in Seq(Slot) /\ Len(s) = n
    BY <2>1
  <2> QED BY <2>2 DEF n
<1>7. s # <<>>
  BY <1>4, <1>6
<1>8. \A k, l \in 1..Len(s) : k # l => IndexOf(s[k]) # IndexOf(s[l])
  <2>1. \A i, j \in {g} \X (0 .. MaxSlots - 1) : i # j => i[2] # j[2]
    OBVIOUS
  <2>2. \A k, l \in 1..Len(s) : k # l => /\ s[k] # s[l]
                                          /\ s[k] \in {g} \X (0 .. MaxSlots - 1)
                                          /\ s[l] \in {g} \X (0 .. MaxSlots - 1)
    BY <1>1, <1>5, <1>6
  <2> QED BY <2>1, <2>2 DEF IndexOf
<1> QED BY <1>5, <1>6, <1>7, <1>8

-----------------------------------------------------------------------------
(* Steps that keep the invariant.                                          *)

\* Nothing is saved, called or read at first.
LEMMA InitOk == Init => IInv
<1> SUFFICES ASSUME Init PROVE IInv
  OBVIOUS
<1>1. TypeOK
  <2>1. call \in [Call -> CallRecord]
    BY Data DEF Init
  <2>2. post \in [Post -> PostRecord]
    BY DEF Init, PostRecord
  <2>3. delete \in [pc : {"idle", "revoke"}, slot : Slot \union {None},
                    read : Record \union {None}]
    BY DEF Init
  <2>4. /\ revokes \in 0 .. MaxRevokes /\ kills \in 0 .. MaxKills
        /\ switches \in 0 .. MaxSwitches
    BY DelegationAssumption DEF Init
  <2> QED BY <2>1, <2>2, <2>3, <2>4 DEF Init, TypeOK, Switch
<1>2. \A c \in Call : CallOk(c)
  BY DEF Init, CallOk, Idle, Guarded, Before
<1>3. \A p \in Post : PostOk(p)
  BY DEF Init, PostOk, InPost
<1>4. DeleteOk /\ RecordsOk
  BY DEF Init, DeleteOk, RecordsOk, Bound
<1> QED BY <1>1, <1>2, <1>3, <1>4 DEF IInv

\* What was sent stays sent, with its slot.
SentStays == /\ sent \subseteq sent'
             /\ \A d \in sent : call'[d].slot = call[d].slot

\* A copy of a record that names its consumer stays true as long as no
\* broadcast is taken back.
LEMMA BoundStays ==
    ASSUME SentStays, NEW r, NEW i, Bound(r, i)
    PROVE  r # None /\ r.consumedBy # None
             => r.consumedBy \in sent' /\ call'[r.consumedBy].slot = i
BY DEF SentStays, Bound

\* A call moves on; it leaves the store alone, or consumes its slot.
CallMoves(c) ==
    /\ \E r \in CallRecord : call' = [call EXCEPT ![c] = r]
    /\ inFlight' \in [Server -> SUBSET Slot]
    /\ sent' \in {sent, sent \union {c}}
    /\ c \in sent => call'[c].slot = call[c].slot
    /\ overtaken' \subseteq Slot
    /\ UNCHANGED <<listed, registry, surroundings>>

\* A step of one call that consumes at most the slot it was sent for.
LEMMA CallStep ==
    ASSUME IInv, NEW c \in Call, CallMoves(c), CallOk(c)',
           \/ UNCHANGED <<record, meta>>
           \/ \E i \in Slot, r \in Record \ {None} :
                /\ record' = [record EXCEPT ![i] = r]
                /\ Bound(r, i)'
                /\ meta' = [meta EXCEPT ![i] = "consumed"]
    PROVE  IInv'
<1>1. SentStays /\ \A d \in Call \ {c} : call'[d] = call[d]
  BY DEF CallMoves, SentStays, IInv, TypeOK
<1>2. /\ overtaken' \subseteq Slot
      /\ UNCHANGED <<post, delete, listed, withdrawn, revokes, kills, switches,
                     switch, registry>>
  BY DEF CallMoves, surroundings, bounds
<1>3. TypeOK'
  <2>1. call' \in [Call -> CallRecord] /\ sent' \subseteq Call
    BY DEF CallMoves, IInv, TypeOK
  <2>2. /\ record' \in [Slot -> Record \union {None}]
        /\ meta' \in [Slot -> {"none", "active", "consumed", "revoked"}]
    BY DEF IInv, TypeOK
  <2>3. inFlight' \in [Server -> SUBSET Slot]
    BY DEF CallMoves
  <2> QED BY <2>1, <2>2, <2>3, <1>2 DEF IInv, TypeOK
<1>4. \A d \in Call : CallOk(d)'
  <2>1. ASSUME NEW d \in Call \ {c} PROVE CallOk(d)'
    <3>1. d \in sent' <=> d \in sent
      BY DEF CallMoves
    <3>2. CallOk(d)
      BY DEF IInv
    <3>3. call'[d].pc = "consume" => Bound(call[d].read, call[d].slot)'
      BY <3>2, <1>1, BoundStays DEF CallOk, Bound
    <3> QED BY <1>1, <1>2, <3>1, <3>2, <3>3 DEF CallOk
  <2> QED BY <2>1
<1>5. \A i \in Slot : record[i] # None => record'[i] # None
  BY DEF IInv, TypeOK
<1>6. \A p \in Post : PostOk(p)'
  <2>1. ASSUME NEW p \in Post PROVE PostOk(p)'
    <3>1. PostOk(p)
      BY DEF IInv
    <3>2. post[p].pc \in {"meta", "list"} => Saved(p) \in Slot
      <4>1. post[p].pc \in {"meta", "list"} => p \in InPost
        BY DEF InPost
      <4> QED BY <4>1, <3>1, Rest DEF PostOk, IInv, TypeOK, PostRecord, Saved
    <3> QED BY <3>1, <3>2, <1>2, <1>5 DEF PostOk, InPost, Saved
  <2> QED BY <2>1
<1>7. DeleteOk'
  BY <1>1, <1>2, BoundStays DEF IInv, DeleteOk, Bound
<1>8. RecordsOk'
  <2>1. \A i \in Slot : Bound(record[i], i)'
    <3>1. \A i \in Slot : record'[i] = record[i] \/ Bound(record[i], i)'
      BY DEF IInv, TypeOK, Bound
    <3>2. \A i \in Slot : record'[i] = record[i] => Bound(record[i], i)'
      BY <1>1, BoundStays DEF IInv, RecordsOk, Bound
    <3> QED BY <3>1, <3>2
  <2>2. \A i \in listed' : record'[i] # None
    BY <1>2, <1>5 DEF IInv, RecordsOk, TypeOK
  <2> QED BY <2>1, <2>2 DEF RecordsOk
<1> QED BY <1>3, <1>4, <1>6, <1>7, <1>8 DEF IInv

-----------------------------------------------------------------------------
(* The calls.                                                              *)

\* The answer of a call that holds back no transaction it has sent.
LEMMA AnswerOk ==
    ASSUME IInv, NEW c \in Call, NEW a \in Answered, Answer(c, a),
           a = "hash" => c \in sent, a = "refused" => c \notin sent,
           UNCHANGED <<listed, registry, sent, surroundings>>, overtaken' \subseteq Slot
    PROVE  CallMoves(c) /\ CallOk(c)'
<1>1. /\ Ended(c, a) \in CallRecord /\ Ended(c, a).pc = a
      /\ c \in sent => Ended(c, a).slot = call[c].slot
  <2>1. call[c] \in CallRecord /\ Idle \in CallRecord
    BY Data DEF IInv, TypeOK
  <2>2. /\ call[c].slot \in Slot \union {None} /\ call[c].barred \in SUBSET Slot
        /\ a \in CallPc
    BY <2>1 DEF CallRecord, CallPc
  <2>3. CASE c \in sent
    <3>1. Ended(c, a) = [Idle EXCEPT !.pc = a, !.slot = call[c].slot,
                                     !.barred = call[c].barred]
      BY <2>3 DEF Ended
    <3> QED BY <2>1, <2>2, <3>1 DEF CallRecord
  <2>4. CASE c \notin sent
    <3>1. Ended(c, a) = [Idle EXCEPT !.pc = a]
      BY <2>4 DEF Ended
    <3> QED BY <2>1, <2>2, <2>4, <3>1 DEF CallRecord
  <2> QED BY <2>3, <2>4
<1>2. call' = [call EXCEPT ![c] = Ended(c, a)] /\ call'[c] = Ended(c, a)
  BY DEF Answer, IInv, TypeOK
<1>3. inFlight' \in [Server -> SUBSET Slot]
  BY DEF Answer, IInv, TypeOK
<1>4. call'[c].pc = a /\ (c \in sent => call'[c].slot = call[c].slot)
  BY <1>1, <1>2
<1>5. CallMoves(c)
  BY <1>1, <1>2, <1>3, <1>4 DEF CallMoves
<1>6. CallOk(c)'
  BY <1>4 DEF CallOk, Answered, Guarded, Before
<1> QED BY <1>5, <1>6

\* A call starts with an empty flight.
LEMMA BeginOk ==
    ASSUME IInv, NEW c \in Call, NEW s \in Server, NEW g \in Goal, Begin(c, s, g)
    PROVE  IInv'
<1> DEFINE r == [Idle EXCEPT !.pc = "switch", !.server = s, !.goal = g,
                             !.barred = withdrawn]
<1>1. r \in CallRecord /\ r.pc = "switch" /\ r.server = s /\ r.tries = 0
  BY Data DEF IInv, TypeOK, CallRecord, CallPc, Idle
<1>2. call' = [call EXCEPT ![c] = r] /\ call'[c] = r
  BY DEF Begin, Goes, IInv, TypeOK
<1>3. c \notin sent
  BY DEF Begin, At, IInv, CallOk
<1> HIDE DEF r
<1>4. CallMoves(c)
  BY <1>1, <1>2, <1>3 DEF Begin, Goes, CallMoves, redis, around, IInv, TypeOK
<1>5. CallOk(c)'
  BY <1>1, <1>2, <1>3 DEF CallOk, Begin, Guarded, Before
<1>6. UNCHANGED <<record, meta>>
  BY DEF Begin, redis
<1> QED BY <1>4, <1>5, <1>6, CallStep

\* The steps between the first check and the send: the call goes from one of
\* the steps before the send to the next, with a slot of the list.
LEMMA EarlyStep ==
    ASSUME IInv, NEW c \in Call, NEW pc, NEW slot \in Slot \union {None},
           call[c].pc \in Before, pc \in Before,
           pc \in {"again", "chokepoint", "send"} => slot \in listed,
           call' = [call EXCEPT ![c] = [@ EXCEPT !.pc = pc, !.slot = slot]],
           inFlight' \in [Server -> SUBSET Slot],
           UNCHANGED <<redis, sent, around>>
    PROVE  IInv'
<1>1. c \notin sent /\ call[c] \in CallRecord /\ call[c].server \in Server
      /\ call[c].tries = 0
  BY DEF IInv, TypeOK, CallOk
<1>2. call'[c] = [call[c] EXCEPT !.pc = pc, !.slot = slot]
  BY DEF IInv, TypeOK
<1>3. call'[c] \in CallRecord
  <2>1. pc \in CallPc
    BY DEF Before, Guarded, CallPc
  <2>2. PICK m : m = [call[c] EXCEPT !.pc = pc, !.slot = slot]
    OBVIOUS
  <2>3. m \in CallRecord
    BY <1>1, <2>1, <2>2, WithSlot
  <2> QED BY <1>2, <2>2, <2>3
<1>4. CallMoves(c)
  BY <1>1, <1>2, <1>3 DEF CallMoves, redis, around, IInv, TypeOK
<1>5. call'[c].pc = pc /\ call'[c].slot = slot /\ call'[c].server = call[c].server
      /\ call'[c].tries = call[c].tries
  BY <1>1, <1>2 DEF CallRecord
<1>6. CallOk(c)'
  BY <1>1, <1>5 DEF CallOk, Before, Guarded, redis
<1> QED BY <1>4, <1>6, CallStep DEF redis

\* Up to the gate a call only reads.
LEMMA EarlyOk ==
    ASSUME IInv, NEW c \in Call,
           ReadSwitch(c) \/ Select(c) \/ Guard(c) \/ Gate(c)
    PROVE  IInv'
<1>1. call[c] \in CallRecord /\ listed \subseteq Slot
      /\ inFlight \in [Server -> SUBSET Slot]
  BY DEF IInv, TypeOK
<1>2. \A pc : [call[c] EXCEPT !.pc = pc]
                = [call[c] EXCEPT !.pc = pc, !.slot = call[c].slot]
  BY <1>1 DEF CallRecord
<1>3. call[c].slot \in Slot \union {None}
  BY <1>1 DEF CallRecord
<1>4. CASE ReadSwitch(c)
  BY <1>1, <1>2, <1>3, <1>4, EarlyStep DEF ReadSwitch, At, Goes, Before
<1>5. CASE Select(c)
  <2>1. PICK i \in First : Goes(c, [call[c] EXCEPT !.pc = "again", !.slot = i])
    BY <1>5 DEF Select
  <2>2. i \in listed
    BY DEF First, Active
  <2> QED BY <1>1, <1>5, <2>1, <2>2, EarlyStep DEF Select, At, Goes, Before
<1>6. CASE Guard(c)
  <2>1. call[c].slot \in listed
    BY <1>6 DEF Guard, At, IInv, CallOk
  <2>2. inFlight' \in [Server -> SUBSET Slot]
    BY <1>1, <1>6, <2>1 DEF Guard
  <2>3. call' = [call EXCEPT ![c] = [@ EXCEPT !.pc = "chokepoint", !.slot = call[c].slot]]
    BY <1>2, <1>6 DEF Guard
  <2> QED BY <1>3, <1>6, <2>1, <2>2, <2>3, EarlyStep DEF Guard, At, Before
<1>7. CASE Gate(c)
  <2>1. call[c].slot \in listed
    BY <1>7 DEF Gate, At, Guarded, IInv, CallOk
  <2> QED BY <1>1, <1>2, <1>3, <1>7, <2>1, EarlyStep DEF Gate, At, Goes, Before
<1> QED BY <1>4, <1>5, <1>6, <1>7

\* A call that ends without a hash leaves the store alone.
LEMMA RefuseOk ==
    ASSUME IInv, NEW c \in Call, Refuse(c) \/ NoHash(c)
    PROVE  IInv'
<1>1. /\ UNCHANGED <<listed, registry, sent, surroundings>>
      /\ overtaken' \subseteq Slot /\ UNCHANGED <<record, meta>>
  BY DEF Refuse, NoHash, redis, around, IInv, TypeOK
<1>2. CASE Refuse(c)
  <2>1. c \notin sent
    BY <1>2 DEF Refuse, IInv, CallOk, Before
  <2> QED BY <1>1, <1>2, <2>1, AnswerOk, CallStep DEF Refuse, Answered
<1>3. CASE NoHash(c)
  BY <1>1, <1>3, AnswerOk, CallStep DEF NoHash, Answered
<1> QED BY <1>2, <1>3

\* The broadcast is noted for the slot the call selected.
LEMMA SendOk ==
    ASSUME IInv, NEW c \in Call, Send(c)
    PROVE  IInv'
<1>1. call[c] \in CallRecord /\ call[c].pc = "send" /\ c \notin sent
      /\ call[c].slot \in listed /\ call[c].server \in Server /\ call[c].tries = 0
  BY DEF Send, At, IInv, TypeOK, CallOk, Before, Guarded
<1>2. call' = [call EXCEPT ![c] = [call[c] EXCEPT !.pc = "sent"]]
      /\ call'[c] = [call[c] EXCEPT !.pc = "sent"]
  BY DEF Send, Goes, IInv, TypeOK
<1>3. call'[c] \in CallRecord /\ call'[c].pc = "sent" /\ call'[c].slot = call[c].slot
      /\ call'[c].server = call[c].server /\ call'[c].tries = call[c].tries
  BY <1>1, <1>2 DEF CallRecord, CallPc, Guarded
<1>4. sent' = sent \union {c} /\ UNCHANGED <<redis, around>> /\ UNCHANGED inFlight
  BY DEF Send, Goes
<1>5. CallMoves(c)
  BY <1>2, <1>3, <1>4 DEF CallMoves, redis, around, IInv, TypeOK
<1>6. CallOk(c)'
  BY <1>1, <1>3, <1>4 DEF CallOk, Before, Guarded, redis
<1> QED BY <1>4, <1>5, <1>6, CallStep DEF redis

\* What a call reads before it consumes is a record of its own slot.
LEMMA ReadForConsumeOk ==
    ASSUME IInv, NEW c \in Call, ReadForConsume(c)
    PROVE  IInv'
<1> DEFINE r == [call[c] EXCEPT !.pc = "consume", !.read = record[call[c].slot],
                                !.tries = @ + 1]
<1>1. call[c] \in CallRecord /\ call[c].pc = "sent" /\ c \in sent
      /\ call[c].slot \in listed /\ call[c].server \in Server /\ call[c].tries \in {0, 1}
  BY DEF ReadForConsume, At, IInv, TypeOK, CallOk, Before, Guarded
<1>2. /\ record[call[c].slot] \in Record \union {None}
      /\ record[call[c].slot] # None
      /\ Bound(record[call[c].slot], call[c].slot)
  BY <1>1 DEF IInv, TypeOK, RecordsOk
<1>3. /\ r \in CallRecord /\ r.pc = "consume" /\ r.slot = call[c].slot
      /\ r.server = call[c].server /\ r.tries \in {1, 2}
      /\ r.read = record[call[c].slot]
  <2>1. "consume" \in CallPc /\ call[c].tries + 1 \in {1, 2}
    BY <1>1 DEF CallPc, Guarded
  <2>2. PICK n \in 1 .. 2 : n = call[c].tries + 1
    BY <2>1
  <2>3. PICK m : m = [call[c] EXCEPT !.pc = "consume",
                                     !.read = record[call[c].slot], !.tries = n]
    OBVIOUS
  <2>4. /\ m \in CallRecord /\ m.pc = "consume" /\ m.slot = call[c].slot
        /\ m.server = call[c].server /\ m.tries = n
        /\ m.read = record[call[c].slot]
    <3>1. PICK k \in CallRecord, q \in Record \union {None}, pc \in CallPc :
             k = call[c] /\ q = record[call[c].slot] /\ pc = "consume"
      BY <1>1, <1>2, <2>1
    <3>2. m = [k EXCEPT !.pc = pc, !.read = q, !.tries = n]
      BY <2>3, <3>1
    <3>3. n \in 0 .. 2
      OBVIOUS
    <3> HIDE DEF r
    <3>4. /\ m \in CallRecord /\ m.pc = pc /\ m.slot = k.slot
          /\ m.server = k.server /\ m.tries = n /\ m.read = q
      BY <3>2, <3>3 DEF CallRecord
    <3> QED BY <3>1, <3>4
  <2>5. r = m
    BY <1>1, <2>2, <2>3 DEF CallRecord
  <2> QED BY <2>1, <2>2, <2>4, <2>5
<1>4. call' = [call EXCEPT ![c] = r] /\ call'[c] = r
  BY DEF ReadForConsume, Goes, IInv, TypeOK
<1>5. UNCHANGED <<redis, sent, around>> /\ UNCHANGED inFlight
  BY DEF ReadForConsume, Goes
<1> HIDE DEF r
<1>6. CallMoves(c)
  BY <1>3, <1>4, <1>5 DEF CallMoves, redis, around, IInv, TypeOK
<1>7. Bound(record[call[c].slot], call[c].slot)'
  <2>1. \A d \in Call : call'[d].slot = call[d].slot
    BY <1>3, <1>4 DEF IInv, TypeOK
  <2> QED BY <1>1, <1>2, <1>5, <2>1 DEF Bound, redis, Record, IInv, TypeOK
<1>8. CallOk(c)'
  BY <1>1, <1>2, <1>3, <1>4, <1>5, <1>7
     DEF CallOk, Before, Guarded, redis, Bound
<1> QED BY <1>5, <1>6, <1>8, CallStep DEF redis

\* After a try that counts, the call tries again or answers with its hash.
LEMMA EndTryOk ==
    ASSUME IInv, NEW c \in Call, call[c].pc = "consume",
           EndTry(c) \/ Answer(c, "hash"),
           UNCHANGED <<listed, registry, sent, surroundings>>, overtaken' \subseteq Slot
    PROVE  CallMoves(c) /\ CallOk(c)'
<1>1. call[c] \in CallRecord /\ c \in sent /\ call[c].slot \in listed
      /\ call[c].server \in Server
  BY DEF IInv, TypeOK, CallOk, Guarded
<1>2. CASE Answer(c, "hash")
  BY <1>1, <1>2, AnswerOk DEF Answered
<1>3. CASE call[c].tries = 1 /\ Goes(c, [call[c] EXCEPT !.pc = "sent", !.read = None])
  <2>1. call' = [call EXCEPT ![c] = [call[c] EXCEPT !.pc = "sent", !.read = None]]
        /\ call'[c] = [call[c] EXCEPT !.pc = "sent", !.read = None]
    BY <1>3 DEF Goes, IInv, TypeOK
  <2>2. call'[c] \in CallRecord /\ call'[c].pc = "sent" /\ call'[c].slot = call[c].slot
        /\ call'[c].server = call[c].server /\ call'[c].tries = 1
    <3>1. "sent" \in CallPc
      BY DEF CallPc, Guarded
    <3>2. [call[c] EXCEPT !.pc = "sent", !.read = None]
            = [call[c] EXCEPT !.pc = "sent", !.read = None, !.tries = 1]
      BY <1>1, <1>3 DEF CallRecord
    <3>3. PICK m : m = [call[c] EXCEPT !.pc = "sent", !.read = None, !.tries = 1]
      OBVIOUS
    <3>4. /\ m \in CallRecord /\ m.pc = "sent" /\ m.slot = call[c].slot
          /\ m.server = call[c].server /\ m.tries = 1
      <4>1. 1 \in 0 .. 2 /\ None \in Record \union {None}
        OBVIOUS
      <4>2. PICK k \in CallRecord, q \in Record \union {None}, pc \in CallPc,
                 n \in 0 .. 2 :
               k = call[c] /\ q = None /\ pc = "sent" /\ n = 1
        BY <1>1, <3>1, <4>1
      <4>3. m = [k EXCEPT !.pc = pc, !.read = q, !.tries = n]
        BY <3>3, <4>2
      <4>4. /\ m \in CallRecord /\ m.pc = pc /\ m.slot = k.slot
            /\ m.server = k.server /\ m.tries = n /\ m.read = q
        BY <4>3 DEF CallRecord
      <4> QED BY <4>2, <4>4
    <3> QED BY <2>1, <3>2, <3>3, <3>4
  <2>3. CallMoves(c)
    BY <1>3, <2>1, <2>2 DEF CallMoves, Goes, IInv, TypeOK
  <2>4. CallOk(c)'
    BY <1>1, <2>2 DEF CallOk, Before, Guarded
  <2> QED BY <2>3, <2>4
<1> QED BY <1>2, <1>3 DEF EndTry

\* The consumption names the call that sent the slot, as the record read may do
\* already.
LEMMA ConsumeOk ==
    ASSUME IInv, NEW c \in Call, Consume(c)
    PROVE  IInv'
<1>1. call[c].pc = "consume" /\ c \in sent /\ call[c].slot \in Slot
      /\ call[c].read \in Record
  BY DEF Consume, At, IInv, TypeOK, CallOk, Guarded, CallRecord
<1>2. CallMoves(c) /\ CallOk(c)'
  <2>1. overtaken' \subseteq Slot
    BY <1>1 DEF Consume, Overtakes, around, IInv, TypeOK
  <2> QED BY <1>1, <2>1, EndTryOk DEF Consume
<1>3. CASE UNCHANGED <<record, meta>>
  BY <1>2, <1>3, CallStep
<1>4. ASSUME NEW i \in Slot, i = call[c].slot,
             NEW r, r = [call[c].read EXCEPT !.consumedBy = c],
             record' = [record EXCEPT ![i] = r],
             meta' = [meta EXCEPT ![i] = "consumed"]
      PROVE  IInv'
  <2>1. r \in Record \ {None} /\ r.consumedBy = c
    BY <1>1, <1>4, Data DEF Record
  <2>2. c \in sent' /\ call'[c].slot = i
    BY <1>1, <1>2, <1>4 DEF CallMoves
  <2>3. Bound(r, i)'
    BY <2>1, <2>2 DEF Bound
  <2> QED BY <1>2, <1>4, <2>1, <2>3, CallStep
<1> QED BY <1>1, <1>3, <1>4 DEF Consume

\* Every step of a call keeps the invariant.
LEMMA CallNextOk ==
    ASSUME IInv, NEW c \in Call, CallNext(c)
    PROVE  IInv'
BY BeginOk, EarlyOk, RefuseOk, SendOk, ReadForConsumeOk, ConsumeOk DEF CallNext

-----------------------------------------------------------------------------
(* The wallet's requests, and what happens around the program.             *)

\* A step that leaves the calls alone.
LEMMA StoreStep ==
    ASSUME IInv, TypeOK', UNCHANGED <<call, sent>>, listed \subseteq listed',
           \A i \in listed' : record'[i] # None,
           \A i \in Slot : \/ record'[i] = record[i]
                           \/ record'[i] # None /\ Bound(record'[i], i),
           DeleteOk', \A p \in Post : PostOk(p)'
    PROVE  IInv'
<1>1. \A c \in Call : CallOk(c)'
  BY DEF IInv, CallOk, Bound
<1>2. RecordsOk'
  BY DEF IInv, RecordsOk, Bound
<1> QED BY <1>1, <1>2 DEF IInv

\* A request in progress has a slot to save.
LEMMA SavedIsSlot ==
    ASSUME IInv, NEW p \in InPost
    PROVE  /\ Saved(p) \in Slot /\ post[p].todo \in Seq(Slot) /\ post[p].todo # <<>>
           /\ post[p] \in PostRecord
<1>1. p \in Post /\ post[p] \in PostRecord
  BY DEF InPost, IInv, TypeOK
<1>2. post[p].todo \in Seq(Slot) /\ post[p].todo # <<>>
  BY <1>1 DEF IInv, PostOk, PostRecord
<1> QED BY <1>1, <1>2, Rest DEF Saved

\* A POST request goes on; it writes for the slot it is saving.
LEMMA PostStep ==
    ASSUME IInv, NEW p \in Post, NEW q \in PostRecord,
           post' = [post EXCEPT ![p] = q], PostOk(p)',
           record' # record
             => p \in InPost /\ record' = [record EXCEPT ![Saved(p)] = Fresh],
           meta' # meta
             => p \in InPost /\ meta' = [meta EXCEPT ![Saved(p)] = "active"],
           listed' # listed => /\ p \in InPost /\ record[Saved(p)] # None
                               /\ record' = record
                               /\ listed' = listed \union {Saved(p)},
           registry' # registry
             => p \in InPost /\ registry' \subseteq registry \union {Saved(p)},
           kills' \in 0 .. MaxKills,
           UNCHANGED <<switch, inFlight, call, delete, sent, withdrawn, overtaken, revokes,
                       switches>>
    PROVE  IInv'
<1>1. p \in InPost => Saved(p) \in Slot
  BY SavedIsSlot
<1>2. TypeOK'
  <2>1. post' \in [Post -> PostRecord]
    BY DEF IInv, TypeOK
  <2>2. record' \in [Slot -> Record \union {None}]
    BY <1>1, Data DEF IInv, TypeOK
  <2>3. meta' \in [Slot -> {"none", "active", "consumed", "revoked"}]
    BY <1>1 DEF IInv, TypeOK
  <2>4. listed' \subseteq Slot /\ registry' \subseteq Slot
    BY <1>1 DEF IInv, TypeOK
  <2> QED BY <2>1, <2>2, <2>3, <2>4 DEF IInv, TypeOK
<1>3. \A i \in Slot : record'[i] = record[i] \/ record'[i] = Fresh
  BY <1>1 DEF IInv, TypeOK
<1>4. \A i \in Slot : record[i] # None => record'[i] # None
  BY <1>3, Data
<1>5. \A o \in Post : PostOk(o)'
  <2>1. ASSUME NEW o \in Post \ {p} PROVE PostOk(o)'
    <3>1. post'[o] = post[o] /\ PostOk(o)
      BY DEF IInv, TypeOK
    <3>2. post[o].pc \in {"meta", "list"} => Saved(o) \in Slot
      BY SavedIsSlot DEF InPost
    <3> QED BY <3>1, <3>2, <1>4 DEF PostOk, InPost, Saved
  <2> QED BY <2>1
<1>6. DeleteOk'
  BY DEF IInv, DeleteOk, Bound
<1>7. \A i \in listed' : record'[i] # None
  BY <1>1, <1>4 DEF IInv, RecordsOk, TypeOK
<1>8. \A i \in Slot : \/ record'[i] = record[i]
                      \/ record'[i] # None /\ Bound(record'[i], i)
  BY <1>3, Data DEF Bound
<1> QED BY <1>2, <1>5, <1>6, <1>7, <1>8, StoreStep

\* A request starts with the slots it was signed for.
LEMMA SubmitOk ==
    ASSUME IInv, NEW p \in Post, NEW g \in Goal, Submit(p, g)
    PROVE  IInv'
<1>1. PICK S \in (SUBSET Free(g)) \ {{}} :
         \E todo \in SetToSeqs(S) :
            post' = [post EXCEPT ![p] = [pc |-> "claim", todo |-> todo]]
  BY DEF Submit
<1>2. PICK todo \in SetToSeqs(S) :
         post' = [post EXCEPT ![p] = [pc |-> "claim", todo |-> todo]]
  BY <1>1
<1>3. todo \in Seq(Slot) /\ todo # <<>>
  BY Requests
<1>4. PICK q : q = [pc |-> "claim", todo |-> todo]
  OBVIOUS
<1>5. q \in PostRecord /\ q.pc = "claim" /\ q.todo = todo
  BY <1>3, <1>4 DEF PostRecord
<1>6. post' = [post EXCEPT ![p] = q] /\ post'[p] = q
  BY <1>2, <1>4 DEF IInv, TypeOK
<1>7. PostOk(p)'
  BY <1>3, <1>5, <1>6 DEF PostOk
<1>8. /\ UNCHANGED <<record, meta, listed, registry, switch, inFlight, call, delete,
                     sent, withdrawn, overtaken, revokes, kills, switches>>
      /\ kills' \in 0 .. MaxKills
  BY DEF Submit, redis, others, observed, bounds, IInv, TypeOK
<1> QED BY <1>5, <1>6, <1>7, <1>8, PostStep

\* A step of a request that has a slot to save: it stops, or keeps its slots.
LEMMA PostGoesOn ==
    ASSUME IInv, NEW p \in InPost,
           \/ Stop(p)
           \/ Step(p, "previous") \/ Step(p, "record")
           \/ (Step(p, "meta") \/ Step(p, "list")) /\ record'[Saved(p)] # None
    PROVE  \E q \in PostRecord : post' = [post EXCEPT ![p] = q] /\ PostOk(p)'
<1>1. p \in Post /\ post[p] \in PostRecord /\ post[p].todo # <<>>
  BY SavedIsSlot DEF InPost
<1>2. CASE Stop(p)
  <2>1. PICK q : q = [pc |-> "done", todo |-> <<>>]
    OBVIOUS
  <2>2. q \in PostRecord /\ q.pc = "done"
    BY <2>1 DEF PostRecord
  <2>3. post' = [post EXCEPT ![p] = q] /\ post'[p] = q
    BY <1>1, <1>2, <2>1 DEF Stop, IInv, TypeOK
  <2>4. PostOk(p)'
    BY <2>2, <2>3 DEF PostOk, InPost
  <2> QED BY <2>2, <2>3, <2>4
<1>3. ASSUME NEW pc \in {"previous", "record", "meta", "list"}, Step(p, pc),
             pc \in {"meta", "list"} => record'[Saved(p)] # None
      PROVE  \E q \in PostRecord : post' = [post EXCEPT ![p] = q] /\ PostOk(p)'
  <2>1. PICK q : q = [post[p] EXCEPT !.pc = pc]
    OBVIOUS
  <2>2. q \in PostRecord /\ q.pc = pc /\ q.todo = post[p].todo
    BY <1>1, <2>1 DEF PostRecord
  <2>3. post' = [post EXCEPT ![p] = q] /\ post'[p] = q
    BY <1>1, <1>3, <2>1 DEF Step, IInv, TypeOK
  <2>4. PostOk(p)'
    BY <1>1, <1>3, <2>2, <2>3 DEF PostOk, Saved
  <2> QED BY <2>2, <2>3, <2>4
<1> QED BY <1>2, <1>3

\* A request that is done with a slot goes on with the next, or ends.
LEMMA NextSlotGoesOn ==
    ASSUME IInv, NEW p \in InPost, NextSlot(p)
    PROVE  \E q \in PostRecord : post' = [post EXCEPT ![p] = q] /\ PostOk(p)'
<1>1. p \in Post /\ post[p] \in PostRecord /\ post[p].todo \in Seq(Slot)
      /\ post[p].todo # <<>>
  BY SavedIsSlot DEF InPost
<1>2. PICK pc \in {"claim", "done"}, todo \in Seq(Slot) :
         /\ pc = IF Len(post[p].todo) > 1 THEN "claim" ELSE "done"
         /\ todo = Tail(post[p].todo)
  BY <1>1, Rest
<1>3. pc = "claim" => todo # <<>>
  BY <1>1, <1>2, Rest
<1>4. PICK q : q = [post[p] EXCEPT !.todo = todo, !.pc = pc]
  OBVIOUS
<1>5. q \in PostRecord /\ q.pc = pc /\ q.todo = todo
  BY <1>1, <1>4 DEF PostRecord
<1>6. post' = [post EXCEPT ![p] = q] /\ post'[p] = q
  BY <1>1, <1>2, <1>4 DEF NextSlot, IInv, TypeOK
<1>7. PostOk(p)'
  BY <1>3, <1>5, <1>6 DEF PostOk, InPost
<1> QED BY <1>5, <1>6, <1>7

\* Every step of a request keeps the invariant.
LEMMA PostNextOk ==
    ASSUME IInv, NEW p \in Post, PostNext(p)
    PROVE  IInv'
<1> DEFINE Goes2 == \E q \in PostRecord : post' = [post EXCEPT ![p] = q] /\ PostOk(p)'
<1>1. ASSUME NEW g \in Goal, Submit(p, g) PROVE IInv'
  BY <1>1, SubmitOk
<1>2. kills \in 0 .. MaxKills
  BY DEF IInv, TypeOK
<1>3. CASE ClaimNonce(p)
  <2>1. p \in InPost
    BY <1>3 DEF ClaimNonce, PostAt, InPost
  <2>2. Goes2
    BY <1>3, <2>1, PostGoesOn DEF ClaimNonce
  <2>3. registry' \subseteq registry \union {Saved(p)}
    BY <1>3 DEF ClaimNonce
  <2>4. UNCHANGED <<record, meta, listed, switch, inFlight, call, delete, sent,
                    withdrawn, overtaken, revokes, kills, switches>>
    BY <1>3 DEF ClaimNonce, others, observed, bounds
  <2> QED BY <1>2, <2>1, <2>2, <2>3, <2>4, PostStep
<1>4. CASE CheckPrevious(p)
  <2>1. p \in InPost
    BY <1>4 DEF CheckPrevious, PostAt, InPost
  <2>2. Goes2
    BY <1>4, <2>1, PostGoesOn DEF CheckPrevious, GiveBack
  <2>3. registry' \subseteq registry \union {Saved(p)}
    BY <1>4 DEF CheckPrevious, GiveBack
  <2>4. UNCHANGED <<record, meta, listed, switch, inFlight, call, delete, sent,
                    withdrawn, overtaken, revokes, kills, switches>>
    BY <1>4 DEF CheckPrevious, others, observed, bounds
  <2> QED BY <1>2, <2>1, <2>2, <2>3, <2>4, PostStep
<1>5. CASE WriteRecord(p)
  <2>1. p \in InPost /\ Saved(p) \in Slot
    BY <1>5, SavedIsSlot DEF WriteRecord, PostAt, InPost
  <2>2. record' = [record EXCEPT ![Saved(p)] = Fresh] => record'[Saved(p)] # None
    BY <2>1, Data DEF IInv, TypeOK
  <2>3. Goes2
    BY <1>5, <2>1, <2>2, PostGoesOn DEF WriteRecord, Writes, GiveBack
  <2>4. /\ record' # record => record' = [record EXCEPT ![Saved(p)] = Fresh]
        /\ registry' \subseteq registry \union {Saved(p)}
    BY <1>5 DEF WriteRecord, Writes, GiveBack
  <2>5. UNCHANGED <<meta, listed, switch, inFlight, call, delete, sent,
                    withdrawn, overtaken, revokes, kills, switches>>
    BY <1>5 DEF WriteRecord, others, observed, bounds
  <2> QED BY <1>2, <2>1, <2>3, <2>4, <2>5, PostStep
<1>6. CASE WriteMeta(p)
  <2>1. p \in InPost /\ record[Saved(p)] # None
    BY <1>6 DEF WriteMeta, PostAt, InPost, IInv, PostOk
  <2>2. UNCHANGED <<record, listed, switch, inFlight, call, delete, sent,
                    withdrawn, overtaken, revokes, kills, switches>>
    BY <1>6 DEF WriteMeta, others, observed, bounds
  <2>3. Goes2
    BY <1>6, <2>1, <2>2, PostGoesOn DEF WriteMeta, Writes, GiveBack
  <2>4. /\ meta' # meta => meta' = [meta EXCEPT ![Saved(p)] = "active"]
        /\ registry' \subseteq registry \union {Saved(p)}
    BY <1>6 DEF WriteMeta, Writes, GiveBack
  <2> QED BY <1>2, <2>1, <2>2, <2>3, <2>4, PostStep
<1>7. CASE AddToList(p)
  <2>1. p \in InPost /\ record[Saved(p)] # None
    BY <1>7 DEF AddToList, PostAt, InPost, IInv, PostOk
  <2>2. Goes2
    BY <1>7, <2>1, PostGoesOn, NextSlotGoesOn DEF AddToList, Writes, GiveBack
  <2>3. /\ listed' # listed => listed' = listed \union {Saved(p)}
        /\ registry' \subseteq registry \union {Saved(p)}
    BY <1>7 DEF AddToList, Writes, GiveBack
  <2>4. UNCHANGED <<record, meta, switch, inFlight, call, delete, sent,
                    withdrawn, overtaken, revokes, kills, switches>>
    BY <1>7 DEF AddToList, others, observed, bounds
  <2> QED BY <1>2, <2>1, <2>2, <2>3, <2>4, PostStep
<1>8. CASE KillPost(p)
  <2>1. p \in InPost
    BY <1>8 DEF KillPost
  <2>2. Goes2
    BY <1>8, <2>1, PostGoesOn DEF KillPost
  <2>3. kills' \in 0 .. MaxKills
    BY <1>2, <1>8, DelegationAssumption DEF KillPost
  <2>4. UNCHANGED <<record, meta, listed, registry, switch, inFlight, call, delete,
                    sent, withdrawn, overtaken, revokes, switches>>
    BY <1>8 DEF KillPost, redis, observed
  <2> QED BY <2>1, <2>2, <2>3, <2>4, PostStep
<1> QED BY <1>1, <1>3, <1>4, <1>5, <1>6, <1>7, <1>8 DEF PostNext

\* The requests themselves are not concerned by a revocation.
LEMMA PostsStay ==
    ASSUME IInv, UNCHANGED post, \A i \in Slot : record[i] # None => record'[i] # None
    PROVE  \A p \in Post : PostOk(p)'
<1> TAKE p \in Post
<1>1. PostOk(p)
  BY DEF IInv
<1>2. post[p].pc \in {"meta", "list"} => Saved(p) \in Slot
  BY SavedIsSlot DEF InPost
<1> QED BY <1>1, <1>2 DEF PostOk, InPost, Saved

\* A revocation writes back a record that was read of the same slot.
LEMMA RevokeOk ==
    ASSUME IInv, Revoke \/ \E i \in Slot : ReadForRevoke(i)
    PROVE  IInv'
<1>1. CASE Revoke
  <2>1. /\ delete.pc = "revoke" /\ delete.slot \in listed /\ delete.slot \in Slot
        /\ delete.read \in Record /\ Bound(delete.read, delete.slot)
    BY <1>1 DEF Revoke, IInv, TypeOK, DeleteOk
  <2>2. PICK i, r : /\ i \in Slot /\ i = delete.slot
                    /\ r = [delete.read EXCEPT !.revoked = TRUE]
    BY <2>1
  <2>3. r \in Record \ {None} /\ r.consumedBy = delete.read.consumedBy
    BY <2>1, <2>2, Data DEF Record
  <2>4. UNCHANGED <<call, sent, listed, registry, switch, inFlight, post, revokes,
                    kills, switches>>
    BY <1>1 DEF Revoke, bounds
  <2>5. \/ /\ record' = [record EXCEPT ![i] = r]
           /\ meta' = [meta EXCEPT ![i] = "revoked"]
           /\ withdrawn' \subseteq withdrawn \union {i}
           /\ overtaken' \subseteq overtaken \union {i}
        \/ UNCHANGED <<record, meta, withdrawn, overtaken>>
    BY <1>1, <2>2 DEF Revoke, Overtakes, observed
  <2>6. delete' = [pc |-> "idle", slot |-> None, read |-> None]
    BY <1>1 DEF Revoke
  <2>7. TypeOK'
    <3>1. /\ record' \in [Slot -> Record \union {None}]
          /\ meta' \in [Slot -> {"none", "active", "consumed", "revoked"}]
          /\ withdrawn' \subseteq Slot /\ overtaken' \subseteq Slot
      <4>1. /\ record \in [Slot -> Record \union {None}]
            /\ meta \in [Slot -> {"none", "active", "consumed", "revoked"}]
            /\ withdrawn \subseteq Slot /\ overtaken \subseteq Slot
        BY DEF IInv, TypeOK
      <4>2. CASE UNCHANGED <<record, meta, withdrawn, overtaken>>
        BY <4>1, <4>2
      <4>3. CASE /\ record' = [record EXCEPT ![i] = r]
                 /\ meta' = [meta EXCEPT ![i] = "revoked"]
                 /\ withdrawn' \subseteq withdrawn \union {i}
                 /\ overtaken' \subseteq overtaken \union {i}
        <5>1. record' \in [Slot -> Record \union {None}]
          BY <2>3, <4>1, <4>3
        <5>2. meta' \in [Slot -> {"none", "active", "consumed", "revoked"}]
          BY <4>1, <4>3
        <5>3. withdrawn' \subseteq Slot /\ overtaken' \subseteq Slot
          BY <2>2, <4>1, <4>3
        <5> QED BY <5>1, <5>2, <5>3
      <4> QED BY <2>5, <4>2, <4>3
    <3>2. delete' \in [pc : {"idle", "revoke"}, slot : Slot \union {None},
                       read : Record \union {None}]
      BY <2>6
    <3> QED BY <2>4, <3>1, <3>2 DEF IInv, TypeOK
  <2>8. Bound(r, i)'
    <3>1. delete.read # None
      BY <1>1 DEF Revoke, IInv, DeleteOk
    <3>2. r.consumedBy # None
            => r.consumedBy \in sent /\ call[r.consumedBy].slot = i
      BY <2>1, <2>2, <2>3, <3>1 DEF Bound
    <3> QED BY <2>4, <3>2 DEF Bound
  <2>9. \A j \in Slot : \/ record'[j] = record[j]
                        \/ record'[j] # None /\ Bound(record'[j], j)
    BY <2>3, <2>4, <2>5, <2>8 DEF IInv, TypeOK, Bound
  <2>10. \A j \in listed' : record'[j] # None
    BY <2>4, <2>9 DEF IInv, RecordsOk, TypeOK
  <2>11. DeleteOk'
    BY <2>6 DEF DeleteOk
  <2>12. \A p \in Post : PostOk(p)'
    BY <2>4, <2>9, PostsStay
  <2> QED BY <2>4, <2>7, <2>9, <2>10, <2>11, <2>12, StoreStep
<1>2. ASSUME NEW i \in Slot, ReadForRevoke(i) PROVE IInv'
  <2>1. UNCHANGED <<record, meta, listed, registry, switch, inFlight, call, post,
                    sent, withdrawn, overtaken, kills, switches>>
    BY <1>2 DEF ReadForRevoke, redis, observed
  <2>2. PICK d : d = [pc |-> "revoke", slot |-> i, read |-> record[i]]
    OBVIOUS
  <2>3. delete' = d /\ d.pc = "revoke" /\ d.slot = i /\ d.read = record[i]
    BY <1>2, <2>2 DEF ReadForRevoke
  <2>4. i \in listed /\ record[i] # None /\ Bound(record[i], i)
    BY <1>2 DEF ReadForRevoke, IInv, RecordsOk
  <2>5. TypeOK'
    <3>1. record[i] \in Record \union {None}
      BY DEF IInv, TypeOK
    <3>2. d \in [pc : {"idle", "revoke"}, slot : Slot \union {None},
                  read : Record \union {None}]
      BY <2>2, <3>1
    <3>3. revokes' \in 0 .. MaxRevokes
      BY <1>2, DelegationAssumption DEF ReadForRevoke, IInv, TypeOK
    <3> QED BY <2>1, <2>3, <3>2, <3>3 DEF IInv, TypeOK
  <2>6. DeleteOk'
    BY <2>1, <2>3, <2>4 DEF DeleteOk, Bound
  <2>7. \A p \in Post : PostOk(p)'
    BY <2>1, PostsStay
  <2>8. \A j \in listed' : record'[j] # None
    BY <2>1 DEF IInv, RecordsOk
  <2> QED BY <2>1, <2>5, <2>6, <2>7, <2>8, StoreStep
<1> QED BY <1>1, <1>2

\* The emergency switch touches no slot.
LEMMA SwitchOk ==
    ASSUME IInv, NEW v \in Switch, SetSwitch(v)
    PROVE  IInv'
<1>1. UNCHANGED <<record, meta, listed, registry, inFlight, call, post, delete,
                  sent, withdrawn, overtaken, revokes, kills>>
  BY DEF SetSwitch, redis, observed
<1>2. TypeOK'
  <2>1. switches' \in 0 .. MaxSwitches /\ switch' \in Switch
    BY DelegationAssumption DEF SetSwitch, IInv, TypeOK
  <2> QED BY <1>1, <2>1 DEF IInv, TypeOK
<1>3. DeleteOk' /\ \A i \in listed' : record'[i] # None
  BY <1>1 DEF IInv, DeleteOk, RecordsOk, Bound
<1>4. \A p \in Post : PostOk(p)'
  BY <1>1, PostsStay
<1> QED BY <1>1, <1>2, <1>3, <1>4, StoreStep

\* A process dies: its calls answer nothing, and keep what they have sent.
LEMMA KillOk ==
    ASSUME IInv, NEW s \in Server, Kill(s)
    PROVE  IInv'
<1>1. UNCHANGED <<record, meta, listed, registry, switch, post, delete, sent,
                  withdrawn, overtaken, revokes, switches>>
  BY DEF Kill, redis, observed
<1>2. PICK gone \in SUBSET Running :
         call' = [c \in Call |-> IF c \in gone THEN Ended(c, "killed") ELSE call[c]]
  BY DEF Kill
<1>3. ASSUME NEW c \in gone
      PROVE  /\ c \in Call /\ call'[c] \in CallRecord /\ call'[c].pc = "killed"
             /\ c \in sent => call'[c].slot = call[c].slot
  <2>1. c \in Call /\ call[c] \in CallRecord /\ Idle \in CallRecord
    BY <1>3, Data DEF Running, IInv, TypeOK
  <2>2. call'[c] = Ended(c, "killed")
    BY <1>2, <1>3, <2>1
  <2>3. /\ call[c].slot \in Slot \union {None} /\ call[c].barred \in SUBSET Slot
        /\ "killed" \in CallPc
    BY <2>1 DEF CallRecord, CallPc, Answered
  <2>4. CASE c \in sent
    <3>1. call'[c] = [Idle EXCEPT !.pc = "killed", !.slot = call[c].slot,
                                  !.barred = call[c].barred]
      BY <2>2, <2>4 DEF Ended
    <3> QED BY <2>1, <2>3, <3>1 DEF CallRecord
  <2>5. CASE c \notin sent
    <3>1. call'[c] = [Idle EXCEPT !.pc = "killed"]
      BY <2>2, <2>5 DEF Ended
    <3> QED BY <2>1, <2>3, <2>5, <3>1 DEF CallRecord
  <2> QED BY <2>1, <2>4, <2>5
<1>4. \A c \in Call \ gone : call'[c] = call[c]
  BY <1>2
<1>5. TypeOK'
  <2>1. call' \in [Call -> CallRecord]
    <3>1. \A c \in Call : call'[c] \in CallRecord
      BY <1>3, <1>4 DEF IInv, TypeOK
    <3> QED BY <1>2, <3>1
  <2>2. inFlight' \in [Server -> SUBSET Slot]
    BY DEF Kill, IInv, TypeOK
  <2>3. kills' \in 0 .. MaxKills
    BY DelegationAssumption DEF Kill, IInv, TypeOK
  <2> QED BY <1>1, <2>1, <2>2, <2>3 DEF IInv, TypeOK
<1>6. SentStays
  BY <1>1, <1>3, <1>4 DEF SentStays, IInv, TypeOK
<1>7. \A c \in Call : CallOk(c)'
  <2>1. ASSUME NEW c \in gone PROVE CallOk(c)'
    BY <1>3, <2>1 DEF CallOk, Guarded, Before
  <2>2. ASSUME NEW c \in Call \ gone PROVE CallOk(c)'
    <3>1. call'[c].pc = "consume" => Bound(call[c].read, call[c].slot)'
      BY <1>4, <1>6, <2>2, BoundStays DEF IInv, CallOk, Bound
    <3> QED BY <1>1, <1>4, <2>2, <3>1 DEF IInv, CallOk
  <2> QED BY <2>1, <2>2
<1>8. \A p \in Post : PostOk(p)'
  BY <1>1, PostsStay
<1>9. DeleteOk'
  BY <1>1, <1>6, BoundStays DEF IInv, DeleteOk, Bound
<1>10. RecordsOk'
  <2>1. \A i \in Slot : Bound(record[i], i)'
    BY <1>1, <1>6, BoundStays DEF IInv, RecordsOk, Bound
  <2> QED BY <1>1, <2>1 DEF IInv, RecordsOk
<1> QED BY <1>5, <1>7, <1>8, <1>9, <1>10 DEF IInv

\* Every step keeps the invariant.
LEMMA StepOk == IInv /\ [Next]_vars => IInv'
<1> SUFFICES ASSUME IInv, [Next]_vars PROVE IInv'
  OBVIOUS
<1>1. ASSUME NEW c \in Call, CallNext(c) PROVE IInv'
  BY <1>1, CallNextOk
<1>2. ASSUME NEW p \in Post, PostNext(p) PROVE IInv'
  BY <1>2, PostNextOk
<1>3. CASE Revoke \/ \E i \in Slot : ReadForRevoke(i)
  BY <1>3, RevokeOk
<1>4. ASSUME NEW s \in Server, Kill(s) PROVE IInv'
  BY <1>4, KillOk
<1>5. ASSUME NEW v \in Switch, SetSwitch(v) PROVE IInv'
  BY <1>5, SwitchOk
<1>6. CASE UNCHANGED vars
  <2>1. UNCHANGED <<record, meta, listed, registry, switch, inFlight, call, post,
                    delete, sent, withdrawn, overtaken, revokes, kills, switches>>
    BY <1>6 DEF vars
  <2>2. TypeOK' /\ DeleteOk' /\ \A i \in listed' : record'[i] # None
    BY <2>1 DEF IInv, TypeOK, DeleteOk, RecordsOk, Bound
  <2>3. \A p \in Post : PostOk(p)'
    BY <2>1, PostsStay
  <2> QED BY <2>1, <2>2, <2>3, StoreStep
<1> QED BY <1>1, <1>2, <1>3, <1>4, <1>5, <1>6 DEF Next

-----------------------------------------------------------------------------
(* The theorems it gives.                                                  *)

\* The invariant of every behaviour, for the two theorems that follow.
THEOREM Invariance == Spec => []IInv
BY InitOk, StepOk, PTL DEF Spec

\* Every variable keeps the shape the code gives its record.
THEOREM TypeCorrect == Spec => []TypeOK
<1>1. IInv => TypeOK
  BY DEF IInv
<1> QED BY <1>1, Invariance, PTL

\* The slot consumption rule of broadcastSlot: a slot is consumed by a call
\* that has sent that very slot, whatever fails or dies on the way.
THEOREM ConsumedByBroadcast == Spec => []ConsumedIsBroadcast
<1>1. IInv => ConsumedIsBroadcast
  BY DEF IInv, RecordsOk, Bound, ConsumedIsBroadcast
<1> QED BY <1>1, Invariance, PTL

-----------------------------------------------------------------------------
(* The adapter's contract.                                                 *)

\* What a step tells the caller.
Says(step) == IF step \in Answered THEN step
              ELSE IF step = "idle" THEN "none" ELSE "running"

\* The answer of a call follows from where it is.
LEMMA AnswerOf ==
    ASSUME IInv, NEW c \in Call, NEW m, call' = [call EXCEPT ![c] = m]
    PROVE  /\ answer[c] = Says(call[c].pc)
           /\ answer' = [answer EXCEPT ![c] = Says(m.pc)]
<1>1. \A d \in Call : call'[d] = IF d = c THEN m ELSE call[d]
  BY DEF IInv, TypeOK
<1>2. answer = [d \in Call |-> Says(call[d].pc)]
  BY DEF answer, Says
<1>3. answer' = [d \in Call |-> Says(call'[d].pc)]
  BY DEF answer, Says
<1> QED BY <1>1, <1>2, <1>3

\* What leaves the calls alone is a stutter of the adapter.
LEMMA Quiet ==
    ASSUME UNCHANGED <<call, sent>>
    PROVE  UNCHANGED <<answer, sent>>
BY DEF answer

\* An answer, in the contract's terms.
LEMMA Returns ==
    ASSUME IInv, NEW c \in Call, NEW a \in {"refused", "unknown", "hash"},
           call[c].pc \in Before \union {"sent", "consume"},
           a = "hash" => c \in sent, a = "refused" => c \notin sent,
           Answer(c, a), UNCHANGED sent
    PROVE  Contract!Return(c)
<1>1. Ended(c, a).pc = a
  BY DEF Ended, Idle
<1>2. answer[c] = "running" /\ answer' = [answer EXCEPT ![c] = a]
  BY <1>1, AnswerOf DEF Answer, Says, Answered, Before
<1>3. answer'[c] = a
  BY <1>2 DEF answer
<1> QED BY <1>2, <1>3 DEF Contract!Return

\* A step of a call is one of the adapter, or none.
LEMMA CallRefines ==
    ASSUME IInv, NEW c \in Call, CallNext(c)
    PROVE  \/ Contract!Begin(c) \/ Contract!Send(c) \/ Contract!Return(c)
           \/ UNCHANGED <<answer, sent>>
<1>1. ASSUME NEW s \in Server, NEW g \in Goal, Begin(c, s, g)
      PROVE  Contract!Begin(c)
  <2>1. PICK m : m = [Idle EXCEPT !.pc = "switch", !.server = s, !.goal = g,
                                  !.barred = withdrawn]
    OBVIOUS
  <2>2. m.pc = "switch" /\ call' = [call EXCEPT ![c] = m] /\ call[c].pc = "idle"
    BY <1>1, <2>1 DEF Begin, Goes, At, Idle
  <2>3. answer[c] = "none" /\ answer' = [answer EXCEPT ![c] = "running"]
    BY <2>2, AnswerOf DEF Says, Answered
  <2> QED BY <1>1, <2>3 DEF Begin, Contract!Begin
<1>2. ASSUME NEW m, call' = [call EXCEPT ![c] = m],
             m.pc \in Before \union {"sent", "consume"},
             call[c].pc \in Before \union {"sent", "consume"}, UNCHANGED sent
      PROVE  UNCHANGED <<answer, sent>>
  <2>1. answer[c] = "running" /\ answer' = [answer EXCEPT ![c] = "running"]
    BY <1>2, AnswerOf DEF Says, Answered, Before
  <2> QED BY <1>2, <2>1 DEF answer
<1>3. call[c] \in CallRecord
  BY DEF IInv, TypeOK
<1>4. CASE ReadSwitch(c) \/ Select(c) \/ Guard(c) \/ Gate(c)
  <2>1. ASSUME NEW m, call' = [call EXCEPT ![c] = m], m.pc \in Before
        PROVE  UNCHANGED <<answer, sent>>
    BY <1>2, <1>4, <2>1 DEF ReadSwitch, Select, Guard, Gate, At, Before
  <2>2. CASE ReadSwitch(c)
    BY <1>3, <2>1, <2>2 DEF ReadSwitch, Goes, Before, CallRecord
  <2>3. CASE Select(c)
    BY <1>3, <2>1, <2>3 DEF Select, Goes, Before, CallRecord
  <2>4. CASE Guard(c)
    BY <1>3, <2>1, <2>4 DEF Guard, Before, CallRecord
  <2>5. CASE Gate(c)
    BY <1>3, <2>1, <2>5 DEF Gate, Goes, Before, CallRecord
  <2> QED BY <1>4, <2>2, <2>3, <2>4, <2>5
<1>5. CASE Refuse(c)
  BY <1>5, Returns DEF Refuse, Before, IInv, CallOk
<1>6. CASE NoHash(c)
  BY <1>6, Returns DEF NoHash, At, Before
<1>7. CASE Send(c)
  <2>1. PICK m : m = [call[c] EXCEPT !.pc = "sent"]
    OBVIOUS
  <2>2. call' = [call EXCEPT ![c] = m] /\ m.pc = "sent" /\ call[c].pc = "send"
    BY <1>3, <1>7, <2>1 DEF Send, Goes, At, CallRecord
  <2>3. answer[c] = "running" /\ answer' = [answer EXCEPT ![c] = "running"]
    BY <2>2, AnswerOf DEF Says, Answered
  <2>4. c \notin sent /\ UNCHANGED answer
    BY <2>2, <2>3 DEF answer, IInv, CallOk, Before
  <2> QED BY <1>7, <2>3, <2>4 DEF Send, Contract!Send
<1>8. CASE ReadForConsume(c)
  <2>1. PICK m : m = [call[c] EXCEPT !.pc = "consume", !.read = record[call[c].slot],
                                     !.tries = @ + 1]
    OBVIOUS
  <2>2. call' = [call EXCEPT ![c] = m] /\ m.pc = "consume"
    BY <1>3, <1>8, <2>1 DEF ReadForConsume, Goes, CallRecord
  <2> QED BY <1>2, <1>8, <2>2 DEF ReadForConsume, At
<1>9. CASE Consume(c)
  <2>1. c \in sent /\ call[c].pc = "consume" /\ UNCHANGED sent
    BY <1>9 DEF Consume, At, IInv, CallOk
  <2>2. CASE Answer(c, "hash")
    BY <2>1, <2>2, Returns
  <2>3. CASE Goes(c, [call[c] EXCEPT !.pc = "sent", !.read = None])
    <3>1. PICK m : m = [call[c] EXCEPT !.pc = "sent", !.read = None]
      OBVIOUS
    <3>2. call' = [call EXCEPT ![c] = m] /\ m.pc = "sent"
      BY <1>3, <2>3, <3>1 DEF Goes, CallRecord
    <3> QED BY <1>2, <2>1, <3>2
  <2> QED BY <1>9, <2>2, <2>3 DEF Consume, EndTry
<1> QED BY <1>1, <1>4, <1>5, <1>6, <1>7, <1>8, <1>9 DEF CallNext

\* A process that dies ends its calls without an answer.
LEMMA KillRefines ==
    ASSUME IInv, NEW s \in Server, Kill(s)
    PROVE  Contract!Die
<1>1. PICK gone \in SUBSET Running :
         call' = [c \in Call |-> IF c \in gone THEN Ended(c, "killed") ELSE call[c]]
  BY DEF Kill
<1>2. gone \in SUBSET {c \in Call : answer[c] = "running"}
  BY DEF Running, answer
<1>3. \A c \in gone : Ended(c, "killed").pc = "killed"
  BY DEF Ended, Idle
<1>4. answer' = [c \in Call |-> IF c \in gone THEN "killed" ELSE answer[c]]
  <2>1. answer' = [c \in Call |-> Says(call'[c].pc)]
    BY DEF answer, Says
  <2>2. answer = [c \in Call |-> Says(call[c].pc)]
    BY DEF answer, Says
  <2>3. \A c \in Call : Says(call'[c].pc) = IF c \in gone THEN "killed" ELSE answer[c]
    BY <1>1, <1>3, <2>2 DEF Says, Answered
  <2> QED BY <2>1, <2>3
<1> QED BY <1>2, <1>4 DEF Kill, Contract!Die

\* Every call keeps the promise the goal runtime is built on: at most one
\* transaction, none behind a refusal, one behind every hash.
THEOREM Contracted == Spec => ImplementsAdapter
<1>1. Init => Contract!Init
  BY DEF Init, Contract!Init, answer, Idle, Answered
<1>2. IInv /\ [Next]_vars => [Contract!Next]_<<answer, sent>>
  <2> SUFFICES ASSUME IInv, [Next]_vars PROVE [Contract!Next]_<<answer, sent>>
    OBVIOUS
  <2>1. ASSUME NEW c \in Call, CallNext(c) PROVE [Contract!Next]_<<answer, sent>>
    BY <2>1, CallRefines DEF Contract!Next
  <2>2. ASSUME NEW p \in Post, PostNext(p) PROVE UNCHANGED <<call, sent>>
    BY <2>2
       DEF PostNext, Submit, ClaimNonce, CheckPrevious, WriteRecord, WriteMeta,
       AddToList, KillPost, others
  <2>3. ASSUME NEW s \in Server, Kill(s) PROVE [Contract!Next]_<<answer, sent>>
    BY <2>3, KillRefines DEF Contract!Next
  <2>4. CASE \/ Revoke \/ \E i \in Slot : ReadForRevoke(i)
             \/ \E v \in Switch : SetSwitch(v)
    BY <2>4, Quiet DEF Revoke, ReadForRevoke, SetSwitch
  <2>5. CASE UNCHANGED vars
    BY <2>5, Quiet DEF vars
  <2> QED BY <2>1, <2>2, <2>3, <2>4, <2>5, Quiet DEF Next
<1> QED BY <1>1, <1>2, Invariance, PTL
           DEF Spec, ImplementsAdapter, Contract!Spec

-----------------------------------------------------------------------------
(* Where nothing overtakes a save: the store and what is known of it.      *)

Revoked(i) == record[i] # None /\ record[i].revoked

\* The keys of a slot agree, as far as they have been written.
SlotOk(i) ==
    i \notin overtaken =>
        /\ record[i] = None => meta[i] = "none"
        /\ record[i] # None => meta[i] \in {"none", Status(record[i])}
        /\ i \in listed => record[i] # None /\ meta[i] # "none"
        /\ i \in withdrawn => Revoked(i)

\* A request that has checked its slot finds it as the check and its own
\* writes have left it.
SaveOk(p) ==
    post[p].pc \in {"record", "meta", "list"} /\ Saved(p) \notin overtaken =>
        /\ record[Saved(p)] = None \/ Usable(record[Saved(p)])
        /\ post[p].pc = "list" => meta[Saved(p)] = "active"

\* A call knows of the revocations confirmed before it began, and of the slot
\* it works on nothing that a revocation could take back.
FlightOk(c) ==
    LET i == call[c].slot IN
    /\ call[c].barred \subseteq withdrawn
    /\ call[c].pc \in {"again"} \union Guarded \/ c \in sent
         => (i \in call[c].barred => i \in overtaken)
    /\ call[c].pc = "consume" /\ i \notin overtaken
         => (call[c].read.revoked => Revoked(i))

SInv ==
    /\ \A i \in Slot : SlotOk(i)
    /\ \A p \in Post : SaveOk(p)
    /\ \A c \in Call : FlightOk(c)

\* At first nothing is saved or revoked.
LEMMA InitSafe == Init => SInv
BY DEF Init, SInv, SlotOk, SaveOk, FlightOk, Idle, Guarded

\* What has been revoked stays revoked, and what has been confirmed, confirmed.
Sticks ==
    /\ withdrawn \subseteq withdrawn' /\ overtaken \subseteq overtaken'
    /\ \A i \in Slot \ overtaken' : Revoked(i) => Revoked(i)'

\* What a call knows of its slot stays true while revocations stick.
LEMMA FlightStays ==
    ASSUME IInv, SInv, Sticks, NEW c \in Call, UNCHANGED call[c],
           c \in sent' => c \in sent
    PROVE  FlightOk(c)'
<1>1. FlightOk(c) /\ (call[c].pc = "consume" => call[c].slot \in Slot)
  BY DEF SInv, IInv, CallOk, TypeOK, Guarded
<1>2. /\ call'[c].barred \subseteq withdrawn'
      /\ call'[c].pc \in {"again"} \union Guarded \/ c \in sent'
           => (call'[c].slot \in call'[c].barred => call'[c].slot \in overtaken')
  BY <1>1 DEF FlightOk, Sticks
<1>3. call'[c].pc = "consume" /\ call'[c].slot \notin overtaken'
        => (call'[c].read.revoked => Revoked(call[c].slot)')
  BY <1>1 DEF FlightOk, Sticks
<1> QED BY <1>2, <1>3 DEF FlightOk, Revoked

\* A step of a call while revocations stick.
LEMMA FlightStep ==
    ASSUME IInv, SInv, NEW c \in Call, NEW m,
           call' = [call EXCEPT ![c] = m], sent' \in {sent, sent \union {c}}, Sticks,
           m.barred \subseteq withdrawn',
           m.pc \in {"again"} \union Guarded \/ c \in sent'
             => (m.slot \in m.barred => m.slot \in overtaken'),
           m.pc = "consume" /\ m.slot \notin overtaken'
             => (m.read.revoked => record'[m.slot] # None /\ record'[m.slot].revoked)
    PROVE  \A d \in Call : FlightOk(d)'
<1>1. call'[c] = m /\ \A d \in Call \ {c} : call'[d] = call[d]
  BY DEF IInv, TypeOK
<1>2. FlightOk(c)'
  BY <1>1 DEF FlightOk, Revoked
<1>3. \A d \in Call \ {c} : FlightOk(d)'
  BY <1>1, FlightStays
<1> QED BY <1>2, <1>3

\* The same for an answer.
LEMMA AnswerSafe ==
    ASSUME IInv, SInv, NEW c \in Call, NEW a \in Answered, Answer(c, a),
           UNCHANGED sent, Sticks
    PROVE  \A d \in Call : FlightOk(d)'
<1>1. PICK m : m = Ended(c, a)
  OBVIOUS
<1>2. /\ m.pc = a
      /\ c \in sent => m.slot = call[c].slot /\ m.barred = call[c].barred
      /\ c \notin sent => m.barred = {}
  BY <1>1 DEF Ended, Idle
<1>3. call' = [call EXCEPT ![c] = m]
  BY <1>1 DEF Answer
<1>4. /\ m.barred \subseteq withdrawn'
      /\ c \in sent => (m.slot \in m.barred => m.slot \in overtaken')
  BY <1>2 DEF SInv, FlightOk, Sticks
<1> QED BY <1>2, <1>3, <1>4, FlightStep DEF Answered, Guarded

\* A step that leaves the store and the requests alone keeps what is said of
\* them.
LEMMA StoreAlone ==
    ASSUME IInv, SInv, UNCHANGED <<record, meta, listed, post, observed>>
    PROVE  /\ \A i \in Slot : SlotOk(i)'
           /\ \A p \in Post : SaveOk(p)'
           /\ Sticks
<1>1. \A i \in Slot : SlotOk(i)'
  BY DEF SInv, SlotOk, Revoked, observed
<1>2. \A p \in Post : SaveOk(p)'
  BY DEF SInv, SaveOk, Saved, observed
<1>3. Sticks
  BY DEF Sticks, Revoked, observed
<1> QED BY <1>1, <1>2, <1>3

\* A script that writes one slot overtakes the requests that are saving it.
LEMMA ScriptSafe ==
    ASSUME IInv, SInv, NEW i \in Slot, Overtakes(i), UNCHANGED <<listed, post>>,
           NEW r \in Record \ {None}, record' = [record EXCEPT ![i] = r],
           meta' = [meta EXCEPT ![i] = Status(r)],
           withdrawn \subseteq withdrawn', withdrawn' \subseteq withdrawn \union {i},
           i \in overtaken' \/ r.revoked \/ (~Revoked(i) /\ i \notin withdrawn')
    PROVE  /\ \A j \in Slot : SlotOk(j)'
           /\ \A p \in Post : SaveOk(p)'
           /\ Sticks
<1>1. /\ record'[i] = r /\ meta'[i] = Status(r) /\ overtaken \subseteq overtaken'
      /\ \A j \in Slot \ {i} : record'[j] = record[j] /\ meta'[j] = meta[j]
  BY DEF IInv, TypeOK, Overtakes
<1>2. SlotOk(i)'
  BY <1>1 DEF SlotOk, Revoked, Status
<1>3. ASSUME NEW j \in Slot \ {i} PROVE SlotOk(j)'
  <2>1. SlotOk(j) /\ (j \in withdrawn' => j \in withdrawn)
    BY DEF SInv
  <2> QED BY <1>1, <2>1 DEF SlotOk, Revoked
<1>4. ASSUME NEW p \in Post PROVE SaveOk(p)'
  <2>1. SaveOk(p) /\ Saved(p)' = Saved(p)
    BY DEF SInv, Saved
  <2>2. CASE post[p].pc \in {"record", "meta", "list"}
    <3>1. Saved(p) \in Saving /\ Saved(p) \in Slot
      BY <2>2, SavedIsSlot DEF Saving, InPost
    <3>2. CASE Saved(p) = i
      BY <2>1, <3>1, <3>2 DEF SaveOk, Overtakes
    <3>3. CASE Saved(p) # i
      <4>1. record'[Saved(p)] = record[Saved(p)] /\ meta'[Saved(p)] = meta[Saved(p)]
        BY <1>1, <3>1, <3>3
      <4> QED BY <1>1, <2>1, <4>1 DEF SaveOk
    <3> QED BY <3>2, <3>3
  <2> QED BY <2>2 DEF SaveOk
<1>5. Sticks
  BY <1>1 DEF Sticks, Revoked
<1> QED BY <1>2, <1>3, <1>4, <1>5

\* A script that writes a slot already excepted says nothing of it.
LEMMA ExceptedSafe ==
    ASSUME IInv, SInv, NEW i \in Slot, i \in overtaken, Overtakes(i),
           UNCHANGED <<listed, post, withdrawn>>,
           NEW r, record' = [record EXCEPT ![i] = r],
           NEW t, meta' = [meta EXCEPT ![i] = t]
    PROVE  /\ \A j \in Slot : SlotOk(j)'
           /\ \A p \in Post : SaveOk(p)'
           /\ Sticks
<1>1. /\ overtaken \subseteq overtaken' /\ i \in overtaken'
      /\ \A j \in Slot \ {i} : record'[j] = record[j] /\ meta'[j] = meta[j]
  BY DEF IInv, TypeOK, Overtakes
<1>2. \A j \in Slot : SlotOk(j)'
  BY <1>1 DEF SInv, SlotOk, Revoked
<1>3. ASSUME NEW p \in Post PROVE SaveOk(p)'
  <2>1. SaveOk(p) /\ Saved(p)' = Saved(p)
    BY DEF SInv, Saved
  <2>2. post[p].pc \in {"record", "meta", "list"} => Saved(p) \in Slot
    BY SavedIsSlot DEF InPost
  <2> QED BY <1>1, <2>1, <2>2 DEF SaveOk
<1>4. Sticks
  BY <1>1 DEF Sticks, Revoked
<1> QED BY <1>2, <1>3, <1>4

\* A call that does not consume keeps revocations.
LEMMA CallSafe ==
    ASSUME IInv, SInv, NEW c \in Call, CallNext(c), ~Consume(c)
    PROVE  SInv'
<1>1. UNCHANGED <<record, meta, listed, post, withdrawn, overtaken>>
  BY DEF CallNext, Begin, ReadSwitch, Select, Guard, Gate, Refuse, Send,
     NoHash, ReadForConsume, redis, around, surroundings
<1>2. (\A i \in Slot : SlotOk(i)') /\ (\A p \in Post : SaveOk(p)') /\ Sticks
  BY <1>1, StoreAlone DEF observed
<1>3. call[c] \in CallRecord /\ FlightOk(c)
  BY DEF IInv, TypeOK, SInv
<1>4. ASSUME NEW m, call' = [call EXCEPT ![c] = m], sent' \in {sent, sent \union {c}},
             m.barred \subseteq withdrawn,
             m.pc \in {"again"} \union Guarded \/ c \in sent'
               => (m.slot \in m.barred => m.slot \in overtaken),
             m.pc = "consume" /\ m.slot \notin overtaken
               => (m.read.revoked => record[m.slot] # None /\ record[m.slot].revoked)
      PROVE  SInv'
  <2>1. \A d \in Call : FlightOk(d)'
    BY <1>1, <1>2, <1>4, FlightStep
  <2> QED BY <1>2, <2>1 DEF SInv
<1>5. ASSUME NEW s \in Server, NEW g \in Goal, Begin(c, s, g) PROVE SInv'
  <2>1. PICK m : m = [Idle EXCEPT !.pc = "switch", !.server = s, !.goal = g,
                                  !.barred = withdrawn]
    OBVIOUS
  <2>2. m.pc = "switch" /\ m.barred = withdrawn /\ call' = [call EXCEPT ![c] = m]
    BY <1>5, <2>1 DEF Begin, Goes, Idle
  <2>3. c \notin sent /\ sent' = sent
    BY <1>5 DEF Begin, At, IInv, CallOk
  <2> QED BY <1>4, <2>2, <2>3 DEF Guarded
<1>6. CASE ReadSwitch(c)
  <2>1. PICK m : m = [call[c] EXCEPT !.pc = "list"]
    OBVIOUS
  <2>2. /\ call' = [call EXCEPT ![c] = m] /\ m.pc = "list" /\ m.slot = call[c].slot
        /\ m.barred = call[c].barred /\ sent' = sent
    BY <1>3, <1>6, <2>1 DEF ReadSwitch, Goes, CallRecord
  <2> QED BY <1>3, <1>4, <2>2 DEF FlightOk, Guarded
<1>7. CASE Select(c)
  <2>1. PICK i \in First : Goes(c, [call[c] EXCEPT !.pc = "again", !.slot = i])
    BY <1>7 DEF Select
  <2>2. PICK m : m = [call[c] EXCEPT !.pc = "again", !.slot = i]
    OBVIOUS
  <2>3. /\ call' = [call EXCEPT ![c] = m] /\ m.pc = "again" /\ m.slot = i
        /\ m.barred = call[c].barred /\ sent' = sent
    BY <1>3, <1>7, <2>1, <2>2 DEF Select, Goes, CallRecord
  <2>4. i \in withdrawn => i \in overtaken
    BY DEF First, Active, Usable, Revoked, SInv, SlotOk, IInv, TypeOK
  <2>5. (m.slot \in m.barred => m.slot \in overtaken) /\ m.barred \subseteq withdrawn
    BY <1>3, <2>3, <2>4 DEF FlightOk
  <2> QED BY <1>4, <2>3, <2>5
<1>8. CASE Guard(c)
  <2>1. PICK m : m = [call[c] EXCEPT !.pc = "chokepoint"]
    OBVIOUS
  <2>2. /\ call' = [call EXCEPT ![c] = m] /\ m.pc = "chokepoint" /\ m.slot = call[c].slot
        /\ m.barred = call[c].barred /\ sent' = sent /\ call[c].pc = "again"
    BY <1>3, <1>8, <2>1 DEF Guard, At, CallRecord
  <2> QED BY <1>3, <1>4, <2>2 DEF FlightOk
<1>9. CASE Gate(c)
  <2>1. PICK m : m = [call[c] EXCEPT !.pc = "send"]
    OBVIOUS
  <2>2. /\ call' = [call EXCEPT ![c] = m] /\ m.pc = "send" /\ m.slot = call[c].slot
        /\ m.barred = call[c].barred /\ sent' = sent /\ call[c].pc = "chokepoint"
    BY <1>3, <1>9, <2>1 DEF Gate, Goes, At, CallRecord
  <2> QED BY <1>3, <1>4, <2>2 DEF FlightOk, Guarded
<1>10. CASE Refuse(c) \/ NoHash(c)
  <2>1. sent' = sent /\ (Answer(c, "refused") \/ Answer(c, "unknown"))
    BY <1>10 DEF Refuse, NoHash
  <2> QED BY <1>2, <2>1, AnswerSafe DEF Answered, SInv
<1>11. CASE Send(c)
  <2>1. PICK m : m = [call[c] EXCEPT !.pc = "sent"]
    OBVIOUS
  <2>2. /\ call' = [call EXCEPT ![c] = m] /\ m.pc = "sent" /\ m.slot = call[c].slot
        /\ m.barred = call[c].barred /\ sent' = sent \union {c} /\ call[c].pc = "send"
    BY <1>3, <1>11, <2>1 DEF Send, Goes, At, CallRecord
  <2> QED BY <1>3, <1>4, <2>2 DEF FlightOk, Guarded
<1>12. CASE ReadForConsume(c)
  <2>1. PICK m : m = [call[c] EXCEPT !.pc = "consume", !.read = record[call[c].slot],
                                     !.tries = @ + 1]
    OBVIOUS
  <2>2. call' = [call EXCEPT ![c] = m] /\ sent' = sent /\ call[c].pc = "sent"
    BY <1>12, <2>1 DEF ReadForConsume, Goes, At
  <2>3. /\ m.pc = "consume" /\ m.slot = call[c].slot /\ m.barred = call[c].barred
        /\ m.read = record[call[c].slot]
    BY <1>3, <2>1 DEF CallRecord
  <2>4. record[call[c].slot] # None
    BY <2>2 DEF IInv, CallOk, RecordsOk, Guarded
  <2> QED BY <1>3, <1>4, <2>2, <2>3, <2>4 DEF FlightOk, Guarded
<1> QED BY <1>5, <1>6, <1>7, <1>8, <1>9, <1>10, <1>11, <1>12 DEF CallNext

\* A try ends; the store may have been written.
LEMMA EndTrySafe ==
    ASSUME IInv, SInv, NEW c \in Call, call[c].pc = "consume",
           EndTry(c) \/ Answer(c, "hash"), Sticks, UNCHANGED sent
    PROVE  \A d \in Call : FlightOk(d)'
<1>1. CASE Answer(c, "hash")
  BY <1>1, AnswerSafe DEF Answered
<1>2. CASE Goes(c, [call[c] EXCEPT !.pc = "sent", !.read = None])
  <2>1. call[c] \in CallRecord /\ FlightOk(c)
    BY DEF IInv, TypeOK, SInv
  <2>2. PICK m : m = [call[c] EXCEPT !.pc = "sent", !.read = None]
    OBVIOUS
  <2>3. /\ call' = [call EXCEPT ![c] = m] /\ m.pc = "sent" /\ m.slot = call[c].slot
        /\ m.barred = call[c].barred
    BY <1>2, <2>1, <2>2 DEF Goes, CallRecord
  <2>4. /\ m.barred \subseteq withdrawn'
        /\ m.slot \in m.barred => m.slot \in overtaken'
    BY <2>1, <2>3 DEF FlightOk, Guarded, Sticks
  <2> QED BY <2>3, <2>4, FlightStep
<1> QED BY <1>1, <1>2 DEF EndTry
\* A record is consumed only if it has not been revoked since it was read.
LEMMA ConsumeSafe ==
    ASSUME IInv, SInv, NEW c \in Call, Consume(c)
    PROVE  SInv'
<1>1. /\ call[c].pc = "consume" /\ c \in sent /\ call[c].slot \in listed
      /\ call[c].slot \in Slot /\ call[c].read \in Record
  BY DEF Consume, At, IInv, TypeOK, CallOk, Guarded, CallRecord
<1>2. /\ UNCHANGED <<listed, withdrawn, post, sent>>
      /\ EndTry(c) \/ Answer(c, "hash")
  BY DEF Consume, surroundings
<1>3. CASE UNCHANGED <<record, meta, overtaken>>
  <2>1. (\A i \in Slot : SlotOk(i)') /\ (\A p \in Post : SaveOk(p)') /\ Sticks
    BY <1>2, <1>3, StoreAlone DEF observed
  <2>2. \A d \in Call : FlightOk(d)'
    BY <1>1, <1>2, <2>1, EndTrySafe
  <2> QED BY <2>1, <2>2 DEF SInv
<1>4. ASSUME NEW i \in Slot, i = call[c].slot, meta[i] = "active", Overtakes(i),
             NEW r, r = [call[c].read EXCEPT !.consumedBy = c],
             record' = [record EXCEPT ![i] = r],
             meta' = [meta EXCEPT ![i] = "consumed"]
      PROVE  SInv'
  <2>1. r \in Record \ {None} /\ r.consumedBy = c /\ r.revoked = call[c].read.revoked
        /\ c # None
    BY <1>1, <1>4, Data, DelegationAssumption DEF Record
  <2>2. i \notin overtaken => ~Revoked(i) /\ i \notin withdrawn
    <3>1. SlotOk(i)
      BY DEF SInv
    <3> QED BY <1>1, <1>4, <3>1 DEF SlotOk, Status, Revoked
  <2>3. i \notin overtaken => ~r.revoked
    <3>1. FlightOk(c)
      BY DEF SInv
    <3> QED BY <1>1, <1>4, <2>1, <2>2, <3>1 DEF FlightOk
  <2>4. overtaken \subseteq overtaken'
    BY <1>4 DEF Overtakes
  <2>5. CASE i \in overtaken
    <3>1. (\A j \in Slot : SlotOk(j)') /\ (\A p \in Post : SaveOk(p)') /\ Sticks
      BY <1>2, <1>4, <2>1, <2>4, <2>5, ExceptedSafe
    <3>2. \A d \in Call : FlightOk(d)'
      BY <1>1, <1>2, <3>1, EndTrySafe
    <3> QED BY <3>1, <3>2 DEF SInv
  <2>6. CASE i \notin overtaken
    <3>1. Status(r) = "consumed"
      BY <2>1, <2>3, <2>6 DEF Status
    <3>2. (\A j \in Slot : SlotOk(j)') /\ (\A p \in Post : SaveOk(p)') /\ Sticks
      BY <1>2, <1>4, <2>1, <2>2, <2>6, <3>1, ScriptSafe
    <3>3. \A d \in Call : FlightOk(d)'
      BY <1>1, <1>2, <3>2, EndTrySafe
    <3> QED BY <3>2, <3>3 DEF SInv
  <2> QED BY <2>5, <2>6
<1> QED BY <1>1, <1>3, <1>4 DEF Consume

\* The confirmation of a revocation comes with a slot that is revoked.
LEMMA RevokeSafe ==
    ASSUME IInv, SInv, Revoke
    PROVE  SInv'
<1>1. /\ delete.slot \in listed /\ delete.slot \in Slot /\ delete.read \in Record
      /\ UNCHANGED <<call, sent, listed, post>>
  BY DEF Revoke, IInv, TypeOK, DeleteOk
<1>2. CASE UNCHANGED <<record, meta, observed>>
  <2>1. (\A i \in Slot : SlotOk(i)') /\ (\A p \in Post : SaveOk(p)') /\ Sticks
    BY <1>1, <1>2, StoreAlone
  <2> QED BY <1>1, <2>1, FlightStays DEF SInv
<1>3. ASSUME NEW i \in Slot, i = delete.slot, Overtakes(i),
             NEW r, r = [delete.read EXCEPT !.revoked = TRUE],
             record' = [record EXCEPT ![i] = r],
             meta' = [meta EXCEPT ![i] = "revoked"],
             withdrawn' \in {withdrawn, withdrawn \union {i}}
      PROVE  SInv'
  <2>1. r \in Record \ {None} /\ r.revoked
    BY <1>1, <1>3, Data DEF Record
  <2>2. Status(r) = "revoked"
    BY <2>1 DEF Status
  <2>3. (\A j \in Slot : SlotOk(j)') /\ (\A p \in Post : SaveOk(p)') /\ Sticks
    BY <1>1, <1>3, <2>1, <2>2, ScriptSafe
  <2> QED BY <1>1, <2>3, FlightStays DEF SInv
<1> QED BY <1>1, <1>2, <1>3 DEF Revoke

\* A call that died sends nothing any more.
LEMMA KillSafe ==
    ASSUME IInv, SInv, NEW s \in Server, Kill(s)
    PROVE  SInv'
<1>1. UNCHANGED <<record, meta, listed, post, observed, sent>>
  BY DEF Kill, redis
<1>2. (\A i \in Slot : SlotOk(i)') /\ (\A p \in Post : SaveOk(p)') /\ Sticks
  BY <1>1, StoreAlone
<1>3. ASSUME NEW c \in Call PROVE FlightOk(c)'
  <2>1. call'[c] = call[c] \/ call'[c] = Ended(c, "killed")
    BY DEF Kill
  <2>2. CASE call'[c] = call[c]
    BY <1>1, <1>2, <2>2, FlightStays
  <2>3. CASE call'[c] = Ended(c, "killed")
    <3>1. /\ call'[c].pc = "killed"
          /\ c \in sent => /\ call'[c].slot = call[c].slot
                         /\ call'[c].barred = call[c].barred
          /\ c \notin sent => call'[c].barred = {}
      BY <2>3 DEF Ended, Idle
    <3>2. FlightOk(c)
      BY DEF SInv
    <3> QED BY <1>1, <3>1, <3>2 DEF FlightOk, Guarded, observed
  <2> QED BY <2>1, <2>2, <2>3
<1> QED BY <1>2, <1>3 DEF SInv

\* A request that has begun goes on, and writes the slot that it is saving.
LEMMA PostSafe ==
    ASSUME IInv, SInv, NEW p \in Post, NEW q, post' = [post EXCEPT ![p] = q],
           UNCHANGED <<call, sent, observed>>,
           NEW i \in Slot, listed' \in {listed, listed \union {i}},
           record' \in {record, [record EXCEPT ![i] = Fresh]},
           meta' \in {meta, [meta EXCEPT ![i] = "active"]},
           i \notin overtaken => SlotOk(i)' /\ (record' # record => ~Revoked(i)),
           SaveOk(p)'
    PROVE  SInv'
<1>1. /\ \A j \in Slot \ {i} : record'[j] = record[j] /\ meta'[j] = meta[j]
      /\ record'[i] \in {record[i], Fresh} /\ meta'[i] \in {meta[i], "active"}
      /\ withdrawn' = withdrawn /\ overtaken' = overtaken
  BY DEF IInv, TypeOK, observed
<1>2. ASSUME NEW j \in Slot PROVE SlotOk(j)'
  <2>1. CASE j # i
    <3>1. SlotOk(j) /\ (j \in listed' => j \in listed)
      BY <2>1 DEF SInv
    <3> QED BY <1>1, <2>1, <3>1 DEF SlotOk, Revoked
  <2>2. CASE j = i /\ i \in overtaken
    BY <1>1, <2>2 DEF SlotOk
  <2> QED BY <2>1, <2>2
<1>3. ASSUME NEW o \in Post \ {p} PROVE SaveOk(o)'
  <2>1. SaveOk(o) /\ post'[o] = post[o] /\ Saved(o)' = Saved(o)
    BY DEF SInv, IInv, TypeOK, Saved
  <2>2. CASE post[o].pc \in {"record", "meta", "list"}
    <3>1. Saved(o) \in Slot
      BY <2>2, SavedIsSlot DEF InPost
    <3>2. /\ record'[Saved(o)] \in {record[Saved(o)], Fresh}
          /\ meta'[Saved(o)] \in {meta[Saved(o)], "active"}
      BY <1>1, <3>1
    <3>3. Usable(Fresh)
      BY Data DEF Usable
    <3> QED BY <1>1, <2>1, <3>2, <3>3 DEF SaveOk
  <2> QED BY <2>1, <2>2 DEF SaveOk
<1>4. Sticks
  BY <1>1 DEF Sticks, Revoked
<1>5. \A c \in Call : FlightOk(c)'
  BY <1>4, FlightStays
<1> QED BY <1>2, <1>3, <1>5 DEF SInv

\* A request that starts, stops or turns to its next slot has checked nothing.
LEMMA UncheckedSafe ==
    ASSUME IInv, SInv, NEW p \in Post, NEW q, post' = [post EXCEPT ![p] = q],
           UNCHANGED <<call, sent, observed>>,
           NEW i \in Slot, listed' \in {listed, listed \union {i}},
           record' \in {record, [record EXCEPT ![i] = Fresh]},
           meta' \in {meta, [meta EXCEPT ![i] = "active"]},
           i \notin overtaken => SlotOk(i)' /\ (record' # record => ~Revoked(i)),
           q.pc \in {"claim", "previous", "done"}
    PROVE  SInv'
<1>1. SaveOk(p)'
  BY DEF SaveOk, IInv, TypeOK
<1> QED BY <1>1, PostSafe

\* Stop, as a change of the request's record.
LEMMA StopSafe ==
    ASSUME IInv, SInv, NEW p \in Post, Stop(p), UNCHANGED <<call, sent, observed>>,
           NEW i \in Slot, listed' \in {listed, listed \union {i}},
           record' \in {record, [record EXCEPT ![i] = Fresh]},
           meta' \in {meta, [meta EXCEPT ![i] = "active"]},
           i \notin overtaken => SlotOk(i)' /\ (record' # record => ~Revoked(i))
    PROVE  SInv'
<1>1. PICK q : q = [pc |-> "done", todo |-> <<>>]
  OBVIOUS
<1>2. post' = [post EXCEPT ![p] = q] /\ q.pc = "done"
  BY <1>1 DEF Stop
<1> QED BY <1>2, UncheckedSafe

\* Every step of a request keeps revocations.
LEMMA PostNextSafe ==
    ASSUME IInv, SInv, NEW p \in Post, PostNext(p)
    PROVE  SInv'
<1>0. PICK i : i = Saved(p)
  OBVIOUS
<1> USE <1>0
<1>1. ASSUME NEW g \in Goal, Submit(p, g) PROVE SInv'
  <2>1. PICK todo : post' = [post EXCEPT ![p] = [pc |-> "claim", todo |-> todo]]
    BY <1>1 DEF Submit
  <2>2. PICK q : q = [pc |-> "claim", todo |-> todo]
    OBVIOUS
  <2>3. post' = [post EXCEPT ![p] = q] /\ q.pc = "claim"
    BY <2>1, <2>2
  <2>4. UNCHANGED <<record, meta, listed, call, sent, observed>>
    BY <1>1 DEF Submit, redis, others
  <2>5. SaveOk(p)'
    BY <2>3 DEF SaveOk, IInv, TypeOK
  <2>6. \A o \in Post \ {p} : SaveOk(o)'
    BY <2>3, <2>4 DEF SInv, SaveOk, Saved, IInv, TypeOK, observed
  <2>7. (\A j \in Slot : SlotOk(j)') /\ Sticks
    BY <2>4 DEF SInv, SlotOk, Revoked, observed, Sticks
  <2> QED BY <2>4, <2>5, <2>6, <2>7, FlightStays DEF SInv
<1>2. ASSUME p \in InPost, NEW pc \in {"previous", "record", "meta", "list"},
             Step(p, pc)
      PROVE  \E q : /\ post' = [post EXCEPT ![p] = q] /\ q.pc = pc /\ post'[p] = q
                     /\ Saved(p)' = i
  <2>1. PICK q : q = [post[p] EXCEPT !.pc = pc]
    OBVIOUS
  <2>2. post[p] \in PostRecord
    BY DEF IInv, TypeOK
  <2>3. q.pc = pc /\ q.todo = post[p].todo
    BY <2>1, <2>2 DEF PostRecord
  <2>4. post' = [post EXCEPT ![p] = q] /\ post'[p] = q
    BY <1>2, <2>1 DEF Step, IInv, TypeOK
  <2> QED BY <2>3, <2>4 DEF Saved
<1>3. p \in InPost => i \in Slot /\ SlotOk(i) /\ SaveOk(p)
  BY SavedIsSlot DEF SInv, InPost
<1>4. ASSUME p \in InPost, UNCHANGED <<record, meta, listed>>
      PROVE  i \notin overtaken /\ UNCHANGED observed => SlotOk(i)'
  BY <1>3, <1>4 DEF SlotOk, Revoked, observed
<1>5. CASE ClaimNonce(p) \/ KillPost(p)
  <2>1. p \in InPost
    BY <1>5 DEF ClaimNonce, KillPost, PostAt, InPost
  <2>2. UNCHANGED <<record, meta, listed, call, sent, observed>>
    BY <1>5 DEF ClaimNonce, KillPost, others, redis
  <2>3. CASE Stop(p)
    BY <1>3, <1>4, <2>1, <2>2, <2>3, StopSafe
  <2>4. CASE Step(p, "previous")
    <3>1. PICK q : post' = [post EXCEPT ![p] = q] /\ q.pc = "previous"
      BY <1>2, <2>1, <2>4
    <3> QED BY <1>3, <1>4, <2>1, <2>2, <3>1, UncheckedSafe
  <2> QED BY <1>5, <2>3, <2>4 DEF ClaimNonce, KillPost
<1>6. CASE CheckPrevious(p)
  <2>1. p \in InPost
    BY <1>6 DEF CheckPrevious, PostAt, InPost
  <2>2. UNCHANGED <<record, meta, listed, call, sent, observed>>
    BY <1>6 DEF CheckPrevious, others
  <2>3. CASE Stop(p)
    BY <1>3, <1>4, <2>1, <2>2, <2>3, StopSafe
  <2>4. CASE Step(p, "record") /\ (record[i] = None \/ Usable(record[i]))
    <3>1. PICK q : /\ post' = [post EXCEPT ![p] = q] /\ q.pc = "record" /\ post'[p] = q
                   /\ Saved(p)' = i
      BY <1>2, <2>1, <2>4
    <3>2. SaveOk(p)'
      BY <2>2, <2>4, <3>1 DEF SaveOk
    <3> QED BY <1>3, <1>4, <2>1, <2>2, <3>1, <3>2, PostSafe
  <2> QED BY <1>6, <2>3, <2>4 DEF CheckPrevious, GiveBack
<1>7. CASE WriteRecord(p)
  <2>1. p \in InPost /\ post[p].pc = "record"
    BY <1>7 DEF WriteRecord, PostAt, InPost
  <2>2. UNCHANGED <<meta, listed, call, sent, observed>>
    BY <1>7 DEF WriteRecord, others
  <2>3. /\ record' \in {record, [record EXCEPT ![i] = Fresh]}
        /\ \/ Stop(p)
           \/ Step(p, "meta") /\ record' = [record EXCEPT ![i] = Fresh]
    BY <1>7 DEF WriteRecord, Writes, GiveBack
  <2>4. i \notin overtaken
          => SlotOk(i)' /\ (record[i] = None \/ Usable(record[i])) /\ ~Revoked(i)
    <3>1. SUFFICES ASSUME i \notin overtaken
          PROVE SlotOk(i)' /\ (record[i] = None \/ Usable(record[i])) /\ ~Revoked(i)
      OBVIOUS
    <3>2. record[i] = None \/ Usable(record[i])
      BY <1>3, <2>1, <3>1 DEF SaveOk
    <3>3. ~Revoked(i)
      BY <3>2 DEF Revoked, Usable
    <3>4. Status(Fresh) = "active" /\ Fresh # None
      BY Data DEF Status
    <3>5. record[i] # None => Status(record[i]) = "active"
      BY <3>2 DEF Usable, Status
    <3>6. CASE record' = record
      BY <1>4, <2>1, <2>2, <3>1, <3>2, <3>3, <3>6
    <3>7. CASE record' = [record EXCEPT ![i] = Fresh]
      <4>1. record'[i] = Fresh
        BY <1>3, <2>1, <3>7 DEF IInv, TypeOK
      <4>2. meta[i] \in {"none", "active"} /\ i \notin withdrawn
            /\ (i \in listed => meta[i] # "none")
        BY <1>3, <2>1, <3>1, <3>3, <3>5 DEF SlotOk
      <4>3. /\ meta'[i] = meta[i] /\ withdrawn' = withdrawn /\ listed' = listed
            /\ record'[i] # None /\ Status(record'[i]) = "active"
        BY <2>2, <3>4, <4>1 DEF observed
      <4> QED BY <3>2, <3>3, <4>2, <4>3 DEF SlotOk
    <3> QED BY <2>3, <3>2, <3>3, <3>6, <3>7
  <2>5. CASE Stop(p)
    BY <1>3, <2>1, <2>2, <2>3, <2>4, <2>5, StopSafe
  <2>6. CASE Step(p, "meta") /\ record' = [record EXCEPT ![i] = Fresh]
    <3>1. PICK q : /\ post' = [post EXCEPT ![p] = q] /\ q.pc = "meta" /\ post'[p] = q
                   /\ Saved(p)' = i
      BY <1>2, <2>1, <2>6
    <3>2. record'[i] = Fresh /\ Usable(Fresh)
      BY <1>3, <2>1, <2>6, Data DEF IInv, TypeOK, Usable
    <3>3. SaveOk(p)'
      BY <3>1, <3>2 DEF SaveOk
    <3> QED BY <1>3, <2>1, <2>2, <2>3, <2>4, <3>1, <3>3, PostSafe
  <2> QED BY <2>3, <2>5, <2>6
<1>8. CASE WriteMeta(p)
  <2>1. p \in InPost /\ post[p].pc = "meta" /\ record[i] # None
    BY <1>8 DEF WriteMeta, PostAt, InPost, IInv, PostOk
  <2>2. UNCHANGED <<record, listed, call, sent, observed>>
    BY <1>8 DEF WriteMeta, others
  <2>3. /\ meta' \in {meta, [meta EXCEPT ![i] = "active"]}
        /\ \/ Stop(p)
           \/ Step(p, "list") /\ meta' = [meta EXCEPT ![i] = "active"]
    BY <1>8 DEF WriteMeta, Writes, GiveBack
  <2>4. meta'[i] = meta[i] \/ meta'[i] = "active"
    BY <1>3, <2>1, <2>3 DEF IInv, TypeOK
  <2>5. i \notin overtaken => Usable(record[i]) /\ Status(record[i]) = "active"
    BY <1>3, <2>1 DEF SaveOk, Usable, Status
  <2>6. i \notin overtaken => SlotOk(i)'
    BY <1>3, <2>1, <2>2, <2>4, <2>5 DEF SlotOk, Revoked, observed
  <2>7. CASE Stop(p)
    BY <1>3, <2>1, <2>2, <2>3, <2>6, <2>7, StopSafe
  <2>8. CASE Step(p, "list") /\ meta' = [meta EXCEPT ![i] = "active"]
    <3>1. PICK q : /\ post' = [post EXCEPT ![p] = q] /\ q.pc = "list" /\ post'[p] = q
                   /\ Saved(p)' = i
      BY <1>2, <2>1, <2>8
    <3>2. meta'[i] = "active"
      BY <1>3, <2>1, <2>8 DEF IInv, TypeOK
    <3>3. SaveOk(p)'
      BY <2>2, <2>5, <3>1, <3>2 DEF SaveOk, observed
    <3> QED BY <1>3, <2>1, <2>2, <2>3, <2>6, <3>1, <3>3, PostSafe
  <2> QED BY <2>3, <2>7, <2>8
<1>9. CASE AddToList(p)
  <2>1. p \in InPost /\ post[p].pc = "list" /\ record[i] # None
    BY <1>9 DEF AddToList, PostAt, InPost, IInv, PostOk
  <2>2. UNCHANGED <<record, meta, call, sent, observed>>
    BY <1>9 DEF AddToList, others
  <2>3. /\ listed' \in {listed, listed \union {i}}
        /\ Stop(p) \/ NextSlot(p)
    BY <1>9 DEF AddToList, Writes, GiveBack
  <2>4. i \notin overtaken => meta[i] = "active"
    BY <1>3, <2>1 DEF SaveOk
  <2>5. i \notin overtaken => SlotOk(i)'
    BY <1>3, <2>1, <2>2, <2>3, <2>4 DEF SlotOk, Revoked, observed
  <2>6. CASE Stop(p)
    BY <1>3, <2>1, <2>2, <2>3, <2>5, <2>6, StopSafe
  <2>7. CASE NextSlot(p)
    <3>1. PICK q : q = [post[p] EXCEPT !.todo = Tail(@),
                           !.pc = IF Len(post[p].todo) > 1 THEN "claim" ELSE "done"]
      OBVIOUS
    <3>2. post[p] \in PostRecord
      BY DEF IInv, TypeOK
    <3>3. q.pc \in {"claim", "previous", "done"}
      BY <3>1, <3>2 DEF PostRecord
    <3>4. post' = [post EXCEPT ![p] = q]
      BY <2>7, <3>1 DEF NextSlot
    <3> QED BY <1>3, <2>1, <2>2, <2>3, <2>5, <3>3, <3>4, UncheckedSafe
  <2> QED BY <2>3, <2>6, <2>7
<1> QED BY <1>1, <1>5, <1>6, <1>7, <1>8, <1>9 DEF PostNext

\* Every step keeps revocations, however requests overlap.
LEMMA StepSafe == IInv /\ SInv /\ [Next]_vars => SInv'
<1> SUFFICES ASSUME IInv, SInv, [Next]_vars PROVE SInv'
  OBVIOUS
<1>1. ASSUME NEW c \in Call, CallNext(c) PROVE SInv'
  BY <1>1, CallSafe, ConsumeSafe
<1>2. ASSUME NEW p \in Post, PostNext(p) PROVE SInv'
  BY <1>2, PostNextSafe
<1>3. CASE Revoke
  BY <1>3, RevokeSafe
<1>4. CASE \/ \E i \in Slot : ReadForRevoke(i)
           \/ \E v \in Switch : SetSwitch(v)
           \/ UNCHANGED vars
  <2>1. UNCHANGED <<record, meta, listed, call, sent, post, observed>>
    BY <1>4 DEF ReadForRevoke, SetSwitch, vars, redis, observed
  <2> QED BY <2>1, StoreAlone, FlightStays DEF SInv
<1>5. ASSUME NEW s \in Server, Kill(s) PROVE SInv'
  BY <1>5, KillSafe
<1> QED BY <1>1, <1>2, <1>3, <1>4, <1>5 DEF Next

\* The invariant of the slots that no save was overtaken on.
THEOREM SafeInvariance == Spec => []SInv
<1>1. Init => IInv /\ SInv
  BY InitOk, InitSafe
<1>2. IInv /\ SInv /\ [Next]_vars => (IInv /\ SInv)'
  BY StepOk, StepSafe
<1> QED BY <1>1, <1>2, PTL DEF Spec

\* A slot that selection can find has a meta that says what its record says,
\* though the two are written apart, by requests that overlap and fail in
\* between: unless it was consumed or revoked between the check of a save and
\* its writes.
THEOREM Governed == Spec => []ListedIsGoverned
<1>1. SInv /\ IInv => ListedIsGoverned
  BY DEF SInv, SlotOk, ListedIsGoverned, IInv, TypeOK
<1> QED BY <1>1, SafeInvariance, Invariance, PTL

\* A call that starts after its wallet was told that a slot is revoked sends
\* that slot only if a save had checked it before and was still to write it:
\* no failed or repeated save, consumption, kill or stale write does it alone.
THEOREM OnlyOvertaken == Spec => []OnlyOvertakenIsSent
<1>1. SInv /\ IInv => OnlyOvertakenIsSent
  BY DEF SInv, FlightOk, OnlyOvertakenIsSent, IInv, TypeOK
<1> QED BY <1>1, SafeInvariance, Invariance, PTL

=============================================================================
