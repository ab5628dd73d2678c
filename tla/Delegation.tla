----------------------------- MODULE Delegation -----------------------------
(***************************************************************************)
(* Delegated execution: the authorization slots a wallet signs for one     *)
(* policy (delegated-authorization.ts, delegated-redis-store.ts and the    *)
(* authorization route), and the adapter that broadcasts them              *)
(* (delegated-execution-adapter.ts, delegateSwap of mcp-trade-service.ts,  *)
(* broadcast-gate.ts, emergency-switch.ts, delegated-broadcaster.ts).      *)
(*                                                                         *)
(* A slot is one signed Permit2 permit of one goal.  Its id is made of the *)
(* goal and an index, and the wallet derives the permit's nonce from the   *)
(* same two, so a slot stands for its nonce too.  In Redis it is three     *)
(* keys, written one after the other: the record, the meta (the status,    *)
(* the only thing the scripts compare) and the place in the wallet's list. *)
(***************************************************************************)
EXTENDS Integers, Sequences, FiniteSets, SequencesExt

CONSTANTS
    Call,        \* calls of executeSwap
    Server,      \* processes they run in
    Post,        \* POST requests that save slots
    Goal,        \* goals of the policy
    MaxSlots,    \* MAX_DELEGATED_SLOTS
    MaxRevokes,  \* bound: DELETE requests
    MaxKills,    \* bound: processes killed
    MaxSwitches, \* bound: changes of the emergency switch
    Production,  \* AUTONOMOUS_PRODUCTION_ENABLED
    None         \* an absent record or field

\* A slot record, as far as it changes: who consumed it, and is it revoked.
Record == [consumedBy : Call \union {None}, revoked : BOOLEAN]

ASSUME DelegationAssumption ==
    /\ IsFiniteSet(Call) /\ IsFiniteSet(Goal)
    /\ {MaxSlots, MaxRevokes, MaxKills, MaxSwitches} \subseteq Nat
    /\ Production \in BOOLEAN
    /\ None \notin Call \union Server \union Goal \union Record

Slot == Goal \X (0 .. MaxSlots - 1)
GoalOf(i) == i[1]
IndexOf(i) == i[2]

VARIABLES
    record,    \* slot records, or None
    meta,      \* slot-meta: "none", "active", "consumed", "revoked"
    listed,    \* the wallet's slot list
    registry,  \* nonces claimed SET NX
    switch,    \* the record of the emergency switch
    inFlight,  \* broadcastsInFlight of each process
    call,      \* the calls of executeSwap
    post,      \* the POST requests
    delete,    \* the DELETE request
    sent,      \* calls whose transaction the node accepted
    withdrawn, \* observed: slots whose revocation was confirmed
    overtaken, \* observed: slots consumed or revoked behind a request's back
    revokes, kills, switches

redis == <<record, meta, listed, registry>>
bounds == <<revokes, kills, switches>>
vars == <<record, meta, listed, registry, switch, inFlight, call, post,
          delete, sent, withdrawn, overtaken, revokes, kills, switches>>

Fresh == [consumedBy |-> None, revoked |-> FALSE]
\* Mutant: the revocation is not looked at.
Usable_Revoked(r) == r # None /\ r.consumedBy = None

Usable(r) == r # None /\ r.consumedBy = None /\ ~r.revoked
Status(r) == IF r.revoked THEN "revoked"
             ELSE IF r.consumedBy # None THEN "consumed" ELSE "active"

\* What a read of the switch record amounts to: a malformed record, one of
\* another version or with a bad field counts as disabled.
Switch == {"enabled", "disabled", "missing"}

Idle == [pc |-> "idle", server |-> None, goal |-> None, slot |-> None,
         read |-> None, tries |-> 0, barred |-> {}]

Init ==
    /\ record = [i \in Slot |-> None]
    /\ meta = [i \in Slot |-> "none"]
    /\ listed = {} /\ registry = {}
    /\ switch = "enabled"
    /\ inFlight = [s \in Server |-> {}]
    /\ call = [c \in Call |-> Idle]
    /\ post = [p \in Post |-> [pc |-> "idle", todo |-> <<>>]]
    /\ delete = [pc |-> "idle", slot |-> None, read |-> None]
    /\ sent = {} /\ withdrawn = {} /\ overtaken = {}
    /\ revokes = 0 /\ kills = 0 /\ switches = 0

-----------------------------------------------------------------------------
(* Saving slots: POST, and saveSlots for one slot after the other.         *)

PostAt(p, step) == post[p].pc = step
Step(p, step) == post' = [post EXCEPT ![p].pc = step]
Stop(p) == post' = [post EXCEPT ![p] = [pc |-> "done", todo |-> <<>>]]
Saved(p) == Head(post[p].todo)
InPost == {p \in Post : post[p].pc \notin {"idle", "done"}}
observed == <<withdrawn, overtaken>>
others == <<switch, inFlight, call, delete, sent, observed, bounds>>

Active == {i \in listed : Usable(record[i])}
Free(g) == {i \in {g} \X (0 .. MaxSlots - 1) :
                \A j \in listed : IndexOf(i) # IndexOf(j)}

\* Indexes are unique among the policy's listed slots and within the request;
\* nothing keeps two requests of a wallet apart.
Submit(p, g) ==
    /\ PostAt(p, "idle")
    /\ \E S \in (SUBSET Free(g)) \ {{}} :
         /\ Cardinality(Active) + Cardinality(S) <= MaxSlots
         /\ \E todo \in SetToSeqs(S) :
              post' = [post EXCEPT ![p] = [pc |-> "claim", todo |-> todo]]
    /\ UNCHANGED <<redis, others>>

\* The nonce is claimed before anything is written.  A refusal or an error
\* here ends the request; the claim of one that errs may have been made.
ClaimNonce(p) ==
    /\ PostAt(p, "claim")
    /\ \/ /\ Saved(p) \notin registry
          /\ registry' = registry \union {Saved(p)}
          /\ Step(p, "previous")
       \/ /\ registry' \in {registry, registry \union {Saved(p)}}
          /\ Stop(p)
    /\ UNCHANGED <<record, meta, listed, others>>

\* An error after the claim: the nonce is given back, if that succeeds.
GiveBack(p) ==
    /\ registry' \in {registry, registry \ {Saved(p)}}
    /\ Stop(p)

\* A slot that was consumed or revoked is not saved over.
CheckPrevious(p) ==
    /\ PostAt(p, "previous")
    /\ \/ /\ record[Saved(p)] = None \/ Usable(record[Saved(p)])
          /\ Step(p, "record")
          /\ UNCHANGED registry
       \/ GiveBack(p)
    /\ UNCHANGED <<record, meta, listed, others>>

\* A write is applied and answered; or it fails, and may have been applied.
Writes(p, applied, unchanged, goesOn) ==
    \/ applied /\ goesOn /\ UNCHANGED registry
    \/ (applied \/ unchanged) /\ GiveBack(p)

WriteRecord(p) ==
    /\ PostAt(p, "record")
    /\ Writes(p, record' = [record EXCEPT ![Saved(p)] = Fresh],
              UNCHANGED record, Step(p, "meta"))
    /\ UNCHANGED <<meta, listed, others>>

WriteMeta(p) ==
    /\ PostAt(p, "meta")
    /\ Writes(p, meta' = [meta EXCEPT ![Saved(p)] = "active"],
              UNCHANGED meta, Step(p, "list"))
    /\ UNCHANGED <<record, listed, others>>

\* The next slot of the request is saved, if there is one.
NextSlot(p) ==
    post' = [post EXCEPT ![p].todo = Tail(@),
                   ![p].pc = IF Len(post[p].todo) > 1 THEN "claim" ELSE "done"]

\* The slot is listed last.
AddToList(p) ==
    /\ PostAt(p, "list")
    /\ Writes(p, listed' = listed \union {Saved(p)}, UNCHANGED listed, NextSlot(p))
    /\ UNCHANGED <<record, meta, others>>

\* The platform kills the function that serves the request.
KillPost(p) ==
    /\ p \in InPost
    /\ kills < MaxKills
    /\ kills' = kills + 1
    /\ Stop(p)
    /\ UNCHANGED <<redis, switch, inFlight, call, delete, sent, observed,
                   revokes, switches>>

-----------------------------------------------------------------------------
(* Revocation: DELETE, for a slot that the wallet's list has shown.        *)

\* The slots that a request has checked and is still to write.
Saving == {Saved(p) : p \in {q \in Post : post[q].pc \in {"record", "meta", "list"}}}
Overtakes(i) == overtaken' = overtaken \union ({i} \intersect Saving)

ReadForRevoke(i) ==
    /\ delete.pc = "idle"
    /\ revokes < MaxRevokes
    /\ i \in listed
    /\ revokes' = revokes + 1
    /\ delete' = [pc |-> "revoke", slot |-> i, read |-> record[i]]
    /\ UNCHANGED <<redis, switch, inFlight, call, post, sent, observed, kills,
                   switches>>

\* Mutant: the script does not write the meta.
Revoke_RecordOnly ==
    LET i == delete.slot IN
    /\ delete.pc = "revoke"
    /\ delete' = [pc |-> "idle", slot |-> None, read |-> None]
    /\ \/ /\ meta[i] \in {"active", "consumed"}
          /\ record' = [record EXCEPT ![i] = [delete.read EXCEPT !.revoked = TRUE]]
          /\ withdrawn' \in {withdrawn, withdrawn \union {i}}
          /\ Overtakes(i)
       \/ UNCHANGED <<record, observed>>
    /\ UNCHANGED <<meta, listed, registry, switch, inFlight, call, post, sent,
                   bounds>>

\* CAS_REVOKE_SCRIPT: writes the record read before, unless already revoked.
\* The answer confirms the revocation, if it arrives.
Revoke ==
    LET i == delete.slot IN
    /\ delete.pc = "revoke"
    /\ delete' = [pc |-> "idle", slot |-> None, read |-> None]
    /\ \/ /\ meta[i] \in {"active", "consumed"}
          /\ record' = [record EXCEPT ![i] = [delete.read EXCEPT !.revoked = TRUE]]
          /\ meta' = [meta EXCEPT ![i] = "revoked"]
          /\ withdrawn' \in {withdrawn, withdrawn \union {i}}
          /\ Overtakes(i)
       \/ UNCHANGED <<record, meta, observed>>
    /\ UNCHANGED <<listed, registry, switch, inFlight, call, post, sent, bounds>>

-----------------------------------------------------------------------------
(* executeSwap, up to the broadcast.                                       *)

At(c, step) == call[c].pc = step
Answered == {"refused", "unknown", "hash", "killed"}
Running == {c \in Call : call[c].pc \notin Answered \union {"idle"}}
Guarded == {"chokepoint", "send", "sent", "consume"}
surroundings == <<switch, post, delete, withdrawn, bounds>>
around == <<surroundings, overtaken>>

\* What is left of a call that has ended.
Ended(c, a) ==
    IF c \in sent
    THEN [Idle EXCEPT !.pc = a, !.slot = call[c].slot, !.barred = call[c].barred]
    ELSE [Idle EXCEPT !.pc = a]

\* The answer of c; the finally drops the guard it holds in its process.
Answer(c, a) ==
    /\ call' = [call EXCEPT ![c] = Ended(c, a)]
    /\ inFlight' = [inFlight EXCEPT ![call[c].server] =
                       IF call[c].pc \in Guarded THEN @ \ {call[c].slot} ELSE @]

Goes(c, r) == call' = [call EXCEPT ![c] = r] /\ UNCHANGED inFlight

Begin(c, s, g) ==
    /\ At(c, "idle")
    /\ Goes(c, [Idle EXCEPT !.pc = "switch", !.server = s, !.goal = g,
                            !.barred = withdrawn])
    /\ UNCHANGED <<redis, sent, around>>

\* readAutonomousEmergencySwitch and emergencySwitchBlocksExecution: a missing
\* record is no obstacle in production.
Allows == switch = "enabled" \/ (switch = "missing" /\ Production)

ReadSwitch(c) ==
    /\ At(c, "switch")
    /\ Allows
    /\ Goes(c, [call[c] EXCEPT !.pc = "list"])
    /\ UNCHANGED <<redis, sent, around>>

\* selectDelegatedSlot: the usable slot of the policy with the first index,
\* of whichever goal.
First == {i \in Active : \A j \in Active : IndexOf(i) <= IndexOf(j)}

Select(c) ==
    /\ At(c, "list")
    /\ \E i \in First : Goes(c, [call[c] EXCEPT !.pc = "again", !.slot = i])
    /\ UNCHANGED <<redis, sent, around>>

\* The slot is read again, and taken unless this process is at it already.
Guard(c) ==
    LET s == call[c].server IN
    /\ At(c, "again")
    /\ Usable(record[call[c].slot])
    /\ call[c].slot \notin inFlight[s]
    /\ inFlight' = [inFlight EXCEPT ![s] = @ \union {call[c].slot}]
    /\ call' = [call EXCEPT ![c].pc = "chokepoint"]
    /\ UNCHANGED <<redis, sent, around>>

\* validateDelegatedTransaction: the permit must be the requesting goal's.
Authorizes(i, c) == GoalOf(i) = call[c].goal

\* Mutant: the slot is consumed before the broadcast.
Gate_Consumes(c) ==
    LET i == call[c].slot IN
    /\ At(c, "chokepoint")
    /\ Allows
    /\ Authorizes(i, c)
    /\ meta[i] = "active"
    /\ record' = [record EXCEPT ![i].consumedBy = c]
    /\ meta' = [meta EXCEPT ![i] = "consumed"]
    /\ Goes(c, [call[c] EXCEPT !.pc = "send"])
    /\ UNCHANGED <<listed, registry, sent, around>>

\* delegateSwap: the switch once more, and the gate before the operator's key
\* signs.
Gate(c) ==
    /\ At(c, "chokepoint")
    /\ Allows
    /\ Authorizes(call[c].slot, c)
    /\ Goes(c, [call[c] EXCEPT !.pc = "send"])
    /\ UNCHANGED <<redis, sent, around>>

\* Any check before the send may refuse: flags, posture, expiry, quote, route,
\* the store, a read of the switch that times out, the gas estimate, the node.
Refuse(c) ==
    /\ call[c].pc \in {"switch", "list", "again", "chokepoint", "send"}
    /\ Answer(c, "refused")
    /\ UNCHANGED <<redis, sent, around>>

-----------------------------------------------------------------------------
(* The broadcast.                                                          *)

\* The node accepts the transaction; its answer is on the way.
Send(c) ==
    /\ At(c, "send")
    /\ sent' = sent \union {c}
    /\ Goes(c, [call[c] EXCEPT !.pc = "sent"])
    /\ UNCHANGED <<redis, around>>

\* Mutant: a send that timed out is taken for a refusal.
NoHash_Refused(c) ==
    /\ \/ At(c, "send")
       \/ At(c, "sent") /\ call[c].tries = 0
    /\ Answer(c, "refused")
    /\ UNCHANGED <<redis, sent, around>>

\* RPC_ERROR: no hash, whether the node has the transaction or not.
NoHash(c) ==
    /\ \/ At(c, "send")
       \/ At(c, "sent") /\ call[c].tries = 0
    /\ Answer(c, "unknown")
    /\ UNCHANGED <<redis, sent, around>>

\* consumeSlotForHash tries markConsumed twice: a read of the record ...
ReadForConsume(c) ==
    /\ At(c, "sent")
    /\ Goes(c, [call[c] EXCEPT !.pc = "consume", !.read = record[call[c].slot],
                               !.tries = @ + 1])
    /\ UNCHANGED <<redis, sent, around>>

\* Mutant: the write is tried until it succeeds.
EndTry_Forever(c) == Goes(c, [call[c] EXCEPT !.pc = "sent", !.read = None])

\* ... which counts as a try; the call answers with its hash in any case.
EndTry(c) ==
    \/ call[c].tries = 1 /\ Goes(c, [call[c] EXCEPT !.pc = "sent", !.read = None])
    \/ call[c].tries = 2 /\ Answer(c, "hash")

\* CAS_CONSUME_SCRIPT writes the record read if the meta is still active.
Consume(c) ==
    LET i == call[c].slot IN
    /\ At(c, "consume")
    /\ \/ /\ meta[i] = "active"
          /\ record' = [record EXCEPT ![i] = [call[c].read EXCEPT !.consumedBy = c]]
          /\ meta' = [meta EXCEPT ![i] = "consumed"]
          /\ Overtakes(i)
          /\ Answer(c, "hash") \/ EndTry(c)
       \/ EndTry(c) /\ UNCHANGED <<record, meta, overtaken>>
    /\ UNCHANGED <<listed, registry, sent, surroundings>>

-----------------------------------------------------------------------------
(* What happens around the program.                                        *)

\* A process dies with its calls and its guard.
Kill(s) ==
    LET gone == {c \in Running : call[c].server = s} IN
    /\ gone # {}
    /\ kills < MaxKills
    /\ kills' = kills + 1
    /\ call' = [c \in Call |->
                   IF c \in gone THEN Ended(c, "killed") ELSE call[c]]
    /\ inFlight' = [inFlight EXCEPT ![s] = {}]
    /\ UNCHANGED <<redis, switch, post, delete, sent, observed, revokes,
                   switches>>

\* The operator writes or deletes the switch record.
SetSwitch(v) ==
    /\ switches < MaxSwitches
    /\ v # switch
    /\ switch' = v
    /\ switches' = switches + 1
    /\ UNCHANGED <<redis, inFlight, call, post, delete, sent, observed, revokes,
                   kills>>

CallNext(c) ==
    \/ \E s \in Server, g \in Goal : Begin(c, s, g)
    \/ ReadSwitch(c) \/ Select(c) \/ Guard(c) \/ Gate(c) \/ Refuse(c)
    \/ Send(c) \/ NoHash(c) \/ ReadForConsume(c) \/ Consume(c)

PostNext(p) ==
    \/ \E g \in Goal : Submit(p, g)
    \/ ClaimNonce(p) \/ CheckPrevious(p) \/ WriteRecord(p) \/ WriteMeta(p)
    \/ AddToList(p) \/ KillPost(p)

Next ==
    \/ \E c \in Call : CallNext(c)
    \/ \E p \in Post : PostNext(p)
    \/ \E i \in Slot : ReadForRevoke(i)
    \/ Revoke
    \/ \E s \in Server : Kill(s)
    \/ \E v \in Switch : SetSwitch(v)

Spec == Init /\ [][Next]_vars

-----------------------------------------------------------------------------
(* Properties.                                                             *)

CallPc == {"idle", "switch", "list", "again"} \union Guarded \union Answered
CallRecord ==
    [pc : CallPc,
     server : Server \union {None}, goal : Goal \union {None},
     slot : Slot \union {None}, read : Record \union {None},
     tries : 0 .. 2, barred : SUBSET Slot]

PostRecord ==
    [pc : {"idle", "claim", "previous", "record", "meta", "list", "done"},
     todo : Seq(Slot)]

\* Every variable keeps the shape the code gives its record.
TypeOK ==
    /\ record \in [Slot -> Record \union {None}]
    /\ meta \in [Slot -> {"none", "active", "consumed", "revoked"}]
    /\ listed \subseteq Slot /\ registry \subseteq Slot
    /\ withdrawn \subseteq Slot /\ overtaken \subseteq Slot
    /\ switch \in Switch
    /\ inFlight \in [Server -> SUBSET Slot]
    /\ call \in [Call -> CallRecord]
    /\ post \in [Post -> PostRecord]
    /\ delete \in [pc : {"idle", "revoke"}, slot : Slot \union {None},
                   read : Record \union {None}]
    /\ sent \subseteq Call
    /\ revokes \in 0 .. MaxRevokes /\ kills \in 0 .. MaxKills
    /\ switches \in 0 .. MaxSwitches

\* A slot that selection can find has a meta, and it says what the record
\* says: the two are separate keys, written by several requests that fail in
\* between and by scripts that write a record read earlier, and a slot whose
\* meta is missing or stale could be picked but never consumed or revoked.
\* Requests of one wallet may overlap in any way: only a slot consumed or
\* revoked between the check of a second save and its writes is excepted.
ListedIsGoverned ==
    \A i \in listed \ overtaken : record[i] # None /\ meta[i] = Status(record[i])

\* A slot is consumed by a broadcast only: a refusal, a timeout or a killed
\* process never takes a usable slot from the user (the "slot consumption
\* rule" of broadcastSlot), and the slot bound is the one that was sent.
ConsumedIsBroadcast ==
    \A i \in Slot : record[i] # None =>
        LET c == record[i].consumedBy
        IN  c # None => c \in sent /\ call[c].slot = i

\* A call that starts after the wallet was told its slot is revoked sends it
\* only if a save that had checked the slot before was still to write it then,
\* whatever else is saved, consumed, written back or killed meanwhile.
OnlyOvertakenIsSent ==
    \A c \in sent : call[c].slot \in call[c].barred => call[c].slot \in overtaken

\* INV-4, "revoked/expired authorizations can never execute": a call that
\* starts after the wallet was told its slot is revoked never sends it.
NothingSentAfterRevocation ==
    \A c \in sent : call[c].slot \notin call[c].barred

\* What the goal runtime is promised of every call: at most one transaction,
\* none after a refusal, one behind every hash.
answer == [c \in Call |->
    IF call[c].pc \in Answered THEN call[c].pc
    ELSE IF call[c].pc = "idle" THEN "none" ELSE "running"]

Contract == INSTANCE Adapter

ImplementsAdapter == Contract!Spec

\* A transaction hash, once bound to a slot, stays bound to it.
HashStaysBound ==
    [][\A i \in Slot :
          record[i] # None =>
             record[i].consumedBy \in {None, record'[i].consumedBy}]_vars

=============================================================================
