------------------------- MODULE SpendReservations -------------------------
(***************************************************************************)
(* What the policy-day ledger promises its callers, without its keys,      *)
(* scripts, fence or recovery: docs/AUTONOMY-DAILY-SPEND-RESERVATIONS.md   *)
(* as a state machine.  An execution id reserves spend at most once, under *)
(* both caps; what was broadcast can never be released; writers of the     *)
(* previous scheme are admitted only while nothing is reserved.            *)
(* DayLedger and GoalRuntime are both shown to implement it.               *)
(***************************************************************************)
EXTENDS Amounts

CONSTANTS Exec, Amount, MaxDaily, MaxActions

VARIABLES
    state,     \* state[e]: "none", "R", "A", "C", "X" or "F"
    amt,       \* amt[e]: the amount reserved for e
    sent,      \* the executions that were broadcast
    admitted   \* what the previous scheme's writers recorded: [sum, count]

vars == <<state, amt, sent, admitted>>

Init ==
    /\ state = [e \in Exec |-> "none"]
    /\ amt = [e \in Exec |-> 0]
    /\ sent = {}
    /\ admitted \in [sum : Nat, count : Nat]

Counted == {e \in Exec : state[e] \in {"R", "A", "C", "X"}}
Spend == Total(Counted, amt)

Append(a) ==
    /\ \A e \in Exec : state[e] = "none"
    /\ admitted.count + 1 <= MaxActions
    /\ admitted' = [sum |-> admitted.sum + a, count |-> admitted.count + 1]
    /\ UNCHANGED <<state, amt, sent>>

Reserve(e, a) ==
    /\ state[e] = "none"
    /\ admitted.sum + Spend + a <= MaxDaily
    /\ admitted.count + Cardinality(Counted) + 1 <= MaxActions
    /\ state' = [state EXCEPT ![e] = "R"]
    /\ amt' = [amt EXCEPT ![e] = a]
    /\ UNCHANGED <<sent, admitted>>

Advance(e, from, to) ==
    /\ state[e] \in from
    /\ state' = [state EXCEPT ![e] = to]
    /\ UNCHANGED <<amt, sent, admitted>>

Attempt(e) == Advance(e, {"R"}, "A")
Commit(e) == Advance(e, {"R", "A"}, "C")
Ambiguous(e) == Advance(e, {"A"}, "X")
Release(e) == e \notin sent /\ Advance(e, {"R", "A"}, "F")

Broadcast(e) ==
    /\ state[e] \in {"A", "C", "X"}
    /\ sent' = sent \union {e}
    /\ UNCHANGED <<state, amt, admitted>>

Next ==
    \/ \E a \in Amount : Append(a)
    \/ \E e \in Exec :
         \/ \E a \in Amount : Reserve(e, a)
         \/ Attempt(e) \/ Commit(e) \/ Ambiguous(e) \/ Release(e)
         \/ Broadcast(e)

Spec == Init /\ [][Next]_vars

=============================================================================
