------------------------------ MODULE Adapter ------------------------------
(***************************************************************************)
(* What lib/autonomy/execution-adapter.ts promises the goal runtime of a   *)
(* call of executeSwap: at most one transaction; a refusal means none was  *)
(* sent, a hash means one was; any other failure leaves the outcome open.  *)
(* GoalRuntime works with such an adapter, Delegation implements it.       *)
(***************************************************************************)
CONSTANT Call

VARIABLES
    answer,  \* what the caller knows of each call
    sent     \* the calls that sent a transaction

Answer == {"refused", "unknown", "hash", "killed"}

Init ==
    /\ answer = [c \in Call |-> "none"]
    /\ sent = {}

Begin(c) ==
    /\ answer[c] = "none"
    /\ answer' = [answer EXCEPT ![c] = "running"]
    /\ UNCHANGED sent

Send(c) ==
    /\ answer[c] = "running"
    /\ c \notin sent
    /\ sent' = sent \union {c}
    /\ UNCHANGED answer

Return(c) ==
    /\ answer[c] = "running"
    /\ answer'[c] \in {"unknown"} \union {IF c \in sent THEN "hash" ELSE "refused"}
    /\ answer' = [answer EXCEPT ![c] = answer'[c]]
    /\ UNCHANGED sent

\* One process holds several calls: when it dies, none of them answers.
Die ==
    \E gone \in SUBSET {c \in Call : answer[c] = "running"} :
        /\ answer' = [c \in Call |-> IF c \in gone THEN "killed" ELSE answer[c]]
        /\ UNCHANGED sent

Next == Die \/ \E c \in Call : Begin(c) \/ Send(c) \/ Return(c)

Spec == Init /\ [][Next]_<<answer, sent>>

=============================================================================
