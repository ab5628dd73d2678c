--------------------------- MODULE ExecutorProofs ---------------------------
(***************************************************************************)
(* The delegated executor gives every wallet what it signed for, keeps     *)
(* nothing, and calls approved code only: proved for every set of wallets, *)
(* addresses and permits, every fee, and venues that behave as they like.  *)
(***************************************************************************)
EXTENDS Executor, AmountsProofs

-----------------------------------------------------------------------------
(* Money.                                                                  *)

\* The fee is a natural number.
LEMMA FeeTyped ==
    ASSUME TypeOK, NEW p \in Permit
    PROVE  FeeOf(p) \in Nat
<1>1. p.gross \in Nat /\ feeBps \in Nat /\ BPS_DENOMINATOR \in Nat \ {0}
  BY ExecutorAssumption DEF TypeOK
<1>2. \A x \in Nat, y \in Nat \ {0} : x \div y \in Nat
  OBVIOUS
<1>3. p.gross * feeBps \in Nat
  BY <1>1
<1> QED BY <1>1, <1>2, <1>3 DEF FeeOf

\* Adding permit p to a set adds its amount to the sum, which is a number.
LEMMA SumGrows ==
    ASSUME NEW S \in SUBSET Permit, NEW p \in Permit, p \notin S,
           NEW f, \A q \in Permit : f[q] \in Nat
    PROVE  Total(S \union {p}, f) = Total(S, f) + f[p] /\ Total(S, f) \in Nat
<1>1. IsFiniteSet(S)
  BY FS_Subset, ExecutorAssumption
<1> QED BY <1>1, TotalAdd, TotalType

\* A redeemed permit adds its amounts to its owner's sums and to no other's.
Gross == [p \in Permit |-> p.gross]
MinOut == [p \in Permit |-> p.minOut]

\* A permit used adds what it names to the sums of its own owner and tokens,
\* and nothing to any other.
LEMMA TradeAdds ==
    ASSUME NEW p \in Permit \ used, used \subseteq Permit,
           used' = used \union {p}, NEW u, NEW t
    PROVE  /\ Sold(u, t)' = Sold(u, t) +
                  (IF p.owner = u /\ p.sell = t THEN p.gross ELSE 0)
           /\ Bought(u, t)' = Bought(u, t) +
                  (IF p.owner = u /\ p.buy = t THEN p.minOut ELSE 0)
           /\ Sold(u, t) \in Nat /\ Bought(u, t) \in Nat
<1> DEFINE sells == p.owner = u /\ p.sell = t
           buys == p.owner = u /\ p.buy = t
           S == {q \in used : q.owner = u /\ q.sell = t}
           T == {q \in used' : q.owner = u /\ q.sell = t}
           A == {q \in used : q.owner = u /\ q.buy = t}
           B == {q \in used' : q.owner = u /\ q.buy = t}
<1>1. /\ \A q \in Permit : Gross[q] \in Nat /\ MinOut[q] \in Nat
      /\ Gross[p] = p.gross /\ MinOut[p] = p.minOut
  BY ExecutorAssumption DEF Gross, MinOut
<1>2. /\ S \in SUBSET Permit /\ p \notin S /\ T = IF sells THEN S \union {p} ELSE S
      /\ A \in SUBSET Permit /\ p \notin A /\ B = IF buys THEN A \union {p} ELSE A
      /\ sells \in BOOLEAN /\ buys \in BOOLEAN
  OBVIOUS
<1>3. /\ Sold(u, t) = Total(S, Gross) /\ Bought(u, t) = Total(A, MinOut)
      /\ Sold(u, t)' = Total(T, Gross) /\ Bought(u, t)' = Total(B, MinOut)
  BY DEF Sold, Bought, Gross, MinOut
<1>4. /\ Total(T, Gross) = Total(S, Gross) + (IF sells THEN Gross[p] ELSE 0)
      /\ Total(B, MinOut) = Total(A, MinOut) + (IF buys THEN MinOut[p] ELSE 0)
      /\ Total(S, Gross) \in Nat /\ Total(A, MinOut) \in Nat
  <2> HIDE DEF S, T, A, B, sells, buys, Gross, MinOut
  <2>1. /\ Total(S \union {p}, Gross) = Total(S, Gross) + Gross[p]
        /\ Total(S, Gross) \in Nat
    BY <1>1, <1>2, SumGrows
  <2>2. /\ Total(A \union {p}, MinOut) = Total(A, MinOut) + MinOut[p]
        /\ Total(A, MinOut) \in Nat
    BY <1>1, <1>2, SumGrows
  <2>3. Total(T, Gross) = Total(S, Gross) + (IF sells THEN Gross[p] ELSE 0)
    BY <2>1, <1>2
  <2>4. Total(B, MinOut) = Total(A, MinOut) + (IF buys THEN MinOut[p] ELSE 0)
    BY <2>2, <1>2
  <2> QED BY <2>1, <2>2, <2>3, <2>4
<1> QED BY <1>1, <1>3, <1>4

\* Where no permit is redeemed, the sums stay as they are.
LEMMA NoTradeNoSum ==
    ASSUME UNCHANGED used, NEW u, NEW t
    PROVE  Sold(u, t)' = Sold(u, t) /\ Bought(u, t)' = Bought(u, t)
BY DEF Sold, Bought

-----------------------------------------------------------------------------
(* The inductive invariant.                                                *)

\* At first nothing is allowed and nothing held.
LEMMA InitOk == Init => IInv
<1> SUFFICES ASSUME Init PROVE IInv
  OBVIOUS
<1> USE ExecutorAssumption DEF Init, Holder, Address, BuiltIn, RouterKind
<1>1. NoCode \in Code /\ code \in [Contract -> Code \ {NoCode}]
  BY DEF Code, NoCode
<1>2. AllowlistsAgree
  BY DEF AllowlistsAgree
<1>3. approved \subseteq Venue
  BY <1>1 DEF Venue, BuiltInVenue
<1>4. TypeOK
  <2>1. /\ swapModuleCodeHash \in [Contract -> Code]
        /\ {held, stray} \subseteq [Token -> Nat]
        /\ gained \in [Holder -> [Token -> Int]]
    BY <1>1
  <2>2. feeBps \in 0..MAX_FEE_BPS /\ feeRecipient \in Holder
    OBVIOUS
  <2>3. /\ routerKind \in [Contract -> RouterKind]
        /\ swapModuleForRouter \in [Contract -> Address]
        /\ routerForSwapModule \in [Contract -> Address]
    OBVIOUS
  <2> QED BY <1>1, <1>2, <1>3, <2>1, <2>2, <2>3 DEF TypeOK
<1>5. ApprovalsKept
  BY DEF ApprovalsKept
<1>6. SignedTradesOnly
  <2>1. \A u, t : Sold(u, t) = 0 /\ Bought(u, t) = 0
    BY TotalEmpty DEF Sold, Bought
  <2> QED BY <2>1 DEF SignedTradesOnly
<1> QED BY <1>4, <1>5, <1>6 DEF IInv

\* A step that moves no money keeps what the wallets and the executor have.
LEMMA MoneyKept ==
    ASSUME IInv, UNCHANGED money
    PROVE  SignedTradesOnly'
BY NoTradeNoSum DEF IInv, SignedTradesOnly, money

\* Replacing what is approved for r keeps the other approvals.
LEMMA ApprovalReplaced ==
    ASSUME IInv, NEW r \in Contract, NEW v \in SUBSET Venue, Approve(r, v),
           \A x \in Contract \ {r} :
               /\ routerKind'[x] = routerKind[x]
               /\ swapModuleForRouter'[x] = swapModuleForRouter[x]
               /\ swapModuleCodeHash'[x] = swapModuleCodeHash[x]
    PROVE  /\ approved' \subseteq Venue
           /\ \A x \in Contract \ {r} :
                /\ routerKind'[x] \in BuiltIn
                     => BuiltInVenue(x, routerKind'[x]) \in approved'
                /\ routerKind'[x] = "TYPED_SWAP_MODULE" => PinnedVenue(x)' \in approved'
BY DEF IInv, TypeOK, ApprovalsKept, Approve, BuiltInVenue, PinnedVenue

\* Allowing, moving or removing a router keeps the four maps in agreement.
LEMMA SetRouterOk ==
    ASSUME IInv, NEW r \in Contract, NEW kind \in RouterKind, SetRouter(r, kind),
           changes' \in Nat
    PROVE  IInv'
<1> USE DEF SetRouter
<1>1. kind \in BuiltIn \union {"NONE"}
  BY DEF RouterKind, BuiltIn
<1>2. NoCode \in Code
  BY DEF NoCode, Code, Address
<1>3. AllowlistsAgree'
  BY <1>1, ExecutorAssumption
     DEF IInv, TypeOK, AllowlistsAgree, BuiltIn, Address
<1>4. (IF kind = "NONE" THEN {} ELSE {BuiltInVenue(r, kind)}) \subseteq Venue
  BY <1>1, <1>2 DEF Venue, BuiltInVenue
<1>5. /\ approved' \subseteq Venue
      /\ \A x \in Contract \ {r} :
           /\ routerKind'[x] \in BuiltIn
                => BuiltInVenue(x, routerKind'[x]) \in approved'
           /\ routerKind'[x] = "TYPED_SWAP_MODULE" => PinnedVenue(x)' \in approved'
  BY <1>4, ApprovalReplaced DEF IInv, TypeOK
<1>6. TypeOK'
  BY <1>2, <1>3, <1>5 DEF IInv, TypeOK, Address, RouterKind, money, fees
<1>7. ApprovalsKept'
  <2>1. /\ routerKind'[r] \in BuiltIn => BuiltInVenue(r, routerKind'[r]) \in approved'
        /\ routerKind'[r] # "TYPED_SWAP_MODULE"
    BY <1>1 DEF IInv, TypeOK, Approve, BuiltIn
  <2> QED BY <1>5, <2>1 DEF ApprovalsKept, BuiltInVenue
<1> QED BY <1>6, <1>7, MoneyKept DEF IInv

\* Binding a module to a router, or another module, keeps them in agreement.
LEMMA SetRouterModuleOk ==
    ASSUME IInv, NEW r \in Contract, NEW m \in Contract, SetRouterModule(r, m),
           changes' \in Nat
    PROVE  IInv'
<1> USE DEF SetRouterModule
<1>1. code[m] \in Code /\ code[m] # NoCode
  BY DEF IInv, TypeOK
<1>2. AllowlistsAgree'
  BY <1>1, ExecutorAssumption
     DEF IInv, TypeOK, AllowlistsAgree, MayServe, Bind, Address
<1>3. {ModuleVenue(r, m)} \subseteq Venue
  BY <1>1 DEF Venue, ModuleVenue
<1>4. /\ approved' \subseteq Venue
      /\ \A x \in Contract \ {r} :
           /\ routerKind'[x] \in BuiltIn
                => BuiltInVenue(x, routerKind'[x]) \in approved'
           /\ routerKind'[x] = "TYPED_SWAP_MODULE" => PinnedVenue(x)' \in approved'
  BY <1>3, ApprovalReplaced DEF IInv, TypeOK
<1>5. TypeOK'
  BY <1>1, <1>2, <1>4 DEF IInv, TypeOK, Address, RouterKind, Bind, money, fees
<1>6. ApprovalsKept'
  <2>1. /\ routerKind'[r] \notin BuiltIn
        /\ PinnedVenue(r)' \in approved'
    BY DEF IInv, TypeOK, Approve, BuiltIn, PinnedVenue, ModuleVenue
  <2> QED BY <1>4, <2>1 DEF ApprovalsKept, BuiltInVenue
<1> QED BY <1>5, <1>6, MoneyKept DEF IInv

\* Allowing or removing a token keeps them in agreement.
LEMMA SetTokenOk ==
    ASSUME IInv, NEW t \in Contract, NEW allowed \in BOOLEAN, SetToken(t, allowed),
           changes' \in Nat
    PROVE  IInv'
<1> USE DEF SetToken
<1>1. AllowlistsAgree'
  BY DEF IInv, TypeOK, AllowlistsAgree, modules
<1>2. TypeOK'
  BY <1>1 DEF IInv, TypeOK, modules, money, fees
<1>3. ApprovalsKept'
  BY DEF IInv, ApprovalsKept, modules, PinnedVenue, BuiltInVenue
<1> QED BY <1>2, <1>3, MoneyKept DEF IInv

\* Steps that leave the allowlists alone keep what is approved.
LEMMA ListsKept ==
    ASSUME IInv, UNCHANGED allowlists
    PROVE  AllowlistsAgree' /\ ApprovalsKept'
BY DEF IInv, TypeOK, AllowlistsAgree, ApprovalsKept, allowlists, modules,
       PinnedVenue, BuiltInVenue

\* Fee, recipient and pause touch no map and no balance.
LEMMA SettingsOk ==
    ASSUME IInv, changes' \in Nat,
           \/ \E fee \in Fee : SetFeeBps(fee)
           \/ \E h \in Holder : SetFeeRecipient(h)
           \/ Pause
    PROVE  IInv'
<1>1. feeBps' \in 0..MAX_FEE_BPS /\ feeRecipient' \in Holder /\ paused' \in BOOLEAN
  <2> USE DEF IInv, TypeOK, fees
  <2>1. CASE \E fee \in Fee : SetFeeBps(fee)
    BY <2>1, ExecutorAssumption DEF SetFeeBps
  <2>2. CASE \E h \in Holder : SetFeeRecipient(h)
    BY <2>2 DEF SetFeeRecipient
  <2>3. CASE Pause
    BY <2>3 DEF Pause
  <2> QED BY <2>1, <2>2, <2>3
<1>2. UNCHANGED <<allowlists, code, money>>
  BY DEF SetFeeBps, SetFeeRecipient, Pause
<1>3. TypeOK'
  BY <1>1, <1>2, ListsKept DEF IInv, TypeOK, allowlists, modules, money
<1> QED BY <1>2, <1>3, ListsKept, MoneyKept DEF IInv

\* Tokens come to the executor or leave it outside of a trade.
LEMMA StrayOk ==
    ASSUME IInv, NEW t \in Token, Deposit(t) \/ Rescue(t), UNCHANGED changes
    PROVE  IInv'
<1>1. held = stray /\ held \in [Token -> Nat]
  BY DEF IInv, TypeOK, SignedTradesOnly
<1>2. held' = stray' /\ held' \in [Token -> Nat]
  <2>1. CASE Deposit(t)
    BY <2>1, <1>1 DEF Deposit
  <2>2. CASE Rescue(t)
    BY <2>2, <1>1 DEF Rescue
  <2> QED BY <2>1, <2>2
<1>3. UNCHANGED <<paused, fees, allowlists, code, gained, used, last>>
  BY DEF Deposit, Rescue
<1>4. TypeOK'
  BY <1>2, <1>3, ListsKept DEF IInv, TypeOK, allowlists, modules, fees
<1>5. SignedTradesOnly'
  BY <1>2, <1>3, NoTradeNoSum DEF IInv, SignedTradesOnly
<1> QED BY <1>3, <1>4, <1>5, ListsKept DEF IInv

\* Code that changes at an address changes no approval.
LEMMA RedeployOk ==
    ASSUME IInv, NEW a \in Contract, NEW r \in {Declares[a], None}, Redeploy(a, r),
           UNCHANGED changes
    PROVE  IInv'
<1>1. code' \in [Contract -> Code \ {NoCode}]
  <2>1. code[a] \in Code
    BY DEF IInv, TypeOK
  <2>2. r \in Address
    BY ExecutorAssumption DEF Address
  <2>3. /\ [version |-> code[a].version + 1, router |-> r] \in Code
        /\ code[a].version + 1 # 0
    BY <2>1, <2>2 DEF Code
  <2>4. [version |-> code[a].version + 1, router |-> r] # NoCode
    BY <2>3 DEF NoCode
  <2> QED BY <2>3, <2>4 DEF Redeploy, IInv, TypeOK
<1>2. UNCHANGED <<paused, fees, allowlists, money>>
  BY DEF Redeploy
<1>3. TypeOK'
  BY <1>1, <1>2, ListsKept DEF IInv, TypeOK, allowlists, modules, fees, money
<1> QED BY <1>2, <1>3, ListsKept, MoneyKept DEF IInv

\* A trade calls what is approved.
LEMMA TradeIsApproved ==
    ASSUME IInv, NEW p \in Permit, NEW r \in Contract, NEW unwrap, NEW paid,
           NEW tax, NEW left, Trade(p, r, unwrap, paid, tax, left)
    PROVE  last' \in approved
<1>1. routerKind[r] \in BuiltIn \union {"TYPED_SWAP_MODULE"}
  BY DEF IInv, TypeOK, RouterKind, Trade, Tradable
<1>2. CASE routerKind[r] \in BuiltIn
  BY <1>2 DEF IInv, ApprovalsKept, Trade, BuiltIn
<1>3. CASE routerKind[r] = "TYPED_SWAP_MODULE"
  <2>1. code[swapModuleForRouter[r]] = swapModuleCodeHash[r]
    BY <1>3 DEF Trade, Tradable, ModuleAllowed
  <2>2. last' = PinnedVenue(r)
    BY <2>1, <1>3 DEF Trade, ModuleVenue, PinnedVenue
  <2> QED BY <2>2, <1>3 DEF IInv, ApprovalsKept
<1> QED BY <1>1, <1>2, <1>3

\* A trade moves what its permit says, and the executor keeps nothing.
LEMMA TradeOk ==
    ASSUME IInv, NEW p \in Permit, NEW r \in Contract, NEW unwrap \in BOOLEAN,
           NEW paid \in Nat, NEW tax \in Nat, NEW left \in Nat,
           Trade(p, r, unwrap, paid, tax, left), UNCHANGED changes
    PROVE  IInv'
<1> DEFINE core == routerKind[r] = "TYPED_SWAP_MODULE" \/ unwrap
<1>1. /\ p.sell \in Token /\ p.buy \in Token /\ p.sell # p.buy
      /\ p \notin used /\ p.owner # feeRecipient /\ p.owner \in User
      /\ left = 0 /\ paid - tax >= p.minOut
      /\ p.gross \in Nat /\ p.minOut \in Nat /\ FeeOf(p) \in Nat
  <2>1. (IF core THEN Forwarded(held[p.buy], held[p.buy] + paid) ELSE paid) = paid
    BY ExecutorAssumption DEF Trade, Tradable, Forwarded, IInv, TypeOK
  <2> QED BY <2>1, ExecutorAssumption, FeeTyped
          DEF Trade, Tradable, Consumed, Delivered, IInv
<1>2. /\ used' = used \union {p}
      /\ held' = held
      /\ gained' = [gained EXCEPT ![p.owner][p.sell] = @ - p.gross,
                                  ![p.owner][p.buy] = @ + paid - tax,
                                  ![feeRecipient][p.sell] = @ + FeeOf(p)]
      /\ UNCHANGED <<paused, fees, allowlists, code, stray>>
  <2>1. /\ held \in [Token -> Nat]
        /\ Forwarded(held[p.buy], held[p.buy] + paid) = paid
    BY <1>1 DEF IInv, TypeOK, Forwarded
  <2>2. held' = [held EXCEPT ![p.sell] = @ + left,
                             ![p.buy] = IF core THEN @ + paid - paid ELSE @]
    BY <2>1 DEF Trade
  <2>3. held' = held
    <3>1. /\ held[p.sell] + left = held[p.sell]
          /\ held[p.buy] + paid - paid = held[p.buy]
      BY <1>1, <2>1
    <3> QED BY <3>1, <2>1, <2>2, <1>1
  <2> QED BY <2>1, <2>3 DEF Trade
<1>3. gained' \in [Holder -> [Token -> Int]]
  BY <1>1, <1>2 DEF IInv, TypeOK, Holder
<1>4. last' \in Venue
  BY TradeIsApproved DEF IInv, TypeOK
<1>5. TypeOK'
  BY <1>1, <1>2, <1>3, <1>4, ListsKept
     DEF IInv, TypeOK, allowlists, modules, fees
<1>6. SignedTradesOnly'
  <2>1. ASSUME NEW u \in User, NEW t \in Token
        PROVE  gained'[u][t] >= Bought(u, t)' - Sold(u, t)'
    <3>1. gained[u][t] >= Bought(u, t) - Sold(u, t)
      BY DEF IInv, SignedTradesOnly
    <3>2. gained[u][t] \in Int /\ gained'[u][t] \in Int
      BY <1>3 DEF IInv, TypeOK, Holder
    <3>3. /\ Sold(u, t)' = Sold(u, t) +
                 (IF p.owner = u /\ p.sell = t THEN p.gross ELSE 0)
          /\ Bought(u, t)' = Bought(u, t) +
                 (IF p.owner = u /\ p.buy = t THEN p.minOut ELSE 0)
          /\ Sold(u, t) \in Nat /\ Bought(u, t) \in Nat
      BY <1>1, <1>2, TradeAdds DEF IInv, TypeOK
    <3>4. CASE u = p.owner
      <4>1. gained'[u][t] = IF t = p.sell THEN gained[u][t] - p.gross
                            ELSE IF t = p.buy THEN gained[u][t] + paid - tax
                            ELSE gained[u][t]
        BY <1>1, <1>2, <3>4 DEF IInv, TypeOK, Holder
      <4> QED BY <4>1, <1>1, <3>1, <3>2, <3>3, <3>4
    <3>5. CASE u # p.owner
      <4>1. gained'[u][t] >= gained[u][t]
        BY <1>1, <1>2, <3>5, <3>2 DEF IInv, TypeOK, Holder
      <4> QED BY <4>1, <3>1, <3>2, <3>3, <3>5
    <3> QED BY <3>4, <3>5
  <2>2. held' = stray'
    BY <1>2 DEF IInv, SignedTradesOnly
  <2> QED BY <2>1, <2>2 DEF SignedTradesOnly
<1> QED BY <1>2, <1>5, <1>6, ListsKept DEF IInv

\* Every transaction keeps the invariant.
LEMMA StepOk == IInv /\ [Next]_vars => IInv'
<1> SUFFICES ASSUME IInv, [Next]_vars PROVE IInv'
  OBVIOUS
<1> USE DEF Admin, Trading, Others
<1>1. CASE Admin /\ changes < MaxChanges /\ changes' = changes + 1
  <2>1. changes' \in Nat
    BY <1>1 DEF IInv, TypeOK
  <2> QED BY <1>1, <2>1, SetRouterOk, SetRouterModuleOk, SetTokenOk, SettingsOk
<1>2. CASE Trading /\ UNCHANGED changes
  <2>1. PICK p \in Permit, r \in Contract, unwrap \in BOOLEAN,
             extra \in 0..MaxExtra, tax \in 0..MaxTax, left \in 0..1 :
               Trade(p, r, unwrap, p.minOut + extra, tax, left)
    BY <1>2
  <2>2. p.minOut + extra \in Nat /\ tax \in Nat /\ left \in Nat
    BY ExecutorAssumption
  <2> QED BY <1>2, <2>1, <2>2, TradeOk
<1>3. CASE Others /\ UNCHANGED changes
  BY <1>3, StrayOk, RedeployOk
<1>4. CASE UNCHANGED vars
  <2>1. TypeOK'
    BY <1>4, ListsKept DEF IInv, TypeOK, vars, allowlists, modules, fees, money
  <2> QED BY <1>4, <2>1, ListsKept, MoneyKept DEF IInv, vars
<1> QED BY <1>1, <1>2, <1>3, <1>4 DEF Next

-----------------------------------------------------------------------------
(* The theorems.                                                           *)

\* The maps of MPGRExecutorDelegated agree in every state, tokens, routers and
\* modules are disjoint, and what a trade may call is approved.
THEOREM Invariance == Spec => []IInv
BY InitOk, StepOk, PTL DEF Spec

\* Type correctness, the agreement of the four allowlists included.
THEOREM TypeCorrect == Spec => []TypeOK
<1>1. IInv => TypeOK
  BY DEF IInv
<1> QED BY <1>1, Invariance, PTL

\* Whoever broadcasts and whatever the venue does, a wallet gets what it
\* signed for, and the executor keeps nothing of a trade.
THEOREM WalletsGetWhatTheySigned == Spec => []SignedTradesOnly
<1>1. IInv => SignedTradesOnly
  BY DEF IInv
<1> QED BY <1>1, Invariance, PTL

\* No trade calls code the owner has not approved for its router.
THEOREM ApprovedCode == Spec => OnlyApprovedCodeRuns
<1>1. ASSUME IInv, [Next]_vars, used' # used PROVE last' \in approved
  <2>1. \E p \in Permit, r \in Contract : \E unwrap, paid, tax, left :
          Trade(p, r, unwrap, paid, tax, left)
    BY <1>1
       DEF Next, Admin, Trading, Others, SetRouter, SetRouterModule, SetToken,
           SetFeeBps, SetFeeRecipient, Pause, Deposit, Rescue, Redeploy, money, vars
  <2> QED BY <1>1, <2>1, TradeIsApproved
<1>2. IInv /\ [Next]_vars => [used' # used => last' \in approved]_vars
  BY <1>1
<1> QED BY <1>2, Invariance, PTL DEF Spec, OnlyApprovedCodeRuns

=============================================================================
