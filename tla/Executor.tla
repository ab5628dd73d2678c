------------------------------ MODULE Executor ------------------------------
(***************************************************************************)
(* The delegated executor: contracts/executor/MPGRExecutorDelegated.sol,   *)
(* with Permit2, the tokens and the trading venues around it.  Anyone may  *)
(* redeem a permit its owner signed; the contract's owner decides where.   *)
(* One transaction is one action; one that reverts is no step.  A user's   *)
(* WETH and ETH are one balance, so that unwrapping moves nothing there.   *)
(***************************************************************************)
EXTENDS Integers, Amounts

CONSTANTS
    User,            \* wallets that sign permits
    Treasury,        \* a fee recipient that trades nothing
    Contract,        \* addresses with code: tokens, routers, modules
    Token,           \* those of them that are ERC-20
    WETH,
    None,            \* address(0)
    InitialTokens, InitialRouters, InitialFeeBps,     \* the constructor's
    Declares,        \* the router each address declares to be a module of
    Permit,          \* permits users sign; each carries a nonce of its own
    Fee,             \* fees the owner may name, in basis points
    MAX_FEE_BPS,
    BPS_DENOMINATOR,
    MaxTax,          \* bound: what a taxed transfer keeps
    MaxExtra,        \* bound: what a venue pays beyond the minimum
    MaxStray,        \* bound: tokens sent to the executor by mistake
    MaxChanges,      \* bound: transactions of the owner
    MaxCode          \* bound: versions of the code at an address

Holder == User \union {Treasury}
BuiltIn == {"AERODROME_SLIPSTREAM", "UNISWAP_V3_ROUTER02"}

ASSUME ExecutorAssumption ==
    /\ IsFiniteSet(Permit) /\ IsFiniteSet(Token)
    /\ Token \subseteq Contract /\ WETH \in Token
    /\ None \notin Contract
    /\ Permit \subseteq [owner : User, sell : Contract, gross : Nat,
                         buy : Contract, minOut : Nat, nonce : Nat]
    /\ InitialTokens \subseteq Contract
    /\ InitialRouters \in [Contract -> BuiltIn \union {"NONE"}]
    /\ \A t \in InitialTokens : InitialRouters[t] = "NONE"
    /\ Declares \in [Contract -> Contract \union {None}]
    /\ Fee \subseteq Nat
    /\ {MAX_FEE_BPS, MaxTax, MaxExtra, MaxStray, MaxChanges, MaxCode}
           \subseteq Nat
    /\ BPS_DENOMINATOR \in Nat \ {0}
    /\ InitialFeeBps \in 0..MAX_FEE_BPS
    /\ MAX_FEE_BPS <= BPS_DENOMINATOR

VARIABLES
    paused, feeBps, feeRecipient,
    routerKind, swapModuleForRouter, swapModuleCodeHash,
    routerForSwapModule, isTokenAllowed,
    code,       \* what is deployed at an address: version, declared router
    held,       \* the executor's balance of each token
    gained,     \* what each holder has more of a token than at the start
    used,       \* permits redeemed: the nonces Permit2 has spent
    changes,
    \* Observations the contract does not keep:
    stray,      \* tokens sent to the executor by mistake and not rescued
    approved,   \* venues as the owner approved them, with their code
    last        \* the venue of the last trade, with its code

fees == <<feeBps, feeRecipient>>
modules == <<swapModuleForRouter, swapModuleCodeHash, routerForSwapModule>>
allowlists == <<routerKind, modules, isTokenAllowed, approved>>
money == <<held, gained, used, stray, last>>
vars == <<paused, fees, allowlists, code, money, changes>>

RouterKind == BuiltIn \union {"NONE", "TYPED_SWAP_MODULE"}
Address == Contract \union {None}
Code == [version : Nat, router : Address]
NoCode == [version |-> 0, router |-> None]
Venue == [router : Contract, by : BuiltIn \union Contract, code : Code]

\* A built-in router is called as it is: its code is not pinned.
BuiltInVenue(r, kind) == [router |-> r, by |-> kind, code |-> NoCode]
ModuleVenue(r, m) == [router |-> r, by |-> m, code |-> code[m]]

Init ==
    /\ paused = FALSE
    /\ feeBps = InitialFeeBps
    /\ feeRecipient = Treasury
    /\ isTokenAllowed = InitialTokens
    /\ routerKind = InitialRouters
    /\ swapModuleForRouter = [r \in Contract |-> None]
    /\ swapModuleCodeHash = [r \in Contract |-> NoCode]
    /\ routerForSwapModule = [m \in Contract |-> None]
    /\ code = [c \in Contract |-> [version |-> 1, router |-> Declares[c]]]
    /\ held = [t \in Token |-> 0]
    /\ gained = [h \in Holder |-> [t \in Token |-> 0]]
    /\ used = {}
    /\ changes = 0
    /\ stray = [t \in Token |-> 0]
    /\ approved = {BuiltInVenue(r, routerKind[r]) :
                       r \in {s \in Contract : routerKind[s] # "NONE"}}
    /\ last = None

-----------------------------------------------------------------------------
(* The owner.                                                              *)

Approve(r, venues) ==
    approved' = {v \in approved : v.router # r} \union venues

SetRouter(r, kind) ==
    /\ routerForSwapModule[r] = None
    /\ kind # "TYPED_SWAP_MODULE"
    /\ kind # "NONE" => r \notin isTokenAllowed
    /\ LET previous == swapModuleForRouter[r]
       IN  routerForSwapModule' =
               [m \in Contract |->
                   IF m = previous THEN None ELSE routerForSwapModule[m]]
    /\ swapModuleForRouter' = [swapModuleForRouter EXCEPT ![r] = None]
    /\ swapModuleCodeHash' = [swapModuleCodeHash EXCEPT ![r] = NoCode]
    /\ routerKind' = [routerKind EXCEPT ![r] = kind]
    /\ Approve(r, IF kind = "NONE" THEN {} ELSE {BuiltInVenue(r, kind)})
    /\ UNCHANGED <<paused, fees, isTokenAllowed, code, money>>

\* What a module must be to serve router r.
MayServe(r, m) ==
    /\ r # m
    /\ {r, m} \intersect isTokenAllowed = {}
    /\ routerKind[m] = "NONE"
    /\ routerForSwapModule[r] = None
    /\ routerForSwapModule[m] \in {None, r}
    /\ code[m].router = r

\* Mutant: the module that served r before is not forgotten.
Bind_Keeps(r, m) == [routerForSwapModule EXCEPT ![m] = r]

\* The reverse lookup once m serves r in place of the module before it.
Bind(r, m) ==
    [n \in Contract |-> CASE n = m -> r
                          [] n # m /\ n = swapModuleForRouter[r] -> None
                          [] OTHER -> routerForSwapModule[n]]

SetRouterModule(r, m) ==
    /\ MayServe(r, m)
    /\ routerForSwapModule' = Bind(r, m)
    /\ routerKind' = [routerKind EXCEPT ![r] = "TYPED_SWAP_MODULE"]
    /\ swapModuleForRouter' = [swapModuleForRouter EXCEPT ![r] = m]
    /\ swapModuleCodeHash' = [swapModuleCodeHash EXCEPT ![r] = code[m]]
    /\ Approve(r, {ModuleVenue(r, m)})
    /\ UNCHANGED <<paused, fees, isTokenAllowed, code, money>>

SetToken(t, allowed) ==
    /\ allowed => routerKind[t] = "NONE" /\ routerForSwapModule[t] = None
    /\ isTokenAllowed' = IF allowed THEN isTokenAllowed \union {t}
                                    ELSE isTokenAllowed \ {t}
    /\ UNCHANGED <<paused, fees, routerKind, modules, approved, code, money>>

SetFeeBps(fee) ==
    /\ fee <= MAX_FEE_BPS
    /\ feeBps' = fee
    /\ UNCHANGED <<paused, feeRecipient, allowlists, code, money>>

SetFeeRecipient(h) ==
    /\ feeRecipient' = h
    /\ UNCHANGED <<paused, feeBps, allowlists, code, money>>

Pause ==
    /\ paused' = ~paused
    /\ UNCHANGED <<fees, allowlists, code, money>>

\* rescueERC20 takes out anything the executor has.
Rescue(t) ==
    /\ held[t] > 0
    /\ \E n \in 1..held[t] :
         /\ held' = [held EXCEPT ![t] = @ - n]
         /\ stray' = [stray EXCEPT ![t] = @ - n]
    /\ UNCHANGED <<paused, fees, allowlists, code, gained, used, last>>

-----------------------------------------------------------------------------
(* A trade, broadcast by anyone.                                           *)

\* Mutant: the code is pinned, and never compared.
ModuleAllowed_Unpinned(r, m) ==
    /\ m # None
    /\ routerForSwapModule[m] = r
    /\ code[m].router = r

\* The module registered for r still has the code it was registered with.
ModuleAllowed(r, m) ==
    /\ m # None
    /\ swapModuleCodeHash[r] # NoCode
    /\ code[m] = swapModuleCodeHash[r]
    /\ routerForSwapModule[m] = r
    /\ code[m].router = r

FeeOf(p) == (p.gross * feeBps) \div BPS_DENOMINATOR

\* _validate and the checks of _begin.  What the caller may choose is the
\* venue, whether to unwrap and the fee he expects, which must be the fee;
\* recipient, tokens, amounts and deadlines are those the owner signed.
Tradable(p, r, unwrap) ==
    /\ ~paused
    /\ p \notin used
    /\ routerKind[r] # "NONE"
    /\ routerKind[r] = "TYPED_SWAP_MODULE"
         => ModuleAllowed(r, swapModuleForRouter[r])
    /\ {p.sell, p.buy} \subseteq isTokenAllowed \intersect Token
    /\ p.sell # p.buy
    /\ p.gross > 0 /\ p.minOut > 0
    /\ p.owner # feeRecipient
    /\ unwrap => p.buy = WETH
    /\ feeBps # 0 => FeeOf(p) > 0

\* What the executor passes on of the output that landed with it.
Forwarded(before, after) == after - before

\* Mutant: what is sent on is measured before the token's tax.
Delivered_BeforeTax(sent, tax) == sent

\* The amount _finish compares with the minimum: what reached the owner.
Delivered(sent, tax) == sent - tax

\* _finish: the executor is left with the input it had before the trade.
Consumed(left) == left = 0

\* The venue is anybody's code: it pays what it likes and leaves what it likes
\* of the input.  Of a module's output, and of what is to be unwrapped, the
\* executor measures what it received and passes it on, at the token's tax.
\* A taxed input fails the check of `received`, so it is no step.
Trade(p, r, unwrap, paid, tax, left) ==
    LET module == routerKind[r] = "TYPED_SWAP_MODULE"
        before == held[p.buy]
        core == module \/ unwrap
        sent == IF core THEN Forwarded(before, before + paid) ELSE paid
    IN  /\ Tradable(p, r, unwrap)
        /\ Consumed(left)
        /\ left <= p.gross - FeeOf(p)
        /\ tax > 0 => module /\ ~unwrap /\ tax <= sent
        /\ Delivered(sent, tax) >= p.minOut
        /\ used' = used \union {p}
        /\ held' = [held EXCEPT ![p.sell] = @ + left,
                                ![p.buy] = IF core THEN @ + paid - sent ELSE @]
        /\ gained' = [gained EXCEPT ![p.owner][p.sell] = @ - p.gross,
                                    ![p.owner][p.buy] = @ + sent - tax,
                                    ![feeRecipient][p.sell] = @ + FeeOf(p)]
        /\ last' = IF module THEN ModuleVenue(r, swapModuleForRouter[r])
                             ELSE BuiltInVenue(r, routerKind[r])
        /\ UNCHANGED <<paused, fees, allowlists, code, stray>>

\* Somebody sends the executor tokens, by mistake or in the midst of a trade.
Deposit(t) ==
    /\ Total(Token, stray) < MaxStray
    /\ held' = [held EXCEPT ![t] = @ + 1]
    /\ stray' = [stray EXCEPT ![t] = @ + 1]
    /\ UNCHANGED <<paused, fees, allowlists, code, gained, used, last>>

\* Other code appears at the address of a module (that of others is not
\* looked at), which may declare the same router or none.
Redeploy(a, r) ==
    /\ Declares[a] # None
    /\ code[a].version < MaxCode
    /\ code' = [code EXCEPT ![a] = [version |-> @.version + 1, router |-> r]]
    /\ UNCHANGED <<paused, fees, allowlists, money>>

Admin ==
    \/ \E r \in Contract :
         \/ \E kind \in RouterKind : SetRouter(r, kind)
         \/ \E m \in Contract : SetRouterModule(r, m)
         \/ \E allowed \in BOOLEAN : SetToken(r, allowed)
    \/ \E fee \in Fee : SetFeeBps(fee)
    \/ \E h \in Holder : SetFeeRecipient(h)
    \/ Pause

Trading ==
    \E p \in Permit, r \in Contract, unwrap \in BOOLEAN :
      \E extra \in 0..MaxExtra, tax \in 0..MaxTax, left \in 0..1 :
        Trade(p, r, unwrap, p.minOut + extra, tax, left)

Others ==
    \/ \E t \in Token : Deposit(t) \/ Rescue(t)
    \/ \E a \in Contract : \E r \in {Declares[a], None} : Redeploy(a, r)

Next ==
    \/ Admin /\ changes < MaxChanges /\ changes' = changes + 1
    \/ (Trading \/ Others) /\ UNCHANGED changes

Spec == Init /\ [][Next]_vars

-----------------------------------------------------------------------------
\* The allowlists agree: exactly the typed routers have a module and a pinned
\* code, each module serves one router and is none itself, and no token is a
\* router or a module.
AllowlistsAgree ==
    /\ \A r \in Contract :
         /\ routerKind[r] = "TYPED_SWAP_MODULE" <=> swapModuleForRouter[r] # None
         /\ swapModuleCodeHash[r] # NoCode <=> swapModuleForRouter[r] # None
         /\ \A m \in Contract :
              swapModuleForRouter[r] = m <=> routerForSwapModule[m] = r
         /\ routerForSwapModule[r] # None => routerKind[r] = "NONE"
    /\ \A t \in isTokenAllowed :
         routerKind[t] = "NONE" /\ routerForSwapModule[t] = None

\* Type invariant; through any sequence of the owner's changes, replacing and
\* removing routers, modules and tokens, the four maps agree.
TypeOK ==
    /\ paused \in BOOLEAN
    /\ feeBps \in 0..MAX_FEE_BPS
    /\ feeRecipient \in Holder
    /\ routerKind \in [Contract -> RouterKind]
    /\ swapModuleForRouter \in [Contract -> Address]
    /\ swapModuleCodeHash \in [Contract -> Code]
    /\ routerForSwapModule \in [Contract -> Address]
    /\ isTokenAllowed \subseteq Contract
    /\ code \in [Contract -> Code \ {NoCode}]
    /\ {held, stray} \subseteq [Token -> Nat]
    /\ gained \in [Holder -> [Token -> Int]]
    /\ used \subseteq Permit
    /\ changes \in Nat
    /\ approved \subseteq Venue
    /\ last \in Venue \union {None}
    /\ AllowlistsAgree

Sold(u, t) == Total({p \in used : p.owner = u /\ p.sell = t},
                    [p \in Permit |-> p.gross])
Bought(u, t) == Total({p \in used : p.owner = u /\ p.buy = t},
                      [p \in Permit |-> p.minOut])

\* MPGRExecutorDelegated.sol:32-35, 70: whoever broadcasts, whatever a venue
\* pays or leaves and whatever a token keeps for itself, a wallet gives what it
\* signed, gets at least the minimum it signed for, and the executor is left
\* with nothing but what was sent to it by mistake, and all of that.
SignedTradesOnly ==
    /\ \A u \in User, t \in Token : gained[u][t] >= Bought(u, t) - Sold(u, t)
    /\ held = stray

\* MPGRExecutorDelegated.sol:483-486: a trade calls no venue but one the
\* owner allows at that moment, a module with the code he approved it with.
OnlyApprovedCodeRuns == [][used' # used => last' \in approved]_vars

-----------------------------------------------------------------------------
(* The inductive invariant behind the properties above.                    *)

\* What the maps let a trade call is what the owner approved; of a module,
\* the code it is pinned to.
PinnedVenue(r) ==
    [router |-> r, by |-> swapModuleForRouter[r], code |-> swapModuleCodeHash[r]]
ApprovalsKept ==
    \A r \in Contract :
        /\ routerKind[r] \in BuiltIn
             => BuiltInVenue(r, routerKind[r]) \in approved
        /\ routerKind[r] = "TYPED_SWAP_MODULE" => PinnedVenue(r) \in approved

IInv == TypeOK /\ ApprovalsKept /\ SignedTradesOnly

=============================================================================
