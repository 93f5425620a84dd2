----------------------------- MODULE TradePath -----------------------------
(***************************************************************************)
(* The way of an order through the limits and prices it depends on: the    *)
(* API's admission checks (OrderService.createOrder), the executor's       *)
(* preflight, the quote over all fee tiers (UniswapAdapter), the           *)
(* parameters derived from it, the simulation and the swap in the vault.   *)
(* Every await is a step, so the contract's limits, the owner's balance,   *)
(* the pools and the clock move between any two of them.  The contract is  *)
(* the module Vault; the claims and the life of the transaction are the    *)
(* subject of OrderEngine and only pass by here.                           *)
(***************************************************************************)
EXTENDS Integers, Sequences, FiniteSets

CONSTANTS
    Orders,           \* order ids, which are also the execution ids
    Users, Keys, Nobody, MaxAmount, MaxHeld,     \* of Vault
    Requests,         \* bodies of POST /api/orders
    Caps,             \* bound: limits the admin sets
    Tiers,            \* UNISWAP_POOL_FEE_TIERS, a sequence
    Outs,             \* bound: what a pool may pay for an order
    SlippageBps, DeadlineWindow, MaxFee,         \* EXECUTION_SLIPPAGE_BPS etc.
    MaxQuoteAge,      \* MAX_QUOTE_AGE_MS
    Fees,             \* bound: fees and tips a node may estimate
    ApiAddress, ExecutorAddress,  \* WETH_ADDRESS and USDC_ADDRESS of the two processes
    MaxTime,          \* bound: ticks of the clock
    MaxChanges        \* bound: changes of limits and balances

\* chainEnvSchema.
ValidConfig ==
    /\ SlippageBps \in 1..5000
    /\ DeadlineWindow \in 1..300
    /\ MaxFee > 0

ASSUME ConfigAssumption == ValidConfig

ASSUME TradeAssumption ==
    /\ Nobody \notin Users /\ IsFiniteSet(Users) /\ MaxAmount \in Nat /\ Caps \subseteq 0..MaxAmount
    /\ Requests \subseteq [user : Users, tokenIn : STRING, tokenOut : STRING, amount : Nat]
    /\ Outs \subseteq Nat /\ Fees \subseteq Nat
    /\ MaxQuoteAge \in Nat /\ MaxTime \in Nat /\ MaxChanges \in Nat
    /\ Tiers \in Seq(Nat) /\ Len(Tiers) > 0

VARIABLES
    \* of the contract
    balances, totalAccounted, held, allowedToken, maxTradeAmount,
    executedIds, paused, executor, executorRole, swaps,
    clock,
    changes,      \* changes made so far
    api,          \* order -> its admission
    steady,       \* orders whose limits have not changed since they were read
    job,          \* order -> its execution
    fill          \* order -> what was traded, and when

Weth == "weth"
Usdc == "usdc"

\* The two processes are given the same addresses; nothing in the code sees to it.
ASSUME SameAddresses ==
    ApiAddress \in [{"WETH", "USDC"} -> {Weth, Usdc}] /\ ExecutorAddress = ApiAddress

V == INSTANCE Vault WITH Tokens <- {Weth, Usdc}, Ids <- Orders

vault == <<balances, totalAccounted, held, allowedToken, maxTradeAmount,
           executedIds, paused, executor, executorRole, swaps>>
vars  == <<vault, clock, changes, api, steady, job, fill>>

Unread == -1     \* a read that has not answered
Dead   == -2     \* a tier that has no quote to offer

NoRequest == [user |-> Nobody, tokenIn |-> "", tokenOut |-> "", amount |-> 0]

NoAdmission == [pc |-> "idle", req |-> NoRequest, allowed |-> {}, read |-> {}, cap |-> 0]

NoJob == [pc |-> "idle", n |-> 0, tin |-> Weth, tout |-> Weth,
          quote |-> [i \in 1..Len(Tiers) |-> Unread], at |-> [i \in 1..Len(Tiers) |-> 0],
          tier |-> 0, min |-> 0, deadline |-> 0]

NoFill == [user |-> Nobody, tin |-> Weth, tout |-> Weth, n |-> 0, out |-> 0, at |-> 0]

TypeOK ==
    /\ V!TypeOK
    /\ clock \in 0..MaxTime /\ changes \in 0..MaxChanges /\ steady \subseteq Orders
    /\ api \in [Orders -> [pc : {"idle", "state", "limits", "stored", "refused"},
                           req : Requests \cup {NoRequest}, allowed : SUBSET {"in", "out"},
                           read : SUBSET {"in", "out", "cap"}, cap : 0..MaxAmount]]
    /\ job \in [Orders -> [pc : {"idle", "state", "balance", "quote", "claim", "simulate", "send",
                                 "pending", "filled", "reverted", "failed"},
                           n : Nat, tin : {Weth, Usdc}, tout : {Weth, Usdc},
                           quote : [1..Len(Tiers) -> Outs \cup {Unread, Dead}],
                           at : [1..Len(Tiers) -> 0..MaxTime], tier : 0..Len(Tiers),
                           min : Nat, deadline : Nat]]
    /\ fill \in [Orders -> [user : Users \cup {Nobody}, tin : {Weth, Usdc}, tout : {Weth, Usdc},
                            n : Nat, out : Nat, at : 0..MaxTime]]

\* A configured contract in which every user has deposited.
Init ==
    /\ balances = [u \in Users |-> [t \in {Weth, Usdc} |-> MaxAmount]]
    /\ totalAccounted = [t \in {Weth, Usdc} |-> MaxAmount * Cardinality(Users)]
    /\ held = totalAccounted
    /\ allowedToken = {Weth, Usdc}
    /\ \E cap \in Caps : maxTradeAmount = [t \in {Weth, Usdc} |-> cap]
    /\ executedIds = {} /\ swaps = [o \in Orders |-> 0]
    /\ paused = FALSE
    /\ executor \in Keys /\ executorRole = {executor}
    /\ clock = 0 /\ changes = 0
    /\ api = [o \in Orders |-> NoAdmission] /\ steady = {}
    /\ job = [o \in Orders |-> NoJob] /\ fill = [o \in Orders |-> NoFill]

---------------------------------------------------------------------------
(* Amounts.  A text is counted in 10^-7 of a token.  USDC has 6 decimals,  *)
(* so ten of these make a base unit; of the 18 decimals of WETH the last   *)
(* eleven are never used here, and a base unit is one of these.            *)

\* The API's table of symbols and the executor's, each filled in from the
\* environment of its process.
GetTokenRegistry == [ETH  |-> [address |-> ApiAddress["WETH"], unit |-> 1],
                     WETH |-> [address |-> ApiAddress["WETH"], unit |-> 1],
                     USDC |-> [address |-> ApiAddress["USDC"], unit |-> 10]]

\* Fault: the two copies have drifted apart.
TokenRegistryDrifted == [ETH  |-> [address |-> ExecutorAddress["WETH"], unit |-> 1],
                         WETH |-> [address |-> ExecutorAddress["WETH"], unit |-> 1],
                         USDC |-> [address |-> ExecutorAddress["USDC"], unit |-> 1]]

TokenRegistry == [ETH  |-> [address |-> ExecutorAddress["WETH"], unit |-> 1],
                  WETH |-> [address |-> ExecutorAddress["WETH"], unit |-> 1],
                  USDC |-> [address |-> ExecutorAddress["USDC"], unit |-> 10]]

\* parseUnits rounds half up what is finer than a base unit.
ParseUnits(text, token) == (text + token.unit \div 2) \div token.unit

\* Decimal.toString writes an amount below 10^-6 with an exponent, which
\* parseUnits refuses.
PlainDecimal(text) == text >= 10

---------------------------------------------------------------------------
(* Admission. *)

AdmissionStep(o, next) ==
    /\ api' = [api EXCEPT ![o] = next]
    /\ UNCHANGED <<vault, clock, changes, job, fill>>

\* createOrderSchema, the two symbols and the comparison of their addresses.
WellFormed(r) ==
    /\ r.amount > 0
    /\ {r.tokenIn, r.tokenOut} \subseteq DOMAIN GetTokenRegistry
    /\ GetTokenRegistry[r.tokenIn].address # GetTokenRegistry[r.tokenOut].address

CreateOrder(o, r) ==
    /\ api[o].pc = "idle"
    /\ AdmissionStep(o, [api[o] EXCEPT !.req = r,
                                       !.pc = IF WellFormed(r) THEN "state" ELSE "refused"])
    /\ UNCHANGED steady

TokenIn(o)  == GetTokenRegistry[api[o].req.tokenIn].address
TokenOut(o) == GetTokenRegistry[api[o].req.tokenOut].address

ReadState(o) ==
    /\ api[o].pc = "state"
    /\ AdmissionStep(o, [api[o] EXCEPT !.pc = IF paused THEN "refused" ELSE "limits"])
    /\ steady' = steady \cup {o}

\* isTokenAllowed of both and getMaxTradeAmount, three reads side by side.
ReadLimit(o, what) ==
    /\ api[o].pc = "limits" /\ what \notin api[o].read
    /\ LET a == [api[o] EXCEPT !.read = @ \cup {what}] IN
       AdmissionStep(o,
          CASE what = "in"  -> IF TokenIn(o) \in allowedToken THEN [a EXCEPT !.allowed = @ \cup {"in"}] ELSE a
            [] what = "out" -> IF TokenOut(o) \in allowedToken THEN [a EXCEPT !.allowed = @ \cup {"out"}] ELSE a
            [] what = "cap" -> [a EXCEPT !.cap = maxTradeAmount[TokenIn(o)]])
    /\ UNCHANGED steady

\* Fault: the amount is truncated to base units.
WithinLimitsTruncated(a) ==
    /\ a.allowed = {"in", "out"}
    /\ a.req.amount \div GetTokenRegistry[a.req.tokenIn].unit <= a.cap

WithinLimits(a) ==
    /\ a.allowed = {"in", "out"}
    /\ ParseUnits(a.req.amount, GetTokenRegistry[a.req.tokenIn]) <= a.cap

StoreOrder(o) ==
    /\ api[o].pc = "limits" /\ api[o].read = {"in", "out", "cap"}
    /\ AdmissionStep(o, [api[o] EXCEPT !.pc = IF WithinLimits(api[o]) THEN "stored" ELSE "refused"])
    /\ UNCHANGED steady

---------------------------------------------------------------------------
(* Execution.  executeOrder picks the order up once it is TRIGGERED, at    *)
(* any time after it was stored.                                           *)

JobStep(o, next) ==
    /\ job' = [job EXCEPT ![o] = next]
    /\ UNCHANGED <<vault, clock, changes, api, steady, fill>>

Fail(o) == JobStep(o, [job[o] EXCEPT !.pc = "failed"])

At(o, pc) == job[o].pc = pc

StartJob(o) ==
    /\ api[o].pc = "stored" /\ At(o, "idle")
    /\ o \notin executedIds
    /\ JobStep(o, [job[o] EXCEPT !.pc = "state"])

\* getState, the symbols and the amount.
CheckState(o) ==
    LET r   == api[o].req
        tin == TokenRegistry[r.tokenIn] IN
    /\ At(o, "state")
    /\ IF paused \/ ~PlainDecimal(r.amount) THEN Fail(o)
       ELSE JobStep(o, [job[o] EXCEPT !.pc = "balance", !.n = ParseUnits(r.amount, tin),
                                      !.tin = tin.address,
                                      !.tout = TokenRegistry[r.tokenOut].address])

CheckBalance(o) ==
    /\ At(o, "balance")
    /\ IF balances[api[o].req.user][job[o].tin] < job[o].n THEN Fail(o)
       ELSE JobStep(o, [job[o] EXCEPT !.pc = "quote"])

\* The tiers are asked side by side; a tier without a pool or liquidity, or
\* whose node does not answer, has no quote and does not fail the others.
QuoteTier(o, i, out) ==
    /\ At(o, "quote") /\ job[o].quote[i] = Unread
    /\ JobStep(o, [job[o] EXCEPT !.quote[i] = out, !.at[i] = clock])

\* Fault: a tier that failed stays in the list.
UsableAny(j) == 1..Len(Tiers)

Usable(j) == {i \in 1..Len(Tiers) : j.quote[i] > 0}

\* Fault: the first usable tier is taken.
FirstTier(j) == CHOOSE i \in Usable(j) : \A k \in Usable(j) : i <= k

\* reduce: the largest quote, and of equal ones the first.
BestTier(j) ==
    CHOOSE i \in Usable(j) : \A k \in Usable(j) :
        j.quote[i] > j.quote[k] \/ (j.quote[i] = j.quote[k] /\ i <= k)

\* Fault: a quote of any age will do.
AnyQuote(j, i) == TRUE

FreshQuote(j, i) == clock - j.at[i] <= MaxQuoteAge

MinAmountOut(quote) == (quote * (10000 - SlippageBps)) \div 10000

\* getQuote returns and buildExecutionParams follows in the same step.
BuildExecutionParams(o) ==
    LET j == job[o]
        i == BestTier(j) IN
    /\ At(o, "quote") /\ \A k \in 1..Len(Tiers) : j.quote[k] # Unread
    /\ IF Usable(j) = {} \/ ~FreshQuote(j, i) THEN Fail(o)
       ELSE JobStep(o, [j EXCEPT !.pc = "claim", !.tier = i, !.min = MinAmountOut(j.quote[i]),
                                 !.deadline = clock + DeadlineWindow])

\* TRIGGERED -> EXECUTING; the loser of the race stands down (Abandon).
ClaimOrder(o) ==
    /\ At(o, "claim")
    /\ JobStep(o, [job[o] EXCEPT !.pc = "simulate"])

\* The checks of executeSwap.
Accepts(o) ==
    LET j == job[o] IN
    j.n > 0 /\ V!SwapChecks(executor, o, api[o].req.user, j.tin, j.tout, j.n, clock > j.deadline)

Simulate(o, out) ==
    /\ At(o, "simulate")
    /\ IF Accepts(o) /\ out >= job[o].min THEN JobStep(o, [job[o] EXCEPT !.pc = "send"])
       ELSE Fail(o)

CappedFee(fee) == IF fee > MaxFee THEN MaxFee ELSE fee

\* estimateFeesPerGas, prepareTransactionRequest, which refuses a tip above
\* the fee, and the broadcast.
Send(o, fee, tip) ==
    /\ At(o, "send")
    /\ IF tip > CappedFee(fee) THEN Fail(o) ELSE JobStep(o, [job[o] EXCEPT !.pc = "pending"])

\* An RPC error, a lost claim or the end of the process before the broadcast.
Abandon(o) ==
    /\ job[o].pc \in {"state", "balance", "quote", "claim", "simulate", "send"}
    /\ Fail(o)

---------------------------------------------------------------------------
(* The chain. *)

\* executeSwap in a block: the pool of the tier pays `out` for all of the
\* input, or the router reverts below the minimum.
Mine(o, out) ==
    LET j == job[o] IN
    /\ At(o, "pending")
    /\ Accepts(o)
    /\ V!ExecuteSwap(executor, o, api[o].req.user, j.tin, j.tout, j.n, j.min, FALSE, j.n, out)
    /\ job' = [job EXCEPT ![o].pc = "filled"]
    /\ fill' = [fill EXCEPT ![o] = [user |-> api[o].req.user, tin |-> j.tin, tout |-> j.tout,
                                    n |-> j.n, out |-> out, at |-> clock]]
    /\ UNCHANGED <<clock, changes, api, steady>>

Revert(o, out) ==
    /\ At(o, "pending") /\ (~Accepts(o) \/ out < job[o].min)
    /\ JobStep(o, [job[o] EXCEPT !.pc = "reverted"])

Tick ==
    /\ clock < MaxTime /\ clock' = clock + 1
    /\ UNCHANGED <<vault, changes, api, steady, job, fill>>

\* The admin changes a limit, or an owner withdraws.
Change ==
    /\ changes < MaxChanges /\ changes' = changes + 1
    /\ \/ /\ \/ V!Pause \/ V!Unpause
             \/ \E t \in {Weth, Usdc} :
                    \/ V!RemoveToken(t)
                    \/ \E cap \in Caps : V!SetTokenAllowed(t, cap) \/ V!SetMaxTradeAmount(t, cap)
          /\ steady' = {}
       \/ /\ \E u \in Users, t \in {Weth, Usdc} :
                 balances[u][t] > 0 /\ V!Withdraw(u, t, balances[u][t])
          /\ UNCHANGED steady
    /\ UNCHANGED <<clock, api, job, fill>>

---------------------------------------------------------------------------
Admit(o) ==
    \/ \E r \in Requests : CreateOrder(o, r)
    \/ ReadState(o)
    \/ \E what \in {"in", "out", "cap"} : ReadLimit(o, what)
    \/ StoreOrder(o)

Execute(o) ==
    \/ StartJob(o) \/ CheckState(o) \/ CheckBalance(o)
    \/ \E i \in 1..Len(Tiers), out \in Outs \cup {Dead} : QuoteTier(o, i, out)
    \/ BuildExecutionParams(o) \/ ClaimOrder(o)
    \/ \E out \in Outs : Simulate(o, out)
    \/ \E fee, tip \in Fees : Send(o, fee, tip)
    \/ Abandon(o)

Next ==
    \/ \E o \in Orders : Admit(o) \/ Execute(o)
    \/ \E o \in Orders, out \in Outs : Mine(o, out) \/ Revert(o, out)
    \/ Tick \/ Change

Spec == Init /\ [][Next]_vars

---------------------------------------------------------------------------
Filled(o) == job[o].pc = "filled"

\* The owner never gets less than the tolerance below the best of the quotes
\* that were taken for the order, whatever the pools did since.
FillNearBestQuote ==
    \A o \in Orders : Filled(o) =>
        \A i \in 1..Len(Tiers) :
            10000 * fill[o].out > job[o].quote[i] * (10000 - SlippageBps) - 10000

\* No fill is based on an old price: the quote is at most its maximal age
\* older than the parameters, which are at most the deadline window older
\* than the block, however long the claim, the simulation and the mempool
\* took.
FillNotLate ==
    \A o \in Orders : Filled(o) =>
        fill[o].at - job[o].at[job[o].tier] <= MaxQuoteAge + DeadlineWindow

\* What is traded is what was admitted, though the API and the executor each
\* convert the symbols and the amount: the same tokens, and within half a
\* base unit the amount of the request.
FilledAsAdmitted ==
    \A o \in Orders : Filled(o) =>
        /\ fill[o].user = api[o].req.user
        /\ fill[o].tin = TokenIn(o) /\ fill[o].tout = TokenOut(o)
        /\ LET unit == GetTokenRegistry[api[o].req.tokenIn].unit IN
           /\ 2 * (fill[o].n * unit - api[o].req.amount) <= unit
           /\ 2 * (api[o].req.amount - fill[o].n * unit) <= unit

\* The API's checks are the contract's: as long as nobody has changed the
\* limits since they were read, a stored order is not turned down by
\* executeSwap for the pause, the tokens or the trade limit, though the reads
\* answer at different times and the amount is rounded twice.
AdmittedWithinLimits ==
    \A o \in steady : api[o].pc = "stored" =>
        /\ ~paused
        /\ TokenIn(o) # TokenOut(o) /\ {TokenIn(o), TokenOut(o)} \subseteq allowedToken
        /\ ParseUnits(api[o].req.amount, GetTokenRegistry[api[o].req.tokenIn])
              <= maxTradeAmount[TokenIn(o)]
=============================================================================
