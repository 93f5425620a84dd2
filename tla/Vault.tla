------------------------------- MODULE Vault -------------------------------
(***************************************************************************)
(* SyntheticOrderExecutor.sol: the vault that holds the users' tokens and  *)
(* performs the swaps.  A call is one atomic transaction, so every         *)
(* external function is one action; a call that reverts changes nothing    *)
(* and is not an action.  The allowlisted tokens are taken to be plain     *)
(* ERC20 tokens without transfer hooks, as the contract asks of them; a    *)
(* token may deliver less than was sent.  The router is Uniswap's: it pays *)
(* what it reports, at least the minimum, and pulls at most what was       *)
(* approved.                                                               *)
(***************************************************************************)
EXTENDS Integers, FiniteSetsExt

CONSTANTS
    Users,        \* accounts that own vault balances
    Keys,         \* accounts that may be made executor
    Nobody,       \* address(0)
    Tokens,
    Weth,         \* the token behind depositETH and withdrawETH
    Ids,          \* execution ids other than bytes32(0)
    MaxAmount,    \* bound: largest amount in one call
    MaxHeld       \* bound: tokens of a kind that are brought to the vault

ASSUME VaultAssumption ==
    /\ Nobody \notin Keys
    /\ IsFiniteSet(Users) /\ Weth \in Tokens
    /\ MaxAmount \in Nat \ {0} /\ MaxHeld \in Nat

VARIABLES
    balances,        \* user, token -> claim
    totalAccounted,  \* token -> sum of the claims
    held,            \* token -> balanceOf(vault) in the token contract
    allowedToken, maxTradeAmount,
    executedIds,
    paused,
    executor,        \* the recorded executor
    executorRole,    \* members of EXECUTOR_ROLE
    swaps            \* id -> number of swaps performed under it

ledger == <<balances, totalAccounted, held>>
limits == <<allowedToken, maxTradeAmount>>
replay == <<executedIds, swaps>>
roles  == <<executor, executorRole>>
vars   == <<ledger, limits, replay, roles, paused>>

Amounts == 1..MaxAmount

TypeOK ==
    /\ balances \in [Users -> [Tokens -> Nat]]
    /\ totalAccounted \in [Tokens -> Nat]
    /\ held \in [Tokens -> Nat]
    /\ allowedToken \subseteq Tokens
    /\ maxTradeAmount \in [Tokens -> 0..MaxAmount]
    /\ executedIds \subseteq Ids
    /\ paused \in BOOLEAN
    /\ executor \in Keys \cup {Nobody}
    /\ executorRole \subseteq Keys
    /\ swaps \in [Ids -> Nat]

\* The constructor, with or without an initial executor.
Init ==
    /\ balances = [u \in Users |-> [t \in Tokens |-> 0]]
    /\ totalAccounted = [t \in Tokens |-> 0]
    /\ held = [t \in Tokens |-> 0]
    /\ allowedToken = {} /\ maxTradeAmount = [t \in Tokens |-> 0]
    /\ executedIds = {} /\ swaps = [i \in Ids |-> 0]
    /\ paused = FALSE
    /\ executor \in Keys \cup {Nobody}
    /\ executorRole = {executor} \ {Nobody}

---------------------------------------------------------------------------
(* Deposits and withdrawals. *)

Credit(u, t, n) ==
    /\ balances' = [balances EXCEPT ![u][t] = @ + n]
    /\ totalAccounted' = [totalAccounted EXCEPT ![t] = @ + n]

\* Fault: subtraction without its check.
DebitUnchecked(u, t, n) ==
    /\ balances' = [balances EXCEPT ![u][t] = @ - n]
    /\ totalAccounted' = [totalAccounted EXCEPT ![t] = @ - n]

\* Solidity's checked subtraction reverts rather than wrap.
Debit(u, t, n) ==
    /\ balances[u][t] >= n /\ totalAccounted[t] >= n
    /\ balances' = [balances EXCEPT ![u][t] = @ - n]
    /\ totalAccounted' = [totalAccounted EXCEPT ![t] = @ - n]

\* Fault: deposit credits what was sent.
DepositCreditsSent(u, t, sent, received) ==
    /\ ~paused /\ t \in allowedToken
    /\ received \in 1..sent /\ held[t] + received <= MaxHeld
    /\ held' = [held EXCEPT ![t] = @ + received]
    /\ Credit(u, t, sent)
    /\ UNCHANGED <<limits, replay, roles, paused>>

\* deposit credits what arrived, not what was sent.
Deposit(u, t, sent, received) ==
    /\ ~paused /\ t \in allowedToken
    /\ received \in 1..sent /\ held[t] + received <= MaxHeld
    /\ held' = [held EXCEPT ![t] = @ + received]
    /\ Credit(u, t, received)
    /\ UNCHANGED <<limits, replay, roles, paused>>

DepositETH(u, n) ==
    /\ ~paused /\ Weth \in allowedToken
    /\ held[Weth] + n <= MaxHeld
    /\ held' = [held EXCEPT ![Weth] = @ + n]
    /\ Credit(u, Weth, n)
    /\ UNCHANGED <<limits, replay, roles, paused>>

\* Fault: withdraw is whenNotPaused, like its siblings.
WithdrawUnlessPaused(u, t, n) ==
    /\ ~paused
    /\ Debit(u, t, n)
    /\ held[t] >= n /\ held' = [held EXCEPT ![t] = @ - n]
    /\ UNCHANGED <<limits, replay, roles, paused>>

\* Neither the pause nor the allowlist stands in the way of a withdrawal.
Withdraw(u, t, n) ==
    /\ Debit(u, t, n)
    /\ held[t] >= n /\ held' = [held EXCEPT ![t] = @ - n]
    /\ UNCHANGED <<limits, replay, roles, paused>>

\* weth.withdraw burns the wrapped tokens and the ETH goes to the caller.
WithdrawETH(u, n) ==
    /\ Debit(u, Weth, n)
    /\ held[Weth] >= n /\ held' = [held EXCEPT ![Weth] = @ - n]
    /\ UNCHANGED <<limits, replay, roles, paused>>

\* Somebody transfers tokens to the vault outside the deposit flow.
Donate(t, n) ==
    /\ held[t] + n <= MaxHeld
    /\ held' = [held EXCEPT ![t] = @ + n]
    /\ UNCHANGED <<balances, totalAccounted, limits, replay, roles, paused>>

---------------------------------------------------------------------------
(* Execution. *)

\* The checks of executeSwap, in the order of the code.
SwapChecks(s, id, u, tin, tout, n, expired) ==
    /\ s \in executorRole /\ ~paused
    /\ id \notin executedIds
    /\ ~expired
    /\ tin # tout
    /\ tin \in allowedToken /\ tout \in allowedToken
    /\ n <= maxTradeAmount[tin]
    /\ balances[u][tin] >= n /\ totalAccounted[tin] >= n

\* Fault: the proceeds are credited to the owner and not to the total.
ExecuteSwapUntotalled(s, id, u, tin, tout, n, min, expired, pulled, out) ==
    /\ SwapChecks(s, id, u, tin, tout, n, expired)
    /\ pulled \in 0..n /\ held[tin] >= pulled
    /\ out >= min /\ held[tout] + out <= MaxHeld
    /\ executedIds' = executedIds \cup {id}
    /\ swaps' = [swaps EXCEPT ![id] = @ + 1]
    /\ balances' = [balances EXCEPT ![u][tin] = @ - n, ![u][tout] = @ + out]
    /\ totalAccounted' = [totalAccounted EXCEPT ![tin] = @ - n]
    /\ held' = [held EXCEPT ![tin] = @ - pulled, ![tout] = @ + out]
    /\ UNCHANGED <<limits, roles, paused>>

\* The effects: the id is consumed, the owner pays n of tin and is credited
\* the `out` the router reports; `pulled` is what the router took.
ExecuteSwap(s, id, u, tin, tout, n, min, expired, pulled, out) ==
    /\ SwapChecks(s, id, u, tin, tout, n, expired)
    /\ pulled \in 0..n /\ held[tin] >= pulled
    /\ out >= min /\ held[tout] + out <= MaxHeld
    /\ executedIds' = executedIds \cup {id}
    /\ swaps' = [swaps EXCEPT ![id] = @ + 1]
    /\ balances' = [balances EXCEPT ![u][tin] = @ - n, ![u][tout] = @ + out]
    /\ totalAccounted' = [totalAccounted EXCEPT ![tin] = @ - n, ![tout] = @ + out]
    /\ held' = [held EXCEPT ![tin] = @ - pulled, ![tout] = @ + out]
    /\ UNCHANGED <<limits, roles, paused>>

---------------------------------------------------------------------------
(* Administration.  The caller holds the role each function asks for.      *)

SetExecutor(k) ==
    /\ k # executor
    /\ executor' = k
    /\ executorRole' = (executorRole \ {executor}) \cup ({k} \ {Nobody})
    /\ UNCHANGED <<ledger, limits, replay, paused>>

\* grantRole, revokeRole and renounceRole of OpenZeppelin's AccessControl,
\* which the contract inherits and leaves public.
GrantExecutorRole(k) ==
    /\ executorRole' = executorRole \cup {k}
    /\ UNCHANGED <<ledger, limits, replay, executor, paused>>

DropExecutorRole(k) ==
    /\ executorRole' = executorRole \ {k}
    /\ UNCHANGED <<ledger, limits, replay, executor, paused>>

SetTokenAllowed(t, max) ==
    /\ allowedToken' = allowedToken \cup {t}
    /\ maxTradeAmount' = [maxTradeAmount EXCEPT ![t] = max]
    /\ UNCHANGED <<ledger, replay, roles, paused>>

\* Fault: removal keeps the trade limit.
RemoveTokenKeepsLimit(t) ==
    /\ t \in allowedToken
    /\ allowedToken' = allowedToken \ {t}
    /\ UNCHANGED <<ledger, maxTradeAmount, replay, roles, paused>>

RemoveToken(t) ==
    /\ t \in allowedToken
    /\ allowedToken' = allowedToken \ {t}
    /\ maxTradeAmount' = [maxTradeAmount EXCEPT ![t] = 0]
    /\ UNCHANGED <<ledger, replay, roles, paused>>

SetMaxTradeAmount(t, max) ==
    /\ t \in allowedToken
    /\ maxTradeAmount' = [maxTradeAmount EXCEPT ![t] = max]
    /\ UNCHANGED <<ledger, allowedToken, replay, roles, paused>>

Pause == ~paused /\ paused' = TRUE /\ UNCHANGED <<ledger, limits, replay, roles>>

Unpause == paused /\ paused' = FALSE /\ UNCHANGED <<ledger, limits, replay, roles>>

UnaccountedBalance(t) ==
    IF held[t] > totalAccounted[t] THEN held[t] - totalAccounted[t] ELSE 0

SweepUnaccounted(t) ==
    /\ UnaccountedBalance(t) > 0
    /\ held' = [held EXCEPT ![t] = @ - UnaccountedBalance(t)]
    /\ UNCHANGED <<balances, totalAccounted, limits, replay, roles, paused>>

---------------------------------------------------------------------------
UserStep ==
    \E u \in Users, n \in Amounts :
        \/ DepositETH(u, n) \/ WithdrawETH(u, n)
        \/ \E t \in Tokens : Withdraw(u, t, n) \/ \E r \in Amounts : Deposit(u, t, n, r)

SwapStep ==
    \E s \in Keys, id \in Ids, u \in Users, tin, tout \in Tokens, expired \in BOOLEAN,
       n \in Amounts, min, pulled, out \in 0..MaxAmount :
        ExecuteSwap(s, id, u, tin, tout, n, min, expired, pulled, out)

AdminStep ==
    \/ \E k \in Keys \cup {Nobody} : SetExecutor(k)
    \/ \E k \in Keys : GrantExecutorRole(k) \/ DropExecutorRole(k)
    \/ \E t \in Tokens : \/ \E max \in Amounts : SetTokenAllowed(t, max) \/ SetMaxTradeAmount(t, max)
                         \/ RemoveToken(t) \/ SweepUnaccounted(t)
    \/ Pause \/ Unpause

Next ==
    \/ UserStep \/ SwapStep \/ AdminStep
    \/ \E t \in Tokens, n \in Amounts : Donate(t, n)

Spec == Init /\ [][Next]_vars

---------------------------------------------------------------------------
(* Safety. *)

\* The vault can pay every claim: no sequence of deposits, short deliveries,
\* swaps, partial fills, donations and sweeps leaves it holding less of a
\* token than totalAccounted says it owes.
Solvent == \A t \in Tokens : held[t] >= totalAccounted[t]

\* totalAccounted[t], the bound of sweepUnaccounted, is the exact sum of the
\* users' balances.
AccountsBalance ==
    \A t \in Tokens : totalAccounted[t] = MapThenSumSet(LAMBDA u : balances[u][t], Users)

\* An id is consumed by one swap and only by a swap: what executeSwap's guard
\* gives to those who ask isExecuted.
NoReplay == \A id \in Ids : swaps[id] <= 1 /\ (swaps[id] = 1 <=> id \in executedIds)

\* A pause, a removed token, a sweep or a swap of others never traps a user's
\* funds: whoever has a balance can withdraw all of it, now.
FundsNeverTrapped ==
    \A u \in Users, t \in Tokens : balances[u][t] > 0 => ENABLED Withdraw(u, t, balances[u][t])

\* An allowlisted token always has a trade limit, and only such a token has
\* one: removal, re-listing and limit updates keep the two tables together.
ListedMeansLimited == \A t \in Tokens : t \in allowedToken <=> maxTradeAmount[t] > 0
============================================================================
