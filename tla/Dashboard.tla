----------------------------- MODULE Dashboard -----------------------------
(***************************************************************************)
(* The page a user sees (apps/frontend) and the API routes behind it: the  *)
(* wallet connection, the polled table of orders, creation and             *)
(* cancellation, and the price ticker with the API's price cache.  Every   *)
(* call is a request, an answer of the API and a delivery in the browser;  *)
(* answers arrive in any order and long after the page has moved on to     *)
(* another account, since no request is ever taken back.                   *)
(*                                                                         *)
(* The ticker and the price route share no state with the rest.  A         *)
(* behaviour exercises one half of the page, `half`.                       *)
(***************************************************************************)
EXTENDS Integers, FiniteSets

CONSTANTS
    Accounts,        \* accounts of the wallet
    None,            \* null
    Orders,          \* 1..n, in the order of their creation
    Limit,           \* the limit of listOrders
    Existing,        \* orders that are there when the page is loaded
    Slots,           \* bound: listOrders requests in flight
    Calls,           \* bound: createOrder and cancelOrder requests in flight
    Budgets,         \* bound: how often the user clicks, how often the wallet and the workers
                     \* do something by themselves, and the slots in use
    Tabs,            \* bound: price requests in flight, of the ticker and others
    Tickers,         \* those of the ticker
    Pairs,           \* pairs that are asked for, EthUsd among them
    EthUsd,
    CacheTTL, MaxStaleness,     \* CACHE_TTL_MS, maxStalenessSec
    MaxTime          \* bound: ticks of the clock

ASSUME DashboardAssumption ==
    /\ None \notin Accounts /\ Accounts # {}
    /\ Budgets \subseteq [clicks : Nat, events : Nat, slots : SUBSET Slots]
    /\ IsFiniteSet(Orders) /\ Orders = 1..Cardinality(Orders) /\ Limit \in Nat \ {0}
    /\ Existing \in 0..Cardinality(Orders)
    /\ Tickers \subseteq Tabs /\ EthUsd \in Pairs
    /\ CacheTTL \in Nat \ {0} /\ MaxStaleness \in Nat /\ MaxTime \in Nat

VARIABLES
    half,
    left,        \* clicks and events that are left of the budget
    row,         \* order -> owner and status in the database
    wallet,      \* the extension: selected account, whether the site may see it, network
    page,        \* useWallet and page.tsx, with the busy flags of form and table
    restore,     \* useWallet's restore on load
    prompt,      \* what connect() and switchNetwork() wait for
    list,        \* slot -> a listOrders request
    call,        \* cancelOrder and createOrder requests
    clock, provider,
    feedAt,      \* when the price source last moved
    cache,       \* the cache of the price route
    ask,         \* price requests
    ticker       \* the quote the ticker shows

desk  == <<row, wallet, page, restore, prompt, list, call>>
price == <<clock, provider, feedAt, cache, ask, ticker>>
vars  == <<half, left, desk, price>>

Cancellable == {"PENDING", "TRIGGERED"}

\* What the workers do to a row: triggerEngine, execution, handleFailure, which
\* fails any row without a hash, and forceExecutedFromReconciliation, which
\* completes any.
WorkerMoves ==
    {<<"PENDING", "TRIGGERED">>, <<"FAILED", "TRIGGERED">>, <<"TRIGGERED", "EXECUTING">>}
    \cup {"TRIGGERED", "EXECUTING", "CANCELLED", "EXECUTED"} \X {"FAILED"}
    \cup {"TRIGGERED", "EXECUTING", "CANCELLED", "FAILED"} \X {"EXECUTED"}

Statuses == {"PENDING", "TRIGGERED", "EXECUTING", "EXECUTED", "FAILED", "CANCELLED"}

Shown == [order : Orders, status : Statuses]

Free == [pc |-> "free", address |-> None, rows |-> {}]
NoCall == [pc |-> "idle", order |-> None, address |-> None, mounted |-> FALSE]
NoQuote == [pair |-> None, observed |-> 0, at |-> 0]
NoAsk == [pc |-> "idle", pair |-> None, quote |-> NoQuote]

TypeOK ==
    /\ half \in {"orders", "price"} /\ left \in [clicks : Nat, events : Nat, slots : SUBSET Slots]
    /\ row \in [Orders -> [owner : Accounts \cup {None}, status : Statuses \cup {"none"}]]
    /\ wallet \in [account : Accounts, seen : BOOLEAN, chain : {"sepolia", "other"}]
    /\ page.address \in Accounts \cup {None} /\ page.chain \in {"sepolia", "other", "unknown"}
    /\ page.orders \subseteq Shown /\ Cardinality(page.orders) <= Limit
    /\ page.cancelling \in Orders \cup {None} /\ page.submitting \in BOOLEAN
    /\ restore \in [accounts : {"unread", "none", "done"} \cup Accounts,
                    chain : {"unread", "sepolia", "other", "unknown"}]
    /\ prompt \in [{"connect", "switch"} -> {"idle", "popup", "chain"}]
    /\ \A s \in Slots : /\ list[s].pc \in {"free", "asked", "answered"}
                        /\ list[s].address \in Accounts \cup {None} /\ list[s].rows \subseteq Shown
    /\ call \in [Calls -> [pc : {"idle", "asked", "ok", "error"}, order : Orders \cup {None},
                         address : Accounts \cup {None}, mounted : BOOLEAN]]
    /\ clock \in 0..MaxTime /\ provider \in {"chainlink", "coingecko", "static"} /\ feedAt \in 0..clock
    /\ {cache, ticker} \subseteq [pair : Pairs \cup {None}, observed : 0..clock, at : 0..clock]
    /\ \A t \in Tabs : /\ ask[t].pc \in {"idle", "fetch", "validate", "answered", "error"}
                       /\ ask[t].pair \in Pairs \cup {None}
                       /\ ask[t].quote \in [pair : Pairs \cup {None}, observed : 0..clock, at : 0..clock]

\* A page that is just loaded.
Init ==
    /\ half \in {"orders", "price"} /\ left \in Budgets
    /\ wallet \in [account : {CHOOSE a \in Accounts : TRUE}, seen : BOOLEAN, chain : {"sepolia"}]
    /\ row = [o \in Orders |-> IF o <= Existing THEN [owner |-> wallet.account, status |-> "PENDING"]
                               ELSE [owner |-> None, status |-> "none"]]
    /\ half = "price" => ~wallet.seen
    /\ page = [address |-> None, chain |-> "unknown", orders |-> {}, cancelling |-> None,
               submitting |-> FALSE]
    /\ restore = [accounts |-> "unread", chain |-> "unread"]
    /\ prompt = [k \in {"connect", "switch"} |-> "idle"]
    /\ list = [s \in Slots |-> Free]
    /\ call = [c \in Calls |-> NoCall]
    /\ clock = 0 /\ provider \in {"chainlink", "coingecko", "static"} /\ feedAt = 0
    /\ half = "orders" => provider = "chainlink"
    /\ cache = NoQuote /\ ticker = NoQuote /\ ask = [t \in Tabs |-> NoAsk]

---------------------------------------------------------------------------
(* The page. *)

WrongNetwork(p) == p.address # None /\ p.chain \notin {"unknown", "sepolia"}

Ready(p) == p.address # None /\ ~WrongNetwork(p)

\* A form or a table that is no longer rendered loses its state.
Render(p) == [p EXCEPT !.submitting = @ /\ Ready(p),
                       !.cancelling = IF p.address = None THEN None ELSE @]

\* refresh of the page as it was rendered for the address.
Refresh(p, address) ==
    IF address = None
    THEN page' = [p EXCEPT !.orders = {}] /\ UNCHANGED list
    ELSE /\ page' = p
         /\ \E s \in left.slots : /\ list[s] = Free
                                  /\ list' = [list EXCEPT ![s] = [Free EXCEPT !.pc = "asked", !.address = address]]

\* Whether the page renders the component that made the call: the form, or the table.
Rendered(p, k) == IF k.order = None THEN Ready(p) ELSE p.address # None

\* A component that is no longer rendered is gone for good, and its call answers
\* to nothing; a new address makes a new refresh, which the effect calls at once.
SetPage(p) ==
    /\ call' = [c \in Calls |-> [call[c] EXCEPT !.mounted = @ /\ Rendered(p, call[c])]]
    /\ IF p.address = page.address THEN page' = Render(p) /\ UNCHANGED list
       ELSE Refresh(Render(p), p.address)

\* Fault: the timer stops at the first answer.
PollUntilLoaded ==
    /\ half = "orders" /\ page.address # None /\ page.orders = {}
    /\ Refresh(page, page.address)
    /\ UNCHANGED <<half, left, row, wallet, restore, prompt, call, price>>

\* The timer.
Poll ==
    /\ half = "orders" /\ page.address # None
    /\ Refresh(page, page.address)
    /\ UNCHANGED <<half, left, row, wallet, restore, prompt, call, price>>

Owned(address) == {o \in Orders : row[o].owner = address}

\* Fault: one more than the limit.
ListOneMore(address) ==
    {[order |-> o, status |-> row[o].status] :
        o \in {o \in Owned(address) : Cardinality({k \in Owned(address) : k > o}) <= Limit}}

\* Newest first, at most Limit of them.
ListOrders(address) ==
    {[order |-> o, status |-> row[o].status] :
        o \in {o \in Owned(address) : Cardinality({k \in Owned(address) : k > o}) < Limit}}

AnswerList(s) ==
    /\ list[s].pc = "asked"
    /\ list' = [list EXCEPT ![s].pc = "answered", ![s].rows = ListOrders(list[s].address)]
    /\ UNCHANGED <<half, left, row, wallet, page, restore, prompt, call, price>>

\* setOrders, whatever the address is by now.
DeliverList(s) ==
    /\ list[s].pc = "answered"
    /\ page' = [page EXCEPT !.orders = list[s].rows]
    /\ list' = [list EXCEPT ![s] = Free]
    /\ UNCHANGED <<half, left, row, wallet, restore, prompt, call, price>>

\* The request or its answer is lost: the error is shown above the old table.
FailList(s) ==
    /\ list[s].pc = "asked"
    /\ list' = [list EXCEPT ![s] = Free]
    /\ UNCHANGED <<half, left, row, wallet, page, restore, prompt, call, price>>

---------------------------------------------------------------------------
(* useWallet. *)

Click == half = "orders" /\ left.clicks > 0 /\ left' = [left EXCEPT !.clicks = @ - 1]

Event == half = "orders" /\ left.events > 0 /\ left' = [left EXCEPT !.events = @ - 1]

\* accountsChanged and chainChanged reach the page of a site that may see
\* the account.
SwitchAccount(a) ==
    /\ Event /\ a # wallet.account
    /\ wallet' = [wallet EXCEPT !.account = a]
    /\ SetPage(IF wallet.seen THEN [page EXCEPT !.address = a] ELSE page)
    /\ UNCHANGED <<half, row, restore, prompt, price>>

RevokeSite ==
    /\ Event /\ wallet.seen
    /\ wallet' = [wallet EXCEPT !.seen = FALSE]
    /\ SetPage([page EXCEPT !.address = None])
    /\ UNCHANGED <<half, row, restore, prompt, price>>

SwitchChain(c) ==
    /\ Event /\ c # wallet.chain
    /\ wallet' = [wallet EXCEPT !.chain = c]
    /\ SetPage([page EXCEPT !.chain = c])
    /\ UNCHANGED <<half, row, restore, prompt, price>>

\* The two requests of the restore, answered one by one; a failing one is
\* taken for no account and for no network.
RestoreAccounts ==
    /\ half = "orders" /\ restore.accounts = "unread"
    /\ \E a \in {"none"} \cup (IF wallet.seen THEN {wallet.account} ELSE {}) :
           restore' = [restore EXCEPT !.accounts = a]
    /\ UNCHANGED <<half, left, row, wallet, page, prompt, list, call, price>>

RestoreChain ==
    /\ half = "orders" /\ restore.chain = "unread"
    /\ \E c \in {wallet.chain, "unknown"} : restore' = [restore EXCEPT !.chain = c]
    /\ UNCHANGED <<half, left, row, wallet, page, prompt, list, call, price>>

Restore ==
    /\ restore.accounts \notin {"unread", "done"} /\ restore.chain # "unread"
    /\ restore' = [restore EXCEPT !.accounts = "done"]
    /\ SetPage([page EXCEPT !.chain = restore.chain,
                            !.address = IF restore.accounts = "none" THEN @ ELSE restore.accounts])
    /\ UNCHANGED <<half, left, row, wallet, prompt, price>>

Prompt(k) ==
    /\ Click /\ prompt[k] = "idle"
    /\ prompt' = [prompt EXCEPT ![k] = "popup"]
    /\ UNCHANGED <<half, row, wallet, page, restore, list, call, price>>

Connect == page.address = None /\ Prompt("connect")

SwitchNetwork == WrongNetwork(page) /\ Prompt("switch")

ConnectApproved ==
    /\ prompt["connect"] = "popup" /\ prompt' = [prompt EXCEPT !["connect"] = "chain"]
    /\ wallet' = [wallet EXCEPT !.seen = TRUE]
    /\ SetPage([page EXCEPT !.address = wallet.account])
    /\ UNCHANGED <<half, left, row, restore, price>>

\* The extension has changed networks, and says so if that is news.
SwitchApproved ==
    /\ prompt["switch"] = "popup" /\ prompt' = [prompt EXCEPT !["switch"] = "chain"]
    /\ wallet' = [wallet EXCEPT !.chain = "sepolia"]
    /\ SetPage(IF wallet.chain = "sepolia" THEN page ELSE [page EXCEPT !.chain = "sepolia"])
    /\ UNCHANGED <<half, left, row, restore, price>>

PromptRejected(k) ==
    /\ prompt[k] = "popup" /\ prompt' = [prompt EXCEPT ![k] = "idle"]
    /\ UNCHANGED <<half, left, row, wallet, page, restore, list, call, price>>

\* Both end with getChainId, which may fail.
ReadChain(k) ==
    /\ prompt[k] = "chain" /\ prompt' = [prompt EXCEPT ![k] = "idle"]
    /\ \E c \in {wallet.chain, "unknown"} : SetPage([page EXCEPT !.chain = c])
    /\ UNCHANGED <<half, left, row, wallet, restore, price>>

Disconnect ==
    /\ Click /\ page.address # None /\ ~WrongNetwork(page)
    /\ SetPage([page EXCEPT !.address = None])
    /\ UNCHANGED <<half, row, wallet, restore, prompt, price>>

---------------------------------------------------------------------------
(* Creation and cancellation.  TradePath has the admission checks and      *)
(* OrderEngine the two steps of a cancellation; here a call is accepted or *)
(* refused.                                                                *)

NextOrder == Cardinality({o \in Orders : row[o].status # "none"}) + 1

IdleCalls == {c \in Calls : call[c] = NoCall}

\* A call of a component that is rendered.
StartCall(o, p) ==
    /\ IdleCalls # {}
    /\ call' = [call EXCEPT ![CHOOSE c \in IdleCalls : TRUE] =
                   [pc |-> "asked", order |-> o, address |-> page.address, mounted |-> TRUE]]
    /\ page' = p
    /\ UNCHANGED <<half, row, wallet, restore, prompt, list, price>>

\* The form is rendered and its button enabled; an earlier form's call may
\* still be on its way.
Submit ==
    /\ Click /\ Ready(page) /\ ~page.submitting /\ NextOrder \in Orders
    /\ StartCall(None, [page EXCEPT !.submitting = TRUE])

\* The table is rendered, with a button for the row that is not disabled: only
\* the order that was clicked last is.
Cancel(o) ==
    /\ Click /\ page.address # None /\ page.cancelling # o
    /\ \E r \in page.orders : r.order = o /\ r.status \in Cancellable
    /\ StartCall(o, [page EXCEPT !.cancelling = o])

\* The API carries the call out; its answer may be lost.
Accept(c, rows) ==
    /\ call[c].pc = "asked" /\ row' = rows
    /\ \E pc \in {"ok", "error"} : call' = [call EXCEPT ![c].pc = pc]
    /\ UNCHANGED <<half, left, wallet, page, restore, prompt, list, price>>

AnswerCreate(c) ==
    /\ call[c].order = None /\ NextOrder \in Orders
    /\ Accept(c, [row EXCEPT ![NextOrder] = [owner |-> call[c].address, status |-> "PENDING"]])

AnswerCancel(c) ==
    /\ call[c].order # None /\ row[call[c].order].status \in Cancellable
    /\ Accept(c, [row EXCEPT ![call[c].order].status = "CANCELLED"])

\* The API refuses the call, or it is lost.
Refuse(c) ==
    /\ call[c].pc = "asked"
    /\ call' = [call EXCEPT ![c].pc = "error"]
    /\ UNCHANGED <<half, left, row, wallet, page, restore, prompt, list, price>>

\* Fault: the button is released on success only.
ReleasedOnSuccess(k) ==
    [page EXCEPT !.submitting = @ /\ ~(k.mounted /\ k.order = None /\ k.pc = "ok"),
                 !.cancelling = IF k.mounted /\ k.order # None /\ k.pc = "ok" THEN None ELSE @]

\* The finally blocks; the table's is null, whichever order is being cancelled
\* by now.
Released(k) ==
    [page EXCEPT !.submitting = @ /\ ~(k.mounted /\ k.order = None),
                 !.cancelling = IF k.mounted /\ k.order # None THEN None ELSE @]

\* onCreated and onChanged are the refresh of the render the call was made in.
DeliverCall(c) ==
    /\ call[c].pc \in {"ok", "error"}
    /\ IF call[c].pc = "ok" THEN Refresh(Released(call[c]), call[c].address)
       ELSE page' = Released(call[c]) /\ UNCHANGED list
    /\ call' = [call EXCEPT ![c] = NoCall]
    /\ UNCHANGED <<half, left, row, wallet, restore, prompt, price>>

\* Workers trigger, execute, fail and retry the order.
WorkerStep(o) ==
    /\ Event
    /\ \E m \in WorkerMoves : m[1] = row[o].status /\ row' = [row EXCEPT ![o].status = m[2]]
    /\ UNCHANGED <<half, wallet, page, restore, prompt, list, call, price>>

---------------------------------------------------------------------------
(* Prices. *)

\* Of all pairs, the two real sources know one; a static price is for any.
Supports(pair) == provider = "static" \/ pair = EthUsd

\* Fault: what is cached stays.
CachedForEver == cache # NoQuote

\* The cache is not asked for the pair.
CacheFresh == cache # NoQuote /\ clock - cache.at < CacheTTL

AskStep(t, next) ==
    /\ ask' = [ask EXCEPT ![t] = next]
    /\ UNCHANGED <<half, left, desk, clock, provider, feedAt>>

GetPrice(t, pair) ==
    /\ half = "price" /\ ask[t] = NoAsk /\ (t \in Tickers => pair = EthUsd)
    /\ AskStep(t, IF CacheFresh THEN [pc |-> "answered", pair |-> pair, quote |-> [cache EXCEPT !.at = clock]]
                  ELSE [NoAsk EXCEPT !.pc = "fetch", !.pair = pair])
    /\ UNCHANGED <<cache, ticker>>

\* Chainlink says when its answer was determined; CoinGecko's and the static price
\* are taken for now's.
FetchPrice(t) ==
    /\ ask[t].pc = "fetch"
    /\ AskStep(t, IF Supports(ask[t].pair)
                  THEN [ask[t] EXCEPT !.pc = "validate",
                                      !.quote = [pair |-> ask[t].pair, at |-> 0,
                                                 observed |-> IF provider = "chainlink" THEN feedAt ELSE clock]]
                  ELSE [NoAsk EXCEPT !.pc = "error"])
    /\ UNCHANGED <<cache, ticker>>

\* getValidatedPrice returns, the value is cached and sent.
ValidatePrice(t) ==
    LET q == [ask[t].quote EXCEPT !.at = clock] IN
    /\ ask[t].pc = "validate"
    /\ IF clock - q.observed > MaxStaleness
       THEN AskStep(t, [NoAsk EXCEPT !.pc = "error"]) /\ UNCHANGED cache
       ELSE AskStep(t, [ask[t] EXCEPT !.pc = "answered", !.quote = q]) /\ cache' = q
    /\ UNCHANGED ticker

\* The source fails, or the answer is lost on its way.
FailPrice(t) ==
    /\ ask[t].pc \in {"fetch", "validate", "answered"}
    /\ AskStep(t, [NoAsk EXCEPT !.pc = "error"])
    /\ UNCHANGED <<cache, ticker>>

\* The ticker keeps its last quote beside an error.
DeliverPrice(t) ==
    /\ ask[t].pc \in {"answered", "error"}
    /\ AskStep(t, NoAsk)
    /\ ticker' = IF t \in Tickers /\ ask[t].pc = "answered" THEN ask[t].quote ELSE ticker
    /\ UNCHANGED cache

FeedMoves ==
    /\ half = "price" /\ feedAt # clock
    /\ feedAt' = clock
    /\ UNCHANGED <<half, left, desk, clock, provider, cache, ask, ticker>>

Tick ==
    /\ half = "price" /\ clock < MaxTime
    /\ clock' = clock + 1
    /\ UNCHANGED <<half, left, desk, provider, feedAt, cache, ask, ticker>>

---------------------------------------------------------------------------
WalletStep ==
    \/ \E a \in Accounts : SwitchAccount(a)
    \/ \E c \in {"sepolia", "other"} : SwitchChain(c)
    \/ RevokeSite \/ RestoreAccounts \/ RestoreChain \/ Restore
    \/ Connect \/ ConnectApproved \/ SwitchNetwork \/ SwitchApproved
    \/ \E k \in {"connect", "switch"} : PromptRejected(k) \/ ReadChain(k)
    \/ Disconnect

OrderStep ==
    \/ Poll
    \/ \E s \in Slots : AnswerList(s) \/ DeliverList(s) \/ FailList(s)
    \/ Submit
    \/ \E o \in Orders : Cancel(o) \/ WorkerStep(o)
    \/ \E c \in Calls : AnswerCreate(c) \/ AnswerCancel(c) \/ Refuse(c) \/ DeliverCall(c)

PriceStep ==
    \/ \E t \in Tabs : \/ \E pair \in Pairs : GetPrice(t, pair)
                       \/ FetchPrice(t) \/ ValidatePrice(t) \/ FailPrice(t) \/ DeliverPrice(t)
    \/ FeedMoves \/ Tick

Next == WalletStep \/ OrderStep \/ PriceStep

Spec == Init /\ [][Next]_vars

\* The timer fires for ever; a call of the user ends, with an answer or with an
\* error; of the polls, which are repeated for ever and may fail, some succeed
\* and are delivered, others may stay on their way for ever.  Nothing is asked
\* of the user, the wallet or the workers.
Fairness ==
    /\ WF_vars(Poll)
    /\ SF_vars(\E s \in Slots : AnswerList(s)) /\ WF_vars(\E s \in Slots : DeliverList(s))
    /\ WF_vars(\E c \in Calls : AnswerCreate(c) \/ AnswerCancel(c) \/ Refuse(c))
    /\ SF_vars(\E c \in Calls : DeliverCall(c))

FairSpec == Spec /\ Fairness

---------------------------------------------------------------------------
\* The table is right in the end: though answers for other accounts, earlier
\* statuses and earlier renders are still delivered after an account change,
\* a cancellation or a worker's write, polling settles on what the database
\* holds for the address shown.
TableSettles == <>[](page.address # None => page.orders = ListOrders(page.address))

\* No button stays disabled: a cancellation and a creation that are refused,
\* lost or overtaken by another end like one that succeeds.
NothingStaysBusy ==
    /\ page.cancelling # None ~> page.cancelling = None
    /\ page.submitting ~> ~page.submitting

\* The price route never serves an older price than the validation allows
\* plus the life of a cached value, though concurrent requests overwrite each
\* other's cache entry and a slow one may finish last.
ServedFresh ==
    \A t \in Tabs : ask[t].pc = "answered" =>
        ask[t].quote.at - ask[t].quote.observed < MaxStaleness + CacheTTL
=============================================================================
