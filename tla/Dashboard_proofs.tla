-------------------------- MODULE Dashboard_proofs --------------------------
(***************************************************************************)
(* For any number of accounts, orders, requests in flight, users of the    *)
(* price route, and any cache life and staleness limit: the page and the   *)
(* routes keep their shape, a table has at most Limit rows, a served price *)
(* is fresh.                                                               *)
(***************************************************************************)
EXTENDS Dashboard, FiniteSetTheorems, TLAPS

\* What the assumptions say of the constants.
LEMMA ConstantFacts ==
    /\ None \notin Accounts /\ Accounts # {} /\ Budgets \subseteq [clicks : Nat, events : Nat, slots : SUBSET Slots]
    /\ IsFiniteSet(Orders) /\ Orders \subseteq Int /\ Limit \in Nat /\ Limit > 0
    /\ EthUsd \in Pairs /\ Existing \in Int /\ CacheTTL \in Nat /\ CacheTTL > 0 /\ MaxStaleness \in Nat /\ MaxTime \in Nat
<1>1. Cardinality(Orders) \in Nat
  BY DashboardAssumption, FS_CardinalityType
<1>2. Orders \subseteq Int /\ Existing \in Int
  BY <1>1, DashboardAssumption
<1> QED
  BY <1>2, DashboardAssumption

---------------------------------------------------------------------------
(* The price route and its users.                                          *)

QuoteType == [pair : Pairs \cup {None}, observed : 0..clock, at : 0..clock]

\* A quote that passed the validation when it was cached.
Validated(q) == q.at - q.observed <= MaxStaleness

AskType == [pc : {"idle", "fetch", "validate", "answered", "error"}, pair : Pairs \cup {None},
            quote : QuoteType]

\* An answer is in time.
Asking(a) == a.pc = "answered" => a.quote.at - a.quote.observed < MaxStaleness + CacheTTL

PriceOK ==
    /\ clock \in 0..MaxTime /\ provider \in {"chainlink", "coingecko", "static"} /\ feedAt \in 0..clock
    /\ cache \in QuoteType /\ ticker \in QuoteType
    /\ cache = NoQuote \/ Validated(cache)
    /\ ask \in [Tabs -> AskType]
    /\ \A t \in Tabs : Asking(ask[t])

---------------------------------------------------------------------------
(* The page, the wallet and the table.                                     *)

Few(rows) == rows \subseteq Shown /\ Cardinality(rows) <= Limit

PageType == [address : Accounts \cup {None}, chain : {"sepolia", "other", "unknown"},
             orders : SUBSET Shown, cancelling : Orders \cup {None}, submitting : BOOLEAN]

PageOK(p) == p \in PageType /\ Few(p.orders)

ListType == [pc : {"free", "asked", "answered"}, address : Accounts \cup {None}, rows : SUBSET Shown]

Listing(r) ==
    /\ r.pc = "asked" => r.address # None
    /\ Few(r.rows)

CallType == [pc : {"idle", "asked", "ok", "error"}, order : Orders \cup {None},
             address : Accounts \cup {None}, mounted : BOOLEAN]

RowsOK ==
    /\ row \in [Orders -> [owner : Accounts \cup {None}, status : Statuses \cup {"none"}]]
    /\ \A o \in Orders : row[o].owner # None => row[o].status # "none"

WalletOK ==
    /\ wallet \in [account : Accounts, seen : BOOLEAN, chain : {"sepolia", "other"}]
    /\ restore \in [accounts : {"unread", "none", "done"} \cup Accounts,
                    chain : {"unread", "sepolia", "other", "unknown"}]
    /\ prompt \in [{"connect", "switch"} -> {"idle", "popup", "chain"}]

ListsOK ==
    /\ list \in [Slots -> ListType]
    /\ \A s \in Slots : Listing(list[s])

CallsOK == call \in [Calls -> CallType]

Counted == half \in {"orders", "price"} /\ left \in [clicks : Nat, events : Nat, slots : SUBSET Slots]

IInv == PriceOK /\ RowsOK /\ WalletOK /\ PageOK(page) /\ ListsOK /\ CallsOK /\ Counted

---------------------------------------------------------------------------
(* Steps of the price route.                                               *)

\* A step of one request is right if what it leaves in the request, the cache
\* and the ticker is.
LEMMA AskKeeps ==
    ASSUME PriceOK, NEW t \in Tabs, NEW next \in AskType, Asking(next), AskStep(t, next),
           cache' \in QuoteType, cache' = NoQuote \/ Validated(cache'),
           ticker' \in QuoteType
    PROVE  PriceOK'
<1>1. UNCHANGED <<clock, provider, feedAt>> /\ ask' = [ask EXCEPT ![t] = next]
  BY DEF AskStep
<1>2. QuoteType' = QuoteType /\ AskType' = AskType
  BY <1>1 DEF QuoteType, AskType
<1>3. ask' \in [Tabs -> AskType]
  BY <1>1 DEF PriceOK
<1>4. \A u \in Tabs : Asking(ask'[u])
  BY <1>1 DEF PriceOK
<1>5. \A u \in Tabs : Asking(ask[u])'
  BY <1>4 DEF Asking
<1>6. (cache = NoQuote \/ Validated(cache))'
  BY DEF Validated
<1> QED
  BY <1>1, <1>2, <1>3, <1>5, <1>6 DEF PriceOK

\* A request is answered from the cache, at most its life after it was written.
LEMMA GetPriceKeeps ==
    ASSUME PriceOK, NEW t \in Tabs, NEW pair \in Pairs, GetPrice(t, pair)
    PROVE  PriceOK'
<1> DEFINE served == [cache EXCEPT !.at = clock]
           hit  == [pc |-> "answered", pair |-> pair, quote |-> served]
           miss == [NoAsk EXCEPT !.pc = "fetch", !.pair = pair]
<1>1. UNCHANGED <<cache, ticker>> /\ cache \in QuoteType /\ ticker \in QuoteType
      /\ (cache = NoQuote \/ Validated(cache))
      /\ clock \in Nat
  BY ConstantFacts DEF GetPrice, PriceOK
<1>2. CASE CacheFresh
  <2>1. AskStep(t, hit)
    BY <1>2 DEF GetPrice
  <2>2. /\ served \in QuoteType
        /\ served.observed = cache.observed /\ served.at = clock
    BY <1>1 DEF QuoteType
  <2>3. cache.at - cache.observed <= MaxStaleness
    BY <1>1, <1>2 DEF CacheFresh, Validated
  <2>4. cache.at \in Int /\ cache.observed \in Int
    BY <1>1 DEF QuoteType
  <2>5. clock - cache.observed < MaxStaleness + CacheTTL
    BY <1>1, <1>2, <2>3, <2>4, ConstantFacts DEF CacheFresh
  <2> HIDE DEF served
  <2>6. hit \in AskType /\ hit.pc = "answered" /\ hit.quote = served
    BY <2>2 DEF AskType
  <2> HIDE DEF hit
  <2>7. Asking(hit)
    BY <2>2, <2>3, <2>5, <2>6 DEF Asking
  <2> QED
    BY <1>1, <2>1, <2>6, <2>7, AskKeeps
<1>3. CASE ~CacheFresh
  <2>1. AskStep(t, miss)
    BY <1>3 DEF GetPrice
  <2>2. NoQuote \in QuoteType
    BY <1>1 DEF NoQuote, QuoteType
  <2>3. miss \in AskType /\ miss.pc = "fetch"
    BY <2>2 DEF AskType, NoAsk
  <2> HIDE DEF miss
  <2>4. Asking(miss)
    BY <2>3 DEF Asking
  <2> QED
    BY <1>1, <2>1, <2>3, <2>4, AskKeeps
<1> QED
  BY <1>2, <1>3

\* An error, an empty request: nothing is claimed of them.
LEMMA ErrorIsOK ==
    ASSUME PriceOK
    PROVE  /\ [NoAsk EXCEPT !.pc = "error"] \in AskType /\ Asking([NoAsk EXCEPT !.pc = "error"])
           /\ NoAsk \in AskType /\ Asking(NoAsk)
<1>1. NoQuote \in QuoteType
  BY ConstantFacts DEF NoQuote, QuoteType, PriceOK
<1> QED
  BY <1>1 DEF NoAsk, AskType, Asking

\* The source answers, or does not know the pair.
LEMMA FetchPriceKeeps ==
    ASSUME PriceOK, NEW t \in Tabs, FetchPrice(t)
    PROVE  PriceOK'
<1> DEFINE q == [pair |-> ask[t].pair, at |-> 0,
                 observed |-> IF provider = "chainlink" THEN feedAt ELSE clock]
           next == [ask[t] EXCEPT !.pc = "validate", !.quote = q]
<1>1. UNCHANGED <<cache, ticker>> /\ cache \in QuoteType /\ ticker \in QuoteType
      /\ (cache = NoQuote \/ Validated(cache))
      /\ clock \in Nat /\ feedAt \in 0..clock /\ ask[t] \in AskType
  BY ConstantFacts DEF FetchPrice, PriceOK
<1>2. CASE Supports(ask[t].pair)
  <2>1. AskStep(t, next)
    BY <1>2 DEF FetchPrice
  <2>2. q \in QuoteType
    BY <1>1, ConstantFacts DEF AskType, QuoteType
  <2> HIDE DEF q
  <2>3. next \in AskType /\ next.pc = "validate" /\ next.quote = q
    BY <1>1, <2>2 DEF AskType
  <2> HIDE DEF next
  <2>4. Asking(next)
    BY <2>2, <2>3 DEF Asking
  <2> QED
    BY <1>1, <2>1, <2>3, <2>4, AskKeeps
<1>3. CASE ~Supports(ask[t].pair)
  <2>1. AskStep(t, [NoAsk EXCEPT !.pc = "error"])
    BY <1>3 DEF FetchPrice
  <2> QED
    BY <1>1, <2>1, ErrorIsOK, AskKeeps
<1> QED
  BY <1>2, <1>3

\* What is cached was validated in the same step.
LEMMA ValidatePriceKeeps ==
    ASSUME PriceOK, NEW t \in Tabs, ValidatePrice(t)
    PROVE  PriceOK'
<1> DEFINE q == [ask[t].quote EXCEPT !.at = clock]
           next == [ask[t] EXCEPT !.pc = "answered", !.quote = q]
<1>1. UNCHANGED ticker /\ cache \in QuoteType /\ ticker \in QuoteType
      /\ (cache = NoQuote \/ Validated(cache))
      /\ clock \in Nat /\ ask[t] \in AskType /\ Asking(ask[t]) /\ ask[t].pc = "validate"
  BY ConstantFacts DEF ValidatePrice, PriceOK
<1>2. ask[t].quote \in QuoteType
  BY <1>1 DEF AskType
<1>3. q \in QuoteType /\ q.at = clock /\ q.observed = ask[t].quote.observed
  BY <1>1, <1>2 DEF QuoteType
<1>4. CASE clock - q.observed > MaxStaleness
  <2>1. AskStep(t, [NoAsk EXCEPT !.pc = "error"]) /\ UNCHANGED cache
    BY <1>4 DEF ValidatePrice
  <2> QED
    BY <1>1, <2>1, ErrorIsOK, AskKeeps
<1>5. CASE ~(clock - q.observed > MaxStaleness)
  <2>1. AskStep(t, next) /\ cache' = q
    BY <1>5 DEF ValidatePrice
  <2> HIDE DEF q
  <2>2. q.observed \in Int /\ q.at \in Int
    BY <1>3 DEF QuoteType
  <2>3. Validated(q) /\ q.at - q.observed < MaxStaleness + CacheTTL
    BY <1>1, <1>3, <1>5, <2>2, ConstantFacts DEF Validated
  <2>4. next \in AskType /\ next.pc = "answered" /\ next.quote = q
    BY <1>1, <1>3 DEF AskType
  <2> HIDE DEF next
  <2>5. Asking(next)
    BY <1>3, <2>3, <2>4 DEF Asking
  <2> QED
    BY <1>1, <1>3, <2>1, <2>3, <2>4, <2>5, AskKeeps
<1> QED
  BY <1>4, <1>5

\* An answer is lost or delivered.
LEMMA EndOfRequestKeeps ==
    ASSUME PriceOK, NEW t \in Tabs, FailPrice(t) \/ DeliverPrice(t)
    PROVE  PriceOK'
<1>1. UNCHANGED cache /\ cache \in QuoteType /\ ticker \in QuoteType
      /\ (cache = NoQuote \/ Validated(cache))
      /\ ask[t] \in AskType /\ Asking(ask[t])
  BY DEF FailPrice, DeliverPrice, PriceOK
<1>2. CASE FailPrice(t)
  <2>1. AskStep(t, [NoAsk EXCEPT !.pc = "error"]) /\ UNCHANGED ticker
    BY <1>2 DEF FailPrice
  <2> QED
    BY <1>1, <2>1, ErrorIsOK, AskKeeps
<1>3. CASE DeliverPrice(t)
  <2>1. AskStep(t, NoAsk)
    BY <1>3 DEF DeliverPrice
  <2>2. ticker' = ticker \/ (ask[t].pc = "answered" /\ ticker' = ask[t].quote)
    BY <1>3 DEF DeliverPrice
  <2>3. ticker' \in QuoteType
    BY <1>1, <2>2 DEF AskType
  <2> QED
    BY <1>1, <2>1, <2>3, ErrorIsOK, AskKeeps
<1> QED
  BY <1>2, <1>3

\* Time passes, and the source may move.
LEMMA TimeKeeps ==
    ASSUME PriceOK, FeedMoves \/ Tick
    PROVE  PriceOK'
<1>1. UNCHANGED <<provider, cache, ask, ticker>>
  BY DEF FeedMoves, Tick
<1>2. clock' \in 0..MaxTime /\ feedAt' \in 0..clock' /\ clock <= clock' /\ clock \in Nat /\ clock' \in Nat
  BY ConstantFacts DEF FeedMoves, Tick, PriceOK
<1>3. QuoteType \subseteq QuoteType'
  <2>1. 0..clock \subseteq 0..clock'
    BY <1>2
  <2> QED
    BY <2>1 DEF QuoteType
<1>4. AskType \subseteq AskType'
  BY <1>3 DEF AskType
<1>5. ask' \in [Tabs -> AskType']
  BY <1>1, <1>4 DEF PriceOK
<1>6. \A u \in Tabs : Asking(ask[u])'
  BY <1>1 DEF PriceOK, Asking
<1>7. (cache = NoQuote \/ Validated(cache))'
  BY <1>1 DEF PriceOK, Validated
<1>8. cache' \in QuoteType' /\ ticker' \in QuoteType'
  BY <1>1, <1>3 DEF PriceOK
<1> QED
  BY <1>1, <1>2, <1>5, <1>6, <1>7, <1>8 DEF PriceOK

\* What leaves the price half alone.
LEMMA PriceUnchanged ==
    ASSUME PriceOK, UNCHANGED price
    PROVE  PriceOK'
<1>1. UNCHANGED <<clock, provider, feedAt, cache, ask, ticker>>
  BY DEF price
<1>2. QuoteType' = QuoteType /\ AskType' = AskType
  BY <1>1 DEF QuoteType, AskType
<1>3. \A u \in Tabs : Asking(ask[u])'
  BY <1>1 DEF PriceOK, Asking
<1> QED
  BY <1>1, <1>2, <1>3 DEF PriceOK, Validated

---------------------------------------------------------------------------
(* listOrders: take the newest Limit rows of the address.                  *)

\* Two rows of a list have different numbers of newer orders, all below the
\* limit, so the list is no longer than it.
LEMMA ListIsFew ==
    ASSUME RowsOK, NEW address \in Accounts
    PROVE  Few(ListOrders(address))
<1> DEFINE S == Owned(address)
           Newer(o) == {k \in S : k > o}
           T == {o \in S : Cardinality(Newer(o)) < Limit}
           R == ListOrders(address)
           f == [r \in R |-> Cardinality(Newer(r.order))]
<1>1. S \subseteq Orders /\ S \subseteq Int /\ IsFiniteSet(S)
  BY ConstantFacts, FS_Subset DEF Owned
<1>2. R = {[order |-> o, status |-> row[o].status] : o \in T}
  BY DEF ListOrders
<1>3. ASSUME NEW r \in R PROVE r.order \in T /\ r = [order |-> r.order, status |-> row[r.order].status]
  <2> HIDE DEF R, T
  <2>1. PICK o \in T : r = [order |-> o, status |-> row[o].status]
    BY <1>2
  <2> QED
    BY <2>1
<1>4. ASSUME NEW o \in S PROVE IsFiniteSet(Newer(o)) /\ Cardinality(Newer(o)) \in Nat
  <2>1. Newer(o) \in SUBSET S
    OBVIOUS
  <2>2. IsFiniteSet(Newer(o))
    BY <1>1, <2>1, FS_Subset
  <2> QED
    BY <2>2, FS_CardinalityType
<1>5. R \subseteq Shown
  <2> SUFFICES ASSUME NEW o \in T PROVE [order |-> o, status |-> row[o].status] \in Shown
    BY <1>2
  <2>1. o \in Orders /\ row[o].owner = address
    BY DEF Owned
  <2>2. row[o].status \in Statuses
    BY <2>1, ConstantFacts DEF RowsOK
  <2> QED
    BY <2>1, <2>2 DEF Shown
<1>6. f \in [R -> 0..(Limit - 1)]
  <2> SUFFICES ASSUME NEW r \in R PROVE Cardinality(Newer(r.order)) \in 0..(Limit - 1)
    OBVIOUS
  <2>1. r.order \in T
    BY <1>3
  <2>2. Cardinality(Newer(r.order)) \in Nat /\ Cardinality(Newer(r.order)) < Limit
    BY <1>4, <2>1
  <2> QED
    BY <2>2, ConstantFacts
<1>7. ASSUME NEW a \in S, NEW b \in S, a < b PROVE Cardinality(Newer(b)) # Cardinality(Newer(a))
  <2>1. a \in Int /\ b \in Int
    BY <1>1
  <2>2. Newer(b) \in SUBSET Newer(a)
    <3> SUFFICES ASSUME NEW k \in S, k > b PROVE k > a
      OBVIOUS
    <3> QED
      BY <1>1, <1>7, <2>1
  <2>3. b \in Newer(a) /\ b \notin Newer(b)
    BY <1>7, <2>1
  <2>4. IsFiniteSet(Newer(a))
    BY <1>4
  <2> HIDE DEF Newer
  <2> QED
    BY <2>2, <2>3, <2>4, FS_Subset
<1>8. ASSUME NEW r \in R, NEW s \in R, f[r] = f[s] PROVE r = s
  <2>1. r.order \in T /\ s.order \in T
    BY <1>3
  <2>2. r.order \in S /\ s.order \in S /\ r.order \in Int /\ s.order \in Int
    BY <2>1, <1>1
  <2>3. Cardinality(Newer(r.order)) = Cardinality(Newer(s.order))
    BY <1>8
  <2> HIDE DEF Newer, S, T, R, f
  <2>4. ~(r.order < s.order) /\ ~(s.order < r.order)
    BY <1>7, <2>2, <2>3
  <2>5. r.order = s.order
    BY <2>2, <2>4
  <2> QED
    BY <1>3, <2>5
<1> HIDE DEF R, f, Newer, S, T
<1>9. f \in Injection(R, 0..(Limit - 1))
  BY <1>6, <1>8 DEF Injection, IsInjective
<1>10. IsFiniteSet(0..(Limit - 1)) /\ Cardinality(0..(Limit - 1)) = Limit
  BY ConstantFacts, FS_Interval
<1>11. Cardinality(R) <= Limit
  BY <1>9, <1>10, FS_Injection
<1> QED
  BY <1>5, <1>11 DEF Few, R

\* An empty table is short.
LEMMA NoneIsFew == Few({})
  BY FS_EmptySet, ConstantFacts DEF Few

---------------------------------------------------------------------------
(* The page.                                                               *)

\* What a page is made of.
LEMMA PageParts ==
    ASSUME NEW p, PageOK(p)
    PROVE  /\ p.address \in Accounts \cup {None} /\ p.chain \in {"sepolia", "other", "unknown"}
           /\ p.orders \subseteq Shown /\ Few(p.orders)
           /\ p.cancelling \in Orders \cup {None} /\ p.submitting \in BOOLEAN
  BY DEF PageOK, PageType

\* A page with one field replaced.
LEMMA PageUpdates ==
    ASSUME NEW p, PageOK(p)
    PROVE  /\ \A a \in Accounts \cup {None} : PageOK([p EXCEPT !.address = a])
           /\ \A c \in {"sepolia", "other", "unknown"} : PageOK([p EXCEPT !.chain = c])
           /\ \A rows : Few(rows) => PageOK([p EXCEPT !.orders = rows])
           /\ \A o \in Orders \cup {None} : PageOK([p EXCEPT !.cancelling = o])
           /\ \A b \in BOOLEAN : PageOK([p EXCEPT !.submitting = b])
<1>1. ASSUME NEW a \in Accounts \cup {None} PROVE PageOK([p EXCEPT !.address = a])
  BY DEF PageOK, PageType
<1>2. ASSUME NEW c \in {"sepolia", "other", "unknown"} PROVE PageOK([p EXCEPT !.chain = c])
  BY DEF PageOK, PageType
<1>3. ASSUME NEW rows, Few(rows) PROVE PageOK([p EXCEPT !.orders = rows])
  BY <1>3 DEF PageOK, PageType, Few
<1>4. ASSUME NEW o \in Orders \cup {None} PROVE PageOK([p EXCEPT !.cancelling = o])
  BY DEF PageOK, PageType
<1>5. ASSUME NEW b \in BOOLEAN PROVE PageOK([p EXCEPT !.submitting = b])
  BY DEF PageOK, PageType
<1> QED
  BY <1>1, <1>2, <1>3, <1>4, <1>5

\* Rendering a page keeps it one.
LEMMA RenderOK ==
    ASSUME NEW p, PageOK(p)
    PROVE  PageOK(Render(p)) /\ Render(p).address = p.address
<1> DEFINE b == p.submitting /\ Ready(p)
           c == IF p.address = None THEN None ELSE p.cancelling
<1>1. b \in BOOLEAN
  OBVIOUS
<1>2. c \in Orders \cup {None}
  BY PageParts
<1> HIDE DEF b, c
<1>3. Render(p) = [p EXCEPT !.submitting = b, !.cancelling = c]
  BY DEF Render, b, c
<1>4. [p EXCEPT !.submitting = b, !.cancelling = c] \in PageType
      /\ [p EXCEPT !.submitting = b, !.cancelling = c].orders = p.orders
      /\ [p EXCEPT !.submitting = b, !.cancelling = c].address = p.address
  BY <1>1, <1>2 DEF PageOK, PageType
<1> QED
  BY <1>3, <1>4 DEF PageOK

\* A refresh empties the table or sends a request.
LEMMA RefreshOK ==
    ASSUME Counted, ListsOK, NEW p, PageOK(p), NEW address \in Accounts \cup {None},
           Refresh(p, address)
    PROVE  PageOK(page') /\ ListsOK'
<1>1. CASE address = None
  <2>1. page' = [p EXCEPT !.orders = {}] /\ list' = list
    BY <1>1 DEF Refresh
  <2>2. PageOK([p EXCEPT !.orders = {}])
    BY NoneIsFew, PageUpdates
  <2> QED
    BY <2>1, <2>2 DEF ListsOK, Listing
<1>2. CASE address # None
  <2>1. page' = p
    BY <1>2 DEF Refresh
  <2>2. PICK s \in Slots : list' = [list EXCEPT ![s] = [Free EXCEPT !.pc = "asked", !.address = address]]
    BY <1>2 DEF Refresh, Counted
  <2> DEFINE r == [Free EXCEPT !.pc = "asked", !.address = address]
  <2>3. r \in ListType /\ r.address = address /\ r.rows = {}
    BY DEF Free, ListType
  <2> HIDE DEF r
  <2>4. Listing(r)
    BY <1>2, <2>3, NoneIsFew DEF Listing
  <2>5. list' = [list EXCEPT ![s] = r]
    BY <2>2 DEF r
  <2>6. list' \in [Slots -> ListType] /\ \A k \in Slots : Listing(list'[k])
    BY <2>3, <2>4, <2>5 DEF ListsOK
  <2> QED
    BY <2>1, <2>6 DEF ListsOK, Listing
<1> QED
  BY <1>1, <1>2

\* So does a new address.
LEMMA SetPageOK ==
    ASSUME Counted, ListsOK, CallsOK, NEW p, PageOK(p), SetPage(p)
    PROVE  PageOK(page') /\ ListsOK' /\ CallsOK'
<1>1. PageOK(Render(p)) /\ p.address \in Accounts \cup {None}
  BY RenderOK, PageParts
<1>2. PageOK(page') /\ ListsOK'
  <2>1. CASE p.address = page.address
    <3>1. page' = Render(p) /\ list' = list
      BY <2>1 DEF SetPage
    <3> QED
      BY <1>1, <3>1 DEF ListsOK, Listing
  <2>2. CASE p.address # page.address
    <3>1. Refresh(Render(p), p.address)
      BY <2>2 DEF SetPage
    <3> QED
      BY <1>1, <3>1, RefreshOK
  <2> QED
    BY <2>1, <2>2
<1>3. CallsOK'
  <2> DEFINE kept(c) == [call[c] EXCEPT !.mounted = @ /\ Rendered(p, call[c])]
  <2>1. call' = [c \in Calls |-> kept(c)]
    BY DEF SetPage
  <2>2. ASSUME NEW c \in Calls PROVE kept(c) \in CallType
    <3> DEFINE b == call[c].mounted /\ Rendered(p, call[c])
    <3>1. b \in BOOLEAN
      BY DEF CallsOK, CallType
    <3>2. kept(c) = [call[c] EXCEPT !.mounted = b]
      BY DEF CallsOK, CallType
    <3> HIDE DEF b, kept
    <3> QED
      BY <3>1, <3>2 DEF CallsOK, CallType
  <2> HIDE DEF kept
  <2> QED
    BY <2>1, <2>2 DEF CallsOK
<1> QED
  BY <1>2, <1>3

---------------------------------------------------------------------------
(* Steps of the wallet, the page and the API.                              *)

\* What a step does to the counts.
Counting == left' = left \/ Click \/ Event

\* What a step does not touch stays right.
LEMMA Frames ==
    /\ RowsOK /\ row' = row => RowsOK'
    /\ WalletOK /\ UNCHANGED <<wallet, restore, prompt>> => WalletOK'
    /\ ListsOK /\ list' = list => ListsOK'
    /\ CallsOK /\ call' = call => CallsOK'
    /\ Counted /\ half' = half /\ Counting => Counted'
<1>1. ASSUME Counted, half' = half, Counting PROVE Counted'
  BY <1>1, ConstantFacts DEF Counted, Counting, Click, Event
<1>2. ASSUME RowsOK, row' = row PROVE RowsOK'
  BY <1>2 DEF RowsOK
<1>3. ASSUME WalletOK, UNCHANGED <<wallet, restore, prompt>> PROVE WalletOK'
  BY <1>3 DEF WalletOK
<1>4. ASSUME ListsOK, list' = list PROVE ListsOK'
  BY <1>4 DEF ListsOK, Listing
<1>5. ASSUME CallsOK, call' = call PROVE CallsOK'
  BY <1>5 DEF CallsOK
<1> QED
  BY <1>1, <1>2, <1>3, <1>4, <1>5

\* The parts make the invariant.
LEMMA Assemble ==
    ASSUME PriceOK', RowsOK', WalletOK', PageOK(page'), ListsOK', CallsOK', Counted'
    PROVE  IInv'
<1>1. PageOK(page)'
  BY DEF PageOK, Few
<1> QED
  BY <1>1 DEF IInv

\* A step of the wallet's, after which the page is set.
LEMMA WalletPageStep ==
    ASSUME IInv, WalletOK', NEW p, PageOK(p), SetPage(p),
           UNCHANGED <<half, row, price>>, Counting
    PROVE  IInv'
<1>1. PriceOK' /\ RowsOK' /\ Counted'
  BY PriceUnchanged, Frames DEF IInv
<1>2. PageOK(page') /\ ListsOK' /\ CallsOK'
  BY SetPageOK DEF IInv
<1> QED
  BY <1>1, <1>2, Assemble

\* The account's own steps.
LEMMA AccountKeeps ==
    ASSUME IInv, NEW a \in Accounts, SwitchAccount(a)
    PROVE  IInv'
<1> DEFINE p == IF wallet.seen THEN [page EXCEPT !.address = a] ELSE page
<1>1. SetPage(p) /\ UNCHANGED <<half, row, restore, prompt, price>> /\ Counting
  BY DEF SwitchAccount, Counting
<1>2. PageOK(p)
  BY PageUpdates DEF IInv
<1>3. wallet' = [wallet EXCEPT !.account = a]
  BY DEF SwitchAccount
<1>4. WalletOK'
  BY <1>1, <1>3 DEF IInv, WalletOK
<1> HIDE DEF p
<1> QED
  BY <1>1, <1>2, <1>4, WalletPageStep

\* The site loses the account.
LEMMA RevokeKeeps ==
    ASSUME IInv, RevokeSite \/ Disconnect
    PROVE  IInv'
<1> DEFINE p == [page EXCEPT !.address = None]
<1>1. SetPage(p) /\ UNCHANGED <<half, row, restore, prompt, price>> /\ Counting
  BY DEF RevokeSite, Disconnect, Counting
<1>2. PageOK(p)
  BY PageUpdates DEF IInv
<1>3. wallet' = [wallet EXCEPT !.seen = FALSE] \/ wallet' = wallet
  BY DEF RevokeSite, Disconnect
<1>4. WalletOK'
  BY <1>1, <1>3 DEF IInv, WalletOK
<1> HIDE DEF p
<1> QED
  BY <1>1, <1>2, <1>4, WalletPageStep

\* The wallet's network changes.
LEMMA ChainKeeps ==
    ASSUME IInv, NEW c \in {"sepolia", "other"}, SwitchChain(c)
    PROVE  IInv'
<1>1. /\ SetPage([page EXCEPT !.chain = c]) /\ wallet' = [wallet EXCEPT !.chain = c]
      /\ UNCHANGED <<half, row, restore, prompt, price>> /\ Counting
  BY DEF SwitchChain, Counting
<1>2. PageOK([page EXCEPT !.chain = c])
  BY PageUpdates DEF IInv
<1>3. WalletOK'
  BY <1>1 DEF IInv, WalletOK
<1> QED
  BY <1>1, <1>2, <1>3, WalletPageStep

\* The two answers of the restore, and the popups.
LEMMA WalletOnlyKeeps ==
    ASSUME IInv, RestoreAccounts \/ RestoreChain \/ Connect \/ SwitchNetwork
                 \/ \E k \in {"connect", "switch"} : PromptRejected(k)
    PROVE  IInv'
<1>1. UNCHANGED <<half, row, wallet, page, list, call, price>> /\ Counting
  BY DEF RestoreAccounts, RestoreChain, Connect, SwitchNetwork, Prompt, PromptRejected, Counting
<1>2. WalletOK'
  <2>1. CASE RestoreAccounts
    <3>1. PICK a \in {"none"} \cup (IF wallet.seen THEN {wallet.account} ELSE {}) :
              restore' = [restore EXCEPT !.accounts = a]
      BY <2>1 DEF RestoreAccounts
    <3>2. a \in {"unread", "none", "done"} \cup Accounts
      BY DEF IInv, WalletOK
    <3>3. UNCHANGED <<wallet, prompt>>
      BY <2>1 DEF RestoreAccounts
    <3> QED
      BY <3>1, <3>2, <3>3 DEF IInv, WalletOK
  <2>2. CASE RestoreChain
    BY <2>2 DEF RestoreChain, IInv, WalletOK
  <2>3. CASE Connect \/ SwitchNetwork
    BY <2>3 DEF Connect, SwitchNetwork, Prompt, IInv, WalletOK
  <2>4. CASE \E k \in {"connect", "switch"} : PromptRejected(k)
    BY <2>4 DEF PromptRejected, IInv, WalletOK
  <2> QED
    BY <2>1, <2>2, <2>3, <2>4
<1>3. PriceOK' /\ RowsOK' /\ CallsOK' /\ ListsOK' /\ Counted' /\ PageOK(page')
  BY <1>1, PriceUnchanged, Frames DEF IInv
<1> QED
  BY <1>2, <1>3, Assemble

\* useWallet's restore applies both answers.
LEMMA RestoreKeeps ==
    ASSUME IInv, Restore
    PROVE  IInv'
<1> DEFINE c == restore.chain
           a == IF restore.accounts = "none" THEN page.address ELSE restore.accounts
           p == [page EXCEPT !.chain = c, !.address = a]
<1>1. /\ SetPage(p) /\ restore' = [restore EXCEPT !.accounts = "done"]
      /\ UNCHANGED <<half, left, row, wallet, prompt, price>> /\ Counting
      /\ restore.accounts \notin {"unread", "done"} /\ restore.chain # "unread"
  BY DEF Restore, Counting
<1>2. c \in {"sepolia", "other", "unknown"} /\ a \in Accounts \cup {None}
  BY <1>1, PageParts DEF IInv, WalletOK
<1>3. WalletOK'
  BY <1>1 DEF IInv, WalletOK
<1> HIDE DEF c, a
<1>4. p = [[page EXCEPT !.chain = c] EXCEPT !.address = a]
  BY DEF IInv, PageOK, PageType
<1>5. PageOK([page EXCEPT !.chain = c])
  BY <1>2, PageUpdates DEF IInv
<1>6. PageOK(p)
  BY <1>2, <1>4, <1>5, PageUpdates
<1> HIDE DEF p
<1> QED
  BY <1>1, <1>3, <1>6, WalletPageStep

\* connect() and switchNetwork() after the popup.
LEMMA PromptKeeps ==
    ASSUME IInv, ConnectApproved \/ SwitchApproved \/ \E k \in {"connect", "switch"} : ReadChain(k)
    PROVE  IInv'
<1>1. CASE ConnectApproved
  <2> DEFINE p == [page EXCEPT !.address = wallet.account]
  <2>1. /\ SetPage(p) /\ wallet' = [wallet EXCEPT !.seen = TRUE]
        /\ prompt' = [prompt EXCEPT !["connect"] = "chain"]
        /\ UNCHANGED <<half, row, restore, price>> /\ Counting
    BY <1>1 DEF ConnectApproved, Counting
  <2>2. PageOK(p)
    BY PageUpdates DEF IInv, WalletOK
  <2>3. WalletOK'
    BY <2>1 DEF IInv, WalletOK
  <2> HIDE DEF p
  <2> QED
    BY <2>1, <2>2, <2>3, WalletPageStep
<1>2. CASE SwitchApproved
  <2> DEFINE p == IF wallet.chain = "sepolia" THEN page ELSE [page EXCEPT !.chain = "sepolia"]
  <2>1. /\ SetPage(p) /\ wallet' = [wallet EXCEPT !.chain = "sepolia"]
        /\ prompt' = [prompt EXCEPT !["switch"] = "chain"]
        /\ UNCHANGED <<half, row, restore, price>> /\ Counting
    BY <1>2 DEF SwitchApproved, Counting
  <2>2. PageOK(p)
    BY PageUpdates DEF IInv
  <2>3. WalletOK'
    BY <2>1 DEF IInv, WalletOK
  <2> HIDE DEF p
  <2> QED
    BY <2>1, <2>2, <2>3, WalletPageStep
<1>3. ASSUME NEW k \in {"connect", "switch"}, ReadChain(k) PROVE IInv'
  <2>1. PICK c \in {wallet.chain, "unknown"} : SetPage([page EXCEPT !.chain = c])
    BY <1>3 DEF ReadChain
  <2>2. /\ prompt' = [prompt EXCEPT ![k] = "idle"]
        /\ UNCHANGED <<half, row, wallet, restore, price>> /\ Counting
    BY <1>3 DEF ReadChain, Counting
  <2>3. c \in {"sepolia", "other", "unknown"}
    BY DEF IInv, WalletOK
  <2>4. PageOK([page EXCEPT !.chain = c])
    BY <2>3, PageUpdates DEF IInv
  <2>5. WalletOK'
    BY <2>2 DEF IInv, WalletOK
  <2> QED
    BY <2>1, <2>2, <2>4, <2>5, WalletPageStep
<1> QED
  BY <1>1, <1>2, <1>3

\* The poll timer and the answers it gets.
LEMMA PollingKeeps ==
    ASSUME IInv, Poll \/ \E s \in Slots : AnswerList(s) \/ DeliverList(s) \/ FailList(s)
    PROVE  IInv'
<1>1. UNCHANGED <<half, left, row, wallet, restore, prompt, call, price>> /\ Counting
  BY DEF Poll, AnswerList, DeliverList, FailList, Counting
<1>2. PriceOK' /\ RowsOK' /\ CallsOK' /\ WalletOK' /\ Counted'
  BY <1>1, PriceUnchanged, Frames DEF IInv
<1>3. CASE Poll
  <2>1. Refresh(page, page.address) /\ page.address \in Accounts \cup {None}
    BY <1>3, PageParts DEF Poll, IInv
  <2> QED
    BY <1>2, <2>1, RefreshOK, Assemble DEF IInv
<1>4. ASSUME NEW s \in Slots, AnswerList(s) PROVE IInv'
  <2> DEFINE rows == ListOrders(list[s].address)
             r == [list[s] EXCEPT !.pc = "answered", !.rows = rows]
  <2>1. list[s].pc = "asked" /\ page' = page /\ list' = [list EXCEPT ![s] = r] /\ list[s] \in ListType
    BY <1>4 DEF AnswerList, IInv, ListsOK
  <2>2. list[s].address \in Accounts
    BY <2>1 DEF IInv, ListsOK, Listing, ListType
  <2>3. Few(rows)
    BY <2>2, ListIsFew DEF IInv
  <2> HIDE DEF rows
  <2>4. r \in ListType /\ r.pc = "answered" /\ r.rows = rows
    BY <2>1, <2>3 DEF ListType, Few
  <2> HIDE DEF r
  <2>5. Listing(r)
    BY <2>3, <2>4 DEF Listing
  <2>6. list' \in [Slots -> ListType] /\ \A k \in Slots : Listing(list'[k])
    BY <2>1, <2>4, <2>5 DEF IInv, ListsOK
  <2>7. ListsOK'
    BY <2>6 DEF ListsOK, Listing
  <2> QED
    BY <1>2, <2>1, <2>7, Assemble DEF IInv
<1>5. ASSUME NEW s \in Slots, DeliverList(s) \/ FailList(s) PROVE IInv'
  <2>1. list' = [list EXCEPT ![s] = Free]
    BY <1>5 DEF DeliverList, FailList
  <2>2. page' = page \/ page' = [page EXCEPT !.orders = list[s].rows]
    BY <1>5 DEF DeliverList, FailList
  <2>3. Free \in ListType /\ Free.pc = "free" /\ Free.rows = {}
    BY DEF Free, ListType
  <2>4. Listing(Free)
    BY <2>3, NoneIsFew DEF Listing
  <2>5. list' \in [Slots -> ListType] /\ \A k \in Slots : Listing(list'[k])
    BY <2>1, <2>3, <2>4 DEF IInv, ListsOK
  <2>6. ListsOK'
    BY <2>5 DEF ListsOK, Listing
  <2>7. Few(list[s].rows)
    BY DEF IInv, ListsOK, Listing
  <2>8. PageOK(page')
    <3>1. PageOK(page)
      BY DEF IInv
    <3>2. PageOK([page EXCEPT !.orders = list[s].rows])
      BY <2>7, <3>1, PageUpdates
    <3> QED
      BY <2>2, <3>1, <3>2
  <2> QED
    BY <1>2, <2>6, <2>8, Assemble
<1> QED
  BY <1>3, <1>4, <1>5

\* A call starts.
LEMMA StartKeeps ==
    ASSUME IInv, Submit \/ \E o \in Orders : Cancel(o)
    PROVE  IInv'
<1>1. PICK o \in Orders \cup {None} :
        \E p : PageOK(p) /\ StartCall(o, p) /\ Click
  <2>1. CASE Submit
    <3>1. PageOK([page EXCEPT !.submitting = TRUE])
      BY PageUpdates DEF IInv
    <3> QED
      BY <2>1, <3>1 DEF Submit
  <2>2. ASSUME NEW o \in Orders, Cancel(o)
        PROVE  \E p : PageOK(p) /\ StartCall(o, p) /\ Click
    <3>1. PageOK([page EXCEPT !.cancelling = o])
      BY PageUpdates DEF IInv
    <3> QED
      BY <2>2, <3>1 DEF Cancel
  <2> QED
    BY <2>1, <2>2
<1>2. PICK p : PageOK(p) /\ StartCall(o, p) /\ Click
  BY <1>1
<1> DEFINE c == CHOOSE c \in IdleCalls : TRUE
           k == [pc |-> "asked", order |-> o, address |-> page.address, mounted |-> TRUE]
<1>3. /\ page' = p /\ call' = [call EXCEPT ![c] = k] /\ Counting
      /\ UNCHANGED <<half, row, wallet, restore, prompt, list, price>>
  BY <1>2 DEF StartCall, Counting
<1>4. k \in CallType
  BY PageParts DEF IInv, CallType
<1> HIDE DEF c, k
<1>5. CallsOK'
  BY <1>3, <1>4 DEF IInv, CallsOK
<1>6. PriceOK' /\ RowsOK' /\ WalletOK' /\ ListsOK' /\ Counted'
  BY <1>3, PriceUnchanged, Frames DEF IInv
<1> QED
  BY <1>2, <1>3, <1>5, <1>6, Assemble

\* The API answers a call, or it is lost.
LEMMA AnswerKeeps ==
    ASSUME IInv, NEW c \in Calls, AnswerCreate(c) \/ AnswerCancel(c) \/ Refuse(c)
    PROVE  IInv'
<1>1. UNCHANGED <<half, left, wallet, page, restore, prompt, list, price>> /\ Counting
  BY DEF AnswerCreate, AnswerCancel, Accept, Refuse, Counting
<1>2. PICK pc \in {"ok", "error"} : call' = [call EXCEPT ![c].pc = pc]
  BY DEF AnswerCreate, AnswerCancel, Accept, Refuse
<1>3. call[c] \in CallType
  BY DEF IInv, CallsOK
<1>4. [call[c] EXCEPT !.pc = pc] \in CallType
  BY <1>3 DEF CallType
<1>5. CallsOK'
  BY <1>2, <1>4 DEF IInv, CallsOK
<1>6. RowsOK'
  <2>1. CASE Refuse(c)
    BY <2>1 DEF Refuse, IInv, RowsOK
  <2>2. CASE AnswerCreate(c)
    <3> DEFINE r == [owner |-> call[c].address, status |-> "PENDING"]
    <3>1. row' = [row EXCEPT ![NextOrder] = r]
      BY <2>2 DEF AnswerCreate, Accept
    <3>2. r \in [owner : Accounts \cup {None}, status : Statuses \cup {"none"}] /\ r.status # "none"
      BY <1>3 DEF CallType, Statuses
    <3> HIDE DEF r
    <3> QED
      BY <3>1, <3>2 DEF IInv, RowsOK
  <2>3. CASE AnswerCancel(c)
    <3> DEFINE o == call[c].order
    <3>1. row' = [row EXCEPT ![o].status = "CANCELLED"] /\ o # None
      BY <2>3 DEF AnswerCancel, Accept
    <3>2. o \in Orders
      BY <1>3, <3>1 DEF CallType
    <3> HIDE DEF o
    <3> QED
      BY <3>1, <3>2 DEF IInv, RowsOK, Statuses
  <2> QED
    BY <2>1, <2>2, <2>3
<1>7. PriceOK' /\ WalletOK' /\ ListsOK' /\ Counted' /\ PageOK(page')
  BY <1>1, PriceUnchanged, Frames DEF IInv
<1> QED
  BY <1>5, <1>6, <1>7, Assemble

\* The answer of a call reaches the page.
LEMMA DeliverKeeps ==
    ASSUME IInv, NEW c \in Calls, DeliverCall(c)
    PROVE  IInv'
<1>1. /\ call' = [call EXCEPT ![c] = NoCall] /\ Counting
      /\ Refresh(Released(call[c]), call[c].address) \/ (page' = Released(call[c]) /\ list' = list)
      /\ UNCHANGED <<half, row, wallet, restore, prompt, price>>
  BY DEF DeliverCall, Counting
<1>2. call[c] \in CallType
  BY DEF IInv, CallsOK
<1>3. PageOK(Released(call[c]))
  <2> DEFINE s == page.submitting /\ ~(call[c].mounted /\ call[c].order = None)
             x == IF call[c].mounted /\ call[c].order # None THEN None ELSE page.cancelling
  <2>1. s \in BOOLEAN
    OBVIOUS
  <2>2. x \in Orders \cup {None}
    BY PageParts DEF IInv
  <2> DEFINE p == [page EXCEPT !.submitting = s]
  <2>3. Released(call[c]) = [p EXCEPT !.cancelling = x]
    BY DEF Released, IInv, PageOK, PageType
  <2> HIDE DEF s, x
  <2>4. PageOK(p)
    BY <2>1, PageUpdates DEF IInv
  <2> HIDE DEF p
  <2>5. PageOK([p EXCEPT !.cancelling = x])
    BY <2>2, <2>4, PageUpdates
  <2> QED
    BY <2>3, <2>5
<1>4. PageOK(page') /\ ListsOK'
  <2>1. call[c].address \in Accounts \cup {None}
    BY <1>2 DEF CallType
  <2> QED
    BY <1>1, <1>3, <2>1, RefreshOK, Frames DEF IInv
<1>5. NoCall \in CallType
  BY DEF NoCall, CallType
<1>6. CallsOK'
  BY <1>1, <1>5 DEF IInv, CallsOK
<1>7. PriceOK' /\ RowsOK' /\ WalletOK' /\ Counted'
  BY <1>1, PriceUnchanged, Frames DEF IInv
<1> QED
  BY <1>4, <1>6, <1>7, Assemble

\* A worker never touches an order that does not exist.
LEMMA WorkerKeeps ==
    ASSUME IInv, NEW o \in Orders, WorkerStep(o)
    PROVE  IInv'
<1>1. UNCHANGED <<half, wallet, page, restore, prompt, list, call, price>> /\ Counting
  BY DEF WorkerStep, Counting
<1>2. PICK m \in WorkerMoves : m[1] = row[o].status /\ row' = [row EXCEPT ![o].status = m[2]]
  BY DEF WorkerStep
<1>3. m[2] \in Statuses
  BY DEF WorkerMoves, Statuses
<1>4. RowsOK'
  BY <1>2, <1>3 DEF IInv, RowsOK, Statuses
<1> QED
  BY <1>1, <1>4, PriceUnchanged, Frames, Assemble DEF IInv

---------------------------------------------------------------------------
\* A page that is just loaded.
LEMMA InitHolds ==
    ASSUME Init
    PROVE  IInv
<1>1. 0 \in 0..MaxTime /\ 0 \in 0..0
  BY ConstantFacts
<1>2. PriceOK
  <2>1. NoQuote \in QuoteType
    BY <1>1 DEF Init, NoQuote, QuoteType
  <2>2. NoAsk \in AskType /\ NoAsk.pc = "idle"
    BY <2>1 DEF NoAsk, AskType
  <2>3. Asking(NoAsk)
    BY <2>2 DEF Asking
  <2> QED
    BY <1>1, <2>1, <2>2, <2>3 DEF Init, PriceOK
<1>3. WalletOK
  <2>1. (CHOOSE a \in Accounts : TRUE) \in Accounts
    BY ConstantFacts
  <2> QED
    BY <2>1 DEF Init, WalletOK
<1>4. RowsOK
  <2>1. wallet.account \in Accounts
    BY <1>3 DEF WalletOK
  <2>2. ASSUME NEW o \in Orders
        PROVE  /\ row[o] \in [owner : Accounts \cup {None}, status : Statuses \cup {"none"}]
               /\ row[o].owner # None => row[o].status # "none"
    <3>1. row[o] = [owner |-> wallet.account, status |-> "PENDING"]
          \/ row[o] = [owner |-> None, status |-> "none"]
      BY DEF Init
    <3> QED
      BY <2>1, <3>1 DEF Statuses
  <2>3. row = [o \in Orders |-> row[o]]
    BY DEF Init
  <2>4. row \in [Orders -> [owner : Accounts \cup {None}, status : Statuses \cup {"none"}]]
    BY <2>2, <2>3
  <2> QED
    BY <2>2, <2>4 DEF RowsOK
<1>5. PageOK(page)
  <2>1. page \in PageType /\ page.orders = {}
    BY DEF Init, PageType
  <2> QED
    BY <2>1, NoneIsFew DEF PageOK
<1>6. ListsOK
  <2>1. Free \in ListType /\ Free.pc = "free" /\ Free.rows = {}
    BY DEF Free, ListType
  <2>2. Listing(Free)
    BY <2>1, NoneIsFew DEF Listing
  <2> QED
    BY <2>1, <2>2 DEF Init, ListsOK
<1>7. CallsOK
  <2>1. NoCall \in CallType
    BY DEF NoCall, CallType
  <2> QED
    BY <2>1 DEF Init, CallsOK
<1>8. Counted
  BY <1>1, DashboardAssumption DEF Init, Counted
<1> QED
  BY <1>2, <1>3, <1>4, <1>5, <1>6, <1>7, <1>8 DEF IInv

\* Every step preserves the invariant.
LEMMA NextKeeps ==
    ASSUME IInv, [Next]_vars
    PROVE  IInv'
<1>1. CASE WalletStep
  BY <1>1, AccountKeeps, RevokeKeeps, ChainKeeps, WalletOnlyKeeps, RestoreKeeps, PromptKeeps DEF WalletStep
<1>2. CASE OrderStep
  BY <1>2, PollingKeeps, StartKeeps, AnswerKeeps, DeliverKeeps, WorkerKeeps DEF OrderStep
<1>3. CASE PriceStep
  <2>1. UNCHANGED <<half, left, desk>>
    BY <1>3 DEF PriceStep, GetPrice, FetchPrice, ValidatePrice, FailPrice, DeliverPrice, FeedMoves, Tick, AskStep
  <2>2. PriceOK'
    BY <1>3, GetPriceKeeps, FetchPriceKeeps, ValidatePriceKeeps, EndOfRequestKeeps, TimeKeeps
    DEF PriceStep, IInv
  <2> QED
    BY <2>1, <2>2, Frames, Assemble DEF desk, IInv, Counting
<1>4. CASE UNCHANGED vars
  BY <1>4, PriceUnchanged, Frames, Assemble DEF vars, desk, IInv, Counting
<1> QED
  BY <1>1, <1>2, <1>3, <1>4 DEF Next

\* Every reachable state satisfies the invariant.
LEMMA DashboardHolds == Spec => []IInv
<1>1. IInv /\ [Next]_vars => IInv'
  BY NextKeeps
<1>2. Init => IInv
  BY InitHolds
<1> QED
  BY <1>1, <1>2, PTL DEF Spec

\* The state keeps its shape, whatever is delivered late or twice: among other
\* things no table, and no answer under way, has more rows than listOrders'
\* limit, and no request names an account that does not exist.
THEOREM DashboardTypeCorrect == Spec => []TypeOK
<1>1. IInv => TypeOK
  <2> SUFFICES ASSUME IInv PROVE TypeOK
    OBVIOUS
  <2>1. PageOK(page) /\ Few(page.orders)
    BY PageParts DEF IInv
  <2>2. \A s \in Slots : list[s] \in ListType
    BY DEF IInv, ListsOK
  <2>3. \A t \in Tabs : ask[t] \in AskType
    BY DEF IInv, PriceOK
  <2>4. {cache, ticker} \subseteq QuoteType
    BY DEF IInv, PriceOK
  <2>5. /\ page.address \in Accounts \cup {None} /\ page.chain \in {"sepolia", "other", "unknown"}
        /\ page.orders \subseteq Shown /\ Cardinality(page.orders) <= Limit
        /\ page.cancelling \in Orders \cup {None} /\ page.submitting \in BOOLEAN
    BY <2>1, PageParts DEF Few
  <2>6. \A s \in Slots : /\ list[s].pc \in {"free", "asked", "answered"}
                         /\ list[s].address \in Accounts \cup {None} /\ list[s].rows \subseteq Shown
    BY <2>2 DEF ListType
  <2>7. \A t \in Tabs : /\ ask[t].pc \in {"idle", "fetch", "validate", "answered", "error"}
                        /\ ask[t].pair \in Pairs \cup {None} /\ ask[t].quote \in QuoteType
    BY <2>3 DEF AskType
  <2> QED
    BY <2>4, <2>5, <2>6, <2>7 DEF IInv, RowsOK, WalletOK, CallsOK, CallType, Counted, PriceOK, QuoteType, TypeOK
<1> QED
  BY <1>1, DashboardHolds, PTL

\* However many requests overlap and whichever of them writes the cache last:
\* no served price is older than the staleness limit and the cache's life
\* together, for every limit and every life.
THEOREM DashboardServedFresh == Spec => []ServedFresh
<1>1. IInv => ServedFresh
  BY DEF IInv, PriceOK, Asking, ServedFresh
<1> QED
  BY <1>1, DashboardHolds, PTL
=============================================================================
