-------------------------- MODULE TradePath_proofs --------------------------
(***************************************************************************)
(* For any orders, tiers, tolerances, windows and quote ages, and any      *)
(* movement of pools, limits, balances and clock: a fill is near the best  *)
(* quote, not late, and what was admitted; what is admitted is within      *)
(* limits nobody has changed; balances are spent as ordered, and the vault *)
(* keeps its own promises.                                                 *)
(***************************************************************************)
EXTENDS TradePath, FiniteSetTheorems, WellFoundedInduction, TLAPS

TierIndex == 1..Len(Tiers)

\* What the assumptions say of the numbers.
LEMMA ConfigFacts ==
    /\ SlippageBps \in Nat /\ 10000 - SlippageBps \in Nat
    /\ DeadlineWindow \in Nat /\ MaxQuoteAge \in Nat /\ MaxTime \in Nat
    /\ Outs \subseteq Nat /\ Len(Tiers) \in Nat
  BY ConfigAssumption, TradeAssumption DEF ValidConfig

---------------------------------------------------------------------------
(* Arithmetic. *)

\* Multiplication by a natural number is monotone.
LEMMA ScaleMono ==
    ASSUME NEW a \in Int, NEW b \in Int, NEW c \in Nat, a <= b
    PROVE  a * c \in Int /\ b * c \in Int /\ a * c <= b * c
<1> DEFINE d == b - a
<1>1. d \in Nat
  OBVIOUS
<1>2. d * c \in Nat
  BY <1>1
<1>3. b * c = a * c + d * c
  OBVIOUS
<1> QED
  BY <1>2, <1>3

\* The division of buildExecutionParams loses less than one base unit.
LEMMA MinBound ==
    ASSUME NEW q \in Nat
    PROVE  /\ MinAmountOut(q) \in Nat
           /\ 10000 * MinAmountOut(q) > q * (10000 - SlippageBps) - 10000
<1> DEFINE x == q * (10000 - SlippageBps)
<1>1. x \in Nat
  BY ConfigFacts
<1> HIDE DEF x
<1>2. x \div 10000 \in Nat /\ 10000 * (x \div 10000) > x - 10000
  BY <1>1
<1> QED
  BY <1>2 DEF MinAmountOut, x

\* parseUnits is within half a base unit of the text.
LEMMA ParseBound ==
    ASSUME NEW text \in Nat, NEW token, token.unit \in {1, 10}
    PROVE  /\ ParseUnits(text, token) \in Nat
           /\ 2 * (ParseUnits(text, token) * token.unit - text) <= token.unit
           /\ 2 * (text - ParseUnits(text, token) * token.unit) <= token.unit
<1>1. CASE token.unit = 1
  BY <1>1 DEF ParseUnits
<1>2. CASE token.unit = 10
  BY <1>2 DEF ParseUnits
<1> QED
  BY <1>1, <1>2

---------------------------------------------------------------------------
(* The best tier. *)

\* A finite set of tiers that are ordered by quote and position has a best one: the one
\* with the fewest tiers before it.
LEMMA BestExists ==
    ASSUME NEW j, j.quote \in [TierIndex -> Int], Usable(j) # {}
    PROVE  /\ BestTier(j) \in Usable(j)
           /\ \A k \in Usable(j) : j.quote[BestTier(j)] >= j.quote[k]
<1> DEFINE Before(k, i) == j.quote[k] > j.quote[i] \/ (j.quote[k] = j.quote[i] /\ k < i)
           Ahead(i) == {k \in Usable(j) : Before(k, i)}
           Counts == {Cardinality(Ahead(i)) : i \in Usable(j)}
           Less == {ss \in Nat \X Nat : ss[1] < ss[2]}
<1>1. Usable(j) \subseteq TierIndex /\ TierIndex \subseteq Int /\ \A i \in Usable(j) : j.quote[i] \in Int
  BY ConfigFacts DEF Usable, TierIndex
<1>2. IsFiniteSet(TierIndex)
  BY ConfigFacts, FS_Interval DEF TierIndex
<1>3. IsFiniteSet(Usable(j))
  BY <1>1, <1>2, FS_Subset
<1>4. \A i \in Usable(j) : IsFiniteSet(Ahead(i)) /\ Cardinality(Ahead(i)) \in Nat
  BY <1>3, FS_Subset, FS_CardinalityType
<1>5. Counts \subseteq Nat /\ Counts # {}
  BY <1>4
<1>6. IsWellFoundedOn(Less, Nat)
  BY NatLessThanWellFounded DEF OpToRel
<1> HIDE DEF Less
<1>7. PICK n \in Counts : \A m \in Counts : ~ (<<m, n>> \in Less)
  BY <1>5, <1>6, WFMin, Zenon
<1>8. PICK i \in Usable(j) : n = Cardinality(Ahead(i))
  BY <1>7
<1>9. ASSUME NEW k \in Usable(j) PROVE ~Before(k, i)
  <2> SUFFICES ASSUME Before(k, i) PROVE FALSE
    OBVIOUS
  <2>1. Ahead(k) \subseteq Ahead(i)
    <3> SUFFICES ASSUME NEW l \in Usable(j), Before(l, k) PROVE Before(l, i)
      OBVIOUS
    <3>1. l \in Int /\ k \in Int /\ i \in Int /\ j.quote[l] \in Int /\ j.quote[k] \in Int /\ j.quote[i] \in Int
      BY <1>1, <1>8
    <3> QED
      BY <3>1
  <2>2. k \in Ahead(i) /\ k \notin Ahead(k)
    <3>1. k \in Int /\ j.quote[k] \in Int
      BY <1>1
    <3>2. ~Before(k, k)
      BY <3>1
    <3> QED
      BY <3>2
  <2>3. Cardinality(Ahead(k)) <= Cardinality(Ahead(i)) /\ Cardinality(Ahead(k)) # Cardinality(Ahead(i))
    BY <2>1, <2>2, <1>4, FS_Subset
  <2>4. Cardinality(Ahead(k)) \in Nat /\ Cardinality(Ahead(i)) \in Nat
    BY <1>4
  <2>5. Cardinality(Ahead(k)) \in Counts
    OBVIOUS
  <2> HIDE DEF Ahead, Counts
  <2>6. <<Cardinality(Ahead(k)), n>> \in Less
    BY <2>3, <2>4, <1>8 DEF Less
  <2> QED
    BY <2>5, <2>6, <1>7
<1>10. \A k \in Usable(j) : j.quote[i] > j.quote[k] \/ (j.quote[i] = j.quote[k] /\ i <= k)
  BY <1>9, <1>1, <1>8
<1>11. /\ BestTier(j) \in Usable(j)
       /\ \A k \in Usable(j) :
             j.quote[BestTier(j)] > j.quote[k] \/ (j.quote[BestTier(j)] = j.quote[k] /\ BestTier(j) <= k)
  BY <1>8, <1>10, Zenon DEF BestTier
<1> QED
  BY <1>11, <1>1
---------------------------------------------------------------------------
(* The inductive invariant: how far an order has come and what it carries. *)

ApiType == [pc : {"idle", "state", "limits", "stored", "refused"},
            req : Requests \cup {NoRequest}, allowed : SUBSET {"in", "out"},
            read : SUBSET {"in", "out", "cap"}, cap : Nat]

JobType == [pc : {"idle", "state", "balance", "quote", "claim", "simulate", "send",
                  "pending", "filled", "reverted", "failed"},
            n : Nat, tin : {Weth, Usdc}, tout : {Weth, Usdc},
            quote : [TierIndex -> Outs \cup {Unread, Dead}],
            at : [TierIndex -> Nat], tier : 0..Len(Tiers), min : Nat, deadline : Nat]

FillType == [user : Users \cup {Nobody}, tin : {Weth, Usdc}, tout : {Weth, Usdc},
             n : Nat, out : Nat, at : Nat]

In(a)  == GetTokenRegistry[a.req.tokenIn].address
Out(a) == GetTokenRegistry[a.req.tokenOut].address

\* A request that got past the schema is well formed.
GoodApi(a) ==
    /\ a \in ApiType
    /\ a.pc \in {"idle", "state"} => a.allowed = {} /\ a.read = {}
    /\ a.pc \in {"state", "limits", "stored"} => a.req \in Requests /\ WellFormed(a.req)

\* What an admission has read is still so.
Watched(a) ==
    /\ a.pc \in {"limits", "stored", "refused"}
    /\ a.pc # "refused" =>
          /\ ~paused
          /\ "in" \in a.allowed => In(a) \in allowedToken
          /\ "out" \in a.allowed => Out(a) \in allowedToken
          /\ "cap" \in a.read => a.cap = maxTradeAmount[In(a)]
    /\ a.pc = "stored" => "cap" \in a.read /\ WithinLimits(a)

\* The job works on the tokens and the amount that were admitted.
Converted(a, j) ==
    j.pc \in {"balance", "quote", "claim", "simulate", "send", "pending", "filled"} =>
        /\ j.n = ParseUnits(a.req.amount, GetTokenRegistry[a.req.tokenIn])
        /\ j.tin = In(a) /\ j.tout = Out(a)

\* Its parameters come from the best of its quotes, when that was fresh.
Priced(j) ==
    j.pc \in {"claim", "simulate", "send", "pending", "filled"} =>
        /\ j.tier \in TierIndex /\ j.quote[j.tier] \in Nat
        /\ \A i \in TierIndex : j.quote[i] <= j.quote[j.tier]
        /\ j.min = MinAmountOut(j.quote[j.tier])
        /\ j.deadline <= j.at[j.tier] + MaxQuoteAge + DeadlineWindow

GoodJob(a, j) ==
    /\ j \in JobType
    /\ j.pc # "idle" => a.pc = "stored"
    /\ Converted(a, j)
    /\ Priced(j)

GoodFill(a, j, f) ==
    /\ f \in FillType
    /\ j.pc = "filled" => /\ f.user = a.req.user /\ f.tin = j.tin /\ f.tout = j.tout
                          /\ f.n = j.n /\ f.out >= j.min /\ f.at <= j.deadline

Shape ==
    /\ clock \in Nat /\ maxTradeAmount \in [{Weth, Usdc} -> Nat] /\ steady \subseteq Orders
    /\ api \in [Orders -> ApiType] /\ job \in [Orders -> JobType] /\ fill \in [Orders -> FillType]

IInv ==
    /\ Shape
    /\ \A o \in Orders :
          /\ GoodApi(api[o]) /\ GoodJob(api[o], job[o])
          /\ GoodFill(api[o], job[o], fill[o])
          /\ o \in steady => Watched(api[o])

---------------------------------------------------------------------------
\* The two token tables agree, and give the tokens of a well-formed request.
LEMMA Registries ==
    /\ TokenRegistry = GetTokenRegistry
    /\ \A s \in DOMAIN GetTokenRegistry : /\ GetTokenRegistry[s].address \in {Weth, Usdc}
                                          /\ GetTokenRegistry[s].unit \in {1, 10}
  BY SameAddresses DEF TokenRegistry, GetTokenRegistry

\* What the schema and the token table give for a request that got past them.
LEMMA RequestFacts ==
    ASSUME NEW a, GoodApi(a), a.pc \in {"state", "limits", "stored"}
    PROVE  /\ a.req.user \in Users /\ a.req.amount \in Nat
           /\ In(a) \in {Weth, Usdc} /\ Out(a) \in {Weth, Usdc} /\ In(a) # Out(a)
           /\ GetTokenRegistry[a.req.tokenIn].unit \in {1, 10}
           /\ ParseUnits(a.req.amount, GetTokenRegistry[a.req.tokenIn]) \in Nat
<1>1. a.req \in Requests /\ WellFormed(a.req)
  BY DEF GoodApi
<1>2. a.req.user \in Users /\ a.req.amount \in Nat
  BY <1>1, TradeAssumption
<1>3. a.req.tokenIn \in DOMAIN GetTokenRegistry /\ a.req.tokenOut \in DOMAIN GetTokenRegistry
  BY <1>1 DEF WellFormed
<1>4. In(a) # Out(a)
  BY <1>1 DEF WellFormed, In, Out
<1>5. /\ In(a) \in {Weth, Usdc} /\ Out(a) \in {Weth, Usdc}
      /\ GetTokenRegistry[a.req.tokenIn].unit \in {1, 10}
  BY <1>3, Registries DEF In, Out
<1>6. ParseUnits(a.req.amount, GetTokenRegistry[a.req.tokenIn]) \in Nat
  BY <1>2, <1>5, ParseBound
<1> QED
  BY <1>2, <1>4, <1>5, <1>6

\* A step of the job is right if the job it leaves is.
LEMMA JobKeeps ==
    ASSUME IInv, NEW o \in Orders, NEW next, JobStep(o, next),
           GoodJob(api[o], next), next.pc # "filled"
    PROVE  IInv'
<1>1. UNCHANGED <<clock, maxTradeAmount, paused, allowedToken, steady, api, fill>>
  BY DEF JobStep, vault
<1>2. job' = [job EXCEPT ![o] = next] /\ next \in JobType
  BY DEF JobStep, GoodJob
<1>3. Shape'
  BY <1>1, <1>2 DEF IInv, Shape
<1>4. ASSUME NEW p \in Orders
      PROVE  /\ GoodApi(api[p])' /\ GoodJob(api[p], job[p])' /\ GoodFill(api[p], job[p], fill[p])'
             /\ (p \in steady => Watched(api[p]))'
  <2>1. job'[p] = (IF p = o THEN next ELSE job[p])
    BY <1>2 DEF IInv, Shape
  <2>2. GoodJob(api[p], job'[p])
    BY <2>1 DEF IInv
  <2>3. GoodFill(api[p], job'[p], fill[p])
    BY <2>1 DEF IInv, GoodFill
  <2>4. GoodApi(api[p]) /\ (p \in steady => Watched(api[p]))
    BY DEF IInv
  <2> QED
    BY <1>1, <2>2, <2>3, <2>4 DEF GoodApi, GoodJob, GoodFill, Watched, Converted, Priced
<1> QED
  BY <1>3, <1>4 DEF IInv

\* Giving an order up, in any phase, is right.
LEMMA FailKeeps ==
    ASSUME IInv, NEW o \in Orders, Fail(o), job[o].pc # "idle"
    PROVE  IInv'
<1> DEFINE next == [job[o] EXCEPT !.pc = "failed"]
<1>1. GoodJob(api[o], job[o])
  BY DEF IInv
<1>2. next.pc = "failed" /\ next \in JobType
  BY <1>1 DEF GoodJob, JobType
<1>3. GoodJob(api[o], next)
  BY <1>1, <1>2 DEF GoodJob, Converted, Priced
<1>4. JobStep(o, next)
  BY DEF Fail
<1> HIDE DEF next
<1> QED
  BY <1>2, <1>3, <1>4, JobKeeps

\* A step of the admission is right if what it leaves is.
LEMMA AdmissionKeeps ==
    ASSUME IInv, NEW o \in Orders, NEW next, AdmissionStep(o, next), api[o].pc # "stored",
           GoodApi(next), steady' \subseteq Orders,
           \A p \in Orders : p \in steady' => p = o \/ p \in steady,
           o \in steady' => Watched(next)
    PROVE  IInv'
<1>1. UNCHANGED <<clock, maxTradeAmount, paused, allowedToken, job, fill>>
  BY DEF AdmissionStep, vault
<1>2. api' = [api EXCEPT ![o] = next] /\ next \in ApiType
  BY DEF AdmissionStep, GoodApi
<1>3. Shape'
  BY <1>1, <1>2 DEF IInv, Shape
<1>4. ASSUME NEW p \in Orders
      PROVE  /\ GoodApi(api[p])' /\ GoodJob(api[p], job[p])' /\ GoodFill(api[p], job[p], fill[p])'
             /\ (p \in steady => Watched(api[p]))'
  <2>1. api'[p] = (IF p = o THEN next ELSE api[p])
    BY <1>2 DEF IInv, Shape
  <2>2. p = o => job[p].pc = "idle"
    BY DEF IInv, GoodJob
  <2>3. GoodJob(api'[p], job[p])
    BY <2>1, <2>2 DEF IInv, GoodJob, Converted, Priced
  <2>4. GoodFill(api'[p], job[p], fill[p])
    BY <2>1, <2>2 DEF IInv, GoodFill
  <2>5. GoodApi(api'[p]) /\ (p \in steady' => Watched(api'[p]))
    BY <2>1 DEF IInv
  <2> QED
    BY <1>1, <2>3, <2>4, <2>5 DEF GoodApi, GoodJob, GoodFill, Watched, Converted, Priced
<1> QED
  BY <1>3, <1>4 DEF IInv

---------------------------------------------------------------------------
(* The steps of the admission. *)

\* The initial states satisfy the invariant.
LEMMA InitHolds ==
    ASSUME Init
    PROVE  IInv
<1>1. clock \in Nat /\ maxTradeAmount \in [{Weth, Usdc} -> Nat] /\ steady = {}
  BY TradeAssumption DEF Init
<1>2. NoAdmission \in ApiType
  BY DEF NoAdmission, ApiType
<1>3. [i \in 1..Len(Tiers) |-> Unread] \in [TierIndex -> Outs \cup {Unread, Dead}]
  BY DEF TierIndex
<1>4. [i \in 1..Len(Tiers) |-> 0] \in [TierIndex -> Nat]
  BY DEF TierIndex
<1>5. NoJob \in JobType
  BY <1>3, <1>4, ConfigFacts DEF NoJob, JobType
<1>6. NoFill \in FillType
  BY DEF NoFill, FillType
<1>7. Shape
  BY <1>1, <1>2, <1>5, <1>6 DEF Shape, Init
<1>8. GoodApi(NoAdmission)
  BY <1>2 DEF GoodApi, NoAdmission
<1>9. GoodJob(NoAdmission, NoJob)
  BY <1>5 DEF GoodJob, Converted, Priced, NoJob
<1>10. GoodFill(NoAdmission, NoJob, NoFill)
  BY <1>6 DEF GoodFill, NoJob
<1>11. \A o \in Orders : api[o] = NoAdmission /\ job[o] = NoJob /\ fill[o] = NoFill
  BY DEF Init
<1> QED
  BY <1>1, <1>7, <1>8, <1>9, <1>10, <1>11 DEF IInv

\* createOrder, up to its first read of the contract.
LEMMA CreateOrderKeeps ==
    ASSUME IInv, NEW o \in Orders, NEW r \in Requests, CreateOrder(o, r)
    PROVE  IInv'
<1> DEFINE next == [api[o] EXCEPT !.req = r, !.pc = IF WellFormed(r) THEN "state" ELSE "refused"]
<1>1. api[o].pc = "idle" /\ AdmissionStep(o, next) /\ steady' = steady
  BY DEF CreateOrder
<1>2. GoodApi(api[o]) /\ o \notin steady
  BY <1>1 DEF IInv, Watched
<1>3. next \in ApiType
  BY <1>2 DEF GoodApi, ApiType
<1>4. GoodApi(next)
  BY <1>1, <1>2, <1>3 DEF GoodApi, ApiType
<1> HIDE DEF next
<1>5. steady' \subseteq Orders
  BY <1>1 DEF IInv, Shape
<1> QED
  BY <1>1, <1>2, <1>4, <1>5, AdmissionKeeps

\* createOrder's read of the pause.
LEMMA ReadStateKeeps ==
    ASSUME IInv, NEW o \in Orders, ReadState(o)
    PROVE  IInv'
<1> DEFINE next == [api[o] EXCEPT !.pc = IF paused THEN "refused" ELSE "limits"]
<1>1. api[o].pc = "state" /\ AdmissionStep(o, next) /\ steady' = steady \cup {o}
  BY DEF ReadState
<1>2. GoodApi(api[o])
  BY DEF IInv
<1>3. next \in ApiType
  BY <1>2 DEF GoodApi, ApiType
<1>4. GoodApi(next)
  BY <1>1, <1>2, <1>3 DEF GoodApi, ApiType
<1>5. Watched(next)
  BY <1>1, <1>2 DEF GoodApi, ApiType, Watched
<1> HIDE DEF next
<1>6. steady' \subseteq Orders
  BY <1>1 DEF IInv, Shape
<1> QED
  BY <1>1, <1>4, <1>5, <1>6, AdmissionKeeps

\* createOrder's three reads of the limits, in any order.
LEMMA ReadLimitKeeps ==
    ASSUME IInv, NEW o \in Orders, NEW what \in {"in", "out", "cap"}, ReadLimit(o, what)
    PROVE  IInv'
<1> DEFINE b == [api[o] EXCEPT !.read = @ \cup {what}]
           next == CASE what = "in"  -> IF TokenIn(o) \in allowedToken THEN [b EXCEPT !.allowed = @ \cup {"in"}] ELSE b
                     [] what = "out" -> IF TokenOut(o) \in allowedToken THEN [b EXCEPT !.allowed = @ \cup {"out"}] ELSE b
                     [] what = "cap" -> [b EXCEPT !.cap = maxTradeAmount[TokenIn(o)]]
<1>1. api[o].pc = "limits" /\ AdmissionStep(o, next) /\ steady' = steady
  BY DEF ReadLimit
<1>2. GoodApi(api[o]) /\ (o \in steady => Watched(api[o]))
  BY DEF IInv
<1>3. TokenIn(o) = In(api[o]) /\ TokenOut(o) = Out(api[o])
  BY DEF TokenIn, TokenOut, In, Out
<1>4. In(api[o]) \in {Weth, Usdc}
  BY <1>1, <1>2, RequestFacts
<1>5. maxTradeAmount[TokenIn(o)] \in Nat
  BY <1>3, <1>4 DEF IInv, Shape
<1>6. b \in ApiType /\ b.pc = "limits" /\ b.req = api[o].req
      /\ b.allowed = api[o].allowed /\ b.read = api[o].read \cup {what} /\ b.cap = api[o].cap
  BY <1>1, <1>2 DEF GoodApi, ApiType
<1> HIDE DEF b
<1>7. /\ next \in ApiType /\ next.pc = "limits" /\ next.req = api[o].req
      /\ "in" \in next.allowed => "in" \in api[o].allowed \/ TokenIn(o) \in allowedToken
      /\ "out" \in next.allowed => "out" \in api[o].allowed \/ TokenOut(o) \in allowedToken
      /\ "cap" \in next.read => \/ "cap" \in api[o].read /\ next.cap = api[o].cap
                               \/ next.cap = maxTradeAmount[TokenIn(o)]
  <2>1. CASE what = "in"
    BY <2>1, <1>6 DEF ApiType
  <2>2. CASE what = "out"
    BY <2>2, <1>6 DEF ApiType
  <2>3. CASE what = "cap"
    BY <2>3, <1>5, <1>6 DEF ApiType
  <2> QED
    BY <2>1, <2>2, <2>3
<1> HIDE DEF next
<1>8. GoodApi(next)
  BY <1>1, <1>2, <1>7 DEF GoodApi
<1>9. In(next) = In(api[o]) /\ Out(next) = Out(api[o])
  BY <1>7 DEF In, Out
<1>10. o \in steady => Watched(next)
  BY <1>1, <1>2, <1>3, <1>7, <1>9 DEF Watched
<1>11. steady' \subseteq Orders
  BY <1>1 DEF IInv, Shape
<1> QED
  BY <1>1, <1>8, <1>10, <1>11, AdmissionKeeps

\* createOrder's decision and insert.
LEMMA StoreOrderKeeps ==
    ASSUME IInv, NEW o \in Orders, StoreOrder(o)
    PROVE  IInv'
<1> DEFINE next == [api[o] EXCEPT !.pc = IF WithinLimits(api[o]) THEN "stored" ELSE "refused"]
<1>1. api[o].pc = "limits" /\ AdmissionStep(o, next) /\ steady' = steady
      /\ api[o].read = {"in", "out", "cap"}
  BY DEF StoreOrder
<1>2. GoodApi(api[o]) /\ (o \in steady => Watched(api[o]))
  BY DEF IInv
<1>3. next \in ApiType /\ next.req = api[o].req /\ next.allowed = api[o].allowed
      /\ next.read = api[o].read /\ next.cap = api[o].cap
      /\ next.pc = IF WithinLimits(api[o]) THEN "stored" ELSE "refused"
  BY <1>2 DEF GoodApi, ApiType
<1> HIDE DEF next
<1>4. GoodApi(next)
  BY <1>1, <1>2, <1>3 DEF GoodApi
<1>5. In(next) = In(api[o]) /\ Out(next) = Out(api[o])
  BY <1>3 DEF In, Out
<1>6. WithinLimits(next) = WithinLimits(api[o])
  BY <1>3 DEF WithinLimits
<1>7. o \in steady => Watched(next)
  BY <1>1, <1>2, <1>3, <1>5, <1>6 DEF Watched
<1>8. steady' \subseteq Orders
  BY <1>1 DEF IInv, Shape
<1> QED
  BY <1>1, <1>4, <1>7, <1>8, AdmissionKeeps

---------------------------------------------------------------------------
(* The steps of the job.  Most only move it on. *)

\* Moving on is right where nothing has to be known first.
LEMMA MoveKeeps ==
    ASSUME IInv, NEW o \in Orders, NEW pc \in {"quote", "simulate", "send", "pending", "reverted"},
           JobStep(o, [job[o] EXCEPT !.pc = pc]),
           job[o].pc \in {"balance", "quote", "claim", "simulate", "send", "pending"},
           pc \in {"simulate", "send", "pending"} => job[o].pc \in {"claim", "simulate", "send", "pending"}
    PROVE  IInv'
<1> DEFINE next == [job[o] EXCEPT !.pc = pc]
<1>1. GoodJob(api[o], job[o])
  BY DEF IInv
<1>2. next \in JobType /\ next.pc = pc /\ next.n = job[o].n /\ next.tin = job[o].tin
      /\ next.tout = job[o].tout /\ next.quote = job[o].quote /\ next.at = job[o].at
      /\ next.tier = job[o].tier /\ next.min = job[o].min /\ next.deadline = job[o].deadline
  BY <1>1 DEF GoodJob, JobType
<1> HIDE DEF next
<1>3. Converted(api[o], next)
  BY <1>1, <1>2 DEF GoodJob, Converted
<1>4. Priced(next)
  BY <1>1, <1>2 DEF GoodJob, Priced
<1>5. GoodJob(api[o], next)
  BY <1>1, <1>2, <1>3, <1>4 DEF GoodJob
<1>6. JobStep(o, next)
  BY DEF next
<1> QED
  BY <1>2, <1>5, <1>6, JobKeeps

\* executeOrder picks the order up.
LEMMA StartJobKeeps ==
    ASSUME IInv, NEW o \in Orders, StartJob(o)
    PROVE  IInv'
<1> DEFINE next == [job[o] EXCEPT !.pc = "state"]
<1>1. JobStep(o, next) /\ api[o].pc = "stored"
  BY DEF StartJob
<1>2. GoodJob(api[o], job[o])
  BY DEF IInv
<1>3. next \in JobType /\ next.pc = "state"
  BY <1>2 DEF GoodJob, JobType
<1> HIDE DEF next
<1>4. GoodJob(api[o], next)
  BY <1>1, <1>3 DEF GoodJob, Converted, Priced
<1> QED
  BY <1>1, <1>3, <1>4, JobKeeps

\* executeOrder's conversion of the symbols and the amount.
LEMMA CheckStateKeeps ==
    ASSUME IInv, NEW o \in Orders, CheckState(o)
    PROVE  IInv'
<1> DEFINE r == api[o].req
           tin == TokenRegistry[r.tokenIn]
           next == [job[o] EXCEPT !.pc = "balance", !.n = ParseUnits(r.amount, tin),
                                  !.tin = tin.address, !.tout = TokenRegistry[r.tokenOut].address]
<1>1. GoodApi(api[o]) /\ GoodJob(api[o], job[o]) /\ job[o].pc = "state"
  BY DEF IInv, CheckState, At
<1>2. api[o].pc = "stored"
  BY <1>1 DEF GoodJob
<1>3. CASE Fail(o)
  BY <1>1, <1>3, FailKeeps
<1>4. CASE JobStep(o, next)
  <2>1. /\ ParseUnits(r.amount, tin) = ParseUnits(r.amount, GetTokenRegistry[r.tokenIn])
        /\ tin.address = In(api[o]) /\ TokenRegistry[r.tokenOut].address = Out(api[o])
    BY Registries DEF In, Out
  <2>2. /\ ParseUnits(r.amount, tin) \in Nat
        /\ tin.address \in {Weth, Usdc} /\ TokenRegistry[r.tokenOut].address \in {Weth, Usdc}
    BY <1>1, <1>2, <2>1, RequestFacts
  <2> HIDE DEF tin
  <2>3. /\ next \in JobType /\ next.pc = "balance" /\ next.n = ParseUnits(r.amount, tin)
        /\ next.tin = tin.address /\ next.tout = TokenRegistry[r.tokenOut].address
    BY <1>1, <2>2 DEF GoodJob, JobType
  <2> HIDE DEF next
  <2>4. Converted(api[o], next) /\ Priced(next)
    BY <2>1, <2>3 DEF Converted, Priced
  <2>5. GoodJob(api[o], next)
    BY <1>2, <2>3, <2>4 DEF GoodJob
  <2> QED
    BY <1>4, <2>3, <2>5, JobKeeps
<1> QED
  BY <1>3, <1>4 DEF CheckState

\* The answer of one fee tier.
LEMMA QuoteTierKeeps ==
    ASSUME IInv, NEW o \in Orders, NEW i \in TierIndex, NEW out \in Outs \cup {Dead}, QuoteTier(o, i, out)
    PROVE  IInv'
<1> DEFINE next == [job[o] EXCEPT !.quote[i] = out, !.at[i] = clock]
<1>1. GoodJob(api[o], job[o]) /\ job[o].pc = "quote" /\ clock \in Nat /\ JobStep(o, next)
  BY DEF IInv, Shape, QuoteTier, At
<1>2. /\ [job[o].quote EXCEPT ![i] = out] \in [TierIndex -> Outs \cup {Unread, Dead}]
      /\ [job[o].at EXCEPT ![i] = clock] \in [TierIndex -> Nat]
  BY <1>1 DEF GoodJob, JobType
<1>3. next \in JobType /\ next.pc = "quote" /\ next.n = job[o].n /\ next.tin = job[o].tin
      /\ next.tout = job[o].tout
  BY <1>1, <1>2 DEF GoodJob, JobType
<1> HIDE DEF next
<1>4. Converted(api[o], next) /\ Priced(next)
  BY <1>1, <1>3 DEF GoodJob, Converted, Priced
<1>5. GoodJob(api[o], next)
  BY <1>1, <1>3, <1>4 DEF GoodJob
<1> QED
  BY <1>1, <1>3, <1>5, JobKeeps

\* The one step that prices the order.
LEMMA BuildKeeps ==
    ASSUME IInv, NEW o \in Orders, BuildExecutionParams(o)
    PROVE  IInv'
<1> DEFINE j == job[o]
           i == BestTier(j)
           next == [j EXCEPT !.pc = "claim", !.tier = i, !.min = MinAmountOut(j.quote[i]),
                             !.deadline = clock + DeadlineWindow]
<1>1. GoodJob(api[o], j) /\ j.pc = "quote" /\ clock \in Nat
  BY DEF IInv, Shape, BuildExecutionParams, At
<1>2. \/ Fail(o)
      \/ Usable(j) # {} /\ FreshQuote(j, i) /\ JobStep(o, next)
  BY DEF BuildExecutionParams
<1>3. CASE Fail(o)
  BY <1>1, <1>3, FailKeeps
<1>4. CASE Usable(j) # {} /\ FreshQuote(j, i) /\ JobStep(o, next)
  <2>1. j \in JobType /\ Converted(api[o], j) /\ api[o].pc = "stored"
    BY <1>1 DEF GoodJob
  <2>2. j.quote \in [TierIndex -> Outs \cup {Unread, Dead}] /\ j.at \in [TierIndex -> Nat]
    BY <2>1 DEF JobType
  <2>3. j.quote \in [TierIndex -> Int]
    <3>1. Outs \cup {Unread, Dead} \subseteq Int
      BY ConfigFacts DEF Unread, Dead
    <3> QED
      BY <2>2, <3>1
  <2>4. i \in Usable(j) /\ \A k \in Usable(j) : j.quote[i] >= j.quote[k]
    BY <1>4, <2>3, BestExists
  <2> HIDE DEF i, j
  <2>5. i \in TierIndex /\ j.quote[i] > 0
    BY <2>4 DEF Usable, TierIndex
  <2>6. j.quote[i] \in Nat /\ j.at[i] \in Nat /\ \A k \in TierIndex : j.quote[k] <= j.quote[i]
    <3>1. j.quote[i] \in Nat /\ j.at[i] \in Nat
      BY <2>2, <2>3, <2>5
    <3>2. ASSUME NEW k \in TierIndex PROVE j.quote[k] <= j.quote[i]
      <4>1. j.quote[k] \in Int
        BY <2>3
      <4>2. CASE k \in Usable(j)
        BY <2>4, <3>1, <4>1, <4>2
      <4>3. CASE k \notin Usable(j)
        BY <2>5, <3>1, <4>1, <4>3 DEF Usable, TierIndex
      <4> QED
        BY <4>2, <4>3
    <3> QED
      BY <3>1, <3>2
  <2>7. MinAmountOut(j.quote[i]) \in Nat
    BY <2>6, MinBound
  <2>8. clock + DeadlineWindow \in Nat /\ clock + DeadlineWindow <= j.at[i] + MaxQuoteAge + DeadlineWindow
    BY <1>1, <1>4, <2>6, ConfigFacts DEF FreshQuote
  <2>9. i \in 0..Len(Tiers)
    BY <2>5, ConfigFacts DEF TierIndex
  <2>10. /\ next \in JobType /\ next.pc = "claim" /\ next.n = j.n /\ next.tin = j.tin /\ next.tout = j.tout
         /\ next.quote = j.quote /\ next.at = j.at /\ next.tier = i
         /\ next.min = MinAmountOut(j.quote[i]) /\ next.deadline = clock + DeadlineWindow
    BY <2>1, <2>7, <2>8, <2>9 DEF JobType
  <2> HIDE DEF next
  <2>11. Priced(next)
    BY <2>5, <2>6, <2>8, <2>10 DEF Priced
  <2>12. Converted(api[o], next)
    BY <1>1, <2>1, <2>10 DEF Converted
  <2>13. GoodJob(api[o], next)
    BY <2>1, <2>10, <2>11, <2>12 DEF GoodJob
  <2> QED
    BY <1>4, <2>10, <2>13, JobKeeps
<1> QED
  BY <1>2, <1>3, <1>4

---------------------------------------------------------------------------
(* The chain, the clock and the limits. *)

\* executeSwap in a block.
LEMMA MineKeeps ==
    ASSUME IInv, NEW o \in Orders, NEW out \in Outs, Mine(o, out)
    PROVE  IInv'
<1> DEFINE j == job[o]
           next == [j EXCEPT !.pc = "filled"]
           f == [user |-> api[o].req.user, tin |-> j.tin, tout |-> j.tout,
                 n |-> j.n, out |-> out, at |-> clock]
<1>1. GoodApi(api[o]) /\ GoodJob(api[o], j) /\ j.pc = "pending" /\ clock \in Nat
  BY DEF IInv, Shape, Mine, At
<1>2. api[o].pc = "stored"
  BY <1>1 DEF GoodJob
<1>3. api[o].req.user \in Users
  BY <1>1, <1>2, RequestFacts
<1>4. j \in JobType
  BY <1>1 DEF GoodJob
<1>5. clock <= j.deadline
  BY <1>1, <1>4 DEF Mine, Accepts, V!SwapChecks, JobType
<1>6. UNCHANGED <<clock, maxTradeAmount, paused, allowedToken, steady, api>>
  BY DEF Mine, V!ExecuteSwap, V!limits
<1>7. out >= j.min
  BY DEF Mine, V!ExecuteSwap
<1>8. job' = [job EXCEPT ![o] = next] /\ fill' = [fill EXCEPT ![o] = f]
  BY DEF Mine, IInv, Shape
<1>9. /\ next \in JobType /\ next.pc = "filled" /\ next.n = j.n /\ next.tin = j.tin
      /\ next.tout = j.tout /\ next.quote = j.quote /\ next.at = j.at
      /\ next.tier = j.tier /\ next.min = j.min /\ next.deadline = j.deadline
  BY <1>4 DEF JobType
<1>10. f \in FillType
  BY <1>1, <1>3, <1>4, ConfigFacts DEF FillType, JobType
<1>11. GoodFill(api[o], next, f)
  BY <1>5, <1>7, <1>9, <1>10 DEF GoodFill
<1> HIDE DEF next, f
<1>12. Converted(api[o], next)
  BY <1>1, <1>9 DEF GoodJob, Converted
<1>13. Priced(next)
  BY <1>1, <1>9 DEF GoodJob, Priced
<1>14. GoodJob(api[o], next)
  BY <1>2, <1>9, <1>12, <1>13 DEF GoodJob
<1>15. Shape'
  BY <1>6, <1>8, <1>9, <1>10 DEF IInv, Shape
<1>16. ASSUME NEW p \in Orders
       PROVE  /\ GoodApi(api[p])' /\ GoodJob(api[p], job[p])' /\ GoodFill(api[p], job[p], fill[p])'
              /\ (p \in steady => Watched(api[p]))'
  <2>1. job'[p] = (IF p = o THEN next ELSE job[p]) /\ fill'[p] = (IF p = o THEN f ELSE fill[p])
    BY <1>8 DEF IInv, Shape
  <2>2. GoodJob(api[p], job'[p])
    BY <1>14, <2>1 DEF IInv
  <2>3. GoodFill(api[p], job'[p], fill'[p])
    BY <1>11, <2>1 DEF IInv
  <2>4. GoodApi(api[p]) /\ (p \in steady => Watched(api[p]))
    BY DEF IInv
  <2> QED
    BY <1>6, <2>2, <2>3, <2>4 DEF GoodApi, GoodJob, GoodFill, Watched, Converted, Priced
<1> QED
  BY <1>15, <1>16 DEF IInv

\* Whoever leaves the orders alone, and either leaves the limits alone or
\* makes every reading of them stale, breaks nothing.
LEMMA SurroundingsKeep ==
    ASSUME IInv, UNCHANGED <<api, job, fill>>, clock' \in Nat,
           maxTradeAmount' \in [{Weth, Usdc} -> Nat],
           steady' = {} \/ UNCHANGED <<steady, maxTradeAmount, paused, allowedToken>>
    PROVE  IInv'
<1>1. Shape'
  BY DEF IInv, Shape
<1>2. ASSUME NEW p \in Orders
      PROVE  /\ GoodApi(api[p])' /\ GoodJob(api[p], job[p])' /\ GoodFill(api[p], job[p], fill[p])'
             /\ (p \in steady => Watched(api[p]))'
  <2>1. GoodApi(api[p]) /\ GoodJob(api[p], job[p]) /\ GoodFill(api[p], job[p], fill[p])
        /\ (p \in steady => Watched(api[p]))
    BY DEF IInv
  <2>2. GoodApi(api[p])' /\ GoodJob(api[p], job[p])' /\ GoodFill(api[p], job[p], fill[p])'
    BY <2>1 DEF GoodApi, GoodJob, GoodFill, Converted, Priced
  <2>3. (p \in steady => Watched(api[p]))'
    BY <2>1 DEF Watched
  <2> QED
    BY <2>2, <2>3
<1> QED
  BY <1>1, <1>2 DEF IInv

\* A change of the limits, or a withdrawal.
LEMMA ChangeKeeps ==
    ASSUME IInv, Change
    PROVE  IInv'
<1>1. UNCHANGED <<clock, api, job, fill>> /\ clock' \in Nat /\ maxTradeAmount \in [{Weth, Usdc} -> Nat]
  BY DEF Change, IInv, Shape
<1>2. CASE steady' = {} /\ (V!Pause \/ V!Unpause)
  BY <1>1, <1>2, SurroundingsKeep DEF V!Pause, V!Unpause, V!limits
<1>3. ASSUME NEW t \in {Weth, Usdc}, steady' = {}, V!RemoveToken(t)
      PROVE  IInv'
  <2>1. maxTradeAmount' \in [{Weth, Usdc} -> Nat]
    BY <1>1, <1>3 DEF V!RemoveToken
  <2> QED
    BY <1>1, <1>3, <2>1, SurroundingsKeep
<1>4. ASSUME NEW t \in {Weth, Usdc}, NEW cap \in Caps, steady' = {},
             V!SetTokenAllowed(t, cap) \/ V!SetMaxTradeAmount(t, cap)
      PROVE  IInv'
  <2>1. cap \in Nat
    BY TradeAssumption
  <2>2. maxTradeAmount' \in [{Weth, Usdc} -> Nat]
    BY <1>1, <1>4, <2>1 DEF V!SetTokenAllowed, V!SetMaxTradeAmount
  <2> QED
    BY <1>1, <1>4, <2>2, SurroundingsKeep
<1>5. ASSUME NEW u \in Users, NEW t \in {Weth, Usdc}, V!Withdraw(u, t, balances[u][t]), UNCHANGED steady
      PROVE  IInv'
  <2>1. UNCHANGED <<maxTradeAmount, paused, allowedToken>>
    BY <1>5 DEF V!Withdraw, V!limits
  <2> QED
    BY <1>1, <1>5, <2>1, SurroundingsKeep
<1> QED
  BY <1>2, <1>3, <1>4, <1>5 DEF Change

\* Every step preserves the invariant.
LEMMA NextKeeps ==
    ASSUME IInv, [Next]_vars
    PROVE  IInv'
<1>1. ASSUME NEW o \in Orders, Admit(o) PROVE IInv'
  BY <1>1, CreateOrderKeeps, ReadStateKeeps, ReadLimitKeeps, StoreOrderKeeps DEF Admit
<1>2. ASSUME NEW o \in Orders, Execute(o) PROVE IInv'
  <2>1. CASE StartJob(o) \/ CheckState(o) \/ BuildExecutionParams(o)
    BY <2>1, StartJobKeeps, CheckStateKeeps, BuildKeeps
  <2>2. CASE \E i \in 1..Len(Tiers), out \in Outs \cup {Dead} : QuoteTier(o, i, out)
    BY <2>2, QuoteTierKeeps DEF TierIndex
  <2>3. CASE CheckBalance(o)
    <3>1. job[o].pc = "balance"
      BY <2>3 DEF CheckBalance, At
    <3>2. Fail(o) \/ JobStep(o, [job[o] EXCEPT !.pc = "quote"])
      BY <2>3 DEF CheckBalance
    <3> QED
      BY <3>1, <3>2, FailKeeps, MoveKeeps
  <2>4. CASE ClaimOrder(o)
    <3>1. job[o].pc = "claim" /\ JobStep(o, [job[o] EXCEPT !.pc = "simulate"])
      BY <2>4 DEF ClaimOrder, At
    <3> QED
      BY <3>1, MoveKeeps
  <2>5. CASE \E out \in Outs : Simulate(o, out)
    <3>1. job[o].pc = "simulate"
      BY <2>5 DEF Simulate, At
    <3>2. Fail(o) \/ JobStep(o, [job[o] EXCEPT !.pc = "send"])
      BY <2>5 DEF Simulate
    <3> QED
      BY <3>1, <3>2, FailKeeps, MoveKeeps
  <2>6. CASE \E fee, tip \in Fees : Send(o, fee, tip)
    <3>1. job[o].pc = "send"
      BY <2>6 DEF Send, At
    <3>2. Fail(o) \/ JobStep(o, [job[o] EXCEPT !.pc = "pending"])
      BY <2>6 DEF Send
    <3> QED
      BY <3>1, <3>2, FailKeeps, MoveKeeps
  <2>7. CASE Abandon(o)
    BY <2>7, FailKeeps DEF Abandon
  <2> QED
    BY <1>2, <2>1, <2>2, <2>3, <2>4, <2>5, <2>6, <2>7 DEF Execute
<1>3. ASSUME NEW o \in Orders, NEW out \in Outs, Revert(o, out) PROVE IInv'
  <2>1. job[o].pc = "pending" /\ JobStep(o, [job[o] EXCEPT !.pc = "reverted"])
    BY <1>3 DEF Revert, At
  <2> QED
    BY <2>1, MoveKeeps
<1>4. CASE Tick
  <2>1. UNCHANGED <<api, job, fill, steady, maxTradeAmount, paused, allowedToken>>
    BY <1>4 DEF Tick, vault
  <2>2. clock' \in Nat /\ maxTradeAmount' \in [{Weth, Usdc} -> Nat]
    BY <1>4, <2>1 DEF Tick, IInv, Shape
  <2> QED
    BY <2>1, <2>2, SurroundingsKeep
<1>5. CASE UNCHANGED vars
  <2>1. UNCHANGED <<api, job, fill, steady, clock, maxTradeAmount, paused, allowedToken>>
    BY <1>5 DEF vars, vault
  <2>2. clock' \in Nat /\ maxTradeAmount' \in [{Weth, Usdc} -> Nat]
    BY <2>1 DEF IInv, Shape
  <2> QED
    BY <2>1, <2>2, SurroundingsKeep
<1> QED
  BY <1>1, <1>2, <1>3, <1>4, <1>5, MineKeeps, ChangeKeeps DEF Next

\* Every reachable state satisfies the invariant.
THEOREM Invariance == Spec => []IInv
<1>1. Init => IInv
  BY InitHolds
<1>2. IInv /\ [Next]_vars => IInv'
  BY NextKeeps
<1> QED
  BY <1>1, <1>2, PTL DEF Spec

---------------------------------------------------------------------------
(* What it gives. *)

\* Whatever the pools, the claim, the simulation and the mempool do between
\* getQuote and the block, the router pays no less than the tolerance below
\* the best tier's quote: for every list of tiers and every tolerance.
THEOREM FillIsNearBestQuote == Spec => []FillNearBestQuote
<1>1. ASSUME IInv, NEW o \in Orders, Filled(o), NEW i \in TierIndex
      PROVE  10000 * fill[o].out > job[o].quote[i] * (10000 - SlippageBps) - 10000
  <2> DEFINE j == job[o]
             q == j.quote[j.tier]
             d == 10000 - SlippageBps
  <2>1. GoodJob(api[o], j) /\ GoodFill(api[o], j, fill[o]) /\ j.pc = "filled"
    BY <1>1 DEF IInv, Filled
  <2>2. j \in JobType /\ Priced(j) /\ fill[o] \in FillType /\ fill[o].out >= j.min
    BY <2>1 DEF GoodJob, GoodFill
  <2>3. q \in Nat /\ j.quote[i] <= q /\ j.min = MinAmountOut(q)
    BY <1>1, <2>1, <2>2 DEF Priced
  <2>4. fill[o].out \in Nat
    BY <2>2 DEF FillType
  <2>5. j.quote[i] \in Int
    <3>1. j.quote \in [TierIndex -> Outs \cup {Unread, Dead}]
      BY <2>2 DEF JobType
    <3>2. Outs \cup {Unread, Dead} \subseteq Int
      BY ConfigFacts DEF Unread, Dead
    <3> QED
      BY <1>1, <3>1, <3>2
  <2>6. 10000 * MinAmountOut(q) > q * d - 10000 /\ MinAmountOut(q) \in Nat
    BY <2>3, MinBound
  <2>7. d \in Nat
    BY ConfigFacts
  <2> HIDE DEF q, d
  <2>8. j.quote[i] * d <= q * d /\ j.quote[i] * d \in Int /\ q * d \in Int
    BY <2>3, <2>5, <2>7, ScaleMono
  <2>9. 10000 * fill[o].out > j.quote[i] * d - 10000
    BY <2>2, <2>3, <2>4, <2>6, <2>8
  <2> QED
    BY <2>9 DEF d
<1>2. IInv => FillNearBestQuote
  BY <1>1 DEF FillNearBestQuote, TierIndex
<1> QED
  BY <1>2, Invariance, PTL

\* executeSwap's deadline and the age check of buildExecutionParams bound
\* together how old the price of a fill can be: for every age and window.
THEOREM FillIsNotLate == Spec => []FillNotLate
<1>1. ASSUME IInv, NEW o \in Orders, Filled(o)
      PROVE  fill[o].at - job[o].at[job[o].tier] <= MaxQuoteAge + DeadlineWindow
  <2> DEFINE j == job[o]
  <2>1. GoodJob(api[o], j) /\ GoodFill(api[o], j, fill[o]) /\ j.pc = "filled"
    BY <1>1 DEF IInv, Filled
  <2>2. j \in JobType /\ Priced(j) /\ fill[o] \in FillType /\ fill[o].at <= j.deadline
    BY <2>1 DEF GoodJob, GoodFill
  <2>3. j.tier \in TierIndex /\ j.deadline <= j.at[j.tier] + MaxQuoteAge + DeadlineWindow
    BY <2>1, <2>2 DEF Priced
  <2>4. j.at[j.tier] \in Nat /\ j.deadline \in Nat /\ fill[o].at \in Nat
    BY <2>2, <2>3 DEF JobType, FillType
  <2>5. ASSUME NEW x \in Nat, NEW y \in Nat, NEW z \in Nat,
               x <= y, y <= z + MaxQuoteAge + DeadlineWindow
        PROVE  x - z <= MaxQuoteAge + DeadlineWindow
    BY <2>5, ConfigFacts
  <2>6. fill[o].at - j.at[j.tier] <= MaxQuoteAge + DeadlineWindow
    BY <2>2, <2>3, <2>4, <2>5
  <2> QED
    BY <2>6
<1>2. IInv => FillNotLate
  BY <1>1 DEF FillNotLate
<1> QED
  BY <1>2, Invariance, PTL

\* The executor's conversion of symbols and amount gives what the API's gave:
\* for every set of requests.
THEOREM FillIsAsAdmitted == Spec => []FilledAsAdmitted
<1>1. ASSUME IInv, NEW o \in Orders, Filled(o)
      PROVE  /\ fill[o].user = api[o].req.user
             /\ fill[o].tin = TokenIn(o) /\ fill[o].tout = TokenOut(o)
             /\ LET unit == GetTokenRegistry[api[o].req.tokenIn].unit IN
                /\ 2 * (fill[o].n * unit - api[o].req.amount) <= unit
                /\ 2 * (api[o].req.amount - fill[o].n * unit) <= unit
  <2>1. GoodApi(api[o]) /\ GoodJob(api[o], job[o]) /\ GoodFill(api[o], job[o], fill[o]) /\ job[o].pc = "filled"
    BY <1>1 DEF IInv, Filled
  <2>2. api[o].pc = "stored"
    BY <2>1 DEF GoodJob
  <2>3. /\ job[o].n = ParseUnits(api[o].req.amount, GetTokenRegistry[api[o].req.tokenIn])
        /\ job[o].tin = In(api[o]) /\ job[o].tout = Out(api[o])
    BY <2>1 DEF GoodJob, Converted
  <2>4. /\ fill[o].user = api[o].req.user /\ fill[o].n = job[o].n
        /\ fill[o].tin = job[o].tin /\ fill[o].tout = job[o].tout
    BY <2>1 DEF GoodFill
  <2>5. api[o].req.amount \in Nat /\ GetTokenRegistry[api[o].req.tokenIn].unit \in {1, 10}
    BY <2>1, <2>2, RequestFacts
  <2> DEFINE token == GetTokenRegistry[api[o].req.tokenIn]
             amount == api[o].req.amount
  <2> HIDE DEF token, amount
  <2>6. /\ 2 * (job[o].n * token.unit - amount) <= token.unit
        /\ 2 * (amount - job[o].n * token.unit) <= token.unit
    <3>1. amount \in Nat /\ token.unit \in {1, 10} /\ job[o].n = ParseUnits(amount, token)
      BY <2>3, <2>5 DEF token, amount
    <3>2. /\ 2 * (ParseUnits(amount, token) * token.unit - amount) <= token.unit
          /\ 2 * (amount - ParseUnits(amount, token) * token.unit) <= token.unit
      BY <3>1, ParseBound
    <3> QED
      BY <3>1, <3>2, Zenon
  <2>7. TokenIn(o) = In(api[o]) /\ TokenOut(o) = Out(api[o])
    BY DEF TokenIn, TokenOut, In, Out
  <2>8. /\ fill[o].user = api[o].req.user
        /\ fill[o].tin = TokenIn(o) /\ fill[o].tout = TokenOut(o)
    BY <2>3, <2>4, <2>7
  <2> QED
    BY <2>4, <2>6, <2>8, Zenon DEF token, amount
<1>2. IInv => FilledAsAdmitted
  BY <1>1 DEF FilledAsAdmitted
<1> QED
  BY <1>2, Invariance, PTL

\* The three reads of createOrder answer at different times, and still an
\* order it stores fits limits nobody has changed: for every set of limits.
THEOREM AdmissionIsWithinLimits == Spec => []AdmittedWithinLimits
<1>1. ASSUME IInv, NEW o \in steady, api[o].pc = "stored"
      PROVE  /\ ~paused
             /\ TokenIn(o) # TokenOut(o) /\ {TokenIn(o), TokenOut(o)} \subseteq allowedToken
             /\ ParseUnits(api[o].req.amount, GetTokenRegistry[api[o].req.tokenIn])
                   <= maxTradeAmount[TokenIn(o)]
  <2>1. o \in Orders
    BY <1>1 DEF IInv, Shape
  <2>2. GoodApi(api[o]) /\ Watched(api[o])
    BY <1>1, <2>1 DEF IInv
  <2>3. In(api[o]) # Out(api[o])
    BY <1>1, <2>2, RequestFacts
  <2>4. TokenIn(o) = In(api[o]) /\ TokenOut(o) = Out(api[o])
    BY DEF TokenIn, TokenOut, In, Out
  <2>5. WithinLimits(api[o]) /\ ~paused /\ api[o].cap = maxTradeAmount[In(api[o])]
        /\ ("in" \in api[o].allowed => In(api[o]) \in allowedToken)
        /\ ("out" \in api[o].allowed => Out(api[o]) \in allowedToken)
    BY <1>1, <2>2 DEF Watched
  <2>6. In(api[o]) \in allowedToken /\ Out(api[o]) \in allowedToken
    BY <2>5 DEF WithinLimits
  <2>7. ParseUnits(api[o].req.amount, GetTokenRegistry[api[o].req.tokenIn]) <= api[o].cap
    BY <2>5 DEF WithinLimits
  <2>8. {TokenIn(o), TokenOut(o)} \subseteq allowedToken
    BY <2>4, <2>6
  <2>9. ParseUnits(api[o].req.amount, GetTokenRegistry[api[o].req.tokenIn]) <= maxTradeAmount[TokenIn(o)]
    BY <2>4, <2>5, <2>7, Zenon
  <2> QED
    BY <2>3, <2>4, <2>5, <2>8, <2>9, Zenon
<1>2. IInv => AdmittedWithinLimits
  BY <1>1 DEF AdmittedWithinLimits
<1> QED
  BY <1>2, Invariance, PTL

---------------------------------------------------------------------------
(* Type correctness: what the invariant leaves to be said is how large the *)
(* numbers get, and the contract's own types.                              *)

Bounds ==
    /\ V!TypeOK
    /\ clock \in 0..MaxTime /\ changes \in 0..MaxChanges
    /\ \A o \in Orders : /\ api[o].cap <= MaxAmount /\ fill[o].at <= MaxTime
                         /\ \A i \in TierIndex : job[o].at[i] <= MaxTime

\* The contract's types depend on its own variables only.
LEMMA VaultUnchanged ==
    ASSUME V!TypeOK, UNCHANGED vault
    PROVE  V!TypeOK'
  BY DEF vault, V!TypeOK

\* A step of the job that takes no late quote is within the bounds.
LEMMA JobBounded ==
    ASSUME IInv, Bounds, NEW o \in Orders, NEW next, JobStep(o, next),
           \A i \in TierIndex : next.at[i] <= MaxTime
    PROVE  Bounds'
<1>1. UNCHANGED <<vault, clock, changes, api, fill>> /\ job' = [job EXCEPT ![o] = next]
  BY DEF JobStep
<1>2. V!TypeOK'
  BY <1>1, VaultUnchanged DEF Bounds
<1>3. \A p \in Orders : \A i \in TierIndex : job'[p].at[i] <= MaxTime
  BY <1>1 DEF IInv, Shape, Bounds
<1> QED
  BY <1>1, <1>2, <1>3 DEF Bounds

\* A step of the job that leaves the times of its quotes alone.
LEMMA JobTimesKept ==
    ASSUME IInv, Bounds, NEW o \in Orders, NEW next, JobStep(o, next), next.at = job[o].at
    PROVE  Bounds'
  BY JobBounded DEF Bounds

\* So is a step of the admission.
LEMMA AdmissionBounded ==
    ASSUME IInv, Bounds, NEW o \in Orders, NEW next, AdmissionStep(o, next), next.cap <= MaxAmount
    PROVE  Bounds'
<1>1. UNCHANGED <<vault, clock, changes, job, fill>> /\ api' = [api EXCEPT ![o] = next]
  BY DEF AdmissionStep
<1>2. V!TypeOK'
  BY <1>1, VaultUnchanged DEF Bounds
<1>3. \A p \in Orders : api'[p].cap <= MaxAmount
  BY <1>1 DEF IInv, Shape, Bounds
<1> QED
  BY <1>1, <1>2, <1>3 DEF Bounds

\* createOrder.
LEMMA AdmitBounded ==
    ASSUME IInv, Bounds, NEW o \in Orders, Admit(o)
    PROVE  Bounds'
<1>1. api[o] \in ApiType /\ api[o].cap <= MaxAmount
  BY DEF IInv, Shape, Bounds
<1>2. ASSUME NEW r \in Requests, CreateOrder(o, r) PROVE Bounds'
  <2> DEFINE next == [api[o] EXCEPT !.req = r, !.pc = IF WellFormed(r) THEN "state" ELSE "refused"]
  <2>1. AdmissionStep(o, next)
    BY <1>2 DEF CreateOrder
  <2>2. next.cap = api[o].cap
    BY <1>1 DEF ApiType
  <2> HIDE DEF next
  <2> QED
    BY <1>1, <2>1, <2>2, AdmissionBounded
<1>3. ASSUME ReadState(o) \/ StoreOrder(o) PROVE Bounds'
  <2>1. PICK pc : AdmissionStep(o, [api[o] EXCEPT !.pc = pc])
    BY <1>3 DEF ReadState, StoreOrder
  <2>2. [api[o] EXCEPT !.pc = pc].cap = api[o].cap
    BY <1>1 DEF ApiType
  <2> QED
    BY <1>1, <2>1, <2>2, AdmissionBounded
<1>4. ASSUME NEW what \in {"in", "out", "cap"}, ReadLimit(o, what) PROVE Bounds'
  <2> DEFINE b == [api[o] EXCEPT !.read = @ \cup {what}]
             next == CASE what = "in"  -> IF TokenIn(o) \in allowedToken THEN [b EXCEPT !.allowed = @ \cup {"in"}] ELSE b
                       [] what = "out" -> IF TokenOut(o) \in allowedToken THEN [b EXCEPT !.allowed = @ \cup {"out"}] ELSE b
                       [] what = "cap" -> [b EXCEPT !.cap = maxTradeAmount[TokenIn(o)]]
  <2>1. AdmissionStep(o, next) /\ api[o].pc = "limits"
    BY <1>4 DEF ReadLimit
  <2>2. b \in ApiType /\ b.cap = api[o].cap
    BY <1>1 DEF ApiType
  <2>3. GoodApi(api[o]) /\ TokenIn(o) = In(api[o])
    BY DEF IInv, TokenIn, In
  <2>4. TokenIn(o) \in {Weth, Usdc}
    BY <2>1, <2>3, RequestFacts
  <2>5. maxTradeAmount[TokenIn(o)] <= MaxAmount
    BY <2>4, TradeAssumption DEF Bounds, V!TypeOK
  <2> HIDE DEF b
  <2>6. next.cap <= MaxAmount
    <3>1. CASE what = "in"
      BY <3>1, <1>1, <2>2 DEF ApiType
    <3>2. CASE what = "out"
      BY <3>2, <1>1, <2>2 DEF ApiType
    <3>3. CASE what = "cap"
      BY <3>3, <2>2, <2>5 DEF ApiType
    <3> QED
      BY <3>1, <3>2, <3>3
  <2> HIDE DEF next
  <2> QED
    BY <2>1, <2>6, AdmissionBounded
<1> QED
  BY <1>2, <1>3, <1>4 DEF Admit

\* executeOrder.
LEMMA ExecuteBounded ==
    ASSUME IInv, Bounds, NEW o \in Orders,
           Execute(o) \/ \E out \in Outs : Revert(o, out)
    PROVE  Bounds'
<1>1. job[o] \in JobType /\ clock \in 0..MaxTime /\ clock \in Nat
  BY DEF IInv, Shape, Bounds
<1>2. ASSUME NEW pc, JobStep(o, [job[o] EXCEPT !.pc = pc]) PROVE Bounds'
  <2>1. [job[o] EXCEPT !.pc = pc].at = job[o].at
    BY <1>1 DEF JobType
  <2> QED
    BY <1>2, <2>1, JobTimesKept
<1>3. ASSUME \/ StartJob(o) \/ CheckBalance(o) \/ ClaimOrder(o) \/ Abandon(o)
             \/ \E out \in Outs : Simulate(o, out) \/ Revert(o, out)
             \/ \E fee, tip \in Fees : Send(o, fee, tip)
      PROVE  Bounds'
  <2>1. \E pc : JobStep(o, [job[o] EXCEPT !.pc = pc])
    BY <1>3 DEF StartJob, CheckBalance, ClaimOrder, Abandon, Simulate, Revert, Send, Fail
  <2> QED
    BY <1>2, <2>1
<1>4. ASSUME CheckState(o) PROVE Bounds'
  <2> DEFINE r == api[o].req
             tin == TokenRegistry[r.tokenIn]
             next == [job[o] EXCEPT !.pc = "balance", !.n = ParseUnits(r.amount, tin),
                                    !.tin = tin.address, !.tout = TokenRegistry[r.tokenOut].address]
  <2>1. JobStep(o, [job[o] EXCEPT !.pc = "failed"]) \/ JobStep(o, next)
    BY <1>4 DEF CheckState, Fail
  <2>2. next.at = job[o].at
    BY <1>1 DEF JobType
  <2> HIDE DEF next
  <2> QED
    BY <1>2, <2>1, <2>2, JobTimesKept
<1>5. ASSUME NEW i \in TierIndex, NEW out \in Outs \cup {Dead}, QuoteTier(o, i, out) PROVE Bounds'
  <2> DEFINE next == [job[o] EXCEPT !.quote[i] = out, !.at[i] = clock]
  <2>1. JobStep(o, next)
    BY <1>5 DEF QuoteTier
  <2>2. next.at = [job[o].at EXCEPT ![i] = clock] /\ job[o].at \in [TierIndex -> Nat]
    BY <1>1 DEF JobType
  <2>3. \A k \in TierIndex : next.at[k] <= MaxTime
    <3> HIDE DEF next
    <3> QED
      BY <1>1, <2>2, ConfigFacts DEF Bounds
  <2> HIDE DEF next
  <2> QED
    BY <2>1, <2>3, JobBounded
<1>6. ASSUME BuildExecutionParams(o) PROVE Bounds'
  <2> DEFINE j == job[o]
             i == BestTier(j)
             next == [j EXCEPT !.pc = "claim", !.tier = i, !.min = MinAmountOut(j.quote[i]),
                               !.deadline = clock + DeadlineWindow]
  <2>1. JobStep(o, [job[o] EXCEPT !.pc = "failed"]) \/ JobStep(o, next)
    BY <1>6 DEF BuildExecutionParams, Fail
  <2>2. next.at = job[o].at
    BY <1>1 DEF JobType
  <2> HIDE DEF next
  <2> QED
    BY <1>2, <2>1, <2>2, JobTimesKept
<1> QED
  BY <1>3, <1>4, <1>5, <1>6 DEF Execute, TierIndex

\* executeSwap debits what is there and pays what it credits.
LEMMA MineBounded ==
    ASSUME IInv, Bounds, NEW o \in Orders, NEW out \in Outs, Mine(o, out)
    PROVE  Bounds'
<1> DEFINE j == job[o]
           u == api[o].req.user
           f == [user |-> u, tin |-> j.tin, tout |-> j.tout, n |-> j.n, out |-> out, at |-> clock]
<1>1. GoodApi(api[o]) /\ GoodJob(api[o], j) /\ j.pc = "pending" /\ clock \in 0..MaxTime
  BY DEF IInv, Bounds, Mine, At
<1>2. u \in Users
  <2>1. api[o].pc = "stored"
    BY <1>1 DEF GoodJob
  <2> QED
    BY <1>1, <2>1, RequestFacts
<1>3. j.tin \in {Weth, Usdc} /\ j.tout \in {Weth, Usdc} /\ j.n \in Nat /\ out \in Nat /\ j \in JobType
  BY <1>1, ConfigFacts DEF GoodJob, JobType
<1>4. /\ UNCHANGED <<clock, changes, api>>
      /\ job' = [job EXCEPT ![o].pc = "filled"] /\ fill' = [fill EXCEPT ![o] = f]
      /\ V!ExecuteSwap(executor, o, u, j.tin, j.tout, j.n, j.min, FALSE, j.n, out)
  BY DEF Mine
<1> HIDE DEF u, j
<1>5. V!TypeOK'
  <2>1. balances' \in [Users -> [{Weth, Usdc} -> Nat]]
    BY <1>2, <1>3, <1>4 DEF Bounds, V!TypeOK, V!ExecuteSwap, V!SwapChecks
  <2>2. totalAccounted' \in [{Weth, Usdc} -> Nat]
    BY <1>2, <1>3, <1>4 DEF Bounds, V!TypeOK, V!ExecuteSwap, V!SwapChecks
  <2>3. held' \in [{Weth, Usdc} -> Nat]
    BY <1>2, <1>3, <1>4 DEF Bounds, V!TypeOK, V!ExecuteSwap, V!SwapChecks
  <2>4. executedIds' \subseteq Orders /\ swaps' \in [Orders -> Nat]
    BY <1>4 DEF Bounds, V!TypeOK, V!ExecuteSwap
  <2>5. UNCHANGED <<allowedToken, maxTradeAmount, executor, executorRole, paused>>
    BY <1>4 DEF V!ExecuteSwap, V!limits, V!roles
  <2> QED
    BY <2>1, <2>2, <2>3, <2>4, <2>5 DEF Bounds, V!TypeOK
<1>6. f.at <= MaxTime
  BY <1>1, ConfigFacts
<1> HIDE DEF f
<1>7. \A p \in Orders : fill'[p].at <= MaxTime
  BY <1>4, <1>6 DEF IInv, Shape, Bounds
<1>8. \A p \in Orders : \A i \in TierIndex : job'[p].at[i] <= MaxTime
  <2> DEFINE next == [job[o] EXCEPT !.pc = "filled"]
  <2>1. next.at = job[o].at /\ job' = [job EXCEPT ![o] = next]
    BY <1>4 DEF IInv, Shape, JobType
  <2> HIDE DEF next
  <2> QED
    BY <2>1 DEF IInv, Shape, Bounds
<1> QED
  BY <1>4, <1>5, <1>7, <1>8 DEF Bounds

\* What the surroundings change stays within its bounds.
LEMMA SurroundingsBounded ==
    ASSUME IInv, Bounds, Tick \/ Change \/ UNCHANGED vars
    PROVE  Bounds'
<1>1. UNCHANGED <<api, job, fill>>
  BY DEF Tick, Change, vars
<1>2. clock' \in 0..MaxTime /\ changes' \in 0..MaxChanges
  <2>1. MaxTime \in Nat /\ MaxChanges \in Nat
    BY TradeAssumption
  <2> QED
    BY <2>1 DEF Tick, Change, vars, Bounds
<1>3. V!TypeOK'
  <2>1. V!TypeOK
    BY DEF Bounds
  <2>2. CASE Tick \/ UNCHANGED vars
    BY <2>1, <2>2, VaultUnchanged DEF Tick, vars
  <2>3. ASSUME V!Pause \/ V!Unpause PROVE V!TypeOK'
    BY <2>1, <2>3 DEF V!TypeOK, V!Pause, V!Unpause, V!ledger, V!limits, V!replay, V!roles
  <2>4. ASSUME NEW t \in {Weth, Usdc}, V!RemoveToken(t) PROVE V!TypeOK'
    <3>1. 0 \in 0..MaxAmount
      BY TradeAssumption
    <3>2. maxTradeAmount' \in [{Weth, Usdc} -> 0..MaxAmount] /\ allowedToken' \subseteq {Weth, Usdc}
      BY <2>1, <2>4, <3>1 DEF V!TypeOK, V!RemoveToken
    <3>3. UNCHANGED <<balances, totalAccounted, held, executedIds, swaps, executor, executorRole, paused>>
      BY <2>4 DEF V!RemoveToken, V!ledger, V!replay, V!roles
    <3> QED
      BY <2>1, <3>2, <3>3 DEF V!TypeOK
  <2>5. ASSUME NEW t \in {Weth, Usdc}, NEW cap \in Caps, V!SetTokenAllowed(t, cap) \/ V!SetMaxTradeAmount(t, cap)
        PROVE  V!TypeOK'
    <3>1. cap \in 0..MaxAmount
      BY TradeAssumption
    <3> QED
      BY <2>1, <2>5, <3>1 DEF V!TypeOK, V!SetTokenAllowed, V!SetMaxTradeAmount, V!ledger, V!replay, V!roles
  <2>6. ASSUME NEW u \in Users, NEW t \in {Weth, Usdc}, V!Withdraw(u, t, balances[u][t]) PROVE V!TypeOK'
    <3> DEFINE n == balances[u][t]
    <3>1. n \in Nat
      BY <2>1 DEF V!TypeOK
    <3>2. V!Withdraw(u, t, n)
      BY <2>6
    <3> HIDE DEF n
    <3>3. balances' \in [Users -> [{Weth, Usdc} -> Nat]]
      BY <2>1, <3>1, <3>2 DEF V!TypeOK, V!Withdraw, V!Debit
    <3>4. totalAccounted' \in [{Weth, Usdc} -> Nat] /\ held' \in [{Weth, Usdc} -> Nat]
      BY <2>1, <3>1, <3>2 DEF V!TypeOK, V!Withdraw, V!Debit
    <3>5. UNCHANGED <<allowedToken, maxTradeAmount, executedIds, swaps, executor, executorRole, paused>>
      BY <3>2 DEF V!Withdraw, V!limits, V!replay, V!roles
    <3> QED
      BY <2>1, <3>3, <3>4, <3>5 DEF V!TypeOK
  <2> QED
    BY <2>2, <2>3, <2>4, <2>5, <2>6 DEF Change
<1> QED
  BY <1>1, <1>2, <1>3 DEF Bounds

\* A configured contract and nothing under way.
LEMMA BoundsInit ==
    ASSUME Init
    PROVE  Bounds
<1>1. MaxAmount \in Nat /\ MaxTime \in Nat /\ MaxChanges \in Nat /\ Caps \subseteq 0..MaxAmount
  BY TradeAssumption
<1>2. MaxAmount * Cardinality(Users) \in Nat
  <2>1. Cardinality(Users) \in Nat
    BY TradeAssumption, FS_CardinalityType
  <2> QED
    BY <1>1, <2>1
<1> DEFINE total == MaxAmount * Cardinality(Users)
<1> HIDE DEF total
<1>3. totalAccounted = [t \in {Weth, Usdc} |-> total] /\ total \in Nat
  BY <1>2 DEF Init, total
<1>4. V!TypeOK
  <2>1. balances \in [Users -> [{Weth, Usdc} -> Nat]]
    BY <1>1 DEF Init
  <2>2. totalAccounted \in [{Weth, Usdc} -> Nat] /\ held \in [{Weth, Usdc} -> Nat]
    BY <1>3 DEF Init
  <2>3. maxTradeAmount \in [{Weth, Usdc} -> 0..MaxAmount]
    BY <1>1 DEF Init
  <2>4. swaps \in [Orders -> Nat] /\ executedIds \subseteq Orders
    BY DEF Init
  <2> QED
    BY <2>1, <2>2, <2>3, <2>4 DEF Init, V!TypeOK
<1>5. \A o \in Orders : /\ api[o].cap <= MaxAmount /\ fill[o].at <= MaxTime
                        /\ \A i \in TierIndex : job[o].at[i] <= MaxTime
  BY <1>1 DEF Init, NoAdmission, NoFill, NoJob, TierIndex
<1> QED
  BY <1>1, <1>4, <1>5 DEF Init, Bounds

\* Orders, limits and the contract keep their shape: in particular no balance
\* of the vault goes below zero when it is used as the executor uses it, and
\* no record of a quote or a fill is dated in the future.
THEOREM TradePathTypeCorrect == Spec => []TypeOK
<1>1. IInv /\ Bounds /\ [Next]_vars => Bounds'
  BY AdmitBounded, ExecuteBounded, MineBounded, SurroundingsBounded DEF Next
<1>2. Init => Bounds
  BY BoundsInit
<1>3. IInv /\ Bounds => TypeOK
  <2> SUFFICES ASSUME IInv, Bounds PROVE TypeOK
    OBVIOUS
  <2>1. MaxAmount \in Nat /\ MaxTime \in Nat
    BY TradeAssumption
  <2>2. ASSUME NEW o \in Orders
        PROVE  api[o] \in [pc : {"idle", "state", "limits", "stored", "refused"},
                           req : Requests \cup {NoRequest}, allowed : SUBSET {"in", "out"},
                           read : SUBSET {"in", "out", "cap"}, cap : 0..MaxAmount]
    <3>1. api[o] \in ApiType /\ api[o].cap <= MaxAmount
      BY DEF IInv, Shape, Bounds
    <3>2. api[o].cap \in 0..MaxAmount
      BY <2>1, <3>1 DEF ApiType
    <3> QED
      BY <3>1, <3>2 DEF ApiType
  <2>3. ASSUME NEW o \in Orders
        PROVE  job[o] \in [pc : {"idle", "state", "balance", "quote", "claim", "simulate", "send",
                                 "pending", "filled", "reverted", "failed"},
                           n : Nat, tin : {Weth, Usdc}, tout : {Weth, Usdc},
                           quote : [1..Len(Tiers) -> Outs \cup {Unread, Dead}],
                           at : [1..Len(Tiers) -> 0..MaxTime], tier : 0..Len(Tiers),
                           min : Nat, deadline : Nat]
    <3>1. job[o] \in JobType
      BY DEF IInv, Shape
    <3>2. job[o].at \in [TierIndex -> Nat]
      BY <3>1 DEF JobType
    <3>3. \A i \in TierIndex : job[o].at[i] \in 0..MaxTime
      BY <2>1, <3>2 DEF Bounds
    <3>4. job[o].at \in [TierIndex -> 0..MaxTime]
      BY <3>2, <3>3
    <3> QED
      BY <3>1, <3>4 DEF JobType, TierIndex
  <2>4. ASSUME NEW o \in Orders
        PROVE  fill[o] \in [user : Users \cup {Nobody}, tin : {Weth, Usdc}, tout : {Weth, Usdc},
                            n : Nat, out : Nat, at : 0..MaxTime]
    <3>1. fill[o] \in FillType /\ fill[o].at <= MaxTime
      BY DEF IInv, Shape, Bounds
    <3>2. fill[o].at \in 0..MaxTime
      BY <2>1, <3>1 DEF FillType
    <3> QED
      BY <3>1, <3>2 DEF FillType
  <2> QED
    BY <2>2, <2>3, <2>4 DEF IInv, Shape, Bounds, TypeOK
<1> QED
  BY <1>1, <1>2, <1>3, Invariance, PTL DEF Spec

---------------------------------------------------------------------------
(* Whose money moves. *)

Parsed(o) == ParseUnits(api[o].req.amount, GetTokenRegistry[api[o].req.tokenIn])

\* One step may lower a balance like this.
Spent(u, t) ==
    \/ balances'[u][t] = 0 /\ UNCHANGED <<fill, executedIds>>
    \/ \E o \in Orders :
          /\ api[o].pc = "stored" /\ api[o].req.user = u /\ TokenIn(o) = t
          /\ o \notin executedIds /\ ~Filled(o) /\ Filled(o)'
          /\ balances[u][t] - balances'[u][t] = Parsed(o)

\* The swap of a block debits the owner of its order, by the amount of its
\* request, and credits nobody less than nothing.
LEMMA MineSpends ==
    ASSUME IInv, TypeOK, NEW o \in Orders, NEW out \in Outs, Mine(o, out),
           NEW u \in Users, NEW t \in {Weth, Usdc}, balances'[u][t] < balances[u][t]
    PROVE  Spent(u, t)
<1> DEFINE j == job[o]
           w == api[o].req.user
<1>1. GoodApi(api[o]) /\ GoodJob(api[o], j) /\ j.pc = "pending" /\ j \in JobType
  BY DEF IInv, Mine, At, GoodJob
<1>2. api[o].pc = "stored"
  BY <1>1 DEF GoodJob
<1>3. w \in Users /\ In(api[o]) # Out(api[o])
  BY <1>1, <1>2, RequestFacts
<1>4. j.n = Parsed(o) /\ j.tin = In(api[o]) /\ j.tout = Out(api[o])
  BY <1>1 DEF GoodJob, Converted, Parsed
<1>5. j.tin \in {Weth, Usdc} /\ j.tout \in {Weth, Usdc} /\ j.n \in Nat /\ out \in Nat
  BY <1>1, ConfigFacts DEF JobType
<1>6. /\ job' = [job EXCEPT ![o].pc = "filled"]
      /\ V!ExecuteSwap(executor, o, w, j.tin, j.tout, j.n, j.min, FALSE, j.n, out)
  BY DEF Mine
<1>7. job'[o].pc = "filled"
  BY <1>6 DEF IInv, Shape, JobType
<1>8. TokenIn(o) = j.tin
  BY <1>4 DEF TokenIn, In
<1> HIDE DEF w, j
<1>9. /\ balances \in [Users -> [{Weth, Usdc} -> Nat]] /\ o \notin executedIds
      /\ balances' = [balances EXCEPT ![w][j.tin] = @ - j.n, ![w][j.tout] = @ + out]
  BY <1>6 DEF TypeOK, V!TypeOK, V!ExecuteSwap, V!SwapChecks
<1>10. j.tin # j.tout
  BY <1>3, <1>4
<1>11. u = w
  BY <1>3, <1>9
<1>12. t = j.tin /\ balances'[w][j.tin] = balances[w][j.tin] - j.n
  BY <1>3, <1>5, <1>9, <1>10, <1>11
<1>13. balances[u][t] - balances'[u][t] = Parsed(o)
  <2>1. balances[w][j.tin] \in Nat
    BY <1>3, <1>5, <1>9
  <2> QED
    BY <1>4, <1>5, <1>11, <1>12, <2>1
<1>14. ~Filled(o) /\ Filled(o)'
  BY <1>1, <1>7 DEF Filled, j
<1> QED
  BY <1>2, <1>8, <1>9, <1>11, <1>12, <1>13, <1>14 DEF Spent, w

\* Of the changes only a withdrawal lowers a balance, and it is the owner's.
LEMMA ChangeSpends ==
    ASSUME TypeOK, Change, NEW u \in Users, NEW t \in {Weth, Usdc}, balances'[u][t] < balances[u][t]
    PROVE  Spent(u, t)
<1>1. balances \in [Users -> [{Weth, Usdc} -> Nat]] /\ UNCHANGED fill
  BY DEF TypeOK, V!TypeOK, Change
<1>2. balances' # balances
  BY <1>1
<1>3. PICK w \in Users, k \in {Weth, Usdc} : V!Withdraw(w, k, balances[w][k])
  BY <1>2 DEF Change, V!Pause, V!Unpause, V!RemoveToken, V!SetTokenAllowed, V!SetMaxTradeAmount, V!ledger
<1>4. /\ balances' = [balances EXCEPT ![w][k] = @ - balances[w][k]]
      /\ UNCHANGED executedIds
  BY <1>3 DEF V!Withdraw, V!Debit, V!replay
<1>5. u = w /\ t = k
  BY <1>1, <1>4
<1>6. balances'[u][t] = 0
  BY <1>1, <1>4, <1>5
<1> QED
  BY <1>1, <1>4, <1>6 DEF Spent

\* Nothing but their own orders and withdrawals spends a user's funds: a
\* balance falls when the owner takes it out, or by the amount of an order
\* that its owner had stored and that is filled now for the first time,
\* whatever was rounded, re-read or changed between the request and the block.
SpentAsOrdered ==
    [][\A u \in Users, t \in {Weth, Usdc} : balances'[u][t] < balances[u][t] =>
           \/ balances'[u][t] = 0 /\ UNCHANGED <<fill, executedIds>>
           \/ \E o \in Orders :
                  /\ api[o].pc = "stored" /\ api[o].req.user = u /\ TokenIn(o) = t
                  /\ o \notin executedIds /\ ~Filled(o) /\ Filled(o)'
                  /\ balances[u][t] - balances'[u][t] =
                        ParseUnits(api[o].req.amount, GetTokenRegistry[api[o].req.tokenIn])]_vars

\* However many orders, users and changes there are and however the awaits
\* interleave: a balance in the vault falls by its owner's withdrawal, or by
\* the amount its owner asked for in a stored order, once per order.
THEOREM FundsAreSpentAsOrdered == Spec => SpentAsOrdered
<1>1. ASSUME IInv, TypeOK, [Next]_vars, NEW u \in Users, NEW t \in {Weth, Usdc},
             balances'[u][t] < balances[u][t]
      PROVE  Spent(u, t)
  <2>1. balances' # balances
    BY <1>1 DEF TypeOK, V!TypeOK
  <2>2. ~UNCHANGED vault
    BY <2>1 DEF vault
  <2>3. ~UNCHANGED vars /\ ~Tick
    BY <2>2 DEF vars, Tick
  <2>4. ASSUME NEW o \in Orders, Admit(o) PROVE FALSE
    BY <2>2, <2>4 DEF Admit, CreateOrder, ReadState, ReadLimit, StoreOrder, AdmissionStep
  <2>5. ASSUME NEW o \in Orders, Execute(o) PROVE FALSE
    BY <2>2, <2>5 DEF Execute, StartJob, CheckState, CheckBalance, QuoteTier, BuildExecutionParams,
       ClaimOrder, Simulate, Send, Abandon, Fail, JobStep
  <2>6. ASSUME NEW o \in Orders, NEW out \in Outs, Revert(o, out) PROVE FALSE
    BY <2>2, <2>6 DEF Revert, JobStep
  <2> QED
    BY <1>1, <2>3, <2>4, <2>5, <2>6, MineSpends, ChangeSpends DEF Next
<1>2. IInv /\ TypeOK /\ [Next]_vars =>
          [\A u \in Users, t \in {Weth, Usdc} : balances'[u][t] < balances[u][t] => Spent(u, t)]_vars
  BY <1>1
<1>3. IInv /\ TypeOK /\ [Next]_vars =>
          [\A u \in Users, t \in {Weth, Usdc} : balances'[u][t] < balances[u][t] =>
               \/ balances'[u][t] = 0 /\ UNCHANGED <<fill, executedIds>>
               \/ \E o \in Orders :
                      /\ api[o].pc = "stored" /\ api[o].req.user = u /\ TokenIn(o) = t
                      /\ o \notin executedIds /\ ~Filled(o) /\ Filled(o)'
                      /\ balances[u][t] - balances'[u][t] =
                            ParseUnits(api[o].req.amount, GetTokenRegistry[api[o].req.tokenIn])]_vars
  BY <1>2 DEF Spent, Parsed
<1> QED
  BY <1>3, Invariance, TradePathTypeCorrect, PTL DEF Spec, SpentAsOrdered

---------------------------------------------------------------------------
(* The vault as the executor uses it. *)

\* The contract stays solvent and trades no order twice, and its list of
\* executed ids is the list of the orders whose job ended in a fill: neither
\* side knows of a swap that the other does not.
VaultSafe ==
    /\ V!Solvent /\ V!NoReplay
    /\ \A o \in Orders : o \in executedIds <=> Filled(o)

\* Steps that leave the contract and the fills alone.
LEMMA QuietIsSafe ==
    ASSUME VaultSafe, UNCHANGED vault, \A o \in Orders : Filled(o)' <=> Filled(o)
    PROVE  VaultSafe'
<1>1. V!Solvent' /\ V!NoReplay'
  BY DEF VaultSafe, V!Solvent, V!NoReplay, vault
<1>2. executedIds' = executedIds
  BY DEF vault
<1> QED
  BY <1>1, <1>2 DEF VaultSafe

\* A step of a job that neither starts from a fill nor ends in one.
LEMMA JobIsSafe ==
    ASSUME VaultSafe, job \in [Orders -> JobType], NEW o \in Orders, NEW next, JobStep(o, next),
           job[o].pc # "filled", next.pc # "filled"
    PROVE  VaultSafe'
<1>1. UNCHANGED vault /\ \A p \in Orders : job'[p] = IF p = o THEN next ELSE job[p]
  BY DEF JobStep
<1>2. \A p \in Orders : Filled(p)' <=> Filled(p)
  BY <1>1 DEF Filled
<1> QED
  BY <1>1, <1>2, QuietIsSafe

\* Nothing an executor does before the block touches the contract.
LEMMA ExecuteIsSafe ==
    ASSUME VaultSafe, job \in [Orders -> JobType], NEW o \in Orders, Execute(o)
    PROVE  VaultSafe'
<1>0. job[o] \in JobType
  OBVIOUS
<1>1. ASSUME Fail(o), job[o].pc # "filled" PROVE VaultSafe'
  <2>1. [job[o] EXCEPT !.pc = "failed"].pc = "failed"
    BY <1>0 DEF JobType
  <2> QED
    BY <1>1, <2>1, JobIsSafe DEF Fail
<1>2. ASSUME job[o].pc # "filled",
             \E pc \in {"state", "quote", "simulate", "send", "pending"} :
                 JobStep(o, [job[o] EXCEPT !.pc = pc])
      PROVE  VaultSafe'
  <2>1. PICK pc \in {"state", "quote", "simulate", "send", "pending"} :
            JobStep(o, [job[o] EXCEPT !.pc = pc])
    BY <1>2
  <2>2. [job[o] EXCEPT !.pc = pc].pc = pc /\ pc # "filled"
    BY <1>0 DEF JobType
  <2> QED
    BY <1>2, <2>1, <2>2, JobIsSafe
<1>3. CASE StartJob(o)
  BY <1>2, <1>3 DEF StartJob, At
<1>4. CASE CheckState(o)
  <2> DEFINE tin == TokenRegistry[api[o].req.tokenIn]
             next == [job[o] EXCEPT !.pc = "balance", !.n = ParseUnits(api[o].req.amount, tin),
                                    !.tin = tin.address,
                                    !.tout = TokenRegistry[api[o].req.tokenOut].address]
  <2>1. job[o].pc = "state" /\ (Fail(o) \/ JobStep(o, next))
    BY <1>4 DEF CheckState, At
  <2>2. next.pc = "balance"
    BY <1>0 DEF JobType
  <2> HIDE DEF next
  <2> QED
    BY <1>1, <2>1, <2>2, JobIsSafe
<1>5. CASE CheckBalance(o)
  <2>1. job[o].pc = "balance" /\ (Fail(o) \/ JobStep(o, [job[o] EXCEPT !.pc = "quote"]))
    BY <1>5 DEF CheckBalance, At
  <2> QED
    BY <1>1, <1>2, <2>1
<1>6. ASSUME NEW i \in 1..Len(Tiers), NEW out \in Outs \cup {Dead}, QuoteTier(o, i, out)
      PROVE  VaultSafe'
  <2> DEFINE next == [job[o] EXCEPT !.quote[i] = out, !.at[i] = clock]
  <2>1. job[o].pc = "quote" /\ JobStep(o, next)
    BY <1>6 DEF QuoteTier, At
  <2>2. next.pc = job[o].pc
    BY <1>0 DEF JobType
  <2> HIDE DEF next
  <2> QED
    BY <2>1, <2>2, JobIsSafe
<1>7. CASE BuildExecutionParams(o)
  <2> DEFINE i == BestTier(job[o])
             next == [job[o] EXCEPT !.pc = "claim", !.tier = i, !.min = MinAmountOut(job[o].quote[i]),
                                    !.deadline = clock + DeadlineWindow]
  <2>1. job[o].pc = "quote" /\ (Fail(o) \/ JobStep(o, next))
    BY <1>7 DEF BuildExecutionParams, At
  <2>2. next.pc = "claim"
    BY <1>0 DEF JobType
  <2> HIDE DEF next
  <2> QED
    BY <1>1, <2>1, <2>2, JobIsSafe
<1>8. CASE ClaimOrder(o)
  BY <1>2, <1>8 DEF ClaimOrder, At
<1>9. ASSUME NEW out \in Outs, Simulate(o, out) PROVE VaultSafe'
  <2>1. job[o].pc = "simulate" /\ (Fail(o) \/ JobStep(o, [job[o] EXCEPT !.pc = "send"]))
    BY <1>9 DEF Simulate, At
  <2> QED
    BY <1>1, <1>2, <2>1
<1>10. ASSUME NEW fee \in Fees, NEW tip \in Fees, Send(o, fee, tip) PROVE VaultSafe'
  <2>1. job[o].pc = "send" /\ (Fail(o) \/ JobStep(o, [job[o] EXCEPT !.pc = "pending"]))
    BY <1>10 DEF Send, At
  <2> QED
    BY <1>1, <1>2, <2>1
<1>11. CASE Abandon(o)
  BY <1>1, <1>11 DEF Abandon
<1> QED
  BY <1>3, <1>4, <1>5, <1>6, <1>7, <1>8, <1>9, <1>10, <1>11 DEF Execute

\* The block performs the swap and the job learns of it in the same step; the
\* router takes what the owner is debited.
LEMMA MineIsSafe ==
    ASSUME VaultSafe, IInv, TypeOK, NEW o \in Orders, NEW out \in Outs, Mine(o, out)
    PROVE  VaultSafe'
<1> DEFINE j == job[o]
           w == api[o].req.user
<1>1. j \in JobType /\ j.pc = "pending" /\ out \in Nat
  BY ConfigFacts DEF IInv, Shape, Mine, At
<1>2. j.tin \in {Weth, Usdc} /\ j.tout \in {Weth, Usdc} /\ j.n \in Nat
  BY <1>1 DEF JobType
<1>3. /\ job' = [job EXCEPT ![o].pc = "filled"]
      /\ V!ExecuteSwap(executor, o, w, j.tin, j.tout, j.n, j.min, FALSE, j.n, out)
  BY DEF Mine
<1>4. \A p \in Orders : Filled(p)' <=> (p = o \/ Filled(p))
  BY <1>3 DEF IInv, Shape, JobType, Filled
<1> HIDE DEF j, w
<1>5. V!Solvent'
  <2>1. /\ totalAccounted \in [{Weth, Usdc} -> Nat] /\ held \in [{Weth, Usdc} -> Nat]
        /\ totalAccounted[j.tin] >= j.n /\ held[j.tin] >= j.n /\ j.tin # j.tout
        /\ totalAccounted' = [totalAccounted EXCEPT ![j.tin] = @ - j.n, ![j.tout] = @ + out]
        /\ held' = [held EXCEPT ![j.tin] = @ - j.n, ![j.tout] = @ + out]
    BY <1>3 DEF TypeOK, V!TypeOK, V!ExecuteSwap, V!SwapChecks
  <2>2. ASSUME NEW t \in {Weth, Usdc}, held[t] >= totalAccounted[t] PROVE held'[t] >= totalAccounted'[t]
    BY <1>1, <1>2, <2>1, <2>2
  <2> QED
    BY <2>2 DEF VaultSafe, V!Solvent
<1>6. /\ o \notin executedIds /\ executedIds' = executedIds \cup {o}
      /\ swaps \in [Orders -> Nat] /\ swaps' = [swaps EXCEPT ![o] = @ + 1]
  BY <1>3 DEF TypeOK, V!TypeOK, V!ExecuteSwap, V!SwapChecks
<1>7. V!NoReplay'
  <2>1. swaps[o] = 0
    <3>1. swaps[o] \in Nat /\ swaps[o] <= 1 /\ swaps[o] # 1
      BY <1>6 DEF VaultSafe, V!NoReplay
    <3> QED
      BY <3>1
  <2>2. swaps'[o] = 1 /\ \A p \in Orders : p # o => swaps'[p] = swaps[p]
    BY <1>6, <2>1
  <2> QED
    BY <1>6, <2>2 DEF VaultSafe, V!NoReplay
<1> QED
  BY <1>4, <1>5, <1>6, <1>7 DEF VaultSafe

\* A withdrawal takes the same from the total and from the holding; the
\* admin's changes take nothing.
LEMMA ChangeIsSafe ==
    ASSUME VaultSafe, TypeOK, Change
    PROVE  VaultSafe'
<1>1. UNCHANGED job /\ \A o \in Orders : Filled(o)' <=> Filled(o)
  BY DEF Change, Filled
<1>2. ASSUME UNCHANGED <<totalAccounted, held>>, UNCHANGED <<executedIds, swaps>> PROVE VaultSafe'
  BY <1>1, <1>2 DEF VaultSafe, V!Solvent, V!NoReplay
<1>3. CASE V!Pause \/ V!Unpause
  BY <1>2, <1>3 DEF V!Pause, V!Unpause, V!ledger, V!replay
<1>4. ASSUME NEW t, V!RemoveToken(t) PROVE VaultSafe'
  BY <1>2, <1>4 DEF V!RemoveToken, V!ledger, V!replay
<1>5. ASSUME NEW t, NEW cap, V!SetTokenAllowed(t, cap) \/ V!SetMaxTradeAmount(t, cap) PROVE VaultSafe'
  BY <1>2, <1>5 DEF V!SetTokenAllowed, V!SetMaxTradeAmount, V!ledger, V!replay
<1>6. ASSUME NEW u \in Users, NEW t \in {Weth, Usdc}, V!Withdraw(u, t, balances[u][t]) PROVE VaultSafe'
  <2> DEFINE n == balances[u][t]
  <2>1. /\ n \in Nat /\ totalAccounted \in [{Weth, Usdc} -> Nat] /\ held \in [{Weth, Usdc} -> Nat]
        /\ totalAccounted' = [totalAccounted EXCEPT ![t] = @ - n]
        /\ held' = [held EXCEPT ![t] = @ - n]
        /\ UNCHANGED <<executedIds, swaps>>
    BY <1>6 DEF TypeOK, V!TypeOK, V!Withdraw, V!Debit, V!replay
  <2> HIDE DEF n
  <2>2. ASSUME NEW k \in {Weth, Usdc}, held[k] >= totalAccounted[k] PROVE held'[k] >= totalAccounted'[k]
    BY <2>1, <2>2
  <2>3. V!Solvent'
    BY <2>2 DEF VaultSafe, V!Solvent
  <2>4. V!NoReplay'
    BY <2>1 DEF VaultSafe, V!NoReplay
  <2> QED
    BY <1>1, <2>1, <2>3, <2>4 DEF VaultSafe
<1> QED
  BY <1>3, <1>4, <1>5, <1>6 DEF Change

\* In the composition the contract keeps what it promises on its own, with
\* amounts, limits and pools of any size, and agrees with the executor about
\* which orders were traded.
THEOREM VaultIsSafe == Spec => []VaultSafe
<1>1. Init => VaultSafe
  <2> SUFFICES ASSUME Init PROVE VaultSafe
    OBVIOUS
  <2>1. \A o \in Orders : ~Filled(o) /\ o \notin executedIds /\ swaps[o] = 0
    BY DEF Init, Filled, NoJob
  <2>2. V!Solvent
    <3>1. MaxAmount * Cardinality(Users) \in Nat
      BY TradeAssumption, FS_CardinalityType
    <3> QED
      BY <3>1 DEF Init, V!Solvent
  <2>3. V!NoReplay
    BY <2>1 DEF V!NoReplay
  <2> QED
    BY <2>1, <2>2, <2>3 DEF VaultSafe
<1>2. IInv /\ TypeOK /\ VaultSafe /\ [Next]_vars => VaultSafe'
  <2> SUFFICES ASSUME IInv, TypeOK, VaultSafe, [Next]_vars PROVE VaultSafe'
    OBVIOUS
  <2>1. job \in [Orders -> JobType]
    BY DEF IInv, Shape
  <2>2. ASSUME UNCHANGED <<vault, job>> PROVE VaultSafe'
    BY <2>2, QuietIsSafe DEF Filled
  <2>3. ASSUME NEW o \in Orders, Admit(o) PROVE VaultSafe'
    BY <2>2, <2>3 DEF Admit, CreateOrder, ReadState, ReadLimit, StoreOrder, AdmissionStep
  <2>4. ASSUME NEW o \in Orders, NEW out \in Outs, Revert(o, out) PROVE VaultSafe'
    <3>1. job[o].pc = "pending" /\ JobStep(o, [job[o] EXCEPT !.pc = "reverted"])
      BY <2>4 DEF Revert, At
    <3>2. [job[o] EXCEPT !.pc = "reverted"].pc = "reverted"
      BY <2>1 DEF JobType
    <3> QED
      BY <2>1, <3>1, <3>2, JobIsSafe
  <2>5. CASE Tick \/ UNCHANGED vars
    BY <2>2, <2>5 DEF Tick, vars
  <2> QED
    BY <2>1, <2>3, <2>4, <2>5, ExecuteIsSafe, MineIsSafe, ChangeIsSafe DEF Next
<1> QED
  BY <1>1, <1>2, Invariance, TradePathTypeCorrect, PTL DEF Spec
=============================================================================
