------------------------- MODULE TriggerLoop_proofs -------------------------
(***************************************************************************)
(* For any number of watchers, orders, prices and any batch size: the      *)
(* state keeps its type, an order fires at most once and only while it is  *)
(* PENDING, and it fires only on a quote that passed the guards.           *)
(***************************************************************************)
EXTENDS TriggerLoop, WellFoundedInduction, TLAPS

\* The quotient the divergence guard compares bounds the difference itself.
LEMMA QuotientBound ==
    ASSUME NEW x \in Nat, NEW a \in Nat \ {0}, NEW m \in Nat, x \div a <= m
    PROVE  x < (m + 1) * a
<1> DEFINE q == x \div a
<1>1. q \in Nat
  OBVIOUS
<1>2. x = (a * q) + (x % a) /\ (x % a) \in 0..(a - 1)
  OBVIOUS
<1>3. m - q \in Nat
  BY <1>1
<1>4. (m + 1) * a = (q * a) + ((m - q) * a) + a
  BY <1>1, <1>3
<1>5. (m - q) * a \in Nat
  BY <1>3
<1>6. a * q = q * a
  BY <1>1
<1> QED
  BY <1>1, <1>2, <1>4, <1>5, <1>6

\* assertAgreement lets through what its definition in rationals allows.
LEMMA AgreeWithin ==
    ASSUME NEW a \in Prices, NEW b \in Prices \cup {Down}, Agree(a, b)
    PROVE  b = Down \/ WithinDivergence(a, b)
<1>1. a \in Nat \ {0} /\ b \in Nat /\ MaxDivergence \in Nat
  BY TriggerAssumption DEF Down
<1>2. Distance(a, b) \in Nat
  BY <1>1 DEF Distance
<1>3. CASE b # Down
  <2>1. (Distance(a, b) * 10000) \div a <= MaxDivergence
    BY <1>3 DEF Agree, DivergenceBps
  <2>2. Distance(a, b) * 10000 \in Nat
    BY <1>2
  <2> QED
    BY <1>1, <2>1, <2>2, QuotientBound DEF WithinDivergence
<1> QED
  BY <1>3

\* Claims go through a batch from its oldest order on.
LEMMA OldestInBatch ==
    ASSUME NEW batch \in SUBSET Orders, batch # {}
    PROVE  Oldest(batch) \in batch
<1>1. batch \subseteq Nat
  BY TriggerAssumption
<1> DEFINE Less == {ss \in Nat \X Nat : ss[1] < ss[2]}
<1>2. IsWellFoundedOn(Less, Nat)
  BY NatLessThanWellFounded DEF OpToRel
<1> HIDE DEF Less
<1>3. PICK x \in batch : \A y \in batch : ~ (<<y, x>> \in Less)
  BY <1>1, <1>2, WFMin, Zenon
<1>4. \A y \in batch : x <= y
  <2> SUFFICES ASSUME NEW y \in batch PROVE ~ (y < x)
    BY <1>1
  <2>1. <<y, x>> \in Nat \X Nat
    BY <1>1
  <2> QED
    BY <2>1, <1>3 DEF Less
<1> QED
  BY <1>4 DEF Oldest

---------------------------------------------------------------------------
\* A quote past the cross-check passed it; a PENDING order never fired.
QuotesAgreed ==
    \A p \in Procs : pass[p].pc \in {"query", "claim"} =>
        Agree(pass[p].quote.price, pass[p].quote.check)

PendingUnfired == \A o \in Orders : row[o].status = "PENDING" => fires[o] = 0

IInv == TypeOK /\ QuotesAgreed /\ PendingUnfired /\ FiredOnTrustedPrice

LEMMA InitIInv == Init => IInv
<1> SUFFICES ASSUME Init PROVE IInv
  OBVIOUS
<1> USE DEF Init
<1>1. TypeOK
  <2>1. 0 \in Ages
    BY TriggerAssumption DEF Ages
  <2>2. NoQuote \in Quote
    BY DEF NoQuote, Quote, Down
  <2>3. feed \in [price : Prices \cup {0}, age : Ages, complete : BOOLEAN]
    BY <2>1
  <2>4. row \in [Orders -> RowType]
    BY TriggerAssumption DEF RowType
  <2>5. pass \in [Procs -> PassType]
    BY <2>2 DEF IdlePass, OffPass, PassType
  <2>6. \A p \in Procs : pass[p].pc \in {"off", "idle"}
    BY DEF IdlePass, OffPass
  <2> QED
    BY <2>2, <2>3, <2>4, <2>5, <2>6 DEF TypeOK
<1>2. QuotesAgreed /\ PendingUnfired /\ FiredOnTrustedPrice
  <2>1. \A p \in Procs : pass[p].pc \in {"off", "idle"}
    BY DEF IdlePass, OffPass
  <2>2. \A o \in Orders : row[o].status # "TRIGGERED"
    BY TriggerAssumption
  <2> QED BY <2>1, <2>2 DEF QuotesAgreed, PendingUnfired, FiredOnTrustedPrice
<1> QED
  BY <1>1, <1>2 DEF IInv

\* The sources and the users move nothing the invariant relates.
LEMMA EnvironmentIInv ==
    ASSUME IInv, Sources \/ \E o \in Orders : Cancel(o)
    PROVE  IInv'
<1> USE DEF IInv
<1>1. CASE Sources
  <2>1. UNCHANGED <<row, pass, fires, basis>>
    BY <1>1 DEF Sources, FeedAnswers, CrossMoves, FeedStartsRound, Tick
  <2> DEFINE Typed == /\ feed' \in [price : Prices \cup {0}, age : Ages, complete : BOOLEAN]
                      /\ cross' \in Prices \cup {Down}
  <2>2. Typed
    <3>1. ASSUME NEW x \in Prices \cup {0}, FeedAnswers(x) PROVE Typed
      BY <3>1, TriggerAssumption DEF FeedAnswers, TypeOK, Ages
    <3>2. ASSUME NEW x \in Prices \cup {Down}, CrossMoves(x) PROVE Typed
      BY <3>2 DEF CrossMoves, TypeOK
    <3>3. CASE FeedStartsRound
      BY <3>3 DEF FeedStartsRound, TypeOK
    <3>4. CASE Tick
      BY <3>4, TriggerAssumption DEF Tick, TypeOK, Ages
    <3> QED
      BY <1>1, <3>1, <3>2, <3>3, <3>4 DEF Sources
  <2>3. TypeOK'
    BY <2>1, <2>2 DEF TypeOK
  <2> QED
    BY <2>1, <2>3 DEF QuotesAgreed, PendingUnfired, FiredOnTrustedPrice, IsTriggered
<1>2. ASSUME NEW o \in Orders, Cancel(o) PROVE IInv'
  <2>1. UNCHANGED <<feed, cross, pass, fires, basis>>
        /\ row' = [row EXCEPT ![o].status = "CANCELLED"]
    BY <1>2 DEF Cancel
  <2>2. TypeOK'
    BY <2>1 DEF TypeOK, RowType
  <2>3. PendingUnfired' /\ QuotesAgreed'
    BY <2>1 DEF TypeOK, RowType, PendingUnfired, QuotesAgreed
  <2>4. FiredOnTrustedPrice'
    BY <2>1 DEF TypeOK, RowType, FiredOnTrustedPrice, IsTriggered
  <2> QED
    BY <2>2, <2>3, <2>4
<1> QED
  BY <1>1, <1>2

\* A step of a pass that writes nothing but the pass.
LEMMA ReadingIInv ==
    ASSUME IInv, NEW p \in Procs, UNCHANGED <<feed, cross, row, fires, basis>>,
           NEW next \in PassType,
           pass' = [pass EXCEPT ![p] = next],
           next.pc \notin {"off", "idle"} => next.quote.price \in Prices,
           next.pc \in {"query", "claim"} => Agree(next.quote.price, next.quote.check)
    PROVE  IInv'
<1>1. TypeOK'
  BY DEF IInv, TypeOK
<1>2. QuotesAgreed'
  BY DEF IInv, TypeOK, QuotesAgreed
<1>3. PendingUnfired' /\ FiredOnTrustedPrice'
  BY DEF IInv, PendingUnfired, FiredOnTrustedPrice, IsTriggered
<1> QED
  BY <1>1, <1>2, <1>3 DEF IInv

\* What a won or lost claim does.
LEMMA ClaimIInv ==
    ASSUME IInv, NEW p \in Procs, Claim(p)
    PROVE  IInv'
<1> DEFINE o == Oldest(pass[p].batch)
<1>1. pass[p].batch \in SUBSET Orders /\ pass[p].batch # {}
  BY DEF IInv, TypeOK, PassType, Claim
<1>2. o \in Orders
  BY <1>1, OldestInBatch
<1>3. pass' = [pass EXCEPT ![p].batch = @ \ {o}] /\ UNCHANGED <<feed, cross>>
      /\ pass[p].pc = "claim"
  BY DEF Claim, At
<1>4. /\ pass' \in [Procs -> PassType]
      /\ \A q \in Procs : pass'[q].pc = pass[q].pc /\ pass'[q].quote = pass[q].quote
  BY <1>3 DEF IInv, TypeOK, PassType
<1>5. QuotesAgreed'
  BY <1>4 DEF IInv, QuotesAgreed
<1>6. \A q \in Procs : pass'[q].pc \notin {"off", "idle"} => pass'[q].quote.price \in Prices
  BY <1>4 DEF IInv, TypeOK
<1> HIDE DEF o
<1>7. CASE UNCHANGED <<row, fires, basis>>
  BY <1>3, <1>4, <1>5, <1>6, <1>7
  DEF IInv, TypeOK, PendingUnfired, FiredOnTrustedPrice, IsTriggered
<1>8. CASE /\ row[o].status = "PENDING" /\ IsTriggered(o, pass[p].quote.price)
           /\ row' = [row EXCEPT ![o].status = "TRIGGERED"]
           /\ fires' = [fires EXCEPT ![o] = @ + 1]
           /\ basis' = [basis EXCEPT ![o] = pass[p].quote]
  <2>1. TypeOK'
    <3>1. row' \in [Orders -> RowType]
      BY <1>2, <1>8 DEF IInv, TypeOK, RowType
    <3>2. pass[p].quote \in Quote
      BY DEF IInv, TypeOK, PassType
    <3>3. fires' \in [Orders -> Nat] /\ basis' \in [Orders -> Quote]
      BY <1>2, <1>8, <3>2 DEF IInv, TypeOK
    <3> QED
      BY <1>3, <1>4, <1>6, <3>1, <3>3 DEF IInv, TypeOK
  <2>2. PendingUnfired'
    BY <1>2, <1>8 DEF IInv, TypeOK, RowType, PendingUnfired
  <2>3. pass[p].quote \in Quote /\ pass[p].quote.price \in Prices
        /\ Agree(pass[p].quote.price, pass[p].quote.check)
    BY <1>3 DEF IInv, TypeOK, PassType, QuotesAgreed
  <2>4. \/ pass[p].quote.check = Down
        \/ WithinDivergence(pass[p].quote.price, pass[p].quote.check)
    BY <2>3, AgreeWithin DEF Quote
  <2>5. FiredOnTrustedPrice'
    <3> SUFFICES ASSUME NEW r \in Orders, row'[r].status = "TRIGGERED"
                 PROVE  /\ IsTriggered(r, basis[r].price)'
                        /\ basis'[r].check = Down
                           \/ WithinDivergence(basis'[r].price, basis'[r].check)
      BY DEF FiredOnTrustedPrice
    <3>1. CASE r = o
      BY <1>2, <1>8, <2>4, <3>1 DEF IInv, TypeOK, RowType, IsTriggered
    <3>2. CASE r # o
      BY <1>2, <1>8, <3>2 DEF IInv, TypeOK, RowType, FiredOnTrustedPrice, IsTriggered
    <3> QED
      BY <3>1, <3>2
  <2> QED
    BY <1>5, <2>1, <2>2, <2>5 DEF IInv
<1> QED
  BY <1>7, <1>8 DEF Claim, o

LEMMA NextIInv ==
    ASSUME IInv, Next
    PROVE  IInv'
<1>1. CASE Sources \/ \E o \in Orders : Cancel(o)
  BY <1>1, EnvironmentIInv
<1>2. ASSUME NEW p \in Procs, Pass(p) \/ PassFails(p) PROVE IInv'
  <2> DEFINE Checked(next) == /\ next \in PassType
                              /\ next.pc \notin {"off", "idle"} => next.quote.price \in Prices
                              /\ next.pc \in {"query", "claim"} =>
                                     Agree(next.quote.price, next.quote.check)
  <2>0. /\ pass[p] \in PassType /\ pass \in [Procs -> PassType]
        /\ pass[p].pc \notin {"off", "idle"} => pass[p].quote.price \in Prices
        /\ pass[p].pc \in {"query", "claim"} => Agree(pass[p].quote.price, pass[p].quote.check)
    BY DEF IInv, TypeOK, QuotesAgreed
  <2>1. ASSUME NEW next, Checked(next), pass' = [pass EXCEPT ![p] = next],
               UNCHANGED <<feed, cross, row, fires, basis>>
        PROVE  IInv'
    BY <2>1, ReadingIInv
  <2>2. Checked(IdlePass)
    BY DEF IdlePass, PassType, NoQuote, Quote, Down
  <2>3. CASE FetchPrimary(p)
    <3> DEFINE next == [pass[p] EXCEPT !.pc = "check", !.quote.price = feed.price]
    <3>1. feed.price \in Prices
      BY <2>3, TriggerAssumption DEF FetchPrimary, FeedUsable, IInv, TypeOK
    <3>2. Checked(next)
      BY <2>0, <3>1 DEF Quote, PassType
    <3>3. pass' = [pass EXCEPT ![p] = next]
      BY <2>0, <2>3 DEF FetchPrimary, PassType
    <3>4. UNCHANGED <<feed, cross, row, fires, basis>>
      BY <2>3 DEF FetchPrimary
    <3> QED
      BY <3>2, <3>3, <3>4, <2>1
  <2>4. CASE CrossCheck(p)
    <3> DEFINE next == [pass[p] EXCEPT !.pc = "query", !.quote.check = cross]
    <3>1. UNCHANGED <<feed, cross, row, fires, basis>>
      BY <2>4 DEF CrossCheck
    <3>2. CASE Agree(pass[p].quote.price, cross)
      <4>1. cross \in Prices \cup {Down} /\ pass[p].pc = "check"
        BY <2>4 DEF CrossCheck, At, IInv, TypeOK
      <4>2. Checked(next)
        BY <2>0, <3>2, <4>1 DEF Quote, PassType
      <4>3. pass' = [pass EXCEPT ![p] = next]
        BY <2>0, <2>4, <3>2 DEF CrossCheck, PassType
      <4> QED
        BY <4>2, <4>3, <3>1, <2>1
    <3>3. CASE ~Agree(pass[p].quote.price, cross)
      <4>1. pass' = [pass EXCEPT ![p] = IdlePass]
        BY <2>4, <3>3 DEF CrossCheck
      <4> QED
        BY <4>1, <3>1, <2>1, <2>2
    <3> QED
      BY <3>2, <3>3
  <2>5. CASE Candidates(p)
    <3> DEFINE batch == FindTriggerable(pass[p].quote.price)
               next == [pass[p] EXCEPT !.pc = "claim", !.batch = batch]
    <3>1. batch \in SUBSET Orders
      BY DEF FindTriggerable, Triggerable
    <3>2. pass' = [pass EXCEPT ![p] = next] /\ pass[p].pc = "query"
      BY <2>0, <2>5 DEF Candidates, At, PassType
    <3>3. UNCHANGED <<feed, cross, row, fires, basis>>
      BY <2>5 DEF Candidates
    <3> HIDE DEF batch
    <3>4. Checked(next)
      BY <2>0, <3>1, <3>2 DEF PassType
    <3> QED
      BY <3>2, <3>3, <3>4, <2>1
  <2>6. CASE Claim(p)
    BY <2>6, ClaimIInv
  <2>7. CASE PassEnds(p) \/ PassFails(p)
    <3>1. pass' = [pass EXCEPT ![p] = IdlePass] /\ UNCHANGED <<feed, cross, row, fires, basis>>
      BY <2>7 DEF PassEnds, PassFails
    <3> QED
      BY <3>1, <2>1, <2>2
  <2> QED
    BY <1>2, <2>3, <2>4, <2>5, <2>6, <2>7 DEF Pass
<1> QED
  BY <1>1, <1>2 DEF Next

LEMMA Invariance == Spec => []IInv
<1>1. ASSUME IInv, UNCHANGED vars PROVE IInv'
  BY <1>1 DEF IInv, vars, TypeOK, QuotesAgreed, PendingUnfired, FiredOnTrustedPrice, IsTriggered
<1> QED
  BY InitIInv, NextIInv, <1>1, PTL DEF Spec

\* The watchers' state keeps its type, and a pass under way has a price.
THEOREM TypeCorrect == Spec => []TypeOK
  BY Invariance, PTL DEF IInv

\* Whatever the number of watchers and however the feeds move between the
\* awaits of a pass, an order fires only on a quote that reaches its trigger
\* and that assertAgreement let through; the integer division of the guard
\* admits nothing the rational bound would refuse.
THEOREM TrustedPrice == Spec => []FiredOnTrustedPrice
  BY Invariance, PTL DEF IInv

\* No order fires twice, and none that is not PENDING fires: the status
\* compare-and-swap of TriggerEngine.claim alone ensures it, for any number
\* of overlapping passes with stale candidate lists.
THEOREM FiresAtMostOnce == Spec => FiresOnce
<1> DEFINE Step == \A o \in Orders : fires'[o] # fires[o] =>
                       fires[o] = 0 /\ row[o].status = "PENDING"
<1>1. ASSUME IInv, [Next]_vars PROVE Step
  <2>1. CASE fires' = fires
    BY <2>1
  <2>2. ASSUME NEW p \in Procs, Claim(p) PROVE Step
    <3> DEFINE c == Oldest(pass[p].batch)
    <3>1. pass[p].batch \in SUBSET Orders /\ pass[p].batch # {}
      BY <1>1, <2>2 DEF IInv, TypeOK, PassType, Claim
    <3>2. c \in Orders
      BY <3>1, OldestInBatch
    <3>3. fires' = fires \/ (row[c].status = "PENDING" /\ fires' = [fires EXCEPT ![c] = @ + 1])
      BY <2>2 DEF Claim
    <3> HIDE DEF c
    <3> QED
      BY <1>1, <3>2, <3>3 DEF IInv, TypeOK, PendingUnfired
  <2> QED
    BY <1>1, <2>1, <2>2
    DEF Next, vars, Sources, FeedAnswers, FeedStartsRound, CrossMoves, Tick, Cancel, Pass,
        FetchPrimary, CrossCheck, Candidates, PassEnds, PassFails
<1> QED
  BY <1>1, Invariance, PTL DEF Spec, FiresOnce
=============================================================================
