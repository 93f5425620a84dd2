---------------------------- MODULE TriggerLoop ----------------------------
(***************************************************************************)
(* From the price feeds to PENDING -> TRIGGERED: the Chainlink provider,   *)
(* PriceService's staleness and divergence guards, the repository's        *)
(* candidate query and the claims of TriggerEngine.run.  The feeds move    *)
(* between any two awaits of a pass, several worker processes may run      *)
(* passes at once, users cancel, and a pass may die half-way.  Prices are  *)
(* the scaled integers of toScaled; an order is numbered by its createdAt. *)
(***************************************************************************)
EXTENDS Integers, FiniteSets

CONSTANTS
    Orders,          \* order numbers, in order of creation
    Procs,           \* worker processes
    Starts,          \* which of them run, and the orders there may be at the start
    Prices,          \* prices the feeds may report
    MaxStaleness,    \* MAX_PRICE_STALENESS_SEC
    MaxDivergence,   \* MAX_PRICE_DIVERGENCE_BPS
    BatchSize        \* TRIGGER_BATCH_SIZE

ASSUME TriggerAssumption ==
    /\ Orders \subseteq Nat /\ Prices \subseteq Nat \ {0}
    /\ MaxStaleness \in Nat /\ MaxDivergence \in Nat /\ BatchSize \in Nat \ {0}
    /\ \A s \in Starts :
           s.rows \subseteq [Orders -> [status : {"PENDING", "CANCELLED"},
                                      side : {"BUY", "SELL"}, trigger : Prices]]

VARIABLES
    feed,        \* the Chainlink feed: answer, age of updatedAt, round complete?
    cross,       \* the cross-check source: its price, Down when unavailable
    row,         \* the orders: status, side, triggerPrice
    pass,        \* the evaluation pass of each process
    fires,       \* number of claims won for an order
    basis        \* the quote an order was claimed on

vars == <<feed, cross, row, pass, fires, basis>>

Down == 0

Ages == 0..(MaxStaleness + 1)

Quote == [price : Prices \cup {Down}, check : Prices \cup {Down}]

NoQuote == [price |-> Down, check |-> Down]

IdlePass == [pc |-> "idle", quote |-> NoQuote, batch |-> {}]

\* A process that is not started.
OffPass == [pc |-> "off", quote |-> NoQuote, batch |-> {}]

PassType == [pc : {"off", "idle", "check", "query", "claim"}, quote : Quote, batch : SUBSET Orders]

RowType == [status : {"PENDING", "TRIGGERED", "CANCELLED"}, side : {"BUY", "SELL"}, trigger : Prices]

TypeOK ==
    /\ feed \in [price : Prices \cup {0}, age : Ages, complete : BOOLEAN]
    /\ cross \in Prices \cup {Down}
    /\ row \in [Orders -> RowType]
    /\ pass \in [Procs -> PassType]
    /\ \A p \in Procs : pass[p].pc \notin {"off", "idle"} => pass[p].quote.price \in Prices
    /\ fires \in [Orders -> Nat]
    /\ basis \in [Orders -> Quote]

Init ==
    /\ feed \in [price : Prices, age : {0}, complete : {TRUE}]
    /\ cross \in Prices \cup {Down}
    /\ \E s \in Starts :
        /\ pass = [p \in Procs |-> IF p \in s.running THEN IdlePass ELSE OffPass]
        /\ row \in s.rows
    /\ fires = [o \in Orders |-> 0]
    /\ basis = [o \in Orders |-> NoQuote]

---------------------------------------------------------------------------
(* The sources. *)

FeedAnswers(x) ==
    /\ feed' = [price |-> x, age |-> 0, complete |-> TRUE]
    /\ UNCHANGED <<cross, row, pass, fires, basis>>

\* A round is in progress: latestRoundData carries over the previous answer.
FeedStartsRound ==
    /\ feed.complete /\ feed' = [feed EXCEPT !.complete = FALSE]
    /\ UNCHANGED <<cross, row, pass, fires, basis>>

CrossMoves(x) ==
    /\ cross' = x
    /\ UNCHANGED <<feed, row, pass, fires, basis>>

Tick ==
    /\ feed' = [feed EXCEPT !.age = IF @ > MaxStaleness THEN @ ELSE @ + 1]
    /\ UNCHANGED <<cross, row, pass, fires, basis>>

Cancel(o) ==
    /\ row[o].status = "PENDING"
    /\ row' = [row EXCEPT ![o].status = "CANCELLED"]
    /\ UNCHANGED <<feed, cross, pass, fires, basis>>

---------------------------------------------------------------------------
(* The guards. *)

\* Fault: a non-positive answer is passed on.
FeedUsableAnyAnswer == feed.complete /\ feed.age <= MaxStaleness

\* ChainlinkPriceProvider.getPrice throws otherwise.
FeedUsable == feed.price > 0 /\ feed.complete /\ feed.age <= MaxStaleness

Distance(a, b) == IF a > b THEN a - b ELSE b - a

\* Fault: the difference is taken without its sign.
DivergenceAbove(a, b) == IF a > b THEN ((a - b) * 10000) \div a ELSE 0

DivergenceBps(a, b) == (Distance(a, b) * 10000) \div a

\* A cross-check that is down is ignored; one that disagrees refuses the tick.
Agree(a, b) == b = Down \/ (a # 0 /\ DivergenceBps(a, b) <= MaxDivergence)

\* Fault: the boundary is left out.
IsTriggeredStrictly(o, price) ==
    IF row[o].side = "SELL" THEN price < row[o].trigger ELSE price > row[o].trigger

IsTriggered(o, price) ==
    IF row[o].side = "SELL" THEN price <= row[o].trigger ELSE price >= row[o].trigger

Triggerable(price) ==
    {o \in Orders : row[o].status = "PENDING" /\ IsTriggered(o, price)}

\* The oldest BatchSize of them.
FindTriggerable(price) ==
    {o \in Triggerable(price) : Cardinality({q \in Triggerable(price) : q < o}) < BatchSize}

---------------------------------------------------------------------------
(* One pass: TriggerEngine.run, one step per await. *)

At(p, pc) == pass[p].pc = pc

FetchPrimary(p) ==
    /\ At(p, "idle") /\ FeedUsable
    /\ pass' = [pass EXCEPT ![p].pc = "check", ![p].quote.price = feed.price]
    /\ UNCHANGED <<feed, cross, row, fires, basis>>

\* A refused tick throws PriceUntrustedError, and the worker skips it.
CrossCheck(p) ==
    /\ At(p, "check")
    /\ pass' = [pass EXCEPT ![p] = IF Agree(pass[p].quote.price, cross)
                                   THEN [@ EXCEPT !.pc = "query", !.quote.check = cross]
                                   ELSE IdlePass]
    /\ UNCHANGED <<feed, cross, row, fires, basis>>

Candidates(p) ==
    /\ At(p, "query")
    /\ pass' = [pass EXCEPT ![p].pc = "claim",
                            ![p].batch = FindTriggerable(pass[p].quote.price)]
    /\ UNCHANGED <<feed, cross, row, fires, basis>>

Oldest(orders) == CHOOSE o \in orders : \A q \in orders : o <= q

\* Fault: the claim does not compare the status.
ClaimBlindly(p) ==
    LET o == Oldest(pass[p].batch) IN
    /\ At(p, "claim") /\ pass[p].batch # {}
    /\ row' = [row EXCEPT ![o].status = "TRIGGERED"]
    /\ fires' = [fires EXCEPT ![o] = @ + 1]
    /\ basis' = [basis EXCEPT ![o] = pass[p].quote]
    /\ pass' = [pass EXCEPT ![p].batch = @ \ {o}]
    /\ UNCHANGED <<feed, cross>>

\* The next candidate: compare-and-swap PENDING -> TRIGGERED, or stand down.
\* (A PENDING row was never written, so its version is the one that was read.)
Claim(p) ==
    LET o == Oldest(pass[p].batch) IN
    /\ At(p, "claim") /\ pass[p].batch # {}
    /\ IF row[o].status = "PENDING" /\ IsTriggered(o, pass[p].quote.price)
       THEN /\ row' = [row EXCEPT ![o].status = "TRIGGERED"]
            /\ fires' = [fires EXCEPT ![o] = @ + 1]
            /\ basis' = [basis EXCEPT ![o] = pass[p].quote]
       ELSE UNCHANGED <<row, fires, basis>>
    /\ pass' = [pass EXCEPT ![p].batch = @ \ {o}]
    /\ UNCHANGED <<feed, cross>>

PassEnds(p) ==
    /\ At(p, "claim") /\ pass[p].batch = {}
    /\ pass' = [pass EXCEPT ![p] = IdlePass]
    /\ UNCHANGED <<feed, cross, row, fires, basis>>

\* A database or network error, or a crash.
PassFails(p) ==
    /\ ~At(p, "idle") /\ ~At(p, "off")
    /\ pass' = [pass EXCEPT ![p] = IdlePass]
    /\ UNCHANGED <<feed, cross, row, fires, basis>>

Sources ==
    \/ \E x \in Prices \cup {0} : FeedAnswers(x)
    \/ \E x \in Prices \cup {Down} : CrossMoves(x)
    \/ FeedStartsRound \/ Tick

Pass(p) == FetchPrimary(p) \/ CrossCheck(p) \/ Candidates(p) \/ Claim(p) \/ PassEnds(p)

Next ==
    \/ Sources
    \/ \E o \in Orders : Cancel(o)
    \/ \E p \in Procs : Pass(p) \/ PassFails(p)

Spec == Init /\ [][Next]_vars

\* The repeatable job runs pass after pass, and a request repeated again and
\* again goes through at last.  Nothing is asked of the feeds or the users.
Fairness ==
    \A p \in Procs :
        /\ WF_vars(FetchPrimary(p)) /\ SF_vars(CrossCheck(p)) /\ SF_vars(Candidates(p))
        /\ WF_vars(PassEnds(p))
        /\ \A o \in Orders : SF_vars(Claim(p) /\ Oldest(pass[p].batch) = o)

FairSpec == Spec /\ Fairness

---------------------------------------------------------------------------
\* Two watchers, a stale candidate list and a cancellation in between never
\* fire an order twice, nor fire one that was cancelled (the version-checked
\* claim of TriggerEngine.claim).
FiresOnce ==
    [][\A o \in Orders : fires'[o] # fires[o] => fires[o] = 0 /\ row[o].status = "PENDING"]_vars

\* The divergence the code computes, against its definition in rationals: the
\* sources are less than MaxDivergence + 1 basis points of the primary apart.
WithinDivergence(a, b) == Distance(a, b) * 10000 < (MaxDivergence + 1) * a

\* An order fires only on a quote that reaches its trigger and that the cross
\* check, if it answered in that pass, confirmed; later moves of either feed
\* do not mix into the decision.
FiredOnTrustedPrice ==
    \A o \in Orders : row[o].status = "TRIGGERED" =>
        /\ IsTriggered(o, basis[o].price)
        /\ basis[o].check = Down \/ WithinDivergence(basis[o].price, basis[o].check)

\* o is reached, at or beyond its trigger, on a live and uncontradicted feed.
Reached(o) ==
    /\ FeedUsable /\ Agree(feed.price, cross)
    /\ IF row[o].side = "SELL" THEN feed.price <= row[o].trigger ELSE feed.price >= row[o].trigger

\* "An order that does not fire this tick fires on the next one": an order
\* whose trigger the feed has reached and stays at is not passed over for
\* ever, however small the batch and however many passes fail.
ReachedFires ==
    \A o \in Orders, x \in Prices :
        <>[](feed.price = x /\ Reached(o)) => <>(row[o].status # "PENDING")
============================================================================
