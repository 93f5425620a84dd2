------------------------- MODULE OrderClaims_proofs -------------------------
(***************************************************************************)
(* What the claim of executeOrder is worth, for any number of orders,      *)
(* worker processes, transactions and crashes, as long as nobody has       *)
(* re-triggered an order: an order gets one transaction at most, a         *)
(* cancelled order is never traded, the engine implements OrderLifecycle,  *)
(* a DROPPED_NOT_EXECUTED verdict is final if the grace period outlasts    *)
(* the deadline window, and nothing is on the network that its row does    *)
(* not know of, if a job has one executor at a time.                       *)
(*                                                                         *)
(* None of these is inductive.  Four layers carry them:                    *)
(*   Claims   - a row that was not claimed has no transaction and nobody   *)
(*              about to sign one; there is one signer, before the first   *)
(*              transaction;                                               *)
(*   Clock    - the age of a row, or of a check that read it, and the time *)
(*              its transactions have left never exceed the window;        *)
(*   Owned    - a busy executor holds the lock of its job;                 *)
(*   Recorded - until its hash is recorded an executor has the row to      *)
(*              itself, because only submitted orders are watched.         *)
(* They rest on what a step may do to a row, a transaction, an executor or *)
(* a check: RowSteps, TxSteps, ExecSteps and BgSteps.                      *)
(***************************************************************************)
EXTENDS OrderEngine_proofs

NotRetriggered == retriggers = 0

Unclaimed == {"PENDING", "TRIGGERED", "CANCELLED"}

\* A cancel request has read a status a user may cancel in.
CancelKnows == \A o \in Orders : cancel[o].open => cancel[o].status \in UserCancellable

Free ==
    \A o \in Orders : row[o].status \in Unclaimed =>
        /\ Transactions(o) = {}
        /\ \A p \in Procs : exec[p].pc = "sign" => exec[p].order # o

Signers ==
    /\ \A p \in Procs : exec[p].pc = "sign" => Transactions(exec[p].order) = {}
    /\ \A p, q \in Procs :
        exec[p].pc = "sign" /\ exec[q].pc = "sign" /\ exec[p].order = exec[q].order => p = q

Claims == CancelKnows /\ Free /\ Signers /\ OneTransactionPerOrder

\* Re-triggers are only ever counted up.
LEMMA NotRetriggeredBefore ==
    ASSUME Shape, [Next]_vars, NotRetriggered'
    PROVE  NotRetriggered
<1>1. UNCHANGED retriggers => NotRetriggered
  BY DEF NotRetriggered
<1>2. ASSUME NEW o \in Orders, Backend(o) PROVE NotRetriggered
  <2>1. CASE MarkTriggered(o)
    BY <2>1, BoundsAssumption DEF MarkTriggered, NotRetriggered, Shape, BoundsOK
  <2> QED BY <1>1, <1>2, <2>1 DEF Backend, CancelRead, CancelWrite, bounds
<1>3. ASSUME NEW p \in Procs, Trigger(p) \/ Background(p) \/ Crash(p) PROVE NotRetriggered
  BY <1>1, <1>3 DEF Trigger, Background, TriggerClaim, TriggerEnqueue, TriggerEnqueueFails, MonitorJob,
     SweepStuck, BackfillRead, AuditRead, GetReceipt, TxFound, TxMissing, AskContract, RpcError, Apply,
     AuditAsk, ReconcileForce, BgThrow, Crash, bounds
<1>4. ASSUME NEW p \in Procs, Execute(p) PROVE NotRetriggered
  BY <1>1, <1>4 DEF Execute, ExecStart, ExecStartFails, ExecAskChain, ExecSettle, ExecPreflight, ExecClaim,
     ExecSign, ExecRecord, ExecBroadcast, ExecHandoff, ExecError, FailRead, FailWrite, ExecThrow, bounds
<1>5. ASSUME NEW o \in Orders, Queue(o) PROVE NotRetriggered
  BY <1>1, <1>5 DEF Queue, RecoverDeadJob, LockLapses, bounds
<1>6. (\E h \in Hashes : Network(h)) \/ Tick \/ UNCHANGED vars => NotRetriggered
  BY <1>1 DEF Network, Mine, Vanish, Tick, vars, bounds
<1> QED BY <1>2, <1>3, <1>4, <1>5, <1>6 DEF Next

---------------------------------------------------------------------------
(* What a step may do to a row, an executor or a transaction. *)

Writes(o, status, hash, age) ==
    /\ \A q \in Orders : q # o => row'[q] = row[q]
    /\ row'[o].status = status /\ row'[o].hash = hash /\ row'[o].age = age

\* The trigger loop's claim and the user's cancellation.
UserWrite(o) ==
    /\ row[o].status \in UserCancellable
    /\ \E s \in Unclaimed : Writes(o, s, row[o].hash, row[o].age)

ExecWrite(p, o) ==
    /\ exec[p].order = o
    /\ \/ /\ At(p, "claim") /\ row[o].status = "TRIGGERED"
          /\ Writes(o, "EXECUTING", row[o].hash, row[o].age)
       \/ At(p, "settle") /\ Writes(o, "EXECUTED", row[o].hash, row[o].age)
       \/ /\ At(p, "failcas") /\ row[o].status = exec[p].status
          /\ Writes(o, "FAILED", row[o].hash, row[o].age)
       \/ /\ At(p, "record") /\ exec'[p].pc # "record" /\ row[o].status = "EXECUTING"
          /\ Writes(o, "EXECUTING", exec[p].hash, 0)

BgWrite(p, o) ==
    /\ bg[p].order = o
    /\ \E h \in {row[o].hash, bg[p].hash} :
        /\ h = row[o].hash \/ h # NoHash
        /\ \/ /\ BgAt(p, "apply") /\ row[o].status = "EXECUTING"
              /\ \/ /\ bg[p].verdict \notin ConfirmingVerdicts
                    /\ Writes(o, "FAILED", h, row[o].age)
                 \/ /\ bg[p].verdict \in ConfirmingVerdicts
                    /\ Writes(o, "EXECUTED", h, row[o].age)
           \/ BgAt(p, "force") /\ Writes(o, "EXECUTED", h, row[o].age)

SomeWrite ==
    \E o \in Orders : \/ UserWrite(o)
                      \/ \E p \in Procs : ExecWrite(p, o) \/ BgWrite(p, o)

\* A compare-and-swap changes the status of a row that has the one expected.
LEMMA CasWrites ==
    ASSUME Shape, NEW o \in Orders, NEW s, NEW v, NEW next, TransitionStatus(o, s, v, next)
    PROVE  \/ UNCHANGED row
           \/ row[o].status = s /\ Writes(o, next, row[o].hash, row[o].age)
BY DEF TransitionStatus, Matches, Writes, Shape, RowsOK, RowType

\* recordTxHash writes a row that is still EXECUTING, and starts its clock.
LEMMA RecordWrites ==
    ASSUME Shape, NEW o \in Orders, NEW h, RecordTxHash(o, h)
    PROVE  \/ UNCHANGED row
           \/ row[o].status = "EXECUTING" /\ Writes(o, "EXECUTING", h, 0)
BY DEF RecordTxHash, Writes, Shape, RowsOK, RowType

\* A verdict resolves an EXECUTING row; the backfill forces any row.
LEMMA VerdictWrites ==
    ASSUME Shape, NEW p \in Procs, Apply(p) \/ ReconcileForce(p)
    PROVE  UNCHANGED row \/ \E o \in Orders : BgWrite(p, o)
<1> DEFINE o == bg[p].order
           h == IF bg[p].hash = NoHash THEN row[o].hash ELSE bg[p].hash
<1>1. o \in Orders /\ row[o] \in RowType
  BY DEF Apply, ReconcileForce, BgAt, Shape, BgsOK, BgOK, RowsOK
<1>2. CASE Apply(p)
  BY <1>1, <1>2 DEF Apply, Resolve, BgWrite, Writes, Shape, RowsOK, RowType
<1>3. CASE ReconcileForce(p)
  BY <1>1, <1>3 DEF ReconcileForce, ForceExecuted, BgWrite, Writes, Shape, RowsOK, RowType
<1> QED BY <1>2, <1>3

\* A row is written by its owner, its executor or a background check.
LEMMA RowSteps ==
    ASSUME Shape, CancelKnows, NotRetriggered', [Next]_vars
    PROVE  UNCHANGED row \/ Tick \/ SomeWrite
<1> DEFINE Goal == UNCHANGED row \/ Tick \/ SomeWrite
<1> SUFFICES Goal
  OBVIOUS
<1>1. ASSUME NEW p \in Procs, Trigger(p) PROVE Goal
  <2>1. ASSUME NEW o \in Orders, TriggerClaim(p, o) PROVE Goal
    <3>1. row[o].status = "PENDING" /\ TransitionStatus(o, "PENDING", row[o].version, "TRIGGERED")
      BY <2>1 DEF TriggerClaim
    <3> QED BY <3>1, CasWrites DEF SomeWrite, UserWrite, UserCancellable, Unclaimed
  <2> QED BY <1>1, <2>1 DEF Trigger, TriggerEnqueue, TriggerEnqueueFails
<1>2. ASSUME NEW p \in Procs, Execute(p) PROVE Goal
  <2> DEFINE o == exec[p].order
  <2>1. exec[p].pc # "idle" => o \in Orders
    BY DEF Shape, ExecsOK, ExecOK
  <2>2. CASE ExecSettle(p)
    BY <2>1, <2>2, CasWrites DEF ExecSettle, At, SomeWrite, ExecWrite
  <2>3. CASE ExecClaim(p)
    BY <2>1, <2>3, CasWrites DEF ExecClaim, At, SomeWrite, ExecWrite
  <2>4. CASE ExecRecord(p)
    <3>1. exec'[p].pc = "broadcast"
      BY <2>4 DEF ExecRecord, Goto, Shape, ExecsOK, ExecType
    <3> QED BY <2>1, <2>4, <3>1, RecordWrites DEF ExecRecord, At, SomeWrite, ExecWrite
  <2>5. CASE ExecError(p)
    <3>1. exec'[p].pc = "failed"
      BY <2>5 DEF ExecError, Goto, Shape, ExecsOK, ExecType
    <3> QED BY <2>1, <2>5, <3>1, CasWrites, RecordWrites DEF ExecError, At, SomeWrite, ExecWrite
  <2>6. CASE FailWrite(p)
    BY <2>1, <2>6, CasWrites DEF FailWrite, At, SomeWrite, ExecWrite
  <2>7. CASE ExecThrow(p)
    BY <2>1, <2>7, CasWrites DEF ExecThrow, At, SomeWrite, ExecWrite
  <2> QED BY <1>2, <2>2, <2>3, <2>4, <2>5, <2>6, <2>7 DEF Execute, ExecStart, ExecStartFails,
       ExecAskChain, ExecPreflight, ExecSign, ExecBroadcast, ExecHandoff, FailRead
<1>3. ASSUME NEW p \in Procs, Background(p) PROVE Goal
  BY <1>3, VerdictWrites DEF SomeWrite, Background, MonitorJob, SweepStuck, BackfillRead, AuditRead,
     GetReceipt, TxFound, TxMissing, AskContract, RpcError, AuditAsk, BgThrow
<1>4. ASSUME NEW p \in Procs, Crash(p) PROVE Goal
  BY <1>4 DEF Crash
<1>5. ASSUME NEW o \in Orders, Backend(o) PROVE Goal
  <2>1. CASE CancelRead(o)
    BY <2>1 DEF CancelRead
  <2>2. CASE CancelWrite(o)
    <3>1. cancel[o].status \in UserCancellable
      BY <2>2 DEF CancelWrite, CancelKnows
    <3> QED BY <2>2, <3>1, CasWrites DEF CancelWrite, SomeWrite, UserWrite, Unclaimed
  <2>3. CASE MarkTriggered(o)
    BY <2>3, BoundsAssumption DEF MarkTriggered, NotRetriggered, Shape, BoundsOK
  <2> QED BY <1>5, <2>1, <2>2, <2>3 DEF Backend
<1>6. ASSUME NEW o \in Orders, Queue(o) PROVE Goal
  BY <1>6 DEF Queue, RecoverDeadJob, LockLapses
<1>7. ASSUME NEW h \in Hashes, Network(h) PROVE Goal
  BY <1>7 DEF Network, Mine, Vanish
<1>8. CASE UNCHANGED vars
  BY <1>8 DEF vars
<1> QED BY <1>1, <1>2, <1>3, <1>4, <1>5, <1>6, <1>7, <1>8 DEF Next


\* No transaction is added, and none changes its order.
SameTransactions ==
    \A h \in Hashes : /\ tx'[h].state = "unused" <=> tx[h].state = "unused"
                      /\ tx'[h].order = tx[h].order

\* Only signing adds a transaction to an order; only time moves a deadline.
LEMMA TxSteps ==
    ASSUME Shape, [Next]_vars
    PROVE  \/ \E p \in Procs, h \in Hashes : ExecSign(p, h)
           \/ SameTransactions /\ (Tick \/ \A h \in Hashes : tx'[h].ttl = tx[h].ttl)
<1> DEFINE Kept == SameTransactions /\ \A h \in Hashes : tx'[h].ttl = tx[h].ttl
           Goal == \/ \E p \in Procs, h \in Hashes : ExecSign(p, h)
                   \/ SameTransactions /\ (Tick \/ \A h \in Hashes : tx'[h].ttl = tx[h].ttl)
<1>1. UNCHANGED tx => Kept
  BY DEF SameTransactions
<1>2. ASSUME NEW p \in Procs, At(p, "broadcast"), Broadcast(exec[p].hash) PROVE Kept
  <2>1. tx[exec[p].hash].state = "signed" /\ exec[p].hash \in Hashes
    BY <1>2 DEF At, Shape, SignedOK, Holding, ExecsOK, ExecOK
  <2> QED BY <1>2, <2>1 DEF Broadcast, SameTransactions, Shape, ChainOK, TxType
<1>3. ASSUME NEW p \in Procs, Execute(p) PROVE Goal
  <2>1. CASE ExecBroadcast(p)
    BY <1>2, <2>1 DEF ExecBroadcast
  <2>2. CASE ExecError(p)
    BY <1>1, <1>2, <2>2 DEF ExecError
  <2> QED BY <1>1, <1>3, <2>1, <2>2 DEF Execute, ExecStart, ExecStartFails, ExecAskChain, ExecSettle,
       ExecPreflight, ExecClaim, ExecRecord, ExecHandoff, FailRead, FailWrite, ExecThrow, chain
<1>4. ASSUME NEW h \in Hashes, Network(h) PROVE Kept
  BY <1>4 DEF Network, Mine, Settles, Vanish, SameTransactions, Shape, ChainOK, TxType
<1>5. CASE Tick
  BY <1>5 DEF Tick, SameTransactions, Shape, ChainOK, TxType
<1>6. ASSUME NEW p \in Procs, Trigger(p) \/ Background(p) \/ Crash(p) PROVE Kept
  BY <1>1, <1>6 DEF Trigger, Background, TriggerClaim, TriggerEnqueue, TriggerEnqueueFails, MonitorJob,
     SweepStuck, BackfillRead, AuditRead, GetReceipt, TxFound, TxMissing, AskContract, RpcError, Apply,
     AuditAsk, ReconcileForce, BgThrow, Crash, chain
<1>7. ASSUME NEW o \in Orders, Backend(o) \/ Queue(o) PROVE Kept
  BY <1>1, <1>7 DEF Backend, Queue, CancelRead, CancelWrite, MarkTriggered, RecoverDeadJob, LockLapses, chain
<1>8. CASE UNCHANGED vars
  BY <1>1, <1>8 DEF vars, chain
<1> QED BY <1>3, <1>4, <1>5, <1>6, <1>7, <1>8 DEF Next

\* An executor gets past its claim by winning it, and then by signing,
\* recording and broadcasting, in this order.
Committing == {"sign", "record", "broadcast", "handoff"}

Advances(p) ==
    \/ exec'[p].pc = exec[p].pc /\ exec'[p].order = exec[p].order /\ exec'[p].hash = exec[p].hash
    \/ /\ exec'[p].pc = "sign" /\ exec'[p].order = exec[p].order
       /\ ExecClaim(p) /\ Matches(exec[p].order, "TRIGGERED", exec[p].version)
    \/ exec'[p].pc = "record" /\ \E h \in Hashes : ExecSign(p, h)
    \/ exec'[p].pc = "broadcast" /\ ExecRecord(p)
    \/ exec'[p].pc = "handoff" /\ ExecBroadcast(p)

\* An executor on its way to a transaction got there one step at a time.
LEMMA ExecSteps ==
    ASSUME Shape, [Next]_vars, NEW p \in Procs, exec'[p].pc \in Committing
    PROVE  Advances(p)
<1> USE DEF Committing
<1>0. exec[p] \in ExecType
  BY DEF Shape, ExecsOK
<1>1. UNCHANGED exec => Advances(p)
  BY DEF Advances
<1>2. ASSUME NEW q \in Procs, Execute(q) PROVE Advances(p)
  <2>1. ASSUME q # p PROVE Advances(p)
    <3>1. exec'[p] = exec[p]
      BY <1>2, <2>1 DEF Execute, ExecStart, ExecStartFails, ExecAskChain, ExecSettle, ExecPreflight, ExecClaim,
         ExecSign, ExecRecord, ExecBroadcast, ExecHandoff, ExecError, FailRead, FailWrite, ExecThrow,
         Goto, Return, Shape, ExecsOK
    <3> QED BY <3>1 DEF Advances
  <2>2. ASSUME q = p PROVE Advances(p)
    <3>1. ASSUME NEW o \in Orders, ExecStart(p, o) \/ ExecStartFails(p, o) PROVE Advances(p)
      BY <1>1, <3>1 DEF ExecStart, ExecStartFails, IdleExec, Shape, ExecsOK
    <3>2. CASE ExecAskChain(p) \/ ExecSettle(p) \/ ExecPreflight(p)
      BY <3>2 DEF ExecAskChain, ExecSettle, ExecPreflight, Goto, Return, IdleExec, Shape, ExecsOK, ExecType
    <3>3. CASE ExecClaim(p)
      BY <1>0, <3>3 DEF ExecClaim, Goto, Return, IdleExec, Advances, Shape, ExecsOK, ExecType
    <3>4. ASSUME NEW h \in Hashes, ExecSign(p, h) PROVE Advances(p)
      <4>1. exec'[p].pc = "record"
        BY <3>4 DEF ExecSign, Shape, ExecsOK, ExecType
      <4> QED BY <3>4, <4>1 DEF Advances
    <3>5. CASE ExecRecord(p) \/ ExecBroadcast(p)
      BY <1>0, <3>5 DEF ExecRecord, ExecBroadcast, Goto, Advances, Shape, ExecsOK, ExecType
    <3>6. CASE ExecHandoff(p) \/ ExecError(p) \/ FailWrite(p) \/ ExecThrow(p)
      BY <3>6 DEF ExecHandoff, ExecError, FailWrite, ExecThrow, Goto, Return, IdleExec, Shape, ExecsOK, ExecType
    <3>7. CASE FailRead(p)
      BY <1>0, <3>7 DEF FailRead, Return, IdleExec, Shape, ExecsOK, ExecType
    <3> QED BY <1>2, <2>2, <3>1, <3>2, <3>3, <3>4, <3>5, <3>6, <3>7 DEF Execute
  <2> QED BY <2>1, <2>2
<1>3. ASSUME NEW q \in Procs, Crash(q) PROVE Advances(p)
  BY <1>3 DEF Crash, Advances, IdleExec, Shape, ExecsOK
<1>4. CASE Tick
  BY <1>0, <1>4 DEF Tick, Advances, ExecType
<1>5. ASSUME NEW q \in Procs, Trigger(q) \/ Background(q) PROVE Advances(p)
  BY <1>1, <1>5 DEF Trigger, Background, TriggerClaim, TriggerEnqueue, TriggerEnqueueFails, MonitorJob,
     SweepStuck, BackfillRead, AuditRead, GetReceipt, TxFound, TxMissing, AskContract, RpcError, Apply,
     AuditAsk, ReconcileForce, BgThrow
<1>6. ASSUME NEW o \in Orders, Backend(o) \/ Queue(o) PROVE Advances(p)
  BY <1>1, <1>6 DEF Backend, Queue, CancelRead, CancelWrite, MarkTriggered, RecoverDeadJob, LockLapses
<1>7. ASSUME NEW h \in Hashes, Network(h) PROVE Advances(p)
  BY <1>1, <1>7 DEF Network, Mine, Vanish
<1>8. CASE UNCHANGED vars
  BY <1>1, <1>8 DEF vars
<1> QED BY <1>2, <1>3, <1>4, <1>5, <1>6, <1>7, <1>8 DEF Next

---------------------------------------------------------------------------
(* The claim is won once. *)

\* A row that has left the unclaimed statuses does not come back to them.
LEMMA UnclaimedShrinks ==
    ASSUME Shape, CancelKnows, NotRetriggered', [Next]_vars, NEW o \in Orders,
           row'[o].status \in Unclaimed
    PROVE  row[o].status \in Unclaimed
<1>1. CASE UNCHANGED row
  BY <1>1
<1>2. CASE Tick
  BY <1>2 DEF Tick, Shape, RowsOK, RowType
<1>3. ASSUME NEW q \in Orders, UserWrite(q) PROVE row[o].status \in Unclaimed
  BY <1>3 DEF UserWrite, Writes, UserCancellable, Unclaimed
<1>4. ASSUME NEW p \in Procs, NEW q \in Orders, ExecWrite(p, q) PROVE row[o].status \in Unclaimed
  BY <1>4 DEF ExecWrite, Writes, Unclaimed
<1>5. ASSUME NEW p \in Procs, NEW q \in Orders, BgWrite(p, q) PROVE row[o].status \in Unclaimed
  BY <1>5 DEF BgWrite, Writes, Unclaimed
<1> QED BY <1>1, <1>2, <1>3, <1>4, <1>5, RowSteps DEF SomeWrite

\* What signing changes: one transaction, and the executor that signed it.
LEMMA SignAdds ==
    ASSUME Shape, NEW p \in Procs, NEW h \in Hashes, ExecSign(p, h)
    PROVE  /\ exec[p].pc = "sign" /\ exec[p].order \in Orders
           /\ exec'[p].pc = "record" /\ \A q \in Procs : q # p => exec'[q] = exec[q]
           /\ UNCHANGED <<row, bg, swaps>>
           /\ h \notin Transactions(exec[p].order)
           /\ \A o \in Orders : Transactions(o)' = IF o = exec[p].order THEN Transactions(o) \cup {h}
                                                   ELSE Transactions(o)
           /\ \A k \in Hashes : k # h => tx'[k] = tx[k]
<1>1. exec[p].pc = "sign" /\ exec[p].order \in Orders
  BY DEF ExecSign, At, Shape, ExecsOK, ExecOK
<1>2. exec'[p].pc = "record" /\ \A q \in Procs : q # p => exec'[q] = exec[q]
  BY DEF ExecSign, Shape, ExecsOK, ExecType
<1>3. /\ tx[h].state = "unused" /\ tx'[h].state = "signed" /\ tx'[h].order = exec[p].order
      /\ \A k \in Hashes : k # h => tx'[k] = tx[k]
  BY DEF ExecSign, Shape, ChainOK
<1>4. \A o \in Orders : Transactions(o)' = IF o = exec[p].order THEN Transactions(o) \cup {h}
                                           ELSE Transactions(o)
  BY <1>3 DEF Transactions
<1> QED BY <1>1, <1>2, <1>3, <1>4 DEF ExecSign, Transactions

\* The transactions of an order depend on their owners alone.
LEMMA SameKeeps ==
    ASSUME SameTransactions
    PROVE  \A o : Transactions(o)' = Transactions(o)
BY DEF SameTransactions, Transactions

\* Nothing is claimed at first.
LEMMA ClaimsInit == Init => Claims
<1> SUFFICES ASSUME Init PROVE Claims
  OBVIOUS
<1>1. \A o \in Orders : Transactions(o) = {}
  BY DEF Init, Transactions, UnusedTx
<1>2. CancelKnows
  BY DEF Init, CancelKnows, NoCancel
<1>3. \A p \in Procs : exec[p].pc # "sign"
  BY DEF Init, IdleExec
<1> QED BY <1>1, <1>2, <1>3 DEF Claims, Free, Signers, OneTransactionPerOrder

\* A cancel request goes on only from a status a user may cancel in.
LEMMA CancelKnowsStep ==
    ASSUME Shape, CancelKnows, [Next]_vars
    PROVE  CancelKnows'
<1>1. UNCHANGED cancel => CancelKnows'
  BY DEF CancelKnows
<1>2. ASSUME NEW o \in Orders, Backend(o) PROVE CancelKnows'
  <2>1. CASE CancelRead(o)
    BY <2>1 DEF CancelRead, CancelKnows, Shape, CancelsOK
  <2>2. CASE CancelWrite(o)
    BY <2>2 DEF CancelWrite, CancelKnows, NoCancel, Shape, CancelsOK
  <2> QED BY <1>1, <1>2, <2>1, <2>2 DEF Backend, MarkTriggered
<1>3. ASSUME NEW p \in Procs, Trigger(p) \/ Background(p) \/ Crash(p) PROVE CancelKnows'
  BY <1>1, <1>3 DEF Trigger, Background, TriggerClaim, TriggerEnqueue, TriggerEnqueueFails, MonitorJob,
     SweepStuck, BackfillRead, AuditRead, GetReceipt, TxFound, TxMissing, AskContract, RpcError, Apply,
     AuditAsk, ReconcileForce, BgThrow, Crash
<1>4. ASSUME NEW p \in Procs, Execute(p) PROVE CancelKnows'
  BY <1>1, <1>4 DEF Execute, ExecStart, ExecStartFails, ExecAskChain, ExecSettle, ExecPreflight, ExecClaim,
     ExecSign, ExecRecord, ExecBroadcast, ExecHandoff, ExecError, FailRead, FailWrite, ExecThrow
<1>5. ASSUME NEW o \in Orders, Queue(o) PROVE CancelKnows'
  BY <1>1, <1>5 DEF Queue, RecoverDeadJob, LockLapses
<1>6. (\E h \in Hashes : Network(h)) \/ Tick \/ UNCHANGED vars => CancelKnows'
  BY <1>1 DEF Network, Mine, Vanish, Tick, vars
<1> QED BY <1>2, <1>3, <1>4, <1>5, <1>6 DEF Next

\* Who is about to sign was so before, or has just won the claim.
LEMMA SignerSteps ==
    ASSUME Shape, [Next]_vars, NEW p \in Procs, exec'[p].pc = "sign"
    PROVE  /\ exec'[p].order = exec[p].order /\ exec[p].order \in Orders
           /\ \/ exec[p].pc = "sign"
              \/ /\ row[exec[p].order].status = "TRIGGERED"
                 /\ row'[exec[p].order].status = "EXECUTING"
                 /\ UNCHANGED tx /\ \A q \in Procs : q # p => exec'[q] = exec[q]
<1>1. Advances(p)
  BY ExecSteps DEF Committing
<1>2. CASE exec'[p].pc = exec[p].pc /\ exec'[p].order = exec[p].order
  BY <1>2 DEF Shape, ExecsOK, ExecOK
<1>3. CASE /\ exec'[p].order = exec[p].order /\ ExecClaim(p)
           /\ Matches(exec[p].order, "TRIGGERED", exec[p].version)
  <2>1. exec[p].order \in Orders
    BY <1>3 DEF ExecClaim, At, Shape, ExecsOK, ExecOK
  <2>2. row'[exec[p].order].status = "EXECUTING"
    BY <1>3, <2>1 DEF ExecClaim, TransitionStatus, Shape, RowsOK, RowType
  <2>3. UNCHANGED tx /\ \A q \in Procs : q # p => exec'[q] = exec[q]
    BY <1>3 DEF ExecClaim, Goto, chain, Shape, ExecsOK
  <2> QED BY <1>3, <2>1, <2>2, <2>3 DEF Matches
<1> QED BY <1>1, <1>2, <1>3 DEF Advances

\* No step gives an order a second signer, or a signer after its transaction.
LEMMA ClaimsStep ==
    ASSUME Shape, Claims, NotRetriggered', [Next]_vars
    PROVE  Claims'
<1> USE DEF Claims
<1>1. CancelKnows'
  BY CancelKnowsStep
<1>2. \A o \in Orders : row'[o].status \in Unclaimed => row[o].status \in Unclaimed
  BY UnclaimedShrinks
<1>3. \A p \in Procs : exec'[p].pc = "sign" =>
          /\ exec'[p].order = exec[p].order /\ exec[p].order \in Orders
          /\ \/ exec[p].pc = "sign"
             \/ /\ row[exec[p].order].status = "TRIGGERED"
                /\ row'[exec[p].order].status = "EXECUTING"
                /\ UNCHANGED tx /\ \A q \in Procs : q # p => exec'[q] = exec[q]
  BY SignerSteps
<1>4. CASE SameTransactions
  <2>1. \A o \in Orders : Transactions(o)' = Transactions(o)
    BY <1>4, SameKeeps
  <2>2. Free'
    BY <1>2, <1>3, <2>1 DEF Free, Unclaimed
  <2>3. Signers'
    BY <1>3, <2>1 DEF Signers, Free, Unclaimed
  <2>4. OneTransactionPerOrder'
    BY <2>1 DEF OneTransactionPerOrder
  <2> QED BY <1>1, <2>2, <2>3, <2>4
<1>5. ASSUME NEW p \in Procs, NEW h \in Hashes, ExecSign(p, h) PROVE Claims'
  <2> DEFINE s == exec[p].order
  <2>1. /\ exec[p].pc = "sign" /\ s \in Orders /\ exec'[p].pc = "record"
        /\ \A q \in Procs : q # p => exec'[q] = exec[q]
        /\ UNCHANGED row
        /\ \A o \in Orders : Transactions(o)' = IF o = s THEN Transactions(o) \cup {h}
                                                ELSE Transactions(o)
    BY <1>5, SignAdds
  <2>2. Free'
    BY <2>1 DEF Free
  <2>3. Signers'
    <3>1. \A q \in Procs : exec'[q].pc = "sign" => q # p /\ exec[q].pc = "sign" /\ exec'[q].order = exec[q].order
                                                   /\ exec[q].order \in Orders
      BY <1>3, <2>1
    <3> QED BY <2>1, <3>1 DEF Signers
  <2>4. OneTransactionPerOrder'
    BY <2>1 DEF Signers, OneTransactionPerOrder
  <2> QED BY <1>1, <2>2, <2>3, <2>4
<1> QED BY <1>4, <1>5, TxSteps

\* The first layer holds as long as nobody re-triggers.
LEMMA ClaimsHold == Spec => [](Shape /\ Evidence /\ (NotRetriggered => Claims))
<1> DEFINE Inv == Shape /\ Evidence /\ (NotRetriggered => Claims)
<1>1. Inv /\ [Next]_vars => Inv'
  BY ShapeStep, EvidenceStep, ClaimsStep, NotRetriggeredBefore
<1>2. Init => Inv
  BY ShapeInit, EvidenceInit, ClaimsInit
<1> QED BY <1>1, <1>2, PTL DEF Spec

\* However many processes, redelivered jobs, lapsed locks and crashes there
\* are: an order that nobody re-triggered has one signed transaction at most.
\* The compare-and-swap TRIGGERED -> EXECUTING of executeOrder is what decides.
THEOREM EngineOneTransaction == Spec => [](NotRetriggered => OneTransactionPerOrder)
<1>1. Claims => OneTransactionPerOrder
  BY DEF Claims
<1> QED BY <1>1, ClaimsHold, PTL

\* A cancelled row was never claimed, so nothing can trade it.
LEMMA ClaimsProtectUsers == Shape /\ Evidence /\ Claims => CancelledNeverTrades
<1> SUFFICES ASSUME Shape, Claims, NEW o \in Orders, row[o].status = "CANCELLED"
             PROVE  /\ Transactions(o) = {} /\ ~IsExecuted(o)
                    /\ \A p \in Procs : exec[p].order = o => exec[p].pc # "sign"
  BY DEF CancelledNeverTrades
<1>1. Transactions(o) = {} /\ \A p \in Procs : exec[p].order = o => exec[p].pc # "sign"
  BY DEF Claims, Free, Unclaimed
<1>2. ~IsExecuted(o)
  BY <1>1 DEF Transactions, Shape, ChainOK
<1> QED BY <1>1, <1>2

\* A cancellation that was answered is kept: cancelOrder's compare-and-swap
\* and the executor's claim exclude each other, whoever read the row first.
THEOREM EngineCancelledNeverTrades == Spec => [](NotRetriggered => CancelledNeverTrades)
BY ClaimsProtectUsers, ClaimsHold, PTL

---------------------------------------------------------------------------
(* The engine implements OrderLifecycle. *)

told == [o \in Orders |-> Told(o)]

committed == {o \in Orders : Transactions(o) # {}}

\* What a step leaves alone, in the abstract state.
LEMMA ToldFrame ==
    ASSUME \A o \in Orders : row'[o].status = row[o].status
    PROVE  told' = told
BY DEF told, Told

\* Without a signature the set of committed orders stays.
LEMMA CommittedFrame ==
    ASSUME SameTransactions
    PROVE  committed' = committed
BY SameKeeps DEF committed

\* A write to one row changes what one owner is told.
LEMMA ToldWrite ==
    ASSUME NEW o \in Orders, \A q \in Orders : q # o => row'[q] = row[q]
    PROVE  told' = [told EXCEPT ![o] = Told(o)']
<1>1. \A q \in Orders : q # o => Told(q)' = Told(q)
  BY DEF Told
<1> QED BY <1>1 DEF told

\* The swaps of an order are counted by its settlement alone.
LEMMA SwapSteps ==
    ASSUME [Next]_vars
    PROVE  \/ UNCHANGED swaps
           \/ \E h \in Hashes : Mine(h) /\ SwapAllowed(h) /\ Settles(h)
<1> DEFINE Goal == UNCHANGED swaps \/ \E h \in Hashes : Mine(h) /\ SwapAllowed(h) /\ Settles(h)
<1>1. ASSUME NEW h \in Hashes, Network(h) PROVE Goal
  BY <1>1 DEF Network, Mine, Vanish
<1>2. ASSUME NEW p \in Procs, Trigger(p) \/ Background(p) \/ Crash(p) PROVE Goal
  BY <1>2 DEF Trigger, Background, TriggerClaim, TriggerEnqueue, TriggerEnqueueFails, MonitorJob,
     SweepStuck, BackfillRead, AuditRead, GetReceipt, TxFound, TxMissing, AskContract, RpcError, Apply,
     AuditAsk, ReconcileForce, BgThrow, Crash, chain
<1>3. ASSUME NEW p \in Procs, Execute(p) PROVE Goal
  BY <1>3 DEF Execute, ExecStart, ExecStartFails, ExecAskChain, ExecSettle, ExecPreflight, ExecClaim,
     ExecSign, ExecRecord, ExecBroadcast, ExecHandoff, ExecError, FailRead, FailWrite, ExecThrow, chain
<1>4. ASSUME NEW o \in Orders, Backend(o) \/ Queue(o) PROVE Goal
  BY <1>4 DEF Backend, Queue, CancelRead, CancelWrite, MarkTriggered, RecoverDeadJob, LockLapses, chain
<1>5. Tick \/ UNCHANGED vars => Goal
  BY DEF Tick, vars, chain
<1> QED BY <1>1, <1>2, <1>3, <1>4, <1>5 DEF Next

\* What a write tells the owner: the reports follow a trade, a cancellation
\* finds the order free, and anything else leaves it open or opens it again.
LEMMA WriteIsLifecycle ==
    ASSUME Shape, Evidence, Claims, NEW o \in Orders, SameTransactions, UNCHANGED swaps,
           \A q \in Orders : q # o => row'[q] = row[q],
           row'[o].status = "EXECUTED" => IsExecuted(o),
           row'[o].status = "CANCELLED" => row[o].status \in UserCancellable
    PROVE  Lifecycle!Next \/ UNCHANGED <<told, committed, swaps>>
<1>1. told' = [told EXCEPT ![o] = Told(o)'] /\ told[o] = Told(o) /\ told \in [Orders -> {"open", "executed", "cancelled"}]
  BY ToldWrite DEF told, Told
<1>2. committed' = committed
  BY CommittedFrame
<1>3. IsExecuted(o) => swaps[o] = 1 /\ row[o].status # "CANCELLED"
  BY ClaimsProtectUsers DEF IsExecuted, Evidence, SettledOnce, Shape, ChainOK, CancelledNeverTrades
<1>4. CASE Told(o)' = Told(o)
  BY <1>1, <1>2, <1>4
<1>5. CASE row'[o].status = "EXECUTED" /\ Told(o)' # Told(o)
  <2>1. Told(o) = "open" /\ Told(o)' = "executed" /\ swaps[o] = 1
    BY <1>3, <1>5 DEF Told
  <2>2. Lifecycle!Report(o)
    BY <1>1, <1>2, <2>1 DEF Lifecycle!Report, Lifecycle!Tell, told, committed
  <2> QED BY <2>2 DEF Lifecycle!Next
<1>6. CASE row'[o].status = "CANCELLED" /\ Told(o)' # Told(o)
  <2>1. Told(o) = "open" /\ Told(o)' = "cancelled" /\ o \notin committed
    BY <1>6 DEF Told, UserCancellable, committed, Claims, Free, Unclaimed
  <2>2. Lifecycle!Cancel(o)
    BY <1>1, <1>2, <2>1 DEF Lifecycle!Cancel, Lifecycle!Tell, told, committed
  <2> QED BY <2>2 DEF Lifecycle!Next
<1>7. CASE row'[o].status \notin {"EXECUTED", "CANCELLED"} /\ Told(o)' # Told(o)
  <2>1. Told(o) \in {"executed", "cancelled"} /\ Told(o)' = "open"
    BY <1>7 DEF Told
  <2>2. Lifecycle!Withdraw(o)
    BY <1>1, <1>2, <2>1 DEF Lifecycle!Withdraw, Lifecycle!Tell, told, committed
  <2> QED BY <2>2 DEF Lifecycle!Next
<1> QED BY <1>4, <1>5, <1>6, <1>7

\* Signing is the lifecycle's commitment.
LEMMA SignIsCommit ==
    ASSUME Shape, Evidence, Claims, NEW p \in Procs, NEW h \in Hashes, ExecSign(p, h)
    PROVE  Lifecycle!Next
<1> DEFINE s == exec[p].order
<1>1. /\ exec[p].pc = "sign" /\ s \in Orders /\ UNCHANGED <<row, swaps>>
      /\ \A o \in Orders : Transactions(o)' = IF o = s THEN Transactions(o) \cup {h}
                                              ELSE Transactions(o)
  BY SignAdds
<1>2. s \notin committed /\ committed' = committed \cup {s}
  BY <1>1 DEF committed, Claims, Signers
<1>3. ~IsExecuted(s)
  BY DEF ExecSign
<1>4. swaps[s] = 0
  BY <1>1, <1>3 DEF IsExecuted, Shape, ChainOK
<1>5. Told(s) = "open"
  BY <1>1, <1>3 DEF Told, Evidence, RowEvidence, Claims, Free, Unclaimed
<1>6. told' = told
  BY <1>1, ToldFrame
<1>7. Lifecycle!Commit(s)
  BY <1>1, <1>2, <1>4, <1>5, <1>6 DEF Lifecycle!Commit, told, committed
<1> QED BY <1>1, <1>7 DEF Lifecycle!Next

\* A settlement is the lifecycle's trade.
LEMMA SettlementIsTrade ==
    ASSUME Shape, NEW h \in Hashes, Mine(h), SwapAllowed(h), Settles(h)
    PROVE  Lifecycle!Next
<1> DEFINE s == tx[h].order
<1>1. s \in Orders /\ s \in committed
  BY DEF Mine, committed, Transactions, Shape, ChainOK
<1>2. swaps[s] = 0
  BY <1>1 DEF SwapAllowed, IsExecuted, Shape, ChainOK
<1>3. swaps' = [swaps EXCEPT ![s] = 1]
  BY <1>1, <1>2 DEF Settles
<1>4. SameTransactions
  BY DEF Mine, Settles, SameTransactions, Shape, ChainOK, TxType
<1>5. committed' = committed /\ told' = told
  BY <1>4, CommittedFrame, ToldFrame DEF Mine
<1>6. Lifecycle!Trade(s)
  BY <1>1, <1>2, <1>3, <1>5 DEF Lifecycle!Trade, told, committed
<1> QED BY <1>1, <1>6 DEF Lifecycle!Next

\* Each step of the engine is a step of the lifecycle, or invisible to it.
LEMMA LifecycleStep ==
    ASSUME Shape, Evidence, Claims, NotRetriggered', [Next]_vars
    PROVE  Lifecycle!Next \/ UNCHANGED <<told, committed, swaps>>
<1> DEFINE Goal == Lifecycle!Next \/ UNCHANGED <<told, committed, swaps>>
<1>1. ASSUME NEW p \in Procs, NEW h \in Hashes, ExecSign(p, h) PROVE Goal
  BY <1>1, SignIsCommit
<1>2. ASSUME NEW h \in Hashes, Mine(h), SwapAllowed(h), Settles(h) PROVE Goal
  BY <1>2, SettlementIsTrade
<1>3. CASE SameTransactions /\ UNCHANGED swaps
  <2>1. CASE UNCHANGED row
    BY <1>3, <2>1, ToldFrame, CommittedFrame
  <2>2. CASE Tick
    BY <1>3, <2>2, ToldFrame, CommittedFrame DEF Tick, Shape, RowsOK, RowType
  <2>3. ASSUME NEW o \in Orders, UserWrite(o) PROVE Goal
    BY <1>3, <2>3, WriteIsLifecycle DEF UserWrite, Writes, Unclaimed
  <2>4. ASSUME NEW p \in Procs, NEW o \in Orders, ExecWrite(p, o) PROVE Goal
    BY <1>3, <2>4, WriteIsLifecycle DEF ExecWrite, Writes, At, Evidence, ExecEvidence
  <2>5. ASSUME NEW p \in Procs, NEW o \in Orders, BgWrite(p, o) PROVE Goal
    BY <1>3, <2>5, WriteIsLifecycle DEF BgWrite, Writes, BgAt, Evidence, BgEvidence, BgKnows
  <2> QED BY <2>1, <2>2, <2>3, <2>4, <2>5, RowSteps DEF SomeWrite, Claims
<1> QED BY <1>1, <1>2, <1>3, TxSteps, SwapSteps

\* The engine starts where the lifecycle does.
LEMMA LifecycleInit == Init => Lifecycle!Init
<1> SUFFICES ASSUME Init PROVE Lifecycle!Init
  OBVIOUS
<1>1. \A o \in Orders : Told(o) = "open" /\ Transactions(o) = {}
  BY DEF Init, NewRow, UnusedTx, Told, Transactions
<1> QED BY <1>1 DEF Init, Lifecycle!Init

\* For any number of orders, processes, transactions, crashes and lapsed locks:
\* every step of the engine commits, trades, reports, cancels or withdraws one
\* order as the lifecycle allows, or is invisible to the owners of the orders.
THEOREM EngineImplementsLifecycle == MaxRetriggers = 0 => (Spec => ImplementsLifecycle)
<1> SUFFICES ASSUME MaxRetriggers = 0 PROVE Spec => ImplementsLifecycle
  OBVIOUS
<1>1. Shape => NotRetriggered
  BY DEF Shape, BoundsOK, NotRetriggered
<1>2. Shape' => NotRetriggered'
  BY DEF Shape, BoundsOK, NotRetriggered
<1>3. Shape /\ Evidence /\ Claims /\ [Next]_vars => [Lifecycle!Next]_(Lifecycle!vars)
  BY <1>2, ShapeStep, LifecycleStep DEF Lifecycle!vars, told, committed
<1> QED BY <1>1, <1>3, ClaimsHold, LifecycleInit, PTL DEF Spec, ImplementsLifecycle, Lifecycle!Spec

---------------------------------------------------------------------------
(* What a step may do to a background check. *)

CheckStarts(p) ==
    /\ bg[p].pc = "idle" /\ bg'[p].verdict # "DROPPED_NOT_EXECUTED"
    /\ \E o \in Orders :
        /\ bg'[p].order = o
        /\ \/ /\ o \in mon \/ o \in FindStuckExecuting
              /\ \/ bg'[p].pc = "apply" /\ (row[o].hash = NoHash \/ row[o].age = -1)
                 \/ bg'[p].pc = "receipt" /\ bg'[p].age = row[o].age /\ row[o].age # -1
           \/ bg'[p].pc \in {"force", "audit"} /\ ~bg'[p].fromJob

CheckGoesOn(p) ==
    /\ bg'[p].order = bg[p].order /\ bg'[p].fromJob = bg[p].fromJob /\ bg'[p].age = bg[p].age
    /\ \/ bg[p].pc = "receipt" /\ bg'[p].pc = "gettx" /\ bg'[p].verdict = bg[p].verdict
       \/ /\ bg[p].pc = "receipt" /\ bg'[p].pc = "apply"
          /\ \/ bg'[p].verdict = "SUCCESS"
             \/ /\ bg'[p].verdict = "REVERTED" /\ bg'[p].hash = bg[p].hash
                /\ tx[bg[p].hash].state = "reverted"
       \/ /\ bg[p].pc = "gettx" /\ bg'[p].pc = "contract" /\ bg'[p].verdict = bg[p].verdict
          /\ ~WithinGrace(bg[p].age)
       \/ /\ bg[p].pc = "contract" /\ bg'[p].pc = "apply"
          /\ bg'[p].verdict = DroppedVerdict(bg[p].order)
       \/ bg[p].pc = "audit" /\ bg'[p].pc = "force" /\ bg'[p].verdict = bg[p].verdict

CheckMoves(p) == bg'[p] = bg[p] \/ bg'[p] = IdleBg \/ CheckStarts(p) \/ CheckGoesOn(p)

\* A check starts on an order that is watched or stuck.
LEMMA CheckStep ==
    ASSUME Shape, NEW q \in Procs, NEW o \in Orders, NEW fromJob, Check(q, o, fromJob),
           bg[q].pc = "idle", o \in mon \/ o \in FindStuckExecuting, NEW p \in Procs
    PROVE  CheckMoves(p)
BY DEF Check, CheckMoves, CheckStarts, IdleBg, Shape, BgsOK

\* A background check stays, ends, starts or goes on by one step.
LEMMA BgSteps ==
    ASSUME Shape, [Next]_vars, NEW p \in Procs
    PROVE  Tick \/ CheckMoves(p)
<1>0. bg \in [Procs -> BgType]
  BY DEF Shape, BgsOK
<1>1. UNCHANGED bg => CheckMoves(p)
  BY DEF CheckMoves
<1>2. \A q \in Procs : bg' = [bg EXCEPT ![q] = IdleBg] => CheckMoves(p)
  BY <1>0 DEF CheckMoves
<1>3. ASSUME NEW q \in Procs, Background(q) PROVE CheckMoves(p)
  <2>1. ASSUME NEW o \in Orders, MonitorJob(q, o) PROVE CheckMoves(p)
    BY <2>1, CheckStep DEF MonitorJob, BgAt
  <2>2. ASSUME NEW o \in Orders, SweepStuck(q, o) PROVE CheckMoves(p)
    BY <2>2, CheckStep DEF SweepStuck, BgAt
  <2>3. ASSUME NEW o \in Orders, BackfillRead(q, o) \/ AuditRead(q, o) PROVE CheckMoves(p)
    <3>1. bg[q].pc = "idle"
      BY <2>3 DEF BackfillRead, AuditRead, BgAt
    <3>2. ASSUME q = p PROVE /\ bg'[p].verdict = "NONE" /\ bg'[p].order = o /\ bg'[p].fromJob = FALSE
                             /\ bg'[p].pc \in {"force", "audit"}
      <4>1. CASE BackfillRead(p, o)
        BY <1>0, <4>1 DEF BackfillRead, IdleBg
      <4>2. CASE AuditRead(p, o)
        BY <1>0, <4>2 DEF AuditRead, IdleBg
      <4> QED BY <2>3, <3>2, <4>1, <4>2
    <3>3. ASSUME q # p PROVE bg'[p] = bg[p]
      BY <1>0, <2>3, <3>3 DEF BackfillRead, AuditRead
    <3> QED BY <3>1, <3>2, <3>3 DEF CheckMoves, CheckStarts
  <2>4. CASE GetReceipt(q)
    BY <1>0, <2>4 DEF GetReceipt, Conclude, BgAt, CheckMoves, CheckGoesOn, BgType
  <2>5. CASE TxFound(q) \/ RpcError(q) \/ Apply(q) \/ ReconcileForce(q) \/ BgThrow(q)
    BY <1>2, <2>5 DEF TxFound, RpcError, Apply, ReconcileForce, BgThrow, NoVerdict, BgDone
  <2>6. CASE TxMissing(q)
    BY <1>0, <1>2, <2>6 DEF TxMissing, NoVerdict, BgDone, BgAt, CheckMoves, CheckGoesOn, BgType
  <2>7. CASE AskContract(q)
    BY <1>0, <2>7 DEF AskContract, Conclude, BgAt, CheckMoves, CheckGoesOn, BgType
  <2>8. CASE AuditAsk(q)
    BY <1>0, <1>2, <2>8 DEF AuditAsk, BgDone, BgAt, CheckMoves, CheckGoesOn, BgType
  <2> QED BY <1>3, <2>1, <2>2, <2>3, <2>4, <2>5, <2>6, <2>7, <2>8 DEF Background
<1>4. ASSUME NEW q \in Procs, Crash(q) PROVE CheckMoves(p)
  BY <1>2, <1>4 DEF Crash, BgDone
<1>5. ASSUME NEW q \in Procs, Trigger(q) PROVE CheckMoves(p)
  BY <1>1, <1>5 DEF Trigger, TriggerClaim, TriggerEnqueue, TriggerEnqueueFails
<1>6. ASSUME NEW q \in Procs, Execute(q) PROVE CheckMoves(p)
  BY <1>1, <1>6 DEF Execute, ExecStart, ExecStartFails, ExecAskChain, ExecSettle, ExecPreflight, ExecClaim,
     ExecSign, ExecRecord, ExecBroadcast, ExecHandoff, ExecError, FailRead, FailWrite, ExecThrow
<1>7. ASSUME NEW o \in Orders, Backend(o) \/ Queue(o) PROVE CheckMoves(p)
  BY <1>1, <1>7 DEF Backend, Queue, CancelRead, CancelWrite, MarkTriggered, RecoverDeadJob, LockLapses
<1>8. (\E h \in Hashes : Network(h)) \/ UNCHANGED vars => CheckMoves(p)
  BY <1>1 DEF Network, Mine, Vanish, vars
<1> QED BY <1>3, <1>4, <1>5, <1>6, <1>7, <1>8 DEF Next

---------------------------------------------------------------------------
(* The deadline window and the grace period. *)

\* A deadline ttl from now, of a transaction recorded age ago.
Expires(ttl, age) == ttl = -1 \/ ttl + age <= Window

Expiring(o, age) == Transactions(o) # {} /\ \A h \in Transactions(o) : Expires(tx[h].ttl, age)

Expired(o) == Transactions(o) # {} /\ \A h \in Transactions(o) : tx[h].ttl = -1

RowClock == \A o \in Orders : row[o].age # -1 => Expiring(o, row[o].age)

BgClockOf(p) ==
    /\ bg[p].pc \in {"receipt", "gettx"} => bg[p].age # -1 /\ Expiring(bg[p].order, bg[p].age)
    /\ bg[p].pc = "contract" \/ bg[p].verdict = "DROPPED_NOT_EXECUTED" => Expired(bg[p].order)
    /\ bg[p].verdict = "DROPPED_NOT_EXECUTED" => bg[p].pc = "apply" /\ ~IsExecuted(bg[p].order)

BgClock == \A p \in Procs : BgClockOf(p)

Clock == RowClock /\ BgClock

\* No clock runs at first.
LEMMA ClockInit == Init => Clock
BY DEF Init, Clock, RowClock, BgClock, BgClockOf, NewRow, IdleBg

\* The transactions of an order that has one stay what they are: only time
\* moves their deadlines.
LEMMA DeadlinesKept ==
    ASSUME Shape, Claims, [Next]_vars, ~Tick, NEW o \in Orders, Transactions(o) # {}
    PROVE  /\ Transactions(o)' = Transactions(o)
           /\ \A h \in Transactions(o) : tx'[h].ttl = tx[h].ttl
<1>1. CASE SameTransactions /\ \A h \in Hashes : tx'[h].ttl = tx[h].ttl
  BY <1>1, SameKeeps DEF Transactions
<1>2. ASSUME NEW p \in Procs, NEW h \in Hashes, ExecSign(p, h)
      PROVE  /\ Transactions(o)' = Transactions(o)
             /\ \A k \in Transactions(o) : tx'[k].ttl = tx[k].ttl
  <2>1. /\ exec[p].pc = "sign"
        /\ Transactions(o)' = IF o = exec[p].order THEN Transactions(o) \cup {h} ELSE Transactions(o)
        /\ \A k \in Hashes : k # h => tx'[k] = tx[k]
    BY <1>2, SignAdds
  <2>2. o # exec[p].order
    BY <2>1 DEF Claims, Signers
  <2>3. h \notin Transactions(o)
    BY <1>2 DEF ExecSign, Transactions
  <2> QED BY <2>1, <2>2, <2>3 DEF Transactions
<1> QED BY <1>1, <1>2, TxSteps

\* Expired transactions stay so, and cannot trade any more.
LEMMA ExpiryKept ==
    ASSUME Shape, Claims, [Next]_vars, ~Tick, NEW o \in Orders
    PROVE  /\ \A age : Expiring(o, age) => Expiring(o, age)'
           /\ Expired(o) => Expired(o)'
           /\ Expired(o) /\ ~IsExecuted(o) => ~IsExecuted(o)'
<1>1. \A age : Expiring(o, age) => Expiring(o, age)'
  BY DeadlinesKept DEF Expiring, Expires
<1>2. Expired(o) => Expired(o)'
  BY DeadlinesKept DEF Expired
<1>3. ASSUME Expired(o), ~IsExecuted(o) PROVE ~IsExecuted(o)'
  <2>1. CASE UNCHANGED swaps
    BY <1>3, <2>1 DEF IsExecuted
  <2>2. ASSUME NEW h \in Hashes, Mine(h), SwapAllowed(h), Settles(h) PROVE ~IsExecuted(o)'
    <3>1. h \in Transactions(tx[h].order) /\ tx[h].ttl # -1
      BY <2>2, BoundsAssumption DEF Mine, SwapAllowed, Transactions, Shape, ChainOK, TxType
    <3>2. tx[h].order # o
      BY <1>3, <3>1 DEF Expired
    <3>3. swaps'[o] = swaps[o]
      BY <2>2, <3>2 DEF Settles, Shape, ChainOK
    <3> QED BY <1>3, <3>3 DEF IsExecuted
  <2> QED BY <2>1, <2>2, SwapSteps
<1> QED BY <1>1, <1>2, <1>3

\* Only recordTxHash starts the clock of a row, with the whole window left.
LEMMA RowClockStep ==
    ASSUME Shape, Claims, RowClock, NotRetriggered', [Next]_vars, ~Tick
    PROVE  RowClock'
<1> SUFFICES ASSUME NEW o \in Orders, NEW age, row'[o].age = age, age # -1 PROVE Expiring(o, age)'
  BY DEF RowClock, Expiring, Expires, Transactions
<1>1. CASE row'[o].age = row[o].age
  <2>1. Expiring(o, row[o].age)
    BY <1>1 DEF RowClock
  <2> QED BY <1>1, <2>1, ExpiryKept
<1>2. ASSUME NEW p \in Procs, ExecWrite(p, o), At(p, "record"), row'[o].age = 0
      PROVE  Expiring(o, age)'
  <2>1. exec[p].hash \in Transactions(o)
    BY <1>2 DEF ExecWrite, At, Transactions, Shape, SignedOK, Holding, ExecsOK, ExecOK
  <2>2. \A h \in Transactions(o) : Expires(tx[h].ttl, 0)
    BY BoundsAssumption DEF Expires, Transactions, Shape, ChainOK, TxType
  <2>3. Expiring(o, 0)
    BY <2>1, <2>2 DEF Expiring
  <2> QED BY <1>2, <2>3, ExpiryKept
<1>3. CASE UNCHANGED row
  BY <1>1, <1>3
<1>4. ASSUME NEW q \in Orders, UserWrite(q) PROVE Expiring(o, age)'
  BY <1>1, <1>4 DEF UserWrite, Writes
<1>5. ASSUME NEW p \in Procs, NEW q \in Orders, ExecWrite(p, q) PROVE Expiring(o, age)'
  BY <1>1, <1>2, <1>5 DEF ExecWrite, Writes
<1>6. ASSUME NEW p \in Procs, NEW q \in Orders, BgWrite(p, q) PROVE Expiring(o, age)'
  BY <1>1, <1>6 DEF BgWrite, Writes
<1> QED BY <1>3, <1>4, <1>5, <1>6, RowSteps DEF SomeWrite, Claims

\* A check that waited out the grace period looks at an expired transaction.
LEMMA GraceOutlastsWindow ==
    ASSUME Shape, Grace > Window, NEW o, NEW age \in -1..AgeCap, Expiring(o, age), ~WithinGrace(age)
    PROVE  Expired(o)
<1>1. \A h \in Transactions(o) : tx[h].ttl \in -1..Window
  BY DEF Transactions, Shape, ChainOK, TxType
<1>2. ASSUME NEW t \in -1..Window, Expires(t, age) PROVE t = -1
  BY <1>2, BoundsAssumption DEF Expires, WithinGrace, AgeCap
<1> QED BY <1>1, <1>2 DEF Expiring, Expired

\* A check works with the age it read, and asks the contract after the grace.
LEMMA BgClockStep ==
    ASSUME Shape, Claims, Clock, Grace > Window, [Next]_vars, ~Tick
    PROVE  BgClock'
<1> SUFFICES ASSUME NEW p \in Procs PROVE BgClockOf(p)'
  BY DEF BgClock
<1>0. BgClockOf(p) /\ BgOK(bg[p]) /\ bg[p].age \in -1..AgeCap
  BY DEF Clock, BgClock, Shape, BgsOK, BgType
<1>1. ASSUME NEW o \in Orders
      PROVE  /\ \A age : Expiring(o, age) => Expiring(o, age)'
             /\ Expired(o) => Expired(o)'
             /\ Expired(o) /\ ~IsExecuted(o) => ~IsExecuted(o)'
  BY ExpiryKept
<1> USE DEF BgClockOf, Expiring, Expired, Expires, IsExecuted, Transactions
<1>2. CASE bg'[p] = bg[p]
  BY <1>0, <1>1, <1>2 DEF BgOK
<1>3. CASE bg'[p] = IdleBg
  BY <1>3 DEF IdleBg
<1>4. CASE CheckStarts(p)
  <2>1. CASE bg'[p].pc = "receipt"
    <3>1. PICK o \in Orders : bg'[p].order = o /\ bg'[p].age = row[o].age /\ row[o].age # -1
      BY <1>4, <2>1 DEF CheckStarts
    <3> QED BY <1>1, <1>4, <2>1, <3>1 DEF CheckStarts, Clock, RowClock
  <2> QED BY <1>4, <2>1 DEF CheckStarts
<1>5. CASE CheckGoesOn(p)
  <2>1. bg[p].order \in Orders
    BY <1>0, <1>5 DEF CheckGoesOn, BgOK
  <2>2. CASE bg'[p].pc = "gettx"
    BY <1>0, <1>1, <1>5, <2>1, <2>2 DEF CheckGoesOn
  <2>3. CASE bg'[p].pc = "contract"
    <3>1. Expired(bg[p].order)
      BY <1>0, <1>5, <2>3, GraceOutlastsWindow DEF CheckGoesOn
    <3> QED BY <1>0, <1>1, <1>5, <2>1, <2>3, <3>1 DEF CheckGoesOn
  <2>4. CASE bg'[p].pc \in {"apply", "force"}
    BY <1>0, <1>1, <1>5, <2>1, <2>4 DEF CheckGoesOn, DroppedVerdict
  <2> QED BY <1>5, <2>2, <2>3, <2>4 DEF CheckGoesOn
<1> QED BY <1>2, <1>3, <1>4, <1>5, BgSteps DEF CheckMoves

\* A unit of time that passes takes as much from the deadline as it adds to the age.
LEMMA ExpiresLater ==
    ASSUME NEW t \in -1..Window, NEW age \in -1..AgeCap, age # -1, Expires(t, age)
    PROVE  Expires(Sooner(t), Older(age)) /\ Expires(Sooner(t), age) /\ Older(age) # -1
BY BoundsAssumption DEF Expires, Sooner, Older, AgeCap

\* Time keeps the second layer.
LEMMA TickClock ==
    ASSUME Shape, Clock, Tick
    PROVE  Clock'
<1>0. \A h \in Hashes : tx[h].ttl \in -1..Window /\ tx'[h].ttl = Sooner(tx[h].ttl)
  BY DEF Tick, Shape, ChainOK, TxType
<1>1. \A o : Transactions(o)' = Transactions(o)
  BY DEF Tick, Transactions, Shape, ChainOK, TxType
<1>2. \A o : Expired(o) => Expired(o)'
  BY <1>0, <1>1 DEF Expired, Transactions, Sooner
<1>3. ASSUME NEW o, NEW age \in -1..AgeCap, age # -1, Expiring(o, age)
      PROVE  Expiring(o, Older(age))' /\ Expiring(o, age)' /\ Older(age) # -1
  <2>1. \A h \in Transactions(o) : /\ Expires(Sooner(tx[h].ttl), Older(age))
                                   /\ Expires(Sooner(tx[h].ttl), age)
    BY <1>0, <1>3, ExpiresLater DEF Expiring, Transactions
  <2>2. Older(age) # -1
    BY <1>3, BoundsAssumption DEF Older, AgeCap
  <2> QED BY <1>0, <1>1, <1>3, <2>1, <2>2 DEF Expiring, Transactions
<1>4. RowClock'
  <2> SUFFICES ASSUME NEW o \in Orders, NEW age, row'[o].age = age, age # -1 PROVE Expiring(o, age)'
    BY DEF RowClock, Expiring, Expires, Transactions
  <2>1. row[o].age \in -1..AgeCap /\ age = Older(row[o].age)
    BY DEF Tick, Shape, RowsOK, RowType
  <2>2. row[o].age # -1
    BY <2>1 DEF Older
  <2>3. Expiring(o, row[o].age)
    BY <2>2 DEF Clock, RowClock
  <2> QED BY <1>3, <2>1, <2>2, <2>3
<1>5. BgClock'
  <2> SUFFICES ASSUME NEW p \in Procs PROVE BgClockOf(p)'
    BY DEF BgClock
  <2>1. BgClockOf(p) /\ bg[p].age \in -1..AgeCap
    BY DEF Clock, BgClock, Shape, BgsOK, BgType
  <2>2. /\ bg'[p].pc = bg[p].pc /\ bg'[p].order = bg[p].order /\ bg'[p].verdict = bg[p].verdict
        /\ bg'[p].age = IF bg[p].pc = "receipt" THEN Older(bg[p].age) ELSE bg[p].age
    BY DEF Tick, Shape, BgsOK, BgType
  <2>3. UNCHANGED swaps
    BY DEF Tick
  <2> QED BY <1>2, <1>3, <2>1, <2>2, <2>3 DEF BgClockOf, Expiring, Expired, Expires, IsExecuted, Transactions
<1> QED BY <1>4, <1>5 DEF Clock

\* Every step keeps the second layer.
LEMMA ClockStep ==
    ASSUME Shape, Claims, Clock, NotRetriggered', Grace > Window, [Next]_vars
    PROVE  Clock'
BY TickClock, RowClockStep, BgClockStep DEF Clock

\* The second layer holds where the grace period outlasts the window.
LEMMA ClockHolds ==
    Grace > Window => (Spec => [](Shape /\ Evidence /\ (NotRetriggered => Claims /\ Clock)))
<1> SUFFICES ASSUME Grace > Window
             PROVE  Spec => [](Shape /\ Evidence /\ (NotRetriggered => Claims /\ Clock))
  OBVIOUS
<1> DEFINE Inv == Shape /\ Evidence /\ (NotRetriggered => Claims /\ Clock)
<1>1. Inv /\ [Next]_vars => Inv'
  BY ShapeStep, EvidenceStep, ClaimsStep, ClockStep, NotRetriggeredBefore
<1>2. Init => Inv
  BY ShapeInit, EvidenceInit, ClaimsInit, ClockInit
<1> QED BY <1>1, <1>2, PTL DEF Spec

\* With a grace period longer than the deadline window the monitor's verdict
\* DROPPED_NOT_EXECUTED is final, in any number of processes: getOutcome asks
\* the contract only when no transaction of the order can be traded any more.
THEOREM EngineDroppedIsFinal ==
    Grace > Window => (Spec => [](NotRetriggered => DroppedIsFinal))
<1> SUFFICES ASSUME Grace > Window PROVE Spec => [](NotRetriggered => DroppedIsFinal)
  OBVIOUS
<1>1. Clock => DroppedIsFinal
  <2> SUFFICES ASSUME Clock, NEW p \in Procs, bg[p].verdict = "DROPPED_NOT_EXECUTED"
               PROVE  /\ ~IsExecuted(bg[p].order)
                      /\ \A h \in Transactions(bg[p].order) : ~CanStillSettle(h)
    BY DEF DroppedIsFinal
  <2>1. ~IsExecuted(bg[p].order) /\ Expired(bg[p].order)
    BY DEF Clock, BgClock, BgClockOf
  <2>2. ~(-1 >= 0)
    OBVIOUS
  <2> QED BY <2>1, <2>2 DEF Expired, CanStillSettle
<1> QED BY <1>1, ClockHolds, PTL

---------------------------------------------------------------------------
(* One executor at a time works on an order, unless locks lapse. *)

Owned == \A p \in Procs : exec[p].pc # "idle" => Holds(p, exec[p].order)

Exclusive ==
    \A p, q \in Procs : exec[p].pc # "idle" /\ exec[q].pc # "idle"
                        /\ exec[p].order = exec[q].order => p = q

\* A lock has one holder, so an order has one executor.
LEMMA OwnedIsExclusive == Owned => Exclusive
BY DEF Owned, Exclusive, Holds

\* An executor that goes on keeps its job...
LEMMA OwnedGoesOn ==
    ASSUME Shape, Owned, UNCHANGED job, NEW p \in Procs, NEW e, exec[p].pc # "idle",
           e.order = exec[p].order, exec' = [exec EXCEPT ![p] = e]
    PROVE  Owned'
BY DEF Owned, Holds, Shape, ExecsOK

\* ...and one that stops gives up no job but its own.
LEMMA OwnedStops ==
    ASSUME Shape, Owned, NEW p \in Procs, exec' = [exec EXCEPT ![p] = IdleExec],
           \/ UNCHANGED job
           \/ /\ exec[p].order \in Orders /\ Holds(p, exec[p].order)
              /\ \A o \in Orders : o # exec[p].order => job'[o] = job[o]
    PROVE  Owned'
<1>1. \A q \in Procs : exec'[q].pc # "idle" => q # p /\ exec'[q] = exec[q]
  BY DEF IdleExec, Shape, ExecsOK
<1>2. \A q \in Procs : exec'[q].pc # "idle" => job'[exec[q].order] = job[exec[q].order]
  BY <1>1 DEF Owned, Holds, Shape, ExecsOK, ExecOK
<1> QED BY <1>1, <1>2 DEF Owned, Holds

\* Without lapses, no step takes the lock of a busy executor.
LEMMA OwnedStep ==
    ASSUME Shape, Owned, ~LocksLapse, [Next]_vars
    PROVE  Owned'
<1>0. exec \in [Procs -> ExecType] /\ job \in [Orders -> JobType]
  BY DEF Shape, ExecsOK, QueuesOK
<1>1. UNCHANGED <<job, exec>> => Owned'
  BY DEF Owned, Holds
<1>2. ASSUME NEW p \in Procs, NEW o \in Orders, ExecStart(p, o) PROVE Owned'
  <2>1. \A q \in Procs : exec[q].pc # "idle" => exec[q].order # o /\ exec[q].order \in Orders
    BY <1>2 DEF ExecStart, Owned, Holds, Shape, ExecsOK, ExecOK
  <2>2. CASE row[o].status = "TRIGGERED"
    <3>1. job'[o].state = "active" /\ job'[o].owner = p /\ \A k \in Orders : k # o => job'[k] = job[k]
      BY <1>0, <1>2, <2>2 DEF ExecStart, JobType
    <3> DEFINE e == [IdleExec EXCEPT !.pc = "chain", !.order = o, !.version = row[o].version]
    <3>2. exec' = [exec EXCEPT ![p] = e] /\ e.order = o
      BY <1>2, <2>2 DEF ExecStart, IdleExec
    <3> HIDE DEF e
    <3>3. exec'[p].order = o /\ \A q \in Procs : q # p => exec'[q] = exec[q]
      BY <1>0, <3>2
    <3> QED BY <2>1, <3>1, <3>3 DEF Owned, Holds
  <2>3. CASE row[o].status # "TRIGGERED"
    BY <1>0, <1>2, <2>1, <2>3 DEF ExecStart, Owned, Holds
  <2> QED BY <2>2, <2>3
<1>3. ASSUME NEW p \in Procs, NEW o \in Orders, ExecStartFails(p, o) PROVE Owned'
  <2>1. \A q \in Procs : exec[q].pc # "idle" => exec[q].order # o /\ exec[q].order \in Orders
    BY <1>3 DEF ExecStartFails, Owned, Holds, Shape, ExecsOK, ExecOK
  <2> QED BY <1>0, <1>3, <2>1 DEF ExecStartFails, AttemptFails, Owned, Holds
<1>4. ASSUME NEW p \in Procs, NEW pc, exec[p].pc # "idle", Goto(p, pc), UNCHANGED job PROVE Owned'
  <2> DEFINE e == [exec[p] EXCEPT !.pc = pc]
  <2>1. exec' = [exec EXCEPT ![p] = e] /\ e.order = exec[p].order
    BY <1>0, <1>4 DEF Goto, ExecType
  <2> QED BY <1>4, <2>1, OwnedGoesOn
<1>5. ASSUME NEW p \in Procs, exec[p].pc # "idle", Return(p) PROVE Owned'
  BY <1>0, <1>5, OwnedStops DEF Return, JobCompletes, Shape, ExecsOK, ExecOK
<1>6. ASSUME NEW p \in Procs, ExecThrow(p) PROVE Owned'
  BY <1>0, <1>6, OwnedStops DEF ExecThrow, At, JobThrows, AttemptFails, Shape, ExecsOK, ExecOK
<1>7. ASSUME NEW p \in Procs, ExecPreflight(p) PROVE Owned'
  <2> DEFINE e == [exec[p] EXCEPT !.pc = "claim", !.ttl = Window]
  <2>1. exec' = [exec EXCEPT ![p] = e] /\ e.order = exec[p].order /\ exec[p].pc # "idle" /\ UNCHANGED job
    BY <1>0, <1>7 DEF ExecPreflight, At, ExecType, queues
  <2> QED BY <2>1, OwnedGoesOn
<1>8. ASSUME NEW p \in Procs, NEW h \in Hashes, ExecSign(p, h) PROVE Owned'
  <2> DEFINE e == [exec[p] EXCEPT !.pc = "record", !.hash = h]
  <2>1. exec' = [exec EXCEPT ![p] = e] /\ e.order = exec[p].order /\ exec[p].pc # "idle" /\ UNCHANGED job
    BY <1>0, <1>8 DEF ExecSign, At, ExecType, queues
  <2> QED BY <2>1, OwnedGoesOn
<1>9. ASSUME NEW p \in Procs, FailRead(p) PROVE Owned'
  <2> DEFINE o == exec[p].order
             e == [exec[p] EXCEPT !.pc = "failcas", !.status = row[o].status, !.version = row[o].version]
  <2>1. exec[p].pc # "idle" /\ (Return(p) \/ (exec' = [exec EXCEPT ![p] = e] /\ UNCHANGED job))
    BY <1>9 DEF FailRead, At, queues
  <2>2. e.order = exec[p].order
    BY <1>0 DEF ExecType
  <2> QED BY <1>5, <2>1, <2>2, OwnedGoesOn
<1>10. ASSUME NEW p \in Procs, Execute(p) PROVE Owned'
  <2>1. CASE ExecAskChain(p)
    BY <1>4, <2>1 DEF ExecAskChain, At, queues
  <2>2. CASE ExecSettle(p) \/ FailWrite(p) \/ ExecHandoff(p)
    BY <1>5, <2>2 DEF ExecSettle, FailWrite, ExecHandoff, At
  <2>3. CASE ExecClaim(p)
    BY <1>4, <1>5, <2>3 DEF ExecClaim, At
  <2>4. CASE ExecRecord(p) \/ ExecBroadcast(p) \/ ExecError(p)
    BY <1>4, <2>4 DEF ExecRecord, ExecBroadcast, ExecError, At, queues
  <2> QED BY <1>2, <1>3, <1>6, <1>7, <1>8, <1>9, <1>10, <2>1, <2>2, <2>3, <2>4 DEF Execute
<1>11. ASSUME NEW p \in Procs, Crash(p) PROVE Owned'
  BY <1>11, OwnedStops DEF Crash
<1>12. ASSUME NEW p \in Procs, Trigger(p) PROVE Owned'
  <2>1. CASE TriggerEnqueue(p)
    <3>1. \A q \in Procs : exec[q].pc # "idle" => job'[exec[q].order] = job[exec[q].order]
      BY <1>0, <2>1 DEF TriggerEnqueue, PipelineEnqueue, Owned, Holds, Shape, ExecsOK, ExecOK, HandOK
    <3> QED BY <2>1, <3>1 DEF TriggerEnqueue, Owned, Holds
  <2> QED BY <1>1, <1>12, <2>1 DEF Trigger, TriggerClaim, TriggerEnqueueFails, queues
<1>13. ASSUME NEW o \in Orders, Queue(o) PROVE Owned'
  <2>1. RecoverDeadJob(o)
    BY <1>13 DEF Queue, LockLapses
  <2>2. \A q \in Procs : exec[q].pc # "idle" => exec[q].order # o /\ exec[q].order \in Orders
    BY <2>1 DEF RecoverDeadJob, Owned, Holds, Shape, ExecsOK, ExecOK
  <2> QED BY <1>0, <2>1, <2>2 DEF RecoverDeadJob, JobStalls, Owned, Holds
<1>14. CASE Tick
  <2>1. \A q \in Procs : exec'[q].pc = exec[q].pc /\ exec'[q].order = exec[q].order
    BY <1>0, <1>14 DEF Tick, ExecType
  <2> QED BY <1>14, <2>1 DEF Tick, queues, Owned, Holds
<1>15. ASSUME NEW p \in Procs, Background(p) PROVE Owned'
  BY <1>1, <1>15 DEF Background, MonitorJob, SweepStuck, BackfillRead, AuditRead, GetReceipt, TxFound,
     TxMissing, AskContract, RpcError, Apply, AuditAsk, ReconcileForce, BgThrow, queues
<1>16. ASSUME NEW o \in Orders, Backend(o) PROVE Owned'
  BY <1>1, <1>16 DEF Backend, CancelRead, CancelWrite, MarkTriggered, queues
<1>17. (\E h \in Hashes : Network(h)) \/ UNCHANGED vars => Owned'
  BY <1>1 DEF Network, Mine, Vanish, vars, queues
<1> QED BY <1>10, <1>11, <1>12, <1>13, <1>14, <1>15, <1>16, <1>17 DEF Next

---------------------------------------------------------------------------
(* Nothing is broadcast before it is recorded. *)

\* o is looked at by the monitor, or will be.
Watches(b, o) == b.order = o /\ (b.fromJob \/ b.pc \in {"receipt", "gettx", "contract", "apply"})

Watched(o) == o \in mon \/ \E p \in Procs : Watches(bg[p], o)

\* The row knows of a transaction on the network or in a block.
OnChain == {"pending", "success"}

TxRecorded == \A h \in Hashes : tx[h].state \in OnChain => row[tx[h].order].hash # NoHash

\* Until its hash is recorded the executor has the row to itself; then the row
\* has the hash.
ExecRecorded ==
    \A p \in Procs :
        /\ exec[p].pc \in {"sign", "record"} => /\ row[exec[p].order].status = "EXECUTING"
                                                /\ row[exec[p].order].age = -1
        /\ exec[p].pc = "broadcast" => row[exec[p].order].hash # NoHash
        /\ exec[p].pc \in {"broadcast", "handoff"} => row[exec[p].order].age # -1

\* Only a submitted order is watched: nothing fails a claim that is under way.
RowRecorded ==
    \A o \in Orders :
        /\ row[o].age # -1 => Transactions(o) # {} /\ row[o].hash # NoHash
        /\ row[o].status = "EXECUTING" /\ row[o].hash # NoHash => row[o].age # -1
        /\ Watched(o) => row[o].age # -1

Recorded == TxRecorded /\ ExecRecorded /\ RowRecorded

\* Nothing is watched or broadcast at first.
LEMMA RecordedInit == Init => Recorded
<1> SUFFICES ASSUME Init PROVE Recorded
  OBVIOUS
<1>1. TxRecorded
  BY DEF Init, TxRecorded, OnChain, UnusedTx
<1>2. ExecRecorded
  BY DEF Init, ExecRecorded, IdleExec
<1>3. RowRecorded
  BY DEF Init, RowRecorded, Watched, Watches, NewRow, IdleBg
<1> QED BY <1>1, <1>2, <1>3 DEF Recorded

\* A recorded hash and its time are never taken back.
LEMMA RecordStays ==
    ASSUME Shape, Claims, NotRetriggered', [Next]_vars, NEW o \in Orders
    PROVE  /\ row[o].age # -1 => row'[o].age # -1
           /\ row[o].hash # NoHash => row'[o].hash # NoHash
<1> DEFINE Goal == /\ row[o].age # -1 => row'[o].age # -1
                   /\ row[o].hash # NoHash => row'[o].hash # NoHash
<1>1. CASE Tick
  <2>1. row[o].age \in -1..AgeCap /\ row'[o].age = Older(row[o].age) /\ row'[o].hash = row[o].hash
    BY <1>1 DEF Tick, Shape, RowsOK, RowType
  <2> QED BY <2>1 DEF Older
<1>2. ASSUME NEW q \in Orders, UserWrite(q) PROVE Goal
  BY <1>2 DEF UserWrite, Writes
<1>3. ASSUME NEW p \in Procs, NEW q \in Orders, ExecWrite(p, q) PROVE Goal
  BY <1>3, SentinelsAssumption DEF ExecWrite, Writes, At, Shape, ExecsOK, ExecOK
<1>4. ASSUME NEW p \in Procs, NEW q \in Orders, BgWrite(p, q) PROVE Goal
  BY <1>4 DEF BgWrite, Writes
<1> QED BY <1>1, <1>2, <1>3, <1>4, RowSteps DEF SomeWrite, Claims

\* The monitor queue gets an order at its hand-off or by a deferred failure.
LEMMA MonSteps ==
    ASSUME Shape, [Next]_vars, NEW o \in Orders, o \in mon'
    PROVE  \/ Watched(o)
           \/ \E p \in Procs : exec[p].order = o /\ At(p, "handoff")
           \/ FailureDeferred(o)
<1> DEFINE Goal == \/ Watched(o)
                   \/ \E p \in Procs : exec[p].order = o /\ At(p, "handoff")
                   \/ FailureDeferred(o)
<1>1. (mon' \subseteq mon => Goal) /\ (o \in mon => Goal)
  BY DEF Watched
<1>2. \A p \in Procs : bg[p].fromJob /\ mon' \subseteq mon \cup {bg[p].order} => Goal
  BY DEF Watched, Watches
<1>3. ASSUME NEW p \in Procs, Execute(p) PROVE Goal
  <2>1. CASE ExecHandoff(p)
    BY <1>1, <2>1 DEF ExecHandoff, MonitorEnqueue
  <2>2. CASE FailRead(p)
    BY <1>1, <2>2 DEF FailRead, MonitorEnqueue, queues
  <2> QED BY <1>1, <1>3, <2>1, <2>2 DEF Execute, ExecStart, ExecStartFails, ExecAskChain, ExecSettle, ExecPreflight,
       ExecClaim, ExecSign, ExecRecord, ExecBroadcast, ExecError, FailWrite, ExecThrow, queues
<1>4. ASSUME NEW p \in Procs, Background(p) PROVE Goal
  BY <1>1, <1>2, <1>4 DEF Background, MonitorJob, SweepStuck, BackfillRead, AuditRead, GetReceipt, TxFound,
     TxMissing, AskContract, RpcError, Apply, AuditAsk, ReconcileForce, BgThrow, NoVerdict, queues
<1>5. ASSUME NEW p \in Procs, Crash(p) PROVE Goal
  BY <1>1, <1>2, <1>5 DEF Crash
<1>6. ASSUME NEW p \in Procs, Trigger(p) PROVE Goal
  BY <1>1, <1>6 DEF Trigger, TriggerClaim, TriggerEnqueue, TriggerEnqueueFails, queues
<1>7. ASSUME NEW q \in Orders, Backend(q) \/ Queue(q) PROVE Goal
  BY <1>1, <1>7 DEF Backend, Queue, CancelRead, CancelWrite, MarkTriggered, RecoverDeadJob, LockLapses, queues
<1>8. (\E h \in Hashes : Network(h)) \/ Tick \/ UNCHANGED vars => Goal
  BY <1>1 DEF Network, Mine, Vanish, Tick, vars, queues
<1> QED BY <1>3, <1>4, <1>5, <1>6, <1>7, <1>8 DEF Next

\* An order becomes watched by the queue or because it is stuck.
LEMMA WatchSteps ==
    ASSUME Shape, [Next]_vars, NEW o \in Orders, Watched(o)'
    PROVE  \/ Watched(o) \/ row[o].age > StuckAfter
           \/ \E p \in Procs : exec[p].order = o /\ At(p, "handoff")
           \/ FailureDeferred(o)
<1>1. CASE o \in mon'
  BY <1>1, MonSteps
<1>2. ASSUME NEW p \in Procs, Watches(bg'[p], o) PROVE Watched(o) \/ row[o].age > StuckAfter
  <2>1. CASE Tick
    <3>1. bg'[p].pc = bg[p].pc /\ bg'[p].order = bg[p].order /\ bg'[p].fromJob = bg[p].fromJob
      BY <2>1 DEF Tick, Shape, BgsOK, BgType
    <3> QED BY <1>2, <3>1 DEF Watched, Watches
  <2>2. CASE bg'[p] = bg[p]
    BY <1>2, <2>2 DEF Watched
  <2>3. CASE bg'[p] = IdleBg
    BY <1>2, <2>3 DEF Watches, IdleBg
  <2>4. CASE CheckStarts(p)
    BY <1>2, <2>4 DEF CheckStarts, Watches, Watched, FindStuckExecuting
  <2>5. CASE CheckGoesOn(p)
    BY <1>2, <2>5 DEF CheckGoesOn, Watches, Watched
  <2> QED BY <2>1, <2>2, <2>3, <2>4, <2>5, BgSteps DEF CheckMoves
<1> QED BY <1>1, <1>2 DEF Watched, Watches

\* A transaction gets on the chain from an executor that broadcasts it.
LEMMA PendingSteps ==
    ASSUME Shape, [Next]_vars, NEW h \in Hashes, tx'[h].state \in OnChain
    PROVE  tx[h].state \in OnChain \/ \E p \in Procs : At(p, "broadcast") /\ exec[p].hash = h
<1> USE DEF OnChain
<1> DEFINE Goal == tx[h].state \in OnChain \/ \E p \in Procs : At(p, "broadcast") /\ exec[p].hash = h
<1>1. UNCHANGED tx => Goal
  OBVIOUS
<1>2. ASSUME NEW p \in Procs, At(p, "broadcast"), Broadcast(exec[p].hash) PROVE Goal
  BY <1>2 DEF Broadcast, Shape, ChainOK
<1>3. ASSUME NEW p \in Procs, Execute(p) PROVE Goal
  <2>1. CASE ExecBroadcast(p)
    BY <1>2, <2>1 DEF ExecBroadcast
  <2>2. CASE ExecError(p)
    BY <1>1, <1>2, <2>2 DEF ExecError
  <2>3. ASSUME NEW k \in Hashes, ExecSign(p, k) PROVE Goal
    BY <2>3 DEF ExecSign, Shape, ChainOK
  <2> QED BY <1>1, <1>3, <2>1, <2>2, <2>3 DEF Execute, ExecStart, ExecStartFails, ExecAskChain, ExecSettle,
       ExecPreflight, ExecClaim, ExecRecord, ExecHandoff, FailRead, FailWrite, ExecThrow, chain
<1>4. ASSUME NEW k \in Hashes, Network(k) PROVE Goal
  BY <1>4 DEF Network, Mine, Settles, Vanish, Shape, ChainOK, TxType
<1>5. CASE Tick
  BY <1>5 DEF Tick, Shape, ChainOK, TxType
<1>6. ASSUME NEW p \in Procs, Trigger(p) \/ Background(p) \/ Crash(p) PROVE Goal
  BY <1>1, <1>6 DEF Trigger, Background, TriggerClaim, TriggerEnqueue, TriggerEnqueueFails, MonitorJob,
     SweepStuck, BackfillRead, AuditRead, GetReceipt, TxFound, TxMissing, AskContract, RpcError, Apply,
     AuditAsk, ReconcileForce, BgThrow, Crash, chain
<1>7. ASSUME NEW o \in Orders, Backend(o) \/ Queue(o) PROVE Goal
  BY <1>1, <1>7 DEF Backend, Queue, CancelRead, CancelWrite, MarkTriggered, RecoverDeadJob, LockLapses, chain
<1>8. CASE UNCHANGED vars
  BY <1>1, <1>8 DEF vars, chain
<1> QED BY <1>3, <1>4, <1>5, <1>6, <1>7, <1>8 DEF Next

\* An order has a single transaction at its executor: while it is not on the
\* network, nothing was traded.
LEMMA HeldIsUnsettled ==
    ASSUME Shape, Claims, NEW p \in Procs, exec[p].pc \in {"sign", "record"}
    PROVE  ~IsExecuted(exec[p].order)
<1>1. exec[p].order \in Orders
  BY DEF Shape, ExecsOK, ExecOK
<1>2. ASSUME NEW k \in Hashes, tx[k].state = "success", tx[k].order = exec[p].order PROVE FALSE
  <2>1. k \in Transactions(exec[p].order)
    BY <1>2 DEF Transactions
  <2>2. exec[p].pc = "record"
    BY <2>1 DEF Claims, Signers
  <2>3. exec[p].hash \in Transactions(exec[p].order) /\ tx[exec[p].hash].state = "signed"
    BY <2>2 DEF Transactions, Shape, SignedOK, Holding, ExecsOK, ExecOK
  <2> QED BY <1>1, <1>2, <2>1, <2>3 DEF Claims, OneTransactionPerOrder
<1> QED BY <1>1, <1>2 DEF Shape, ChainOK

\* While an executor is about to sign or to record, nobody else writes the row.
LEMMA HeldRowIsKept ==
    ASSUME Shape, Evidence, Claims, Exclusive, Recorded, NotRetriggered', [Next]_vars,
           NEW p \in Procs, exec[p].pc \in {"sign", "record"}, exec'[p].pc = exec[p].pc
    PROVE  /\ row'[exec[p].order].status = "EXECUTING"
           /\ row'[exec[p].order].age = -1
<1> DEFINE o == exec[p].order
           Goal == row'[o].status = "EXECUTING" /\ row'[o].age = -1
<1>1. o \in Orders /\ row[o].status = "EXECUTING" /\ row[o].age = -1
  BY DEF Recorded, ExecRecorded, Shape, ExecsOK, ExecOK
<1>2. CASE Tick
  BY <1>1, <1>2 DEF Tick, Older, Shape, RowsOK, RowType
<1>3. ASSUME NEW q \in Orders, UserWrite(q) PROVE Goal
  BY <1>1, <1>3 DEF UserWrite, Writes, UserCancellable
<1>4. ASSUME NEW r \in Procs, NEW q \in Orders, ExecWrite(r, q) PROVE Goal
  <2>1. CASE q # o
    BY <1>1, <1>4, <2>1 DEF ExecWrite, Writes
  <2>2. CASE q = o
    <3>1. exec[r].pc # "idle" /\ exec[r].order = exec[p].order
      BY <1>4, <2>2 DEF ExecWrite, At
    <3>2. r = p
      BY <3>1 DEF Exclusive
    <3> QED BY <1>4, <3>2 DEF ExecWrite, At
  <2> QED BY <2>1, <2>2
<1>5. ASSUME NEW r \in Procs, NEW q \in Orders, BgWrite(r, q) PROVE Goal
  <2>1. CASE q # o
    BY <1>1, <1>5, <2>1 DEF BgWrite, Writes
  <2>2. CASE q = o
    <3>1. ~BgAt(r, "apply")
      BY <1>1, <1>5, <2>2 DEF BgWrite, BgAt, Recorded, RowRecorded, Watched, Watches
    <3>2. ~BgAt(r, "force")
      BY <1>5, <2>2, HeldIsUnsettled DEF BgWrite, BgAt, Evidence, BgEvidence, BgKnows
    <3> QED BY <1>5, <3>1, <3>2 DEF BgWrite
  <2> QED BY <2>1, <2>2
<1> QED BY <1>1, <1>2, <1>3, <1>4, <1>5, RowSteps DEF SomeWrite, Claims

\* Nobody takes the row from an executor that has not recorded its hash.
LEMMA ExecRecordedStep ==
    ASSUME Shape, Evidence, Claims, Exclusive, Recorded, NotRetriggered', [Next]_vars
    PROVE  ExecRecorded'
<1> SUFFICES ASSUME NEW p \in Procs, exec'[p].pc \in Committing
             PROVE  /\ exec'[p].pc \in {"sign", "record"} => /\ row'[exec'[p].order].status = "EXECUTING"
                                                             /\ row'[exec'[p].order].age = -1
                    /\ exec'[p].pc = "broadcast" => row'[exec'[p].order].hash # NoHash
                    /\ exec'[p].pc \in {"broadcast", "handoff"} => row'[exec'[p].order].age # -1
  BY DEF ExecRecorded, Committing
<1> DEFINE o == exec[p].order
<1>0. exec[p] \in ExecType /\ (exec[p].pc # "idle" => o \in Orders)
  BY DEF Shape, ExecsOK, ExecOK
<1>1. CASE exec'[p].pc = exec[p].pc /\ exec'[p].order = o
  BY <1>0, <1>1, HeldRowIsKept, RecordStays DEF Recorded, ExecRecorded, Committing
<1>2. CASE /\ exec'[p].pc = "sign" /\ exec'[p].order = o
           /\ ExecClaim(p) /\ Matches(o, "TRIGGERED", exec[p].version)
  <2>1. o \in Orders /\ row[o].status = "TRIGGERED"
    BY <1>0, <1>2 DEF ExecClaim, At, Matches
  <2>2. row[o].age = -1
    BY <2>1 DEF Recorded, RowRecorded, Claims, Free, Unclaimed
  <2>3. row'[o].status = "EXECUTING" /\ row'[o].age = row[o].age
    BY <1>2, <2>1 DEF ExecClaim, TransitionStatus, Shape, RowsOK, RowType
  <2> QED BY <1>2, <2>2, <2>3
<1>3. ASSUME NEW h \in Hashes, ExecSign(p, h)
      PROVE  /\ exec'[p].pc = "record"
             /\ row'[exec'[p].order].status = "EXECUTING" /\ row'[exec'[p].order].age = -1
  <2>1. exec[p].pc = "sign" /\ exec'[p].order = o /\ exec'[p].pc = "record" /\ UNCHANGED row
    BY <1>0, <1>3 DEF ExecSign, At, Shape, ExecsOK, ExecType
  <2> QED BY <2>1 DEF Recorded, ExecRecorded
<1>4. CASE exec'[p].pc = "broadcast" /\ ExecRecord(p)
  <2>1. exec[p].pc = "record" /\ o \in Orders /\ exec[p].hash \in Hashes /\ exec'[p].order = o
    BY <1>4 DEF ExecRecord, At, Goto, Shape, ExecsOK, ExecOK, ExecType
  <2>2. row[o].status = "EXECUTING"
    BY <2>1 DEF Recorded, ExecRecorded
  <2>3. row'[o].hash = exec[p].hash /\ row'[o].age = 0
    BY <1>4, <2>1, <2>2 DEF ExecRecord, RecordTxHash, Shape, RowsOK, RowType
  <2> QED BY <1>4, <2>1, <2>3, SentinelsAssumption
<1>5. CASE exec'[p].pc = "handoff" /\ ExecBroadcast(p)
  <2>1. exec[p].pc = "broadcast" /\ o \in Orders /\ exec'[p].order = o /\ UNCHANGED row
    BY <1>5 DEF ExecBroadcast, At, Goto, Shape, ExecsOK, ExecOK, ExecType
  <2> QED BY <1>5, <2>1 DEF Recorded, ExecRecorded
<1>6. Advances(p)
  BY ExecSteps
<1> QED BY <1>1, <1>2, <1>3, <1>4, <1>5, <1>6 DEF Advances

\* No step lets the row forget a transaction on the network.
LEMMA TxRecordedStep ==
    ASSUME Shape, Claims, Recorded, NotRetriggered', [Next]_vars
    PROVE  TxRecorded'
<1> SUFFICES ASSUME NEW h \in Hashes, tx'[h].state \in OnChain PROVE row'[tx'[h].order].hash # NoHash
  BY DEF TxRecorded
<1>1. tx[h].state # "unused" /\ tx[h].order \in Orders /\ row[tx[h].order].hash # NoHash
  <2>1. CASE tx[h].state \in OnChain
    BY <2>1 DEF Recorded, TxRecorded, OnChain, Shape, ChainOK
  <2>2. ASSUME NEW p \in Procs, At(p, "broadcast"), exec[p].hash = h
        PROVE  tx[h].state # "unused" /\ tx[h].order \in Orders /\ row[tx[h].order].hash # NoHash
    BY <2>2 DEF At, Recorded, ExecRecorded, Shape, SignedOK, Holding, ChainOK
  <2> QED BY <2>1, <2>2, PendingSteps
<1>2. tx'[h].order = tx[h].order
  BY <1>1, ChainGrowsStep DEF ChainGrows
<1> QED BY <1>1, <1>2, RecordStays

\* A row is watched only after its clock was started.
LEMMA RowRecordedStep ==
    ASSUME Shape, Evidence, Claims, Recorded, NotRetriggered', [Next]_vars
    PROVE  RowRecorded'
<1> SUFFICES ASSUME NEW o \in Orders
             PROVE  /\ row'[o].age # -1 => Transactions(o)' # {} /\ row'[o].hash # NoHash
                    /\ row'[o].status = "EXECUTING" /\ row'[o].hash # NoHash => row'[o].age # -1
                    /\ Watched(o)' => row'[o].age # -1
  BY DEF RowRecorded
<1>1. Watched(o)' => row'[o].age # -1
  <2>1. ASSUME NEW p \in Procs, exec[p].order = o, At(p, "handoff") PROVE row[o].age # -1
    BY <2>1 DEF At, Recorded, ExecRecorded
  <2>2. FailureDeferred(o) \/ Watched(o) => row[o].age # -1
    BY DEF FailureDeferred, Recorded, RowRecorded
  <2>3. row[o].age > StuckAfter => row[o].age # -1
    BY BoundsAssumption DEF Shape, RowsOK, RowType
  <2> QED BY <2>1, <2>2, <2>3, WatchSteps, RecordStays
<1>2. Transactions(o) # {} => Transactions(o)' # {}
  BY ChainGrowsStep DEF ChainGrows, Transactions
<1> DEFINE Goal == /\ row'[o].age # -1 => Transactions(o)' # {} /\ row'[o].hash # NoHash
                   /\ row'[o].status = "EXECUTING" /\ row'[o].hash # NoHash => row'[o].age # -1
<1>3. ASSUME row'[o].status = row[o].status, row'[o].hash = row[o].hash,
             row'[o].age # -1 => row[o].age # -1, row[o].age # -1 => row'[o].age # -1
      PROVE  Goal
  BY <1>2, <1>3 DEF Recorded, RowRecorded
<1>4. ASSUME row'[o].status # "EXECUTING", row'[o].age = row[o].age,
             row'[o].hash = row[o].hash \/ row'[o].hash # NoHash
      PROVE  Goal
  BY <1>2, <1>4 DEF Recorded, RowRecorded
<1>5. ASSUME Tick PROVE Goal
  <2>1. row[o].age \in -1..AgeCap /\ row'[o].age = Older(row[o].age)
        /\ row'[o].hash = row[o].hash /\ row'[o].status = row[o].status
    BY <1>5 DEF Tick, Shape, RowsOK, RowType
  <2>2. (row'[o].age # -1 => row[o].age # -1) /\ (row[o].age # -1 => row'[o].age # -1)
    BY <2>1 DEF Older
  <2> QED BY <1>3, <2>1, <2>2
<1>6. ASSUME NEW q \in Orders, UserWrite(q) PROVE Goal
  BY <1>3, <1>4, <1>6 DEF UserWrite, Writes, Unclaimed
<1>7. ASSUME NEW p \in Procs, NEW q \in Orders, ExecWrite(p, q) PROVE Goal
  <2>1. CASE q # o
    BY <1>3, <1>7, <2>1 DEF ExecWrite, Writes
  <2>2. CASE q = o /\ At(p, "claim")
    <3>1. row[o].status = "TRIGGERED" /\ row'[o].hash = row[o].hash /\ row'[o].age = row[o].age
      BY <1>7, <2>2 DEF ExecWrite, Writes, At
    <3>2. Transactions(o) = {}
      BY <3>1 DEF Claims, Free, Unclaimed
    <3>3. row[o].hash = NoHash
      BY <3>2 DEF Evidence, RowEvidence, Belongs, Transactions, Shape, RowsOK, RowType
    <3> QED BY <1>2, <3>1, <3>3 DEF Recorded, RowRecorded
  <2>3. CASE q = o /\ At(p, "record")
    <3>1. row'[o].age = 0 /\ row'[o].hash = exec[p].hash
      BY <1>7, <2>3 DEF ExecWrite, Writes, At
    <3>2. exec[p].hash \in Transactions(o)
      BY <1>7, <2>3 DEF ExecWrite, At, Transactions, Shape, SignedOK, Holding, ExecsOK, ExecOK
    <3>3. exec[p].hash # NoHash
      BY <2>3, SentinelsAssumption DEF At, Shape, ExecsOK, ExecOK
    <3> QED BY <1>2, <3>1, <3>2, <3>3
  <2>4. CASE q = o /\ (At(p, "settle") \/ At(p, "failcas"))
    BY <1>4, <1>7, <2>4 DEF ExecWrite, Writes, At
  <2> QED BY <1>7, <2>1, <2>2, <2>3, <2>4 DEF ExecWrite
<1>8. ASSUME NEW p \in Procs, NEW q \in Orders, BgWrite(p, q) PROVE Goal
  BY <1>3, <1>4, <1>8 DEF BgWrite, Writes
<1>9. Goal
  BY <1>3, <1>5, <1>6, <1>7, <1>8, RowSteps DEF SomeWrite, Claims
<1> QED BY <1>1, <1>9

\* Every step keeps the last layer.
LEMMA RecordedStep ==
    ASSUME Shape, Evidence, Claims, Exclusive, Recorded, NotRetriggered', [Next]_vars
    PROVE  Recorded'
BY TxRecordedStep, ExecRecordedStep, RowRecordedStep DEF Recorded

\* One worker process, or workers whose locks never lapse while they run.
OneExecutorPerJob == ~LocksLapse \/ \A p, q \in Procs : p = q

\* The last layer holds where a job has one executor at a time.
LEMMA RecordedHolds ==
    OneExecutorPerJob =>
        (Spec => [](Shape /\ Evidence /\ Exclusive /\ (NotRetriggered => Claims /\ Recorded)))
<1> SUFFICES ASSUME OneExecutorPerJob
             PROVE  Spec => [](Shape /\ Evidence /\ Exclusive /\ (NotRetriggered => Claims /\ Recorded))
  OBVIOUS
<1> DEFINE Inv == /\ Shape /\ Evidence /\ (NotRetriggered => Claims /\ Recorded)
                  /\ Exclusive /\ (~LocksLapse => Owned)
<1>1. Init => Inv
  <2>1. Init => Owned
    BY DEF Init, Owned, IdleExec
  <2> QED BY <2>1, ShapeInit, EvidenceInit, ClaimsInit, RecordedInit, OwnedIsExclusive
<1>2. Inv /\ [Next]_vars => Inv'
  <2> SUFFICES ASSUME Inv, [Next]_vars PROVE Inv'
    OBVIOUS
  <2>1. (Shape /\ Evidence)' /\ (NotRetriggered => Claims /\ Recorded)'
    BY ShapeStep, EvidenceStep, ClaimsStep, RecordedStep, NotRetriggeredBefore
  <2>2. CASE ~LocksLapse
    <3>1. Owned'
      BY <2>2, OwnedStep
    <3>2. (Owned => Exclusive)'
      BY OwnedIsExclusive, PTL
    <3> QED BY <2>1, <3>1, <3>2
  <2>3. CASE LocksLapse /\ \A p, q \in Procs : p = q
    <3>1. Exclusive'
      BY <2>3 DEF Exclusive
    <3> QED BY <2>1, <2>3, <3>1
  <2> QED BY <2>2, <2>3 DEF OneExecutorPerJob
<1> QED BY <1>1, <1>2, PTL DEF Spec

\* recordTxHash comes before sendRawTransaction and takes effect: no
\* transaction is ever on the network without its hash in the order's row, as
\* long as a job has one executor at a time.
THEOREM EngineBroadcastIsRecorded ==
    OneExecutorPerJob => (Spec => [](NotRetriggered => BroadcastIsRecorded))
<1> SUFFICES ASSUME OneExecutorPerJob PROVE Spec => [](NotRetriggered => BroadcastIsRecorded)
  OBVIOUS
<1>1. Shape /\ Evidence /\ Claims /\ Recorded => BroadcastIsRecorded
  <2> SUFFICES ASSUME Shape, Evidence, Claims, Recorded, NEW h \in Hashes, tx[h].state = "pending"
               PROVE  row[tx[h].order].hash = h
    BY DEF BroadcastIsRecorded
  <2> DEFINE o == tx[h].order
  <2>1. o \in Orders /\ row[o].hash # NoHash
    BY DEF Recorded, TxRecorded, OnChain, Shape, ChainOK
  <2>2. row[o].hash \in Transactions(o)
    BY <2>1 DEF Evidence, RowEvidence, Belongs, Transactions, Shape, RowsOK, RowType
  <2>3. h \in Transactions(o)
    BY DEF Transactions
  <2> QED BY <2>1, <2>2, <2>3 DEF Claims, OneTransactionPerOrder
<1> QED BY <1>1, RecordedHolds, PTL

---------------------------------------------------------------------------
(* FAILED written over EXECUTING is true.  The monitor has seen the        *)
(* order's only transaction reverted, or dropped after its deadline; the   *)
(* executor has seen a row without a hash, and nobody but the executor     *)
(* itself could have written one since.                                    *)

VerdictHolds(p) ==
    bg[p].pc = "apply" =>
        \/ bg[p].verdict \in ConfirmingVerdicts \cup {"DROPPED_NOT_EXECUTED"}
        \/ /\ bg[p].verdict = "REVERTED"
           /\ bg[p].hash \in Hashes /\ tx[bg[p].hash].state = "reverted"

FailureHolds(p) ==
    exec[p].pc = "failcas" /\ exec[p].status = "EXECUTING" =>
        (row[exec[p].order].status = "EXECUTING" => row[exec[p].order].hash = NoHash)

Verdicts == \A p \in Procs : VerdictHolds(p) /\ FailureHolds(p)

\* A reverted transaction stays reverted.
LEMMA RevertStays ==
    ASSUME Shape, [Next]_vars, NEW h \in Hashes, tx[h].state = "reverted"
    PROVE  tx'[h].state = "reverted"
<1> DEFINE Goal == tx'[h].state = "reverted"
<1>1. UNCHANGED tx => Goal
  OBVIOUS
<1>2. ASSUME NEW p \in Procs, At(p, "broadcast"), Broadcast(exec[p].hash) PROVE Goal
  <2>1. tx[exec[p].hash].state = "signed" /\ exec[p].hash \in Hashes
    BY <1>2 DEF At, Shape, SignedOK, Holding, ExecsOK, ExecOK
  <2> QED BY <1>2, <2>1 DEF Broadcast, Shape, ChainOK
<1>3. ASSUME NEW p \in Procs, Execute(p) PROVE Goal
  <2>1. CASE ExecBroadcast(p)
    BY <1>2, <2>1 DEF ExecBroadcast
  <2>2. CASE ExecError(p)
    BY <1>1, <1>2, <2>2 DEF ExecError
  <2>3. ASSUME NEW k \in Hashes, ExecSign(p, k) PROVE Goal
    BY <2>3 DEF ExecSign, Shape, ChainOK
  <2> QED BY <1>1, <1>3, <2>1, <2>2, <2>3 DEF Execute, ExecStart, ExecStartFails, ExecAskChain, ExecSettle,
       ExecPreflight, ExecClaim, ExecRecord, ExecHandoff, FailRead, FailWrite, ExecThrow, chain
<1>4. ASSUME NEW k \in Hashes, Network(k) PROVE Goal
  BY <1>4 DEF Network, Mine, Settles, Vanish, Shape, ChainOK, TxType
<1>5. CASE Tick
  BY <1>5 DEF Tick, Shape, ChainOK, TxType
<1>6. ASSUME NEW p \in Procs, Trigger(p) \/ Background(p) \/ Crash(p) PROVE Goal
  BY <1>1, <1>6 DEF Trigger, Background, TriggerClaim, TriggerEnqueue, TriggerEnqueueFails, MonitorJob,
     SweepStuck, BackfillRead, AuditRead, GetReceipt, TxFound, TxMissing, AskContract, RpcError, Apply,
     AuditAsk, ReconcileForce, BgThrow, Crash, chain
<1>7. ASSUME NEW o \in Orders, Backend(o) \/ Queue(o) PROVE Goal
  BY <1>1, <1>7 DEF Backend, Queue, CancelRead, CancelWrite, MarkTriggered, RecoverDeadJob, LockLapses, chain
<1>8. CASE UNCHANGED vars
  BY <1>1, <1>8 DEF vars, chain
<1> QED BY <1>3, <1>4, <1>5, <1>6, <1>7, <1>8 DEF Next

\* handleFailure gets to its write from a row whose failure is its own to
\* report, and then waits.
LEMMA FailureSteps ==
    ASSUME Shape, [Next]_vars, NEW p \in Procs, exec'[p].pc = "failcas"
    PROVE  \/ /\ exec[p].pc = "failcas" /\ exec'[p].order = exec[p].order
              /\ exec'[p].status = exec[p].status
           \/ /\ exec[p].pc # "idle" /\ exec'[p].order = exec[p].order /\ UNCHANGED row
              /\ ~FailureDeferred(exec[p].order) /\ exec'[p].status = row[exec[p].order].status
<1> DEFINE Same == /\ exec[p].pc = "failcas" /\ exec'[p].order = exec[p].order
                   /\ exec'[p].status = exec[p].status
           Reads == /\ exec[p].pc # "idle" /\ exec'[p].order = exec[p].order /\ UNCHANGED row
                    /\ ~FailureDeferred(exec[p].order) /\ exec'[p].status = row[exec[p].order].status
           Goal == Same \/ Reads
<1> SUFFICES Goal
  OBVIOUS
<1>0. exec \in [Procs -> ExecType] /\ exec[p] \in ExecType
  BY DEF Shape, ExecsOK
<1>1. UNCHANGED exec => Same
  OBVIOUS
<1>2. ASSUME NEW q \in Procs, Execute(q) PROVE Goal
  <2>1. ASSUME q # p PROVE Same
    <3>1. exec'[p] = exec[p]
      BY <1>0, <1>2, <2>1 DEF Execute, ExecStart, ExecStartFails, ExecAskChain, ExecSettle, ExecPreflight,
         ExecClaim, ExecSign, ExecRecord, ExecBroadcast, ExecHandoff, ExecError, FailRead, FailWrite,
         ExecThrow, Goto, Return
    <3> QED BY <3>1
  <2>2. ASSUME q = p PROVE Goal
    <3>1. ASSUME NEW o \in Orders, ExecStart(p, o) \/ ExecStartFails(p, o) PROVE Same
      <4>1. CASE ExecStart(p, o)
        <5>1. CASE UNCHANGED exec
          BY <1>1, <5>1
        <5>2. ASSUME exec' = [exec EXCEPT ![p] = [IdleExec EXCEPT
                          !.pc = "chain", !.order = o, !.version = row[o].version]]
              PROVE  FALSE
          BY <1>0, <5>2 DEF IdleExec
        <5> QED BY <4>1, <5>1, <5>2 DEF ExecStart
      <4>2. CASE ExecStartFails(p, o)
        BY <1>1, <4>2 DEF ExecStartFails
      <4> QED BY <3>1, <4>1, <4>2
    <3>2. ~ExecAskChain(p) /\ ~ExecSettle(p) /\ ~ExecPreflight(p)
      BY <1>0 DEF ExecAskChain, ExecSettle, ExecPreflight, Goto, Return, IdleExec, ExecType
    <3>3. ~ExecClaim(p)
      BY <1>0 DEF ExecClaim, Goto, Return, IdleExec, ExecType
    <3>4. \A h \in Hashes : ~ExecSign(p, h)
      BY <1>0 DEF ExecSign, ExecType
    <3>5. ~ExecRecord(p) /\ ~ExecBroadcast(p)
      BY <1>0 DEF ExecRecord, ExecBroadcast, Goto, ExecType
    <3>6. ~ExecHandoff(p) /\ ~ExecError(p) /\ ~FailWrite(p) /\ ~ExecThrow(p)
      BY <1>0 DEF ExecHandoff, ExecError, FailWrite, ExecThrow, Goto, Return, IdleExec, ExecType
    <3>7. CASE FailRead(p)
      <4>1. ~FailureDeferred(exec[p].order)
        BY <1>0, <3>7 DEF FailRead, Return, IdleExec
      <4> QED BY <1>0, <3>7, <4>1 DEF FailRead, At, ExecType
    <3> QED BY <1>2, <2>2, <3>1, <3>2, <3>3, <3>4, <3>5, <3>6, <3>7 DEF Execute
  <2> QED BY <2>1, <2>2
<1>3. ASSUME NEW q \in Procs, Crash(q) PROVE Same
  BY <1>0, <1>3 DEF Crash, IdleExec
<1>4. CASE Tick
  BY <1>0, <1>4 DEF Tick, ExecType
<1>5. ASSUME NEW q \in Procs, Trigger(q) \/ Background(q) PROVE Same
  BY <1>1, <1>5 DEF Trigger, Background, TriggerClaim, TriggerEnqueue, TriggerEnqueueFails, MonitorJob,
     SweepStuck, BackfillRead, AuditRead, GetReceipt, TxFound, TxMissing, AskContract, RpcError, Apply,
     AuditAsk, ReconcileForce, BgThrow
<1>6. ASSUME NEW o \in Orders, Backend(o) \/ Queue(o) PROVE Same
  BY <1>1, <1>6 DEF Backend, Queue, CancelRead, CancelWrite, MarkTriggered, RecoverDeadJob, LockLapses
<1>7. ASSUME NEW h \in Hashes, Network(h) PROVE Same
  BY <1>1, <1>7 DEF Network, Mine, Vanish
<1>8. CASE UNCHANGED vars
  BY <1>1, <1>8 DEF vars
<1> QED BY <1>2, <1>3, <1>4, <1>5, <1>6, <1>7, <1>8 DEF Next

\* What handleFailure read of an EXECUTING row stays so until it writes.
LEMMA FailureStep ==
    ASSUME Shape, Claims, Exclusive, Verdicts, NotRetriggered', [Next]_vars, NEW p \in Procs
    PROVE  FailureHolds(p)'
<1> DEFINE o == exec[p].order
<1> SUFFICES ASSUME exec'[p].pc = "failcas", exec'[p].status = "EXECUTING",
                    row'[exec'[p].order].status = "EXECUTING"
             PROVE  row'[exec'[p].order].hash = NoHash
  BY DEF FailureHolds
<1>0. exec[p].pc # "idle" => o \in Orders
  BY DEF Shape, ExecsOK, ExecOK
<1>1. CASE /\ exec[p].pc # "idle" /\ exec'[p].order = o /\ UNCHANGED row
           /\ ~FailureDeferred(o) /\ exec'[p].status = row[o].status
  BY <1>0, <1>1 DEF FailureDeferred
<1>2. CASE exec[p].pc = "failcas" /\ exec'[p].order = o /\ exec'[p].status = exec[p].status
  <2> SUFFICES row'[o].hash = NoHash
    BY <1>2
  <2>1. o \in Orders /\ row'[o].status = "EXECUTING"
    BY <1>0, <1>2
  <2>2. ASSUME row'[o].status = row[o].status, row'[o].hash = row[o].hash PROVE row'[o].hash = NoHash
    BY <1>2, <2>1, <2>2 DEF Verdicts, FailureHolds
  <2>3. CASE UNCHANGED row
    BY <2>2, <2>3
  <2>4. CASE Tick
    BY <2>1, <2>2, <2>4 DEF Tick, Shape, RowsOK, RowType
  <2>5. ASSUME NEW q \in Orders, UserWrite(q) PROVE row'[o].hash = NoHash
    <3>1. q # o
      BY <2>1, <2>5 DEF UserWrite, Writes, Unclaimed
    <3> QED BY <2>1, <2>2, <2>5, <3>1 DEF UserWrite, Writes
  <2>6. ASSUME NEW r \in Procs, NEW q \in Orders, ExecWrite(r, q) PROVE row'[o].hash = NoHash
    <3>1. CASE q # o
      BY <2>1, <2>2, <2>6, <3>1 DEF ExecWrite, Writes
    <3>2. CASE q = o
      <4>1. exec[r].pc # "idle" /\ exec[r].order = o
        BY <2>6, <3>2 DEF ExecWrite, At
      <4>2. r = p
        BY <1>2, <4>1 DEF Exclusive
      <4> QED BY <1>2, <2>1, <2>6, <3>2, <4>2 DEF ExecWrite, At, Writes
    <3> QED BY <3>1, <3>2
  <2>7. ASSUME NEW r \in Procs, NEW q \in Orders, BgWrite(r, q) PROVE row'[o].hash = NoHash
    <3>1. q # o
      BY <2>1, <2>7 DEF BgWrite, Writes
    <3> QED BY <2>1, <2>2, <2>7, <3>1 DEF BgWrite, Writes
  <2> QED BY <2>3, <2>4, <2>5, <2>6, <2>7, RowSteps DEF SomeWrite, Claims
<1> QED BY <1>1, <1>2, FailureSteps

\* A verdict is reached from a receipt or from the contract's answer, and
\* what the receipt said stays true.
LEMMA VerdictStep ==
    ASSUME Shape, Recorded, Verdicts, [Next]_vars, NEW p \in Procs
    PROVE  VerdictHolds(p)'
<1> SUFFICES ASSUME bg'[p].pc = "apply"
             PROVE  \/ bg'[p].verdict \in ConfirmingVerdicts \cup {"DROPPED_NOT_EXECUTED"}
                    \/ /\ bg'[p].verdict = "REVERTED"
                       /\ bg'[p].hash \in Hashes /\ tx'[bg'[p].hash].state = "reverted"
  BY DEF VerdictHolds, ConfirmingVerdicts
<1>1. ASSUME bg'[p].pc = bg[p].pc, bg'[p].verdict = bg[p].verdict, bg'[p].hash = bg[p].hash
      PROVE  \/ bg'[p].verdict \in ConfirmingVerdicts \cup {"DROPPED_NOT_EXECUTED"}
             \/ /\ bg'[p].verdict = "REVERTED"
                /\ bg'[p].hash \in Hashes /\ tx'[bg'[p].hash].state = "reverted"
  BY <1>1, RevertStays DEF Verdicts, VerdictHolds
<1>2. CASE Tick
  <2>1. bg'[p].pc = bg[p].pc /\ bg'[p].verdict = bg[p].verdict /\ bg'[p].hash = bg[p].hash
    BY <1>2 DEF Tick, Shape, BgsOK, BgType
  <2> QED BY <1>1, <2>1
<1>3. CASE bg'[p] = bg[p]
  BY <1>1, <1>3
<1>4. bg'[p] # IdleBg
  BY DEF IdleBg
<1>5. ASSUME CheckStarts(p) PROVE FALSE
  <2>1. PICK o \in Orders : /\ o \in mon \/ o \in FindStuckExecuting
                            /\ row[o].hash = NoHash \/ row[o].age = -1
    BY <1>5 DEF CheckStarts
  <2>2. row[o].age # -1
    <3>1. o \in mon => row[o].age # -1
      BY DEF Recorded, RowRecorded, Watched
    <3>2. o \in FindStuckExecuting => row[o].age # -1
      BY BoundsAssumption DEF FindStuckExecuting, Shape, RowsOK, RowType
    <3> QED BY <2>1, <3>1, <3>2
  <2> QED BY <2>1, <2>2 DEF Recorded, RowRecorded
<1>6. CASE CheckGoesOn(p)
  <2>1. CASE bg[p].pc = "receipt"
    <3>1. bg[p].hash \in Hashes
      BY <2>1 DEF Shape, BgsOK, BgOK
    <3> QED BY <1>6, <2>1, <3>1, RevertStays DEF CheckGoesOn, ConfirmingVerdicts
  <2>2. CASE bg[p].pc # "receipt"
    BY <1>6, <2>2 DEF CheckGoesOn, DroppedVerdict, ConfirmingVerdicts
  <2> QED BY <2>1, <2>2
<1> QED BY <1>2, <1>3, <1>4, <1>5, <1>6, BgSteps DEF CheckMoves

\* The layers below carry it.
LEMMA VerdictsHold ==
    OneExecutorPerJob =>
        (Spec => [](Shape /\ Evidence /\ Exclusive /\ (NotRetriggered => Claims /\ Recorded /\ Verdicts)))
<1> SUFFICES ASSUME OneExecutorPerJob
             PROVE  Spec => [](Shape /\ Evidence /\ Exclusive
                               /\ (NotRetriggered => Claims /\ Recorded /\ Verdicts))
  OBVIOUS
<1> DEFINE Below == Shape /\ Evidence /\ Exclusive /\ (NotRetriggered => Claims /\ Recorded)
           Inv == NotRetriggered => Verdicts
<1>1. Init => Inv
  BY DEF Init, Verdicts, VerdictHolds, FailureHolds, IdleBg, IdleExec
<1>2. Below /\ Inv /\ [Next]_vars => Inv'
  <2> SUFFICES ASSUME Below, Inv, [Next]_vars, NotRetriggered' PROVE Verdicts'
    OBVIOUS
  <2>1. NotRetriggered
    BY NotRetriggeredBefore
  <2>2. ASSUME NEW p \in Procs PROVE VerdictHolds(p)' /\ FailureHolds(p)'
    BY <2>1, FailureStep, VerdictStep
  <2> QED BY <2>2 DEF Verdicts
<1>3. Spec => []Below
  BY RecordedHolds
<1> QED BY <1>1, <1>2, <1>3, PTL DEF Spec

\* One write of FAILED over EXECUTING.
LEMMA FailureIsTrue ==
    ASSUME Shape, Evidence, Claims, Recorded, Clock, Verdicts, NotRetriggered', [Next]_vars,
           NEW o \in Orders, row[o].status = "EXECUTING", row'[o].status = "FAILED"
    PROVE  /\ ~IsExecuted(o)
           /\ \A h \in Transactions(o) : ~(tx[h].state = "pending" /\ tx[h].ttl >= 0)
<1> DEFINE Goal == /\ ~IsExecuted(o)
                   /\ \A h \in Transactions(o) : ~(tx[h].state = "pending" /\ tx[h].ttl >= 0)
<1>1. ASSUME \A h \in Hashes : tx[h].order = o => tx[h].state \notin OnChain PROVE Goal
  <2>1. ~IsExecuted(o)
    BY <1>1 DEF Shape, ChainOK, OnChain
  <2> QED BY <1>1, <2>1 DEF Transactions, OnChain
<1>2. ~UNCHANGED row /\ ~Tick
  BY DEF Tick, Shape, RowsOK, RowType
<1>3. ASSUME NEW q \in Orders, UserWrite(q) PROVE FALSE
  BY <1>3 DEF UserWrite, Writes, UserCancellable, Unclaimed
<1>4. ASSUME NEW p \in Procs, NEW q \in Orders, ExecWrite(p, q) PROVE Goal
  <2>1. q = o /\ At(p, "failcas") /\ exec[p].status = "EXECUTING" /\ exec[p].order = o
    BY <1>4 DEF ExecWrite, Writes
  <2>2. row[o].hash = NoHash
    BY <2>1 DEF At, Verdicts, FailureHolds
  <2> QED BY <1>1, <2>2 DEF Recorded, TxRecorded
<1>5. ASSUME NEW p \in Procs, NEW q \in Orders, BgWrite(p, q) PROVE Goal
  <2>1. q = o /\ BgAt(p, "apply") /\ bg[p].order = o /\ bg[p].verdict \notin ConfirmingVerdicts
    BY <1>5 DEF BgWrite, Writes
  <2>2. CASE bg[p].verdict = "DROPPED_NOT_EXECUTED"
    <3>1. ~IsExecuted(o) /\ Expired(o)
      BY <2>1, <2>2 DEF Clock, BgClock, BgClockOf
    <3>2. ~(-1 >= 0)
      OBVIOUS
    <3> QED BY <3>1, <3>2 DEF Expired
  <2>3. CASE bg[p].verdict = "REVERTED"
    <3> DEFINE k == bg[p].hash
    <3>1. k \in Hashes /\ tx[k].state = "reverted"
      BY <2>1, <2>3 DEF BgAt, Verdicts, VerdictHolds, ConfirmingVerdicts
    <3>2. k \in Transactions(o)
      BY <2>1, <3>1, SentinelsAssumption DEF BgAt, Evidence, BgEvidence, BgKnows, Belongs, Transactions
    <3>3. \A h \in Transactions(o) : h = k
      BY <3>2 DEF Claims, OneTransactionPerOrder
    <3>4. \A h \in Hashes : tx[h].order = o => tx[h].state \notin OnChain
      BY <3>1, <3>3 DEF Transactions, OnChain
    <3> QED BY <1>1, <3>4
  <2>4. bg[p].verdict \in {"DROPPED_NOT_EXECUTED", "REVERTED"}
    BY <2>1 DEF BgAt, Verdicts, VerdictHolds
  <2> QED BY <2>2, <2>3, <2>4
<1> QED BY <1>2, <1>3, <1>4, <1>5, RowSteps DEF SomeWrite, Claims

\* When a job has one executor at a time, the grace period outlasts the
\* deadline window and nobody re-triggers: an order that goes from EXECUTING
\* to FAILED, by handleFailure, the monitor or a sweep, was not traded and no
\* transaction on the network can trade it any more.
THEOREM EngineFailureHidesNoTrade ==
    OneExecutorPerJob /\ Grace > Window /\ MaxRetriggers = 0 => (Spec => FailureHidesNoTrade)
<1> SUFFICES ASSUME OneExecutorPerJob, Grace > Window, MaxRetriggers = 0
             PROVE  Spec => FailureHidesNoTrade
  OBVIOUS
<1> DEFINE Low == Shape /\ Evidence /\ (NotRetriggered => Claims /\ Clock)
           High == Shape /\ Evidence /\ Exclusive /\ (NotRetriggered => Claims /\ Recorded /\ Verdicts)
           A == \A o \in Orders : row[o].status = "EXECUTING" /\ row'[o].status = "FAILED" =>
                   /\ ~IsExecuted(o)
                   /\ \A h \in Transactions(o) : ~(tx[h].state = "pending" /\ tx[h].ttl >= 0)
<1>1. Shape => NotRetriggered
  BY DEF Shape, BoundsOK, NotRetriggered
<1>2. Low /\ High /\ [Next]_vars => [A]_vars
  <2> SUFFICES ASSUME Low, High, [Next]_vars PROVE A
    OBVIOUS
  <2>1. Shape'
    BY ShapeStep
  <2>2. NotRetriggered'
    BY <2>1 DEF Shape, BoundsOK, NotRetriggered
  <2> QED BY <1>1, <2>2, FailureIsTrue
<1>3. Spec => []Low
  BY ClockHolds
<1>4. Spec => []High
  BY VerdictsHold
<1> QED BY <1>2, <1>3, <1>4, PTL DEF Spec, FailureHidesNoTrade
=============================================================================
