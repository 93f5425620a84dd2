------------------------- MODULE OrderEngine_proofs -------------------------
(***************************************************************************)
(* What the engine guarantees for any number of orders, processes and      *)
(* transactions, any windows and any number of crashes and re-triggers:    *)
(* its state keeps its shape, EXECUTED is never written without a settled  *)
(* swap.                                                                   *)
(***************************************************************************)
EXTENDS OrderEngine, TLAPS

---------------------------------------------------------------------------
(* The writes of OrderRepository keep the table well-formed. *)

LEMMA TransitionStatusType ==
    ASSUME row \in [Orders -> RowType], NEW o \in Orders, NEW s, NEW v, NEW next \in Status,
           TransitionStatus(o, s, v, next)
    PROVE  row' \in [Orders -> RowType]
BY DEF TransitionStatus, Matches, RowType

LEMMA RecordTxHashType ==
    ASSUME row \in [Orders -> RowType], NEW o \in Orders, NEW h \in Hashes, RecordTxHash(o, h)
    PROVE  row' \in [Orders -> RowType]
<1>1. 0 \in -1..AgeCap
  BY BoundsAssumption DEF AgeCap
<1> QED BY <1>1 DEF RecordTxHash, RowType

LEMMA ResolveType ==
    ASSUME row \in [Orders -> RowType], NEW o \in Orders, NEW next \in Status,
           NEW h \in Hashes \cup {NoHash}, Resolve(o, next, h)
    PROVE  row' \in [Orders -> RowType]
BY DEF Resolve, RowType

LEMMA ForceExecutedType ==
    ASSUME row \in [Orders -> RowType], NEW o \in Orders, NEW s,
           NEW h \in Hashes \cup {NoHash}, ForceExecuted(o, s, h)
    PROVE  row' \in [Orders -> RowType]
BY DEF ForceExecuted, RowType, Status

(* So do the moves of a job. *)

LEMMA JobCompletesType ==
    ASSUME job \in [Orders -> JobType], NEW p, NEW o \in Orders, JobCompletes(p, o)
    PROVE  job' \in [Orders -> JobType]
BY DEF JobCompletes, JobType

LEMMA AttemptFailsType ==
    ASSUME job \in [Orders -> JobType], NEW o \in Orders, AttemptFails(o)
    PROVE  job' \in [Orders -> JobType]
BY DEF AttemptFails, JobType

LEMMA JobThrowsType ==
    ASSUME job \in [Orders -> JobType], NEW p, NEW o \in Orders, JobThrows(p, o)
    PROVE  job' \in [Orders -> JobType]
BY AttemptFailsType DEF JobThrows

LEMMA JobStallsType ==
    ASSUME job \in [Orders -> JobType], NEW o \in Orders, JobStalls(o)
    PROVE  job' \in [Orders -> JobType]
<1>1. (IF job[o].stalls < MaxStalled THEN job[o].stalls + 1 ELSE job[o].stalls) \in 0..MaxStalled
  <2>1. job[o].stalls \in 0..MaxStalled
    BY DEF JobType
  <2> QED BY <2>1, BoundsAssumption
<1> DEFINE j == [job[o] EXCEPT !.state = IF job[o].stalls < MaxStalled THEN "wait" ELSE "failed",
                               !.stalls = IF @ < MaxStalled THEN @ + 1 ELSE @,
                               !.owner = NoProc]
<1>2. j \in JobType
  BY <1>1 DEF JobType
<1>3. job' = [job EXCEPT ![o] = j]
  BY DEF JobStalls
<1> QED BY <1>2, <1>3

(* The clock stays within its range. *)

LEMMA OlderType ==
    ASSUME NEW a \in -1..AgeCap
    PROVE  Older(a) \in -1..AgeCap
BY BoundsAssumption DEF Older, AgeCap

LEMMA SoonerType ==
    ASSUME NEW t \in -1..Window
    PROVE  Sooner(t) \in -1..Window
BY BoundsAssumption DEF Sooner

---------------------------------------------------------------------------
(* The shape of the state, variable by variable: types, and which locals   *)
(* mean something at which program point.                                  *)

RowsOK == row \in [Orders -> RowType]

QueuesOK ==
    /\ job \in [Orders -> JobType]
    /\ mon \subseteq Orders /\ monUsed \subseteq Orders

HandOK == hand \in [Procs -> Orders \cup {NoOrder}]

ExecOK(e) ==
    /\ e \in ExecType
    /\ e.pc # "idle" => e.order \in Orders
    /\ e.pc \in {"record", "broadcast"} => e.hash \in Hashes

ExecsOK == exec \in [Procs -> ExecType] /\ \A p \in Procs : ExecOK(exec[p])

BgOK(b) ==
    /\ b \in BgType
    /\ b.pc # "idle" => b.order \in Orders
    /\ b.pc \in {"receipt", "gettx", "contract"} => b.hash \in Hashes
    /\ b.fromJob => b.order \in Orders

BgsOK == bg \in [Procs -> BgType] /\ \A p \in Procs : BgOK(bg[p])

CancelsOK == cancel \in [Orders -> CancelType]

ChainOK ==
    /\ tx \in [Hashes -> TxType] /\ swaps \in [Orders -> Nat]
    /\ \A h \in Hashes : tx[h].state # "unused" => tx[h].order \in Orders
    /\ \A o \in Orders : IsExecuted(o) =>
            \E h \in Hashes : tx[h].state = "success" /\ tx[h].order = o

\* A signed transaction that was not broadcast yet is in the hands of the one
\* executor that signed it.
Holding(p) == exec[p].pc \in {"record", "broadcast"}

SignedOK ==
    /\ \A p \in Procs : Holding(p) => /\ tx[exec[p].hash].state = "signed"
                                      /\ tx[exec[p].hash].order = exec[p].order
    /\ \A p, q \in Procs :
        Holding(p) /\ Holding(q) /\ exec[p].hash = exec[q].hash => p = q

BoundsOK == crashes \in 0..MaxCrashes /\ retriggers \in 0..MaxRetriggers

Shape == RowsOK /\ QueuesOK /\ HandOK /\ ExecsOK /\ BgsOK /\ CancelsOK /\ ChainOK
         /\ SignedOK /\ BoundsOK

\* The shape is more than the types.
LEMMA ShapeIsTyped == Shape => TypeOK
BY DEF Shape, RowsOK, QueuesOK, HandOK, ExecsOK, BgsOK, CancelsOK, ChainOK, BoundsOK, TypeOK

(* A part whose variables do not change keeps its shape. *)
LEMMA ShapeFrame ==
    /\ RowsOK /\ UNCHANGED row => RowsOK'
    /\ QueuesOK /\ UNCHANGED queues => QueuesOK'
    /\ HandOK /\ UNCHANGED hand => HandOK'
    /\ ExecsOK /\ UNCHANGED exec => ExecsOK'
    /\ BgsOK /\ UNCHANGED bg => BgsOK'
    /\ CancelsOK /\ UNCHANGED cancel => CancelsOK'
    /\ ChainOK /\ UNCHANGED chain => ChainOK'
    /\ SignedOK /\ UNCHANGED <<exec, tx>> => SignedOK'
    /\ BoundsOK /\ UNCHANGED bounds => BoundsOK'
<1>1. RowsOK /\ UNCHANGED row => RowsOK'
  BY DEF RowsOK
<1>2. QueuesOK /\ UNCHANGED queues => QueuesOK'
  BY DEF QueuesOK, queues
<1>3. HandOK /\ UNCHANGED hand => HandOK'
  BY DEF HandOK
<1>4. ExecsOK /\ UNCHANGED exec => ExecsOK'
  BY DEF ExecsOK
<1>5. BgsOK /\ UNCHANGED bg => BgsOK'
  BY DEF BgsOK
<1>6. CancelsOK /\ UNCHANGED cancel => CancelsOK'
  BY DEF CancelsOK
<1>7. ChainOK /\ UNCHANGED chain => ChainOK'
  BY DEF ChainOK, chain, IsExecuted
<1>8. BoundsOK /\ UNCHANGED bounds => BoundsOK'
  BY DEF BoundsOK, bounds
<1>9. SignedOK /\ UNCHANGED <<exec, tx>> => SignedOK'
  BY DEF SignedOK, Holding
<1> QED BY <1>1, <1>2, <1>3, <1>4, <1>5, <1>6, <1>7, <1>8, <1>9

(* A process that moves on keeps the shape of all. *)
LEMMA ExecUpdate ==
    ASSUME ExecsOK, NEW p \in Procs, NEW e, ExecOK(e), exec' = [exec EXCEPT ![p] = e]
    PROVE  ExecsOK'
BY DEF ExecsOK, ExecOK

\* A process that leaves its transaction alone still holds it alone.
LEMMA SignedLeave ==
    ASSUME SignedOK, ExecsOK, NEW p \in Procs, NEW e,
           e.pc \notin {"record", "broadcast"} \/ (Holding(p) /\ e.hash = exec[p].hash
                                                             /\ e.order = exec[p].order),
           exec' = [exec EXCEPT ![p] = e], UNCHANGED tx
    PROVE  SignedOK'
<1>1. \A q \in Procs : q # p => exec'[q] = exec[q]
  BY DEF ExecsOK
<1>2. exec'[p] = e
  BY DEF ExecsOK
<1> QED BY <1>1, <1>2 DEF SignedOK, Holding

LEMMA BgUpdate ==
    ASSUME BgsOK, NEW p \in Procs, NEW b, BgOK(b), bg' = [bg EXCEPT ![p] = b]
    PROVE  BgsOK'
BY DEF BgsOK, BgOK

\* A process that does nothing is well-formed.
LEMMA IdleOK == ExecOK(IdleExec) /\ BgOK(IdleBg)
<1>1. -1 \in -1..Window /\ -1 \in -1..AgeCap
  BY BoundsAssumption DEF AgeCap
<1>2. ExecOK(IdleExec)
  BY <1>1 DEF ExecOK, IdleExec, ExecType, ExecPc, Status
<1>3. BgOK(IdleBg)
  BY <1>1 DEF BgOK, IdleBg, BgType, BgPc, Verdict, Status
<1> QED BY <1>2, <1>3

\* The first state has the shape,
LEMMA ShapeInit == Init => Shape
<1> SUFFICES ASSUME Init PROVE Shape
  OBVIOUS
<1>1. RowsOK
  BY BoundsAssumption DEF Init, RowsOK, NewRow, RowType, Status, AgeCap
<1>2. QueuesOK
  BY BoundsAssumption DEF Init, QueuesOK, NoJob, JobType
<1>3. ExecsOK /\ BgsOK
  BY IdleOK DEF Init, ExecsOK, ExecOK, BgsOK, BgOK
<1>4. CancelsOK
  BY DEF Init, CancelsOK, NoCancel, CancelType, Status
<1>5. ChainOK
  BY BoundsAssumption DEF Init, ChainOK, UnusedTx, TxType, IsExecuted
<1>6. SignedOK
  BY DEF Init, SignedOK, Holding, IdleExec
<1> QED BY <1>1, <1>2, <1>3, <1>4, <1>5, <1>6, BoundsAssumption DEF Init, Shape, HandOK, BoundsOK

\* and every step of every handler keeps it.
LEMMA ShapeStep == Shape /\ [Next]_vars => Shape'
<1> SUFFICES ASSUME Shape, [Next]_vars PROVE Shape'
  OBVIOUS
<1> USE DEF Shape
<1>1. ASSUME NEW p \in Procs, NEW o \in Orders, TriggerClaim(p, o) PROVE Shape'
  <2>1. RowsOK'
    BY <1>1, TransitionStatusType DEF TriggerClaim, RowsOK, Status
  <2>2. HandOK'
    BY <1>1 DEF TriggerClaim, HandOK
  <2> QED BY <1>1, <2>1, <2>2, ShapeFrame DEF TriggerClaim, queues, chain, bounds
<1>2. ASSUME NEW p \in Procs, TriggerEnqueue(p) PROVE Shape'
  <2>1. QueuesOK'
    BY <1>2 DEF TriggerEnqueue, PipelineEnqueue, QueuesOK, HandOK, JobType
  <2>2. HandOK'
    BY <1>2 DEF TriggerEnqueue, HandOK
  <2> QED BY <1>2, <2>1, <2>2, ShapeFrame DEF TriggerEnqueue, queues, chain, bounds
<1>3. ASSUME NEW p \in Procs, TriggerEnqueueFails(p) PROVE Shape'
  <2>1. HandOK'
    BY <1>3 DEF TriggerEnqueueFails, HandOK
  <2> QED BY <1>3, <2>1, ShapeFrame DEF TriggerEnqueueFails, queues, chain, bounds
<1>4. ASSUME NEW p \in Procs, NEW o \in Orders, ExecStart(p, o) PROVE Shape'
  <2>1. QueuesOK'
    BY <1>4 DEF ExecStart, QueuesOK, JobType
  <2>2. ExecsOK'
    <3>1. CASE row[o].status = "TRIGGERED"
      <4> DEFINE e == [IdleExec EXCEPT !.pc = "chain", !.order = o, !.version = row[o].version]
      <4>1. ExecOK(e)
        BY IdleOK DEF ExecOK, IdleExec, ExecType, ExecPc, RowsOK, RowType
      <4>2. exec' = [exec EXCEPT ![p] = e]
        BY <1>4, <3>1 DEF ExecStart
      <4> QED BY <4>1, <4>2, ExecUpdate
    <3>2. CASE row[o].status # "TRIGGERED"
      BY <1>4, <3>2, ShapeFrame DEF ExecStart
    <3> QED BY <3>1, <3>2
  <2>3. SignedOK'
    <3> DEFINE e == [IdleExec EXCEPT !.pc = "chain", !.order = o, !.version = row[o].version]
    <3>1. UNCHANGED tx /\ (UNCHANGED exec \/ exec' = [exec EXCEPT ![p] = e])
      BY <1>4 DEF ExecStart, chain
    <3>2. e.pc = "chain"
      BY DEF IdleExec
    <3>3. CASE exec' = [exec EXCEPT ![p] = e]
      BY <3>1, <3>2, <3>3, SignedLeave
    <3> QED BY <3>1, <3>3, ShapeFrame
  <2> QED BY <1>4, <2>1, <2>2, <2>3, ShapeFrame DEF ExecStart, queues, chain, bounds
<1>5. ASSUME NEW p \in Procs, NEW o \in Orders, ExecStartFails(p, o) PROVE Shape'
  <2>1. QueuesOK'
    BY <1>5, AttemptFailsType DEF ExecStartFails, QueuesOK
  <2> QED BY <1>5, <2>1, ShapeFrame DEF ExecStartFails, queues, chain, bounds
<1>6. ASSUME NEW p \in Procs, ExecAskChain(p) PROVE Shape'
  <2>1. ExecsOK'
    BY <1>6 DEF ExecAskChain, At, Goto, ExecsOK, ExecOK, ExecType, ExecPc
  <2>2. SignedOK'
    BY <1>6, SignedLeave DEF ExecAskChain, At, Goto, Return, Holding, IdleExec, chain, ExecsOK, ExecOK, ExecType
  <2> QED BY <1>6, <2>1, <2>2, ShapeFrame DEF ExecAskChain, queues, chain, bounds
<1>7. ASSUME NEW p \in Procs, ExecSettle(p) PROVE Shape'
  <2>1. RowsOK'
    BY <1>7, TransitionStatusType DEF ExecSettle, At, RowsOK, ExecsOK, ExecOK, Status
  <2>2. ExecsOK'
    BY <1>7, ExecUpdate, IdleOK DEF ExecSettle, Return
  <2>3. QueuesOK'
    BY <1>7, JobCompletesType DEF ExecSettle, Return, At, QueuesOK, ExecsOK, ExecOK
  <2>4. SignedOK'
    BY <1>7, SignedLeave DEF ExecSettle, At, Goto, Return, Holding, IdleExec, chain, ExecsOK, ExecOK, ExecType
  <2> QED BY <1>7, <2>1, <2>2, <2>3, <2>4, ShapeFrame DEF ExecSettle, queues, chain, bounds
<1>8. ASSUME NEW p \in Procs, ExecPreflight(p) PROVE Shape'
  <2>1. ExecsOK'
    <3> DEFINE e == [exec[p] EXCEPT !.pc = "claim", !.ttl = Window]
    <3>1. Window \in -1..Window
      BY BoundsAssumption
    <3>2. exec[p] \in ExecType /\ exec[p].order \in Orders
      BY <1>8 DEF ExecPreflight, At, ExecsOK, ExecOK
    <3>3. ExecOK(e)
      BY <3>1, <3>2 DEF ExecOK, ExecType, ExecPc
    <3>4. exec' = [exec EXCEPT ![p] = e]
      BY <1>8 DEF ExecPreflight
    <3> QED BY <3>3, <3>4, ExecUpdate
  <2>2. SignedOK'
    <3> DEFINE e == [exec[p] EXCEPT !.pc = "claim", !.ttl = Window]
    <3>1. exec' = [exec EXCEPT ![p] = e] /\ UNCHANGED tx
      BY <1>8 DEF ExecPreflight, chain
    <3>2. e.pc = "claim"
      BY DEF ExecsOK, ExecType
    <3> QED BY <3>1, <3>2, SignedLeave
  <2> QED BY <1>8, <2>1, <2>2, ShapeFrame DEF ExecPreflight, queues, chain, bounds
<1>9. ASSUME NEW p \in Procs, ExecClaim(p) PROVE Shape'
  <2>1. RowsOK'
    BY <1>9, TransitionStatusType DEF ExecClaim, At, RowsOK, ExecsOK, ExecOK, Status
  <2>2. ExecsOK'
    BY <1>9, ExecUpdate, IdleOK DEF ExecClaim, Return, At, Goto, ExecsOK, ExecOK, ExecType, ExecPc
  <2>3. QueuesOK'
    BY <1>9, JobCompletesType DEF ExecClaim, Return, At, QueuesOK, ExecsOK, ExecOK
  <2>4. SignedOK'
    BY <1>9, SignedLeave DEF ExecClaim, At, Goto, Return, Holding, IdleExec, chain, ExecsOK, ExecOK, ExecType
  <2> QED BY <1>9, <2>1, <2>2, <2>3, <2>4, ShapeFrame DEF ExecClaim, queues, chain, bounds
<1>10. ASSUME NEW p \in Procs, NEW h \in Hashes, ExecSign(p, h) PROVE Shape'
  <2>1. ExecsOK'
    <3> DEFINE e == [exec[p] EXCEPT !.pc = "record", !.hash = h]
    <3>1. ExecOK(e)
      BY <1>10 DEF ExecSign, At, ExecsOK, ExecOK, ExecType, ExecPc
    <3>2. exec' = [exec EXCEPT ![p] = e]
      BY <1>10 DEF ExecSign
    <3> QED BY <3>1, <3>2, ExecUpdate
  <2>2. ChainOK'
    BY <1>10 DEF ExecSign, At, ExecsOK, ExecOK, ExecType, ChainOK, TxType, IsExecuted
  <2>3. SignedOK'
    <3>1. \A q \in Procs : Holding(q) => exec[q].hash \in Hashes /\ exec[q].hash # h
      BY <1>10 DEF ExecSign, SignedOK, Holding, ExecsOK, ExecOK
    <3> QED BY <1>10, <3>1 DEF ExecSign, At, SignedOK, Holding, ExecsOK, ExecOK, ExecType, ChainOK
  <2> QED BY <1>10, <2>1, <2>2, <2>3, ShapeFrame DEF ExecSign, queues, chain, bounds
<1>11. ASSUME NEW p \in Procs, ExecRecord(p) PROVE Shape'
  <2>1. RowsOK'
    BY <1>11, RecordTxHashType DEF ExecRecord, At, RowsOK, ExecsOK, ExecOK
  <2>2. ExecsOK'
    BY <1>11 DEF ExecRecord, At, Goto, ExecsOK, ExecOK, ExecType, ExecPc
  <2>3. SignedOK'
    BY <1>11, SignedLeave DEF ExecRecord, At, Goto, Return, Holding, IdleExec, chain, ExecsOK, ExecOK, ExecType
  <2> QED BY <1>11, <2>1, <2>2, <2>3, ShapeFrame DEF ExecRecord, queues, chain, bounds
<1>12. ASSUME NEW p \in Procs, ExecBroadcast(p) PROVE Shape'
  <2>1. ExecsOK'
    BY <1>12 DEF ExecBroadcast, At, Goto, ExecsOK, ExecOK, ExecType, ExecPc
  <2>2. ChainOK'
    <3>1. CASE UNCHANGED chain
      BY <3>1, ShapeFrame
    <3>2. CASE At(p, "broadcast") /\ Broadcast(exec[p].hash) /\ UNCHANGED swaps
      <4>1. exec[p].hash \in Hashes
        BY <3>2 DEF At, ExecsOK, ExecOK
      <4>2. tx[exec[p].hash].state = "signed"
        BY <3>2 DEF At, SignedOK, Holding
      <4> QED BY <3>2, <4>1, <4>2 DEF Broadcast, ChainOK, TxType, IsExecuted
    <3> QED BY <1>12, <3>1, <3>2 DEF ExecBroadcast, chain, queues
  <2>3. SignedOK'
    <3>1. \A q \in Procs : q # p => exec'[q] = exec[q]
      BY <1>12 DEF ExecBroadcast, Goto, ExecsOK
    <3>2. ~Holding(p)'
      BY <1>12 DEF ExecBroadcast, Goto, Holding, ExecsOK, ExecType
    <3>3. CASE UNCHANGED tx
      BY <3>1, <3>2, <3>3 DEF SignedOK, Holding
    <3>4. CASE At(p, "broadcast") /\ Broadcast(exec[p].hash)
      <4>1. Holding(p)
        BY <3>4 DEF At, Holding
      <4>2. \A q \in Procs : q # p /\ Holding(q) => tx'[exec[q].hash] = tx[exec[q].hash]
        BY <3>4, <4>1 DEF Broadcast, SignedOK, Holding, ExecsOK, ExecOK, ChainOK
      <4> QED BY <3>1, <3>2, <4>2 DEF SignedOK, Holding
    <3> QED BY <1>12, <3>3, <3>4 DEF ExecBroadcast, chain
  <2> QED BY <1>12, <2>1, <2>2, <2>3, ShapeFrame DEF ExecBroadcast, queues, chain, bounds
<1>13. ASSUME NEW p \in Procs, ExecHandoff(p) PROVE Shape'
  <2>1. ExecsOK'
    BY <1>13, ExecUpdate, IdleOK DEF ExecHandoff, Return
  <2>2. QueuesOK'
    BY <1>13, JobCompletesType DEF ExecHandoff, MonitorEnqueue, Return, At, QueuesOK, ExecsOK, ExecOK
  <2>3. SignedOK'
    BY <1>13, SignedLeave DEF ExecHandoff, At, Goto, Return, Holding, IdleExec, chain, ExecsOK, ExecOK, ExecType
  <2> QED BY <1>13, <2>1, <2>2, <2>3, ShapeFrame DEF ExecHandoff, queues, chain, bounds
<1>14. ASSUME NEW p \in Procs, ExecError(p) PROVE Shape'
  <2>1. RowsOK'
    BY <1>14, TransitionStatusType, RecordTxHashType DEF ExecError, At, RowsOK, ExecsOK, ExecOK, Status
  <2>2. ExecsOK'
    BY <1>14 DEF ExecError, At, Goto, ExecsOK, ExecOK, ExecType, ExecPc
  <2>3. ChainOK'
    <3>1. CASE UNCHANGED chain
      BY <3>1, ShapeFrame
    <3>2. CASE At(p, "broadcast") /\ Broadcast(exec[p].hash) /\ UNCHANGED swaps
      <4>1. exec[p].hash \in Hashes
        BY <3>2 DEF At, ExecsOK, ExecOK
      <4>2. tx[exec[p].hash].state = "signed"
        BY <3>2 DEF At, SignedOK, Holding
      <4> QED BY <3>2, <4>1, <4>2 DEF Broadcast, ChainOK, TxType, IsExecuted
    <3> QED BY <1>14, <3>1, <3>2 DEF ExecError, chain, queues
  <2>4. SignedOK'
    <3>1. \A q \in Procs : q # p => exec'[q] = exec[q]
      BY <1>14 DEF ExecError, Goto, ExecsOK
    <3>2. ~Holding(p)'
      BY <1>14 DEF ExecError, Goto, Holding, ExecsOK, ExecType
    <3>3. CASE UNCHANGED tx
      BY <3>1, <3>2, <3>3 DEF SignedOK, Holding
    <3>4. CASE At(p, "broadcast") /\ Broadcast(exec[p].hash)
      <4>1. Holding(p)
        BY <3>4 DEF At, Holding
      <4>2. \A q \in Procs : q # p /\ Holding(q) => tx'[exec[q].hash] = tx[exec[q].hash]
        BY <3>4, <4>1 DEF Broadcast, SignedOK, Holding, ExecsOK, ExecOK, ChainOK
      <4> QED BY <3>1, <3>2, <4>2 DEF SignedOK, Holding
    <3> QED BY <1>14, <3>3, <3>4 DEF ExecError, chain
  <2> QED BY <1>14, <2>1, <2>2, <2>3, <2>4, ShapeFrame DEF ExecError, queues, chain, bounds
<1>15. ASSUME NEW p \in Procs, FailRead(p) PROVE Shape'
  <2>1. ExecsOK'
    BY <1>15, ExecUpdate, IdleOK DEF FailRead, Return, At, RowsOK, RowType, ExecsOK, ExecOK, ExecType, ExecPc
  <2>2. QueuesOK'
    BY <1>15, JobCompletesType DEF FailRead, MonitorEnqueue, Return, At, QueuesOK, ExecsOK, ExecOK, queues
  <2>3. SignedOK'
    BY <1>15, SignedLeave DEF FailRead, At, Goto, Return, Holding, IdleExec, chain, ExecsOK, ExecOK, ExecType
  <2> QED BY <1>15, <2>1, <2>2, <2>3, ShapeFrame DEF FailRead, queues, chain, bounds
<1>16. ASSUME NEW p \in Procs, FailWrite(p) PROVE Shape'
  <2>1. RowsOK'
    BY <1>16, TransitionStatusType DEF FailWrite, At, RowsOK, ExecsOK, ExecOK, Status
  <2>2. ExecsOK'
    BY <1>16, ExecUpdate, IdleOK DEF FailWrite, Return
  <2>3. QueuesOK'
    BY <1>16, JobCompletesType DEF FailWrite, Return, At, QueuesOK, ExecsOK, ExecOK
  <2>4. SignedOK'
    BY <1>16, SignedLeave DEF FailWrite, At, Goto, Return, Holding, IdleExec, chain, ExecsOK, ExecOK, ExecType
  <2> QED BY <1>16, <2>1, <2>2, <2>3, <2>4, ShapeFrame DEF FailWrite, queues, chain, bounds
<1>17. ASSUME NEW p \in Procs, ExecThrow(p) PROVE Shape'
  <2>1. RowsOK'
    BY <1>17, TransitionStatusType DEF ExecThrow, At, RowsOK, ExecsOK, ExecOK, Status
  <2>2. ExecsOK'
    BY <1>17, ExecUpdate, IdleOK DEF ExecThrow
  <2>3. QueuesOK'
    BY <1>17, JobThrowsType DEF ExecThrow, At, QueuesOK, ExecsOK, ExecOK
  <2>4. SignedOK'
    BY <1>17, SignedLeave DEF ExecThrow, At, Goto, Return, Holding, IdleExec, chain, ExecsOK, ExecOK, ExecType
  <2> QED BY <1>17, <2>1, <2>2, <2>3, <2>4, ShapeFrame DEF ExecThrow, queues, chain, bounds
<1>18. ASSUME NEW p \in Procs, NEW o \in Orders, MonitorJob(p, o) PROVE Shape'
  <2>1. QueuesOK'
    BY <1>18 DEF MonitorJob, QueuesOK
  <2>2. BgsOK'
    <3> DEFINE b == IF row[o].hash = NoHash \/ row[o].age = -1
                    THEN [IdleBg EXCEPT !.pc = "apply", !.order = o,
                            !.fromJob = TRUE, !.verdict = "NEVER_SUBMITTED"]
                    ELSE [IdleBg EXCEPT !.pc = "receipt", !.order = o, !.hash = row[o].hash,
                            !.age = row[o].age, !.fromJob = TRUE]
    <3>1. row[o].hash \in Hashes \cup {NoHash} /\ row[o].age \in -1..AgeCap
      BY DEF RowsOK, RowType
    <3>2. BgOK(b)
      BY <3>1, IdleOK DEF BgOK, IdleBg, BgType, BgPc, Verdict
    <3>3. bg' = bg \/ bg' = [bg EXCEPT ![p] = b]
      BY <1>18 DEF MonitorJob, Check
    <3> QED BY <3>2, <3>3, BgUpdate, ShapeFrame
  <2> QED BY <1>18, <2>1, <2>2, ShapeFrame DEF MonitorJob, queues, chain, bounds
<1>19. ASSUME NEW p \in Procs, NEW o \in Orders, SweepStuck(p, o) PROVE Shape'
  <2>1. BgsOK'
    <3> DEFINE b == IF row[o].hash = NoHash \/ row[o].age = -1
                    THEN [IdleBg EXCEPT !.pc = "apply", !.order = o,
                            !.fromJob = FALSE, !.verdict = "NEVER_SUBMITTED"]
                    ELSE [IdleBg EXCEPT !.pc = "receipt", !.order = o, !.hash = row[o].hash,
                            !.age = row[o].age, !.fromJob = FALSE]
    <3>1. row[o].hash \in Hashes \cup {NoHash} /\ row[o].age \in -1..AgeCap
      BY DEF RowsOK, RowType
    <3>2. BgOK(b)
      BY <3>1, IdleOK DEF BgOK, IdleBg, BgType, BgPc, Verdict
    <3>3. bg' = bg \/ bg' = [bg EXCEPT ![p] = b]
      BY <1>19 DEF SweepStuck, Check
    <3> QED BY <3>2, <3>3, BgUpdate, ShapeFrame
  <2> QED BY <1>19, <2>1, ShapeFrame DEF SweepStuck, queues, chain, bounds
<1>20. ASSUME NEW p \in Procs, NEW o \in Orders, BackfillRead(p, o) PROVE Shape'
  <2>1. BgsOK'
    <3> DEFINE b == [IdleBg EXCEPT !.pc = "force", !.order = o,
                       !.hash = SettledHash(o), !.status = row[o].status]
    <3>1. SettledHash(o) \in Hashes
      BY <1>20 DEF BackfillRead, SettledHash, ChainOK
    <3>2. BgOK(b)
      BY <3>1, IdleOK DEF BgOK, IdleBg, BgType, BgPc, RowsOK, RowType
    <3>3. bg' = [bg EXCEPT ![p] = b]
      BY <1>20 DEF BackfillRead
    <3> QED BY <3>2, <3>3, BgUpdate
  <2> QED BY <1>20, <2>1, ShapeFrame DEF BackfillRead, queues, chain, bounds
<1>21. ASSUME NEW p \in Procs, NEW o \in Orders, AuditRead(p, o) PROVE Shape'
  <2>1. BgsOK'
    <3> DEFINE b == [IdleBg EXCEPT !.pc = "audit", !.order = o]
    <3>1. BgOK(b)
      BY IdleOK DEF BgOK, IdleBg, BgType, BgPc
    <3>2. bg' = [bg EXCEPT ![p] = b]
      BY <1>21 DEF AuditRead
    <3> QED BY <3>1, <3>2, BgUpdate
  <2> QED BY <1>21, <2>1, ShapeFrame DEF AuditRead, queues, chain, bounds
<1>22. ASSUME NEW p \in Procs, GetReceipt(p) PROVE Shape'
  <2>1. BgsOK'
    BY <1>22 DEF GetReceipt, Conclude, BgAt, Verdict, BgsOK, BgOK, BgType, BgPc
  <2> QED BY <1>22, <2>1, ShapeFrame DEF GetReceipt, queues, chain, bounds
<1>23. ASSUME NEW p \in Procs, TxFound(p) PROVE Shape'
  <2>1. BgsOK'
    BY <1>23, BgUpdate, IdleOK DEF TxFound, NoVerdict, BgDone
  <2>2. QueuesOK'
    BY <1>23 DEF TxFound, NoVerdict, BgAt, QueuesOK, BgsOK, BgOK
  <2> QED BY <1>23, <2>1, <2>2, ShapeFrame DEF TxFound, queues, chain, bounds
<1>24. ASSUME NEW p \in Procs, TxMissing(p) PROVE Shape'
  <2>1. BgsOK'
    BY <1>24, BgUpdate, IdleOK DEF TxMissing, NoVerdict, BgDone, BgAt, BgsOK, BgOK, BgType, BgPc
  <2>2. QueuesOK'
    BY <1>24 DEF TxMissing, NoVerdict, BgAt, QueuesOK, BgsOK, BgOK
  <2> QED BY <1>24, <2>1, <2>2, ShapeFrame DEF TxMissing, queues, chain, bounds
<1>25. ASSUME NEW p \in Procs, AskContract(p) PROVE Shape'
  <2>1. BgsOK'
    <3> DEFINE b == [bg[p] EXCEPT !.pc = "apply", !.verdict = DroppedVerdict(bg[p].order)]
    <3>1. DroppedVerdict(bg[p].order) \in Verdict
      BY DEF DroppedVerdict, Verdict
    <3>2. BgOK(b)
      BY <1>25, <3>1 DEF AskContract, BgAt, BgsOK, BgOK, BgType, BgPc
    <3>3. bg' = [bg EXCEPT ![p] = b]
      BY <1>25 DEF AskContract, Conclude
    <3> QED BY <3>2, <3>3, BgUpdate
  <2> QED BY <1>25, <2>1, ShapeFrame DEF AskContract, queues, chain, bounds
<1>26. ASSUME NEW p \in Procs, RpcError(p) PROVE Shape'
  <2>1. BgsOK'
    BY <1>26, BgUpdate, IdleOK DEF RpcError, NoVerdict, BgDone
  <2>2. QueuesOK'
    BY <1>26 DEF RpcError, NoVerdict, BgAt, QueuesOK, BgsOK, BgOK
  <2> QED BY <1>26, <2>1, <2>2, ShapeFrame DEF RpcError, queues, chain, bounds
<1>27. ASSUME NEW p \in Procs, Apply(p) PROVE Shape'
  <2>1. RowsOK'
    BY <1>27, ResolveType DEF Apply, BgAt, RowsOK, BgsOK, BgOK, BgType, Status
  <2>2. BgsOK'
    BY <1>27, BgUpdate, IdleOK DEF Apply, BgDone
  <2> QED BY <1>27, <2>1, <2>2, ShapeFrame DEF Apply, queues, chain, bounds
<1>28. ASSUME NEW p \in Procs, AuditAsk(p) PROVE Shape'
  <2>1. BgsOK'
    BY <1>28, BgUpdate, IdleOK DEF AuditAsk, BgDone, BgAt, Status, BgsOK, BgOK, BgType, BgPc
  <2> QED BY <1>28, <2>1, ShapeFrame DEF AuditAsk, queues, chain, bounds
<1>29. ASSUME NEW p \in Procs, ReconcileForce(p) PROVE Shape'
  <2>1. RowsOK'
    BY <1>29, ForceExecutedType DEF ReconcileForce, BgAt, RowsOK, BgsOK, BgOK, BgType
  <2>2. BgsOK'
    BY <1>29, BgUpdate, IdleOK DEF ReconcileForce, BgDone
  <2> QED BY <1>29, <2>1, <2>2, ShapeFrame DEF ReconcileForce, queues, chain, bounds
<1>30. ASSUME NEW p \in Procs, BgThrow(p) PROVE Shape'
  <2>1. BgsOK'
    BY <1>30, BgUpdate, IdleOK DEF BgThrow, BgAt, BgDone
  <2> QED BY <1>30, <2>1, ShapeFrame DEF BgThrow, BgAt, queues, chain, bounds
<1>31. ASSUME NEW p \in Procs, Crash(p) PROVE Shape'
  <2>1. ExecsOK'
    BY <1>31, ExecUpdate, IdleOK DEF Crash
  <2>2. BgsOK'
    BY <1>31, BgUpdate, IdleOK DEF Crash, BgDone
  <2>3. HandOK'
    BY <1>31 DEF Crash, HandOK
  <2>4. QueuesOK'
    BY <1>31 DEF Crash, QueuesOK, BgsOK, BgOK
  <2>5. BoundsOK'
    BY <1>31, BoundsAssumption DEF Crash, BoundsOK
  <2>6. SignedOK'
    BY <1>31, SignedLeave DEF Crash, At, Goto, Return, Holding, IdleExec, chain, ExecsOK, ExecOK, ExecType
  <2> QED BY <1>31, <2>1, <2>2, <2>3, <2>4, <2>5, <2>6, ShapeFrame DEF Crash, queues, chain, bounds
<1>32. ASSUME NEW o \in Orders, CancelRead(o) PROVE Shape'
  <2>1. CancelsOK'
    BY <1>32 DEF CancelRead, CancelsOK, CancelType, RowsOK, RowType
  <2> QED BY <1>32, <2>1, ShapeFrame DEF CancelRead, queues, chain, bounds
<1>33. ASSUME NEW o \in Orders, CancelWrite(o) PROVE Shape'
  <2>1. RowsOK'
    BY <1>33, TransitionStatusType DEF CancelWrite, RowsOK, Status
  <2>2. CancelsOK'
    BY <1>33 DEF CancelWrite, CancelsOK, NoCancel, CancelType, Status
  <2> QED BY <1>33, <2>1, <2>2, ShapeFrame DEF CancelWrite, queues, chain, bounds
<1>34. ASSUME NEW o \in Orders, MarkTriggered(o) PROVE Shape'
  <2>1. RowsOK'
    BY <1>34, TransitionStatusType DEF MarkTriggered, RowsOK, Status
  <2>2. BoundsOK'
    BY <1>34, BoundsAssumption DEF MarkTriggered, BoundsOK
  <2> QED BY <1>34, <2>1, <2>2, ShapeFrame DEF MarkTriggered, queues, chain, bounds
<1>35. ASSUME NEW o \in Orders, RecoverDeadJob(o) PROVE Shape'
  <2>1. QueuesOK'
    BY <1>35, JobStallsType DEF RecoverDeadJob, QueuesOK
  <2> QED BY <1>35, <2>1, ShapeFrame DEF RecoverDeadJob, queues, chain, bounds
<1>36. ASSUME NEW o \in Orders, LockLapses(o) PROVE Shape'
  <2>1. QueuesOK'
    BY <1>36, JobStallsType DEF LockLapses, QueuesOK
  <2> QED BY <1>36, <2>1, ShapeFrame DEF LockLapses, queues, chain, bounds
<1>37. ASSUME NEW h \in Hashes, Mine(h) PROVE Shape'
  <2>1. ChainOK'
    <3>1. tx[h].order \in Orders /\ tx[h].state # "success"
      BY <1>37 DEF Mine, ChainOK
    <3>2. CASE Settles(h)
      BY <3>1, <3>2 DEF Settles, ChainOK, TxType, IsExecuted
    <3>3. CASE tx' = [tx EXCEPT ![h].state = "reverted"] /\ UNCHANGED swaps
      BY <3>1, <3>3 DEF ChainOK, TxType, IsExecuted
    <3> QED BY <1>37, <3>2, <3>3 DEF Mine
  <2>2. SignedOK'
    BY <1>37 DEF Mine, At, SignedOK, Settles, Holding, ChainOK, ExecsOK, ExecOK
  <2> QED BY <1>37, <2>1, <2>2, ShapeFrame DEF Mine, queues, chain, bounds
<1>38. ASSUME NEW h \in Hashes, Vanish(h) PROVE Shape'
  <2>1. ChainOK'
    BY <1>38 DEF Vanish, ChainOK, TxType, IsExecuted
  <2>2. SignedOK'
    BY <1>38 DEF Vanish, At, SignedOK, Holding, ChainOK, ExecsOK, ExecOK
  <2> QED BY <1>38, <2>1, <2>2, ShapeFrame DEF Vanish, queues, chain, bounds
<1>39. CASE Tick
  <2>1. RowsOK'
    BY <1>39, OlderType DEF Tick, RowsOK, RowType
  <2>2. ExecsOK'
    BY <1>39, SoonerType DEF Tick, ExecsOK, ExecOK, ExecType
  <2>3. BgsOK'
    BY <1>39, OlderType DEF Tick, BgsOK, BgOK, BgType
  <2>4. ChainOK'
    BY <1>39, SoonerType DEF Tick, ChainOK, TxType, IsExecuted
  <2>5. SignedOK'
    BY <1>39 DEF Tick, SignedOK, Holding, ExecsOK, ExecOK, ExecType, ChainOK, TxType
  <2> QED BY <1>39, <2>1, <2>2, <2>3, <2>4, <2>5, ShapeFrame DEF Tick, queues, bounds
<1>40. CASE UNCHANGED vars
  BY <1>40, ShapeFrame DEF vars, chain
<1>41. ASSUME NEW p \in Procs, Trigger(p) \/ Execute(p) \/ Background(p) PROVE Shape'
  BY <1>41, <1>1, <1>2, <1>3, <1>4, <1>5, <1>6, <1>7, <1>8, <1>9, <1>10, <1>11, <1>12, <1>13, <1>14, <1>15, <1>16, <1>17, <1>18, <1>19, <1>20, <1>21, <1>22, <1>23, <1>24, <1>25, <1>26, <1>27, <1>28, <1>29, <1>30
  DEF Trigger, Execute, Background
<1> QED
  BY <1>31, <1>32, <1>33, <1>34, <1>35, <1>36, <1>37, <1>38, <1>39, <1>40, <1>41
  DEF Next, Backend, Queue, Network

\* The state of the engine keeps its shape, whatever crashes and repeats.
THEOREM EngineTypeCorrect == Spec => []TypeOK
<1>1. Spec => []Shape
  BY ShapeInit, ShapeStep, PTL DEF Spec
<1> QED BY <1>1, ShapeIsTyped, PTL

---------------------------------------------------------------------------
(* ExecutedHasEvidence is not inductive.  The writers of EXECUTED act on   *)
(* what they read some steps earlier (a receipt, an isExecuted answer), so *)
(* the invariant says what every such reading still means: the transaction *)
(* behind a recorded hash belongs to the row it is recorded in, a success  *)
(* receipt stands for a performed swap, and a check that is about to       *)
(* confirm has seen one.  Readings stay true because the chain only grows. *)

\* h is a transaction signed for order o.
Belongs(h, o) == tx[h].state # "unused" /\ tx[h].order = o

TxEvidence == \A h \in Hashes : tx[h].state = "success" => IsExecuted(tx[h].order)

RowEvidence ==
    \A o \in Orders :
        /\ row[o].status = "EXECUTED" => IsExecuted(o)
        /\ row[o].hash # NoHash => Belongs(row[o].hash, o)

ExecEvidence == \A p \in Procs : exec[p].pc = "settle" => IsExecuted(exec[p].order)

\* What a background check knows of the order it looks at.
BgKnows(b) ==
    /\ b.pc \in {"receipt", "gettx", "contract"} => Belongs(b.hash, b.order)
    /\ b.pc \in {"apply", "force"} /\ b.hash # NoHash => Belongs(b.hash, b.order)
    /\ b.pc = "apply" /\ b.verdict \in ConfirmingVerdicts => IsExecuted(b.order)
    /\ b.pc = "force" => IsExecuted(b.order)
    /\ b.pc = "audit" => b.hash = NoHash

BgEvidence == \A p \in Procs : BgKnows(bg[p])

\* The contract performs one swap per executionId.
SettledOnce == \A o \in Orders : swaps[o] <= 1

Evidence == TxEvidence /\ RowEvidence /\ ExecEvidence /\ BgEvidence /\ SettledOnce

---------------------------------------------------------------------------
(* The chain only grows: a signed transaction keeps its order, and a swap  *)
(* that was performed stays performed.                                     *)

ChainGrows ==
    /\ \A h \in Hashes : tx[h].state # "unused" =>
            tx'[h].state # "unused" /\ tx'[h].order = tx[h].order
    /\ \A o \in Orders : IsExecuted(o) => IsExecuted(o)'

\* Every step leaves signed transactions and performed swaps in place.
LEMMA ChainGrowsStep == Shape /\ [Next]_vars => ChainGrows
<1> SUFFICES ASSUME Shape, [Next]_vars PROVE ChainGrows
  OBVIOUS
<1>1. UNCHANGED chain => ChainGrows
  BY DEF chain, ChainGrows, IsExecuted
<1>2. ASSUME NEW p \in Procs, NEW h \in Hashes, ExecSign(p, h) PROVE ChainGrows
  BY <1>2 DEF ExecSign, ChainGrows, IsExecuted, Shape, ChainOK
<1>3. ASSUME NEW p \in Procs, At(p, "broadcast"), Broadcast(exec[p].hash), UNCHANGED swaps PROVE ChainGrows
  BY <1>3 DEF Broadcast, ChainGrows, IsExecuted, Shape, ChainOK
<1>4. ASSUME NEW p \in Procs, ExecError(p) PROVE ChainGrows
  BY <1>1, <1>3, <1>4 DEF ExecError, chain
<1>5. ASSUME NEW h \in Hashes, Mine(h) PROVE ChainGrows
  <2>1. tx[h].order \in Orders /\ swaps[tx[h].order] \in Nat
    BY <1>5 DEF Mine, Shape, ChainOK
  <2>2. CASE Settles(h)
    <3>1. \A o \in Orders : IsExecuted(o) => IsExecuted(o)'
      BY <2>1, <2>2 DEF Settles, IsExecuted, Shape, ChainOK
    <3>2. \A k \in Hashes : tx[k].state # "unused" =>
              tx'[k].state # "unused" /\ tx'[k].order = tx[k].order
      BY <2>2 DEF Settles, Shape, ChainOK, TxType
    <3> QED BY <3>1, <3>2 DEF ChainGrows
  <2>3. CASE tx' = [tx EXCEPT ![h].state = "reverted"] /\ UNCHANGED swaps
    BY <2>3 DEF ChainGrows, IsExecuted, Shape, ChainOK, TxType
  <2> QED BY <1>5, <2>2, <2>3 DEF Mine
<1>6. ASSUME NEW h \in Hashes, Vanish(h) PROVE ChainGrows
  BY <1>6 DEF Vanish, ChainGrows, IsExecuted, Shape, ChainOK
<1>7. CASE Tick
  BY <1>7 DEF Tick, ChainGrows, IsExecuted, Shape, ChainOK, TxType
<1>8. ASSUME NEW p \in Procs, Trigger(p) \/ Background(p) \/ Crash(p) PROVE ChainGrows
  BY <1>1, <1>8 DEF Trigger, Background, TriggerClaim, TriggerEnqueue, TriggerEnqueueFails, MonitorJob, SweepStuck, BackfillRead, AuditRead, GetReceipt, TxFound,
     TxMissing, AskContract, RpcError, Apply, AuditAsk, ReconcileForce, BgThrow, Crash
<1>9. ASSUME NEW p \in Procs, Execute(p) PROVE ChainGrows
  BY <1>1, <1>2, <1>3, <1>4, <1>9 DEF Execute, ExecStart, ExecStartFails, ExecAskChain, ExecSettle, ExecPreflight, ExecClaim, ExecRecord,
     ExecBroadcast, ExecHandoff, FailRead, FailWrite, ExecThrow
<1>10. ASSUME NEW o \in Orders, Backend(o) \/ Queue(o) PROVE ChainGrows
  BY <1>1, <1>10 DEF Backend, Queue, CancelRead, CancelWrite, MarkTriggered, RecoverDeadJob, LockLapses
<1> QED BY <1>1, <1>5, <1>6, <1>7, <1>8, <1>9, <1>10 DEF Next, Network, vars

(* What was known stays known while its holder does not move. *)
LEMMA BgKnowsStable ==
    ASSUME ChainGrows, NEW b, BgOK(b), BgKnows(b)
    PROVE  BgKnows(b)'
BY DEF ChainGrows, BgOK, BgKnows, Belongs, BgType

LEMMA EvidenceFrame ==
    ASSUME Shape, ChainGrows
    PROVE  /\ TxEvidence /\ UNCHANGED tx => TxEvidence'
           /\ RowEvidence /\ UNCHANGED row => RowEvidence'
           /\ ExecEvidence /\ UNCHANGED exec => ExecEvidence'
           /\ BgEvidence /\ UNCHANGED bg => BgEvidence'
           /\ SettledOnce /\ UNCHANGED swaps => SettledOnce'
<1> USE DEF Shape
<1>1. TxEvidence /\ UNCHANGED tx => TxEvidence'
  BY DEF TxEvidence, ChainGrows, ChainOK
<1>2. RowEvidence /\ UNCHANGED row => RowEvidence'
  BY DEF RowEvidence, ChainGrows, RowsOK, RowType, Belongs
<1>3. ExecEvidence /\ UNCHANGED exec => ExecEvidence'
  BY DEF ExecEvidence, ChainGrows, ExecsOK, ExecOK
<1>4. BgEvidence /\ UNCHANGED bg => BgEvidence'
  BY BgKnowsStable DEF BgEvidence, BgsOK
<1>5. SettledOnce /\ UNCHANGED swaps => SettledOnce'
  BY DEF SettledOnce
<1> QED BY <1>1, <1>2, <1>3, <1>4, <1>5

(* A row that is written keeps its evidence. *)
LEMMA RowUpdate ==
    ASSUME Shape, ChainGrows, RowEvidence, NEW o \in Orders,
           row' \in [Orders -> RowType],
           \A q \in Orders : q # o => row'[q] = row[q],
           row'[o].status = "EXECUTED" => row[o].status = "EXECUTED" \/ IsExecuted(o),
           row'[o].hash = row[o].hash \/ Belongs(row'[o].hash, o)
    PROVE  RowEvidence'
<1>1. \A q \in Orders : row'[q].hash \in Hashes \cup {NoHash}
  BY DEF RowType
<1> QED BY <1>1 DEF RowEvidence, ChainGrows, Belongs

LEMMA TransitionEvidence ==
    ASSUME Shape, ChainGrows, RowEvidence, NEW o \in Orders, NEW s, NEW v, NEW next \in Status,
           next = "EXECUTED" => IsExecuted(o), TransitionStatus(o, s, v, next)
    PROVE  RowEvidence'
<1>1. row \in [Orders -> RowType] /\ row' \in [Orders -> RowType]
  BY TransitionStatusType DEF Shape, RowsOK
<1>2. /\ \A q \in Orders : q # o => row'[q] = row[q]
      /\ row'[o].status = next \/ row'[o].status = row[o].status
      /\ row'[o].hash = row[o].hash
  BY <1>1 DEF TransitionStatus, RowType
<1> QED BY <1>1, <1>2, RowUpdate

LEMMA RecordEvidence ==
    ASSUME Shape, ChainGrows, RowEvidence, NEW o \in Orders, NEW h \in Hashes,
           Belongs(h, o), RecordTxHash(o, h)
    PROVE  RowEvidence'
<1>1. row \in [Orders -> RowType] /\ row' \in [Orders -> RowType]
  BY RecordTxHashType DEF Shape, RowsOK
<1>2. /\ \A q \in Orders : q # o => row'[q] = row[q]
      /\ row'[o].status = row[o].status
      /\ row'[o].hash = row[o].hash \/ row'[o].hash = h
  BY <1>1 DEF RecordTxHash, RowType
<1> QED BY <1>1, <1>2, RowUpdate

\* markConfirmed, markFailed and forceExecutedFromReconciliation.
LEMMA VerdictEvidence ==
    ASSUME Shape, ChainGrows, RowEvidence, NEW o \in Orders, NEW next \in Status,
           NEW h \in Hashes \cup {NoHash}, h # NoHash => Belongs(h, o),
           next = "EXECUTED" => IsExecuted(o),
           Resolve(o, next, h) \/ (next = "EXECUTED" /\ \E s : ForceExecuted(o, s, h))
    PROVE  RowEvidence'
<1>1. row \in [Orders -> RowType] /\ row' \in [Orders -> RowType]
  BY ResolveType, ForceExecutedType DEF Shape, RowsOK
<1>2. /\ \A q \in Orders : q # o => row'[q] = row[q]
      /\ row'[o].status = next \/ row'[o].status = row[o].status
      /\ row'[o].hash = row[o].hash \/ (h # NoHash /\ row'[o].hash = h)
  BY <1>1 DEF Resolve, ForceExecuted, RowType
<1> QED BY <1>1, <1>2, RowUpdate

(* An executor or a check that moves on. *)
LEMMA ExecMove ==
    ASSUME Shape, ChainGrows, ExecEvidence, NEW p \in Procs, NEW e,
           e.pc = "settle" => IsExecuted(e.order) /\ e.order \in Orders,
           exec' = [exec EXCEPT ![p] = e]
    PROVE  ExecEvidence'
<1>1. \A q \in Procs : exec'[q] = IF q = p THEN e ELSE exec[q]
  BY DEF Shape, ExecsOK
<1> QED BY <1>1 DEF ExecEvidence, ChainGrows, Shape, ExecsOK, ExecOK

LEMMA BgMove ==
    ASSUME Shape, ChainGrows, BgEvidence, NEW p \in Procs, NEW b, BgOK(b), BgKnows(b),
           bg' = [bg EXCEPT ![p] = b]
    PROVE  BgEvidence'
<1>1. \A q \in Procs : bg'[q] = IF q = p THEN b ELSE bg[q]
  BY DEF Shape, BgsOK
<1>2. \A q \in Procs : BgKnows(bg[q])'
  <2> TAKE q \in Procs
  <2>1. CASE q = p
    BY <1>1, <2>1, BgKnowsStable DEF BgKnows, Belongs
  <2>2. CASE q # p
    BY <1>1, <2>2, BgKnowsStable DEF BgEvidence, BgKnows, Belongs, Shape, BgsOK
  <2> QED BY <2>1, <2>2
<1> QED BY <1>2 DEF BgEvidence

\* A process that does nothing claims to know nothing.
LEMMA IdleKnows == BgKnows(IdleBg) /\ IdleExec.pc = "idle"
BY DEF BgKnows, IdleBg, IdleExec

\* At first nothing is executed and nobody claims it,
LEMMA EvidenceInit == Init => Evidence
<1> SUFFICES ASSUME Init PROVE Evidence
  OBVIOUS
<1>1. TxEvidence
  BY DEF Init, TxEvidence, UnusedTx
<1>2. RowEvidence
  BY DEF Init, RowEvidence, NewRow
<1>3. ExecEvidence /\ BgEvidence
  BY IdleKnows DEF Init, ExecEvidence, BgEvidence
<1>4. SettledOnce
  <2>1. \A o \in Orders : swaps[o] = 0
    BY DEF Init
  <2>2. 0 <= 1
    OBVIOUS
  <2> QED BY <2>1, <2>2 DEF SettledOnce
<1> QED BY <1>1, <1>2, <1>3, <1>4 DEF Evidence

\* and every write of EXECUTED, and every verdict, comes with its evidence.
LEMMA EvidenceStep == Shape /\ Evidence /\ [Next]_vars => Evidence'
<1> SUFFICES ASSUME Shape, Evidence, [Next]_vars PROVE Evidence'
  OBVIOUS
<1> USE DEF Evidence
<1>0. ChainGrows
  BY ChainGrowsStep
<1>1. ASSUME NEW p \in Procs, NEW o \in Orders, TriggerClaim(p, o) PROVE Evidence'
  <2>1. RowEvidence'
    BY <1>0, <1>1, TransitionEvidence DEF TriggerClaim, Status
  <2> QED BY <1>0, <1>1, <2>1, EvidenceFrame DEF TriggerClaim, chain
<1>2. ASSUME NEW p \in Procs, TriggerEnqueue(p) PROVE Evidence'
  BY <1>0, <1>2, EvidenceFrame DEF TriggerEnqueue, chain
<1>3. ASSUME NEW p \in Procs, TriggerEnqueueFails(p) PROVE Evidence'
  BY <1>0, <1>3, EvidenceFrame DEF TriggerEnqueueFails, chain
<1>4. ASSUME NEW p \in Procs, NEW o \in Orders, ExecStart(p, o) PROVE Evidence'
  <2>1. ExecEvidence'
    <3> DEFINE e == [IdleExec EXCEPT !.pc = "chain", !.order = o, !.version = row[o].version]
    <3>1. e.pc = "chain"
      BY DEF IdleExec
    <3>2. exec' = exec \/ exec' = [exec EXCEPT ![p] = e]
      BY <1>4 DEF ExecStart
    <3> QED BY <1>0, <3>1, <3>2, ExecMove, EvidenceFrame
  <2> QED BY <1>0, <1>4, <2>1, EvidenceFrame DEF ExecStart, chain
<1>5. ASSUME NEW p \in Procs, NEW o \in Orders, ExecStartFails(p, o) PROVE Evidence'
  BY <1>0, <1>5, EvidenceFrame DEF ExecStartFails, chain
<1>6. ASSUME NEW p \in Procs, ExecAskChain(p) PROVE Evidence'
  <2>1. ExecEvidence'
    BY <1>0, <1>6, ExecMove, EvidenceFrame, IdleKnows DEF ExecAskChain, At, Goto, Return, Shape, ExecsOK, ExecOK, ExecType, IdleExec
  <2> QED BY <1>0, <1>6, <2>1, EvidenceFrame DEF ExecAskChain, chain
<1>7. ASSUME NEW p \in Procs, ExecSettle(p) PROVE Evidence'
  <2>1. RowEvidence'
    BY <1>0, <1>7, TransitionEvidence DEF ExecSettle, At, Status, ExecEvidence, Shape, ExecsOK, ExecOK
  <2>2. ExecEvidence'
    BY <1>0, <1>7, ExecMove, EvidenceFrame, IdleKnows DEF ExecSettle, At, Goto, Return, Shape, ExecsOK, ExecOK, ExecType, IdleExec
  <2> QED BY <1>0, <1>7, <2>1, <2>2, EvidenceFrame DEF ExecSettle, chain
<1>8. ASSUME NEW p \in Procs, ExecPreflight(p) PROVE Evidence'
  <2>1. ExecEvidence'
    <3> DEFINE e == [exec[p] EXCEPT !.pc = "claim", !.ttl = Window]
    <3>1. e.pc = "claim"
      BY DEF Shape, ExecsOK, ExecType
    <3>2. exec' = [exec EXCEPT ![p] = e]
      BY <1>8 DEF ExecPreflight
    <3> QED BY <1>0, <3>1, <3>2, ExecMove
  <2> QED BY <1>0, <1>8, <2>1, EvidenceFrame DEF ExecPreflight, chain
<1>9. ASSUME NEW p \in Procs, ExecClaim(p) PROVE Evidence'
  <2>1. RowEvidence'
    BY <1>0, <1>9, TransitionEvidence DEF ExecClaim, At, Status, Shape, ExecsOK, ExecOK
  <2>2. ExecEvidence'
    BY <1>0, <1>9, ExecMove, EvidenceFrame, IdleKnows DEF ExecClaim, At, Goto, Return, Shape, ExecsOK, ExecOK, ExecType, IdleExec
  <2> QED BY <1>0, <1>9, <2>1, <2>2, EvidenceFrame DEF ExecClaim, chain
<1>10. ASSUME NEW p \in Procs, NEW h \in Hashes, ExecSign(p, h) PROVE Evidence'
  <2>1. TxEvidence'
    BY <1>0, <1>10 DEF ExecSign, TxEvidence, ChainGrows, Shape, ChainOK
  <2>2. ExecEvidence'
    <3> DEFINE e == [exec[p] EXCEPT !.pc = "record", !.hash = h]
    <3>1. e.pc = "record"
      BY DEF Shape, ExecsOK, ExecType
    <3>2. exec' = [exec EXCEPT ![p] = e]
      BY <1>10 DEF ExecSign
    <3> QED BY <1>0, <3>1, <3>2, ExecMove
  <2> QED BY <1>0, <1>10, <2>1, <2>2, EvidenceFrame DEF ExecSign, chain
<1>11. ASSUME NEW p \in Procs, ExecRecord(p) PROVE Evidence'
  <2>1. RowEvidence'
    BY <1>0, <1>11, RecordEvidence DEF ExecRecord, At, Belongs, Holding, Shape, ExecsOK, ExecOK, SignedOK
  <2>2. ExecEvidence'
    BY <1>0, <1>11, ExecMove, EvidenceFrame, IdleKnows DEF ExecRecord, At, Goto, Return, Shape, ExecsOK, ExecOK, ExecType, IdleExec
  <2> QED BY <1>0, <1>11, <2>1, <2>2, EvidenceFrame DEF ExecRecord, chain
<1>12. ASSUME NEW p \in Procs, ExecBroadcast(p) PROVE Evidence'
  <2>1. TxEvidence'
    BY <1>0, <1>12, EvidenceFrame DEF ExecBroadcast, Broadcast, TxEvidence, ChainGrows, Shape, ChainOK
  <2>2. ExecEvidence'
    BY <1>0, <1>12, ExecMove, EvidenceFrame, IdleKnows DEF ExecBroadcast, At, Goto, Return, Shape, ExecsOK, ExecOK, ExecType, IdleExec
  <2> QED BY <1>0, <1>12, <2>1, <2>2, EvidenceFrame DEF ExecBroadcast, chain
<1>13. ASSUME NEW p \in Procs, ExecHandoff(p) PROVE Evidence'
  <2>1. ExecEvidence'
    BY <1>0, <1>13, ExecMove, EvidenceFrame, IdleKnows DEF ExecHandoff, At, Goto, Return, Shape, ExecsOK, ExecOK, ExecType, IdleExec
  <2> QED BY <1>0, <1>13, <2>1, EvidenceFrame DEF ExecHandoff, chain
<1>14. ASSUME NEW p \in Procs, ExecError(p) PROVE Evidence'
  <2>1. RowEvidence'
    BY <1>0, <1>14, TransitionEvidence, RecordEvidence, EvidenceFrame DEF ExecError, At, Belongs, Holding, Status,
       Shape, ExecsOK, ExecOK, SignedOK
  <2>2. TxEvidence'
    <3>1. CASE UNCHANGED tx
      BY <1>0, <3>1, EvidenceFrame
    <3>2. CASE Broadcast(exec[p].hash)
      BY <1>0, <3>2 DEF Broadcast, TxEvidence, ChainGrows, Shape, ChainOK
    <3> QED BY <1>14, <3>1, <3>2 DEF ExecError
  <2>3. ExecEvidence'
    BY <1>0, <1>14, ExecMove, EvidenceFrame, IdleKnows DEF ExecError, At, Goto, Return, Shape, ExecsOK, ExecOK, ExecType, IdleExec
  <2> QED BY <1>0, <1>14, <2>1, <2>2, <2>3, EvidenceFrame DEF ExecError, chain
<1>15. ASSUME NEW p \in Procs, FailRead(p) PROVE Evidence'
  <2>1. ExecEvidence'
    BY <1>0, <1>15, ExecMove, EvidenceFrame, IdleKnows DEF FailRead, At, Goto, Return, Shape, ExecsOK, ExecOK, ExecType, IdleExec
  <2> QED BY <1>0, <1>15, <2>1, EvidenceFrame DEF FailRead, chain
<1>16. ASSUME NEW p \in Procs, FailWrite(p) PROVE Evidence'
  <2>1. RowEvidence'
    BY <1>0, <1>16, TransitionEvidence DEF FailWrite, At, Status, Shape, ExecsOK, ExecOK
  <2>2. ExecEvidence'
    BY <1>0, <1>16, ExecMove, EvidenceFrame, IdleKnows DEF FailWrite, At, Goto, Return, Shape, ExecsOK, ExecOK, ExecType, IdleExec
  <2> QED BY <1>0, <1>16, <2>1, <2>2, EvidenceFrame DEF FailWrite, chain
<1>17. ASSUME NEW p \in Procs, ExecThrow(p) PROVE Evidence'
  <2>1. RowEvidence'
    BY <1>0, <1>17, TransitionEvidence, EvidenceFrame DEF ExecThrow, At, Status, ExecEvidence, Shape, ExecsOK, ExecOK
  <2>2. ExecEvidence'
    BY <1>0, <1>17, ExecMove, EvidenceFrame, IdleKnows DEF ExecThrow, At, Goto, Return, Shape, ExecsOK, ExecOK, ExecType, IdleExec
  <2> QED BY <1>0, <1>17, <2>1, <2>2, EvidenceFrame DEF ExecThrow, chain
<1>18. ASSUME NEW p \in Procs, NEW o \in Orders, MonitorJob(p, o) PROVE Evidence'
  <2>1. BgEvidence'
    <3> DEFINE b == IF row[o].hash = NoHash \/ row[o].age = -1
                    THEN [IdleBg EXCEPT !.pc = "apply", !.order = o,
                            !.fromJob = TRUE, !.verdict = "NEVER_SUBMITTED"]
                    ELSE [IdleBg EXCEPT !.pc = "receipt", !.order = o, !.hash = row[o].hash,
                            !.age = row[o].age, !.fromJob = TRUE]
    <3>1. row[o].hash \in Hashes \cup {NoHash} /\ row[o].age \in -1..AgeCap
      BY DEF Shape, RowsOK, RowType
    <3>2. BgOK(b)
      BY <3>1, IdleOK DEF BgOK, IdleBg, BgType, BgPc, Verdict
    <3>3. BgKnows(b)
      BY DEF BgKnows, IdleBg, ConfirmingVerdicts, RowEvidence
    <3>4. bg' = bg \/ bg' = [bg EXCEPT ![p] = b]
      BY <1>18 DEF MonitorJob, Check
    <3> QED BY <1>0, <3>2, <3>3, <3>4, BgMove, EvidenceFrame
  <2> QED BY <1>0, <1>18, <2>1, EvidenceFrame DEF MonitorJob, chain
<1>19. ASSUME NEW p \in Procs, NEW o \in Orders, SweepStuck(p, o) PROVE Evidence'
  <2>1. BgEvidence'
    <3> DEFINE b == IF row[o].hash = NoHash \/ row[o].age = -1
                    THEN [IdleBg EXCEPT !.pc = "apply", !.order = o,
                            !.fromJob = FALSE, !.verdict = "NEVER_SUBMITTED"]
                    ELSE [IdleBg EXCEPT !.pc = "receipt", !.order = o, !.hash = row[o].hash,
                            !.age = row[o].age, !.fromJob = FALSE]
    <3>1. row[o].hash \in Hashes \cup {NoHash} /\ row[o].age \in -1..AgeCap
      BY DEF Shape, RowsOK, RowType
    <3>2. BgOK(b)
      BY <3>1, IdleOK DEF BgOK, IdleBg, BgType, BgPc, Verdict
    <3>3. BgKnows(b)
      BY DEF BgKnows, IdleBg, ConfirmingVerdicts, RowEvidence
    <3>4. bg' = bg \/ bg' = [bg EXCEPT ![p] = b]
      BY <1>19 DEF SweepStuck, Check
    <3> QED BY <1>0, <3>2, <3>3, <3>4, BgMove, EvidenceFrame
  <2> QED BY <1>0, <1>19, <2>1, EvidenceFrame DEF SweepStuck, chain
<1>20. ASSUME NEW p \in Procs, NEW o \in Orders, BackfillRead(p, o) PROVE Evidence'
  <2>1. BgEvidence'
    <3> DEFINE b == [IdleBg EXCEPT !.pc = "force", !.order = o,
                       !.hash = SettledHash(o), !.status = row[o].status]
    <3>1. SettledHash(o) \in Hashes /\ Belongs(SettledHash(o), o)
      BY <1>20 DEF BackfillRead, SettledHash, Belongs, Shape, ChainOK
    <3>2. BgOK(b)
      BY <3>1, IdleOK DEF BgOK, IdleBg, BgType, BgPc, Shape, RowsOK, RowType
    <3>3. BgKnows(b)
      BY <1>20, <3>1 DEF BackfillRead, BgKnows, IdleBg
    <3>4. bg' = [bg EXCEPT ![p] = b]
      BY <1>20 DEF BackfillRead
    <3> QED BY <1>0, <3>2, <3>3, <3>4, BgMove
  <2> QED BY <1>0, <1>20, <2>1, EvidenceFrame DEF BackfillRead, chain
<1>21. ASSUME NEW p \in Procs, NEW o \in Orders, AuditRead(p, o) PROVE Evidence'
  <2>1. BgEvidence'
    <3> DEFINE b == [IdleBg EXCEPT !.pc = "audit", !.order = o]
    <3>1. BgOK(b)
      BY IdleOK DEF BgOK, IdleBg, BgType, BgPc
    <3>2. BgKnows(b)
      BY DEF BgKnows, IdleBg
    <3>3. bg' = [bg EXCEPT ![p] = b]
      BY <1>21 DEF AuditRead
    <3> QED BY <1>0, <3>1, <3>2, <3>3, BgMove
  <2> QED BY <1>0, <1>21, <2>1, EvidenceFrame DEF AuditRead, chain
<1>22. ASSUME NEW p \in Procs, GetReceipt(p) PROVE Evidence'
  <2>1. BgEvidence'
    <3>1. bg[p] \in BgType /\ bg[p].order \in Orders /\ bg[p].hash \in Hashes
      BY <1>22 DEF GetReceipt, BgAt, Shape, BgsOK, BgOK
    <3>2. Belongs(bg[p].hash, bg[p].order)
      BY <1>22 DEF GetReceipt, BgAt, BgEvidence, BgKnows
    <3>3. CASE tx[bg[p].hash].state \in {"success", "reverted"}
      <4> DEFINE v == IF tx[bg[p].hash].state = "success" THEN "SUCCESS" ELSE "REVERTED"
                 b == [bg[p] EXCEPT !.pc = "apply", !.verdict = v]
      <4>1. BgOK(b)
        BY <3>1 DEF BgOK, BgType, BgPc, Verdict
      <4>2. BgKnows(b)
        BY <3>1, <3>2 DEF BgKnows, BgType, Belongs, TxEvidence, ConfirmingVerdicts
      <4>3. bg' = [bg EXCEPT ![p] = b]
        BY <1>22, <3>3 DEF GetReceipt, Conclude
      <4> QED BY <1>0, <4>1, <4>2, <4>3, BgMove
    <3>4. CASE tx[bg[p].hash].state \notin {"success", "reverted"}
      <4> DEFINE b == [bg[p] EXCEPT !.pc = "gettx"]
      <4>1. BgOK(b)
        BY <3>1 DEF BgOK, BgType, BgPc
      <4>2. BgKnows(b)
        BY <3>1, <3>2 DEF BgKnows, BgType
      <4>3. bg' = [bg EXCEPT ![p] = b]
        BY <1>22, <3>4 DEF GetReceipt
      <4> QED BY <1>0, <4>1, <4>2, <4>3, BgMove
    <3> QED BY <3>3, <3>4
  <2> QED BY <1>0, <1>22, <2>1, EvidenceFrame DEF GetReceipt, chain
<1>23. ASSUME NEW p \in Procs, TxFound(p) PROVE Evidence'
  <2>1. BgEvidence'
    BY <1>0, <1>23, BgMove, IdleKnows, IdleOK DEF TxFound, BgDone, NoVerdict
  <2> QED BY <1>0, <1>23, <2>1, EvidenceFrame DEF TxFound, chain
<1>24. ASSUME NEW p \in Procs, TxMissing(p) PROVE Evidence'
  <2>1. BgEvidence'
    <3> DEFINE b == [bg[p] EXCEPT !.pc = "contract"]
    <3>1. bg[p] \in BgType /\ bg[p].order \in Orders /\ bg[p].hash \in Hashes
      BY <1>24 DEF TxMissing, BgAt, Shape, BgsOK, BgOK
    <3>2. Belongs(bg[p].hash, bg[p].order)
      BY <1>24 DEF TxMissing, BgAt, BgEvidence, BgKnows
    <3>3. BgOK(b)
      BY <3>1 DEF BgOK, BgType, BgPc
    <3>4. BgKnows(b)
      BY <3>1, <3>2 DEF BgKnows, BgType
    <3>5. bg' = [bg EXCEPT ![p] = IdleBg] \/ bg' = [bg EXCEPT ![p] = b]
      BY <1>24 DEF TxMissing, NoVerdict, BgDone
    <3> QED BY <1>0, <3>3, <3>4, <3>5, BgMove, IdleOK, IdleKnows
  <2> QED BY <1>0, <1>24, <2>1, EvidenceFrame DEF TxMissing, chain
<1>25. ASSUME NEW p \in Procs, AskContract(p) PROVE Evidence'
  <2>1. BgEvidence'
    <3> DEFINE b == [bg[p] EXCEPT !.pc = "apply", !.verdict = DroppedVerdict(bg[p].order)]
    <3>1. bg[p] \in BgType /\ bg[p].order \in Orders /\ bg[p].hash \in Hashes
      BY <1>25 DEF AskContract, BgAt, Shape, BgsOK, BgOK
    <3>2. Belongs(bg[p].hash, bg[p].order)
      BY <1>25 DEF AskContract, BgAt, BgEvidence, BgKnows
    <3>3. DroppedVerdict(bg[p].order) \in Verdict
      BY DEF DroppedVerdict, Verdict
    <3>4. BgOK(b)
      BY <3>1, <3>3 DEF BgOK, BgType, BgPc
    <3>5. b.verdict \in ConfirmingVerdicts => IsExecuted(bg[p].order)
      BY <3>1 DEF BgType, DroppedVerdict, ConfirmingVerdicts
    <3>6. BgKnows(b)
      BY <3>1, <3>2, <3>5 DEF BgKnows, BgType
    <3>7. bg' = [bg EXCEPT ![p] = b]
      BY <1>25 DEF AskContract, Conclude
    <3> QED BY <1>0, <3>4, <3>6, <3>7, BgMove
  <2> QED BY <1>0, <1>25, <2>1, EvidenceFrame DEF AskContract, chain
<1>26. ASSUME NEW p \in Procs, RpcError(p) PROVE Evidence'
  <2>1. BgEvidence'
    BY <1>0, <1>26, BgMove, IdleKnows, IdleOK DEF RpcError, BgDone, NoVerdict
  <2> QED BY <1>0, <1>26, <2>1, EvidenceFrame DEF RpcError, chain
<1>27. ASSUME NEW p \in Procs, Apply(p) PROVE Evidence'
  <2>1. RowEvidence'
    BY <1>0, <1>27, VerdictEvidence DEF Apply, BgAt, Status, BgEvidence, BgKnows, Shape, BgsOK, BgOK, BgType
  <2>2. BgEvidence'
    BY <1>0, <1>27, BgMove, IdleKnows, IdleOK DEF Apply, BgDone, NoVerdict
  <2> QED BY <1>0, <1>27, <2>1, <2>2, EvidenceFrame DEF Apply, chain
<1>28. ASSUME NEW p \in Procs, AuditAsk(p) PROVE Evidence'
  <2>1. BgEvidence'
    <3> DEFINE b == [bg[p] EXCEPT !.pc = "force", !.status = "FAILED"]
    <3>1. bg[p] \in BgType /\ bg[p].order \in Orders /\ bg[p].pc = "audit"
      BY <1>28 DEF AuditAsk, BgAt, Shape, BgsOK, BgOK
    <3>2. BgOK(b)
      BY <3>1 DEF BgOK, BgType, BgPc, Status
    <3>3. CASE IsExecuted(bg[p].order)
      <4>1. BgKnows(b)
        BY <3>1, <3>3 DEF BgEvidence, BgKnows, BgType
      <4>2. bg' = [bg EXCEPT ![p] = b]
        BY <1>28, <3>3 DEF AuditAsk
      <4> QED BY <1>0, <3>2, <4>1, <4>2, BgMove
    <3>4. CASE ~IsExecuted(bg[p].order)
      BY <1>0, <1>28, <3>4, BgMove, IdleOK, IdleKnows DEF AuditAsk, BgDone
    <3> QED BY <3>3, <3>4
  <2> QED BY <1>0, <1>28, <2>1, EvidenceFrame DEF AuditAsk, chain
<1>29. ASSUME NEW p \in Procs, ReconcileForce(p) PROVE Evidence'
  <2>1. RowEvidence'
    BY <1>0, <1>29, VerdictEvidence DEF ReconcileForce, BgAt, Status, BgEvidence, BgKnows, Shape, BgsOK, BgOK, BgType
  <2>2. BgEvidence'
    BY <1>0, <1>29, BgMove, IdleKnows, IdleOK DEF ReconcileForce, BgDone, NoVerdict
  <2> QED BY <1>0, <1>29, <2>1, <2>2, EvidenceFrame DEF ReconcileForce, chain
<1>30. ASSUME NEW p \in Procs, BgThrow(p) PROVE Evidence'
  <2>1. BgEvidence'
    BY <1>0, <1>30, BgMove, IdleKnows, IdleOK DEF BgThrow, BgAt, BgDone, NoVerdict
  <2> QED BY <1>0, <1>30, <2>1, EvidenceFrame DEF BgThrow, BgAt, chain
<1>31. ASSUME NEW p \in Procs, Crash(p) PROVE Evidence'
  <2>1. ExecEvidence'
    BY <1>0, <1>31, ExecMove, EvidenceFrame, IdleKnows DEF Crash, At, Goto, Return, Shape, ExecsOK, ExecOK, ExecType, IdleExec
  <2>2. BgEvidence'
    BY <1>0, <1>31, BgMove, IdleKnows, IdleOK DEF Crash, BgDone, NoVerdict
  <2> QED BY <1>0, <1>31, <2>1, <2>2, EvidenceFrame DEF Crash, chain
<1>32. ASSUME NEW o \in Orders, CancelRead(o) PROVE Evidence'
  BY <1>0, <1>32, EvidenceFrame DEF CancelRead, chain
<1>33. ASSUME NEW o \in Orders, CancelWrite(o) PROVE Evidence'
  <2>1. RowEvidence'
    BY <1>0, <1>33, TransitionEvidence DEF CancelWrite, Status
  <2> QED BY <1>0, <1>33, <2>1, EvidenceFrame DEF CancelWrite, chain
<1>34. ASSUME NEW o \in Orders, MarkTriggered(o) PROVE Evidence'
  <2>1. RowEvidence'
    BY <1>0, <1>34, TransitionEvidence DEF MarkTriggered, Status
  <2> QED BY <1>0, <1>34, <2>1, EvidenceFrame DEF MarkTriggered, chain
<1>35. ASSUME NEW o \in Orders, RecoverDeadJob(o) PROVE Evidence'
  BY <1>0, <1>35, EvidenceFrame DEF RecoverDeadJob, chain
<1>36. ASSUME NEW o \in Orders, LockLapses(o) PROVE Evidence'
  BY <1>0, <1>36, EvidenceFrame DEF LockLapses, chain
<1>37. ASSUME NEW h \in Hashes, Mine(h) PROVE Evidence'
  <2>1. TxEvidence'
    <3>1. tx[h].order \in Orders /\ swaps[tx[h].order] \in Nat
      BY <1>37 DEF Mine, Shape, ChainOK
    <3>2. CASE Settles(h)
      <4>1. IsExecuted(tx[h].order)'
        BY <3>1, <3>2 DEF Settles, IsExecuted, Shape, ChainOK
      <4> QED BY <1>0, <3>2, <4>1 DEF Settles, TxEvidence, ChainGrows, Shape, ChainOK, TxType
    <3>3. CASE tx' = [tx EXCEPT ![h].state = "reverted"]
      BY <1>0, <3>3 DEF TxEvidence, ChainGrows, Shape, ChainOK, TxType
    <3> QED BY <1>37, <3>2, <3>3 DEF Mine
  <2>2. SettledOnce'
    BY <1>37 DEF Mine, SwapAllowed, Settles, IsExecuted, SettledOnce, Shape, ChainOK
  <2> QED BY <1>0, <1>37, <2>1, <2>2, EvidenceFrame DEF Mine, chain
<1>38. ASSUME NEW h \in Hashes, Vanish(h) PROVE Evidence'
  <2>1. TxEvidence'
    BY <1>0, <1>38 DEF Vanish, TxEvidence, ChainGrows, Shape, ChainOK
  <2> QED BY <1>0, <1>38, <2>1, EvidenceFrame DEF Vanish, chain
<1>39. CASE Tick
  <2>1. TxEvidence'
    BY <1>0, <1>39 DEF Tick, TxEvidence, ChainGrows, Shape, ChainOK, TxType
  <2>2. RowEvidence'
    BY <1>0, <1>39 DEF Tick, RowEvidence, ChainGrows, Belongs, Shape, RowsOK, RowType
  <2>3. ExecEvidence'
    BY <1>0, <1>39 DEF Tick, ExecEvidence, ChainGrows, Shape, ExecsOK, ExecOK, ExecType
  <2>4. BgEvidence'
    <3> SUFFICES ASSUME NEW p \in Procs PROVE BgKnows(bg[p])'
      BY DEF BgEvidence
    <3>1. /\ bg'[p].pc = bg[p].pc /\ bg'[p].order = bg[p].order
          /\ bg'[p].hash = bg[p].hash /\ bg'[p].verdict = bg[p].verdict
      BY <1>39 DEF Tick, Shape, BgsOK, BgType
    <3>2. BgKnows(bg[p])
      BY DEF BgEvidence
    <3>3. BgOK(bg[p])
      BY DEF Shape, BgsOK
    <3> QED BY <1>0, <3>1, <3>2, <3>3 DEF ChainGrows, BgKnows, Belongs, BgOK, BgType
  <2> QED BY <1>0, <1>39, <2>1, <2>2, <2>3, <2>4, EvidenceFrame DEF Tick
<1>40. CASE UNCHANGED vars
  BY <1>0, <1>40, EvidenceFrame DEF vars, chain
<1>41. ASSUME NEW p \in Procs, Trigger(p) \/ Execute(p) \/ Background(p) PROVE Evidence'
  BY <1>41, <1>1, <1>2, <1>3, <1>4, <1>5, <1>6, <1>7, <1>8, <1>9, <1>10, <1>11, <1>12, <1>13, <1>14, <1>15,
     <1>16, <1>17, <1>18, <1>19, <1>20, <1>21, <1>22, <1>23, <1>24, <1>25, <1>26, <1>27, <1>28, <1>29, <1>30
  DEF Trigger, Execute, Background
<1> QED
  BY <1>31, <1>32, <1>33, <1>34, <1>35, <1>36, <1>37, <1>38, <1>39, <1>40, <1>41
  DEF Next, Backend, Queue, Network

\* So the evidence is there in every reachable state.
LEMMA EvidenceHolds == Spec => []Evidence
<1>1. Spec => []Shape
  BY ShapeInit, ShapeStep, PTL DEF Spec
<1> QED BY <1>1, EvidenceInit, EvidenceStep, PTL DEF Spec

\* Whoever writes EXECUTED, and however late, the contract has performed the
\* order's swap: markConfirmed, transitionStatus of the settled branch and
\* forceExecutedFromReconciliation never report a trade that did not happen.
THEOREM EngineExecutedHasEvidence == Spec => []ExecutedHasEvidence
<1>1. Evidence => ExecutedHasEvidence
  BY DEF Evidence, RowEvidence, ExecutedHasEvidence
<1> QED BY <1>1, EvidenceHolds, PTL
============================================================================
