---------------------------- MODULE OrderEngine ----------------------------
(***************************************************************************)
(* The off-chain execution engine of the synthetic order executor, with   *)
(* the part of the contract that it relies on.                             *)
(*                                                                         *)
(* Worker processes (apps/worker) share one Postgres table of orders, two  *)
(* BullMQ queues in Redis and one chain.  A process runs, concurrently,    *)
(*   - the trigger loop     (TriggerEngine.run): PENDING -> TRIGGERED and  *)
(*     hand-off to the execution queue;                                    *)
(*   - the executor         (ExecutionService.executeOrder), one job at a  *)
(*     time;                                                               *)
(*   - background checks    (TxMonitorService.check, the two stuck sweeps, *)
(*     ReconcilerService passes).                                          *)
(* The backend process cancels orders, and its order service can trigger   *)
(* a failed one again (markTriggered, which no route exposes yet).  Every  *)
(* step of a handler that touches Postgres, Redis or an RPC node is an     *)
(* action, so everything another party can do between two awaits is        *)
(* interleaved.                                                            *)
(*                                                                         *)
(* Time is kept as distances from now: `age` is now - submittedAt and      *)
(* `ttl` is deadline - now, both saturated, so that the clock may run      *)
(* forever in finitely many states.  A null submittedAt is age -1; a       *)
(* passed deadline is ttl -1.                                              *)
(***************************************************************************)
EXTENDS Integers

CONSTANTS
    Orders,          \* order rows
    Hashes,          \* transactions the executor key may sign
    Procs,           \* worker processes
    NoOrder, NoHash, NoProc,
    Window,          \* DEADLINE_WINDOW_SEC
    Grace,           \* PENDING_GRACE_MS
    StuckAfter,      \* TX_STUCK_AFTER_MS
    Attempts,        \* attempts of an execution job
    MaxStalled,      \* BullMQ maxStalledCount
    LocksLapse,      \* may a job's lock expire while its worker still runs?
    MaxCrashes,      \* bound: process crashes
    MaxRetriggers    \* bound: calls of markTriggered

ASSUME SentinelsAssumption ==
    /\ NoOrder \notin Orders
    /\ NoHash \notin Hashes
    /\ NoProc \notin Procs

ASSUME BoundsAssumption ==
    /\ Window \in Nat /\ Grace \in Nat /\ StuckAfter \in Nat
    /\ Attempts \in Nat \ {0} /\ MaxStalled \in Nat
    /\ LocksLapse \in BOOLEAN
    /\ MaxCrashes \in Nat /\ MaxRetriggers \in Nat

VARIABLES
    row,        \* the orders table: status, version, txHash, age of submittedAt
    job,        \* the execution queue: the job whose jobId is the order id
    mon,        \* orders with a waiting monitor job
    monUsed,    \* orders whose initial monitor job id has been used
    hand,       \* order a trigger loop has claimed and not yet enqueued
    exec,       \* the executor of each process: program point and locals
    bg,         \* the background check of each process
    cancel,     \* a cancel request that has read its row
    tx,         \* every transaction of the executor key
    swaps,      \* number of swaps the contract performed for an order
    crashes, retriggers

queues == <<job, mon, monUsed>>
chain == <<tx, swaps>>
bounds == <<crashes, retriggers>>
vars == <<row, queues, hand, exec, bg, cancel, chain, bounds>>

---------------------------------------------------------------------------
(* The status table of the domain (packages/core/src/domain/orderStatus.ts)*)

Status == {"PENDING", "TRIGGERED", "EXECUTING", "EXECUTED", "FAILED", "CANCELLED"}

AllowedTransitions ==
    [s \in Status |->
        CASE s = "PENDING"   -> {"TRIGGERED", "CANCELLED"}
          [] s = "TRIGGERED" -> {"EXECUTING", "CANCELLED", "FAILED"}
          [] s = "EXECUTING" -> {"EXECUTED", "FAILED"}
          [] s = "FAILED"    -> {"TRIGGERED"}
          [] OTHER           -> {}]

CanTransition(from, to) == to \in AllowedTransitions[from]

TerminalStatuses == {"EXECUTED", "CANCELLED"}

UserCancellable == {"PENDING", "TRIGGERED"}

---------------------------------------------------------------------------
(* The clock. *)

AgeCap == (IF Grace > StuckAfter THEN Grace ELSE StuckAfter) + 1

Older(age) == IF age = -1 \/ age = AgeCap THEN age ELSE age + 1

Sooner(ttl) == IF ttl = -1 THEN -1 ELSE ttl - 1

---------------------------------------------------------------------------
(* State space. *)

RowType == [status : Status, version : Nat, hash : Hashes \cup {NoHash},
            age : -1..AgeCap]

JobType == [state : {"none", "wait", "active", "done", "failed"},
            owner : Procs \cup {NoProc}, tries : Nat,
            stalls : 0..MaxStalled]

ExecPc == {"idle", "chain", "settle", "preflight", "claim", "sign", "record",
           "broadcast", "handoff", "failed", "failcas"}

ExecType == [pc : ExecPc, order : Orders \cup {NoOrder}, status : Status,
             version : Nat, ttl : -1..Window, hash : Hashes \cup {NoHash}]

Verdict == {"NONE", "SUCCESS", "REVERTED", "DROPPED_BUT_EXECUTED",
            "DROPPED_NOT_EXECUTED", "NEVER_SUBMITTED"}

BgPc == {"idle", "receipt", "gettx", "contract", "apply", "audit", "force"}

BgType == [pc : BgPc, order : Orders \cup {NoOrder},
           hash : Hashes \cup {NoHash}, age : -1..AgeCap, fromJob : BOOLEAN,
           verdict : Verdict, status : Status]

CancelType == [open : BOOLEAN, status : Status, version : Nat]

TxType == [state : {"unused", "signed", "pending", "success", "reverted", "gone"},
           order : Orders \cup {NoOrder}, ttl : -1..Window]

NewRow == [status |-> "PENDING", version |-> 0, hash |-> NoHash, age |-> -1]

NoJob == [state |-> "none", owner |-> NoProc, tries |-> 0, stalls |-> 0]

IdleExec == [pc |-> "idle", order |-> NoOrder, status |-> "TRIGGERED",
             version |-> 0, ttl |-> -1, hash |-> NoHash]

IdleBg == [pc |-> "idle", order |-> NoOrder, hash |-> NoHash, age |-> -1,
           fromJob |-> FALSE, verdict |-> "NONE", status |-> "FAILED"]

NoCancel == [open |-> FALSE, status |-> "PENDING", version |-> 0]

UnusedTx == [state |-> "unused", order |-> NoOrder, ttl |-> -1]

TypeOK ==
    /\ row \in [Orders -> RowType]
    /\ job \in [Orders -> JobType]
    /\ mon \subseteq Orders /\ monUsed \subseteq Orders
    /\ hand \in [Procs -> Orders \cup {NoOrder}]
    /\ exec \in [Procs -> ExecType]
    /\ bg \in [Procs -> BgType]
    /\ cancel \in [Orders -> CancelType]
    /\ tx \in [Hashes -> TxType]
    /\ swaps \in [Orders -> Nat]
    /\ crashes \in 0..MaxCrashes /\ retriggers \in 0..MaxRetriggers

Init ==
    /\ row = [o \in Orders |-> NewRow]
    /\ job = [o \in Orders |-> NoJob]
    /\ mon = {} /\ monUsed = {}
    /\ hand = [p \in Procs |-> NoOrder]
    /\ exec = [p \in Procs |-> IdleExec]
    /\ bg = [p \in Procs |-> IdleBg]
    /\ cancel = [o \in Orders |-> NoCancel]
    /\ tx = [h \in Hashes |-> UnusedTx]
    /\ swaps = [o \in Orders |-> 0]
    /\ crashes = 0 /\ retriggers = 0

---------------------------------------------------------------------------
(* OrderRepository: every write is one conditional UPDATE.                 *)

Matches(o, status, version) ==
    row[o].status = status /\ row[o].version = version

TransitionStatus(o, status, version, next) ==
    row' = IF Matches(o, status, version)
           THEN [row EXCEPT ![o].status = next, ![o].version = @ + 1]
           ELSE row

RecordTxHash(o, h) ==
    row' = IF row[o].status = "EXECUTING"
           THEN [row EXCEPT ![o].hash = h, ![o].age = 0]
           ELSE row

\* markConfirmed and markFailed look at the status only, and overwrite the
\* hash with the one the caller tracked (none for resolveNeverSubmitted).
Resolve(o, next, h) ==
    row' = IF row[o].status = "EXECUTING"
           THEN [row EXCEPT ![o].status = next, ![o].version = @ + 1,
                            ![o].hash = IF h = NoHash THEN @ ELSE h]
           ELSE row

\* Fault: the repair only looks at rows that are still EXECUTING.
ForceExecutedIfExecuting(o, status, h) ==
    row' = IF row[o].status = "EXECUTING"
           THEN [row EXCEPT ![o].status = "EXECUTED", ![o].version = @ + 1,
                            ![o].hash = IF h = NoHash THEN @ ELSE h]
           ELSE row

ForceExecuted(o, status, h) ==
    row' = IF row[o].status = status
           THEN [row EXCEPT ![o].status = "EXECUTED", ![o].version = @ + 1,
                            ![o].hash = IF h = NoHash THEN @ ELSE h]
           ELSE row

\* Fault: the cut-off is compared the wrong way round.
FindFreshExecuting == {o \in Orders : row[o].status = "EXECUTING"
                                      /\ row[o].age \in 0..(StuckAfter - 1)}

FindStuckExecuting == {o \in Orders : row[o].status = "EXECUTING"
                                      /\ row[o].age > StuckAfter}

---------------------------------------------------------------------------
(* The contract and the network, as far as the engine sees them.           *)

\* SyntheticOrderExecutor.isExecuted(deriveExecutionId(o)): executeSwap marks
\* the id in the step that swaps, so the mark is "a swap was performed".
IsExecuted(o) == swaps[o] > 0

\* The two guards of executeSwap that order the engine's view of the world:
\* the id is unconsumed, and block.timestamp has not passed the deadline.
SwapAllowed(h) == ~IsExecuted(tx[h].order) /\ tx[h].ttl >= 0

Settles(h) ==
    /\ tx' = [tx EXCEPT ![h].state = "success"]
    /\ swaps' = [swaps EXCEPT ![tx[h].order] = @ + 1]

\* A pending transaction is included in a block.  The other conditions of
\* executeSwap (pause, balance, slippage) may turn any transaction into a
\* revert.
Mine(h) ==
    /\ tx[h].state = "pending"
    /\ \/ SwapAllowed(h) /\ Settles(h)
       \/ tx' = [tx EXCEPT ![h].state = "reverted"] /\ UNCHANGED swaps
    /\ UNCHANGED <<row, queues, hand, exec, bg, cancel, bounds>>

\* A pending transaction is replaced or forgotten by the whole network.
Vanish(h) ==
    /\ tx[h].state = "pending"
    /\ tx' = [tx EXCEPT ![h].state = "gone"]
    /\ UNCHANGED <<row, queues, hand, exec, bg, cancel, swaps, bounds>>

Tick ==
    /\ row' = [o \in Orders |-> [row[o] EXCEPT !.age = Older(@)]]
    /\ exec' = [p \in Procs |-> [exec[p] EXCEPT !.ttl = Sooner(@)]]
    /\ bg' = [p \in Procs |-> IF bg[p].pc = "receipt"
                              THEN [bg[p] EXCEPT !.age = Older(@)] ELSE bg[p]]
    /\ tx' = [h \in Hashes |-> [tx[h] EXCEPT !.ttl = Sooner(@)]]
    /\ UNCHANGED <<queues, hand, cancel, swaps, bounds>>

---------------------------------------------------------------------------
(* The queues (BullMQ), as src/apps/worker/src/queues/queues.ts uses them. *)

\* queue.add with jobId = orderId: an existing job of that id swallows it.
PipelineEnqueue(o) ==
    job' = IF job[o].state = "none" THEN [job EXCEPT ![o].state = "wait"] ELSE job

\* BullMonitorPipeline.enqueue: the id monitor--<order>--initial is swallowed
\* while the earlier job of that id exists, completed or not.
MonitorEnqueue(o) ==
    /\ mon' = IF o \in monUsed THEN mon ELSE mon \cup {o}
    /\ monUsed' = monUsed \cup {o}

Holds(p, o) == job[o].state = "active" /\ job[o].owner = p

\* The processor returned: the job completes, unless p has lost its lock or
\* the completion does not reach Redis.
JobCompletes(p, o) ==
    \/ Holds(p, o) /\ job' = [job EXCEPT ![o].state = "done", ![o].owner = NoProc]
    \/ UNCHANGED job

\* The processor threw: the job is retried until its attempts are used up.
AttemptFails(o) ==
    job' = [job EXCEPT ![o].state = IF job[o].tries + 1 < Attempts
                                    THEN "wait" ELSE "failed",
                       ![o].tries = @ + 1, ![o].owner = NoProc]

JobThrows(p, o) == (Holds(p, o) /\ AttemptFails(o)) \/ UNCHANGED job

\* The lock of an active job expired: it is handed out again, maxStalledCount
\* times at most.
JobStalls(o) ==
    job' = [job EXCEPT ![o].state = IF job[o].stalls < MaxStalled
                                    THEN "wait" ELSE "failed",
                       ![o].stalls = IF @ < MaxStalled THEN @ + 1 ELSE @,
                       ![o].owner = NoProc]

\* The stalled-job check finds the job of a worker that died.
RecoverDeadJob(o) ==
    /\ job[o].state = "active" /\ exec[job[o].owner].order # o
    /\ JobStalls(o)
    /\ UNCHANGED <<row, mon, monUsed, hand, exec, bg, cancel, chain, bounds>>

\* The lock expires while its worker is merely slow (a suspended process, an
\* unreachable Redis): the worker goes on without knowing.
LockLapses(o) ==
    /\ LocksLapse
    /\ job[o].state = "active" /\ exec[job[o].owner].order = o
    /\ JobStalls(o)
    /\ UNCHANGED <<row, mon, monUsed, hand, exec, bg, cancel, chain, bounds>>

---------------------------------------------------------------------------
(* TriggerEngine.run: claim a PENDING order the price has reached, then    *)
(* hand it off.  Whether the price has reached an order is left open here. *)

TriggerClaim(p, o) ==
    /\ hand[p] = NoOrder
    /\ row[o].status = "PENDING"
    /\ TransitionStatus(o, "PENDING", row[o].version, "TRIGGERED")
    /\ hand' = [hand EXCEPT ![p] = o]
    /\ UNCHANGED <<queues, exec, bg, cancel, chain, bounds>>

TriggerEnqueue(p) ==
    /\ hand[p] # NoOrder
    /\ PipelineEnqueue(hand[p])
    /\ hand' = [hand EXCEPT ![p] = NoOrder]
    /\ UNCHANGED <<row, mon, monUsed, exec, bg, cancel, chain, bounds>>

\* The enqueue is rejected: the order stays TRIGGERED, a handoff failure.
TriggerEnqueueFails(p) ==
    /\ hand[p] # NoOrder
    /\ hand' = [hand EXCEPT ![p] = NoOrder]
    /\ UNCHANGED <<row, queues, exec, bg, cancel, chain, bounds>>

---------------------------------------------------------------------------
(* The backend: OrderService.cancelOrder and markTriggered.                *)

CancelRead(o) ==
    /\ ~cancel[o].open
    /\ row[o].status \in UserCancellable
    /\ cancel' = [cancel EXCEPT ![o] = [open |-> TRUE, status |-> row[o].status,
                                        version |-> row[o].version]]
    /\ UNCHANGED <<row, queues, hand, exec, bg, chain, bounds>>

\* Fault: a cancellation that does not compare the version it read.
CancelBlindly(o) ==
    /\ cancel[o].open
    /\ row' = [row EXCEPT ![o].status = "CANCELLED", ![o].version = @ + 1]
    /\ cancel' = [cancel EXCEPT ![o] = NoCancel]
    /\ UNCHANGED <<queues, hand, exec, bg, chain, bounds>>

CancelWrite(o) ==
    /\ cancel[o].open
    /\ TransitionStatus(o, cancel[o].status, cancel[o].version, "CANCELLED")
    /\ cancel' = [cancel EXCEPT ![o] = NoCancel]
    /\ UNCHANGED <<queues, hand, exec, bg, chain, bounds>>

\* An operation of the order service; no route or worker calls it yet.  Read
\* and compare-and-swap in one step: a swap that loses changes nothing.
MarkTriggered(o) ==
    /\ retriggers < MaxRetriggers
    /\ CanTransition(row[o].status, "TRIGGERED")
    /\ TransitionStatus(o, row[o].status, row[o].version, "TRIGGERED")
    /\ retriggers' = retriggers + 1
    /\ UNCHANGED <<queues, hand, exec, bg, cancel, chain, crashes>>

---------------------------------------------------------------------------
(* ExecutionService.executeOrder, one step per await.                      *)

At(p, pc) == exec[p].pc = pc

Goto(p, pc) == exec' = [exec EXCEPT ![p].pc = pc]

\* The processor returns: its locals are gone and the job completes.
Return(p) ==
    /\ exec' = [exec EXCEPT ![p] = IdleExec]
    /\ JobCompletes(p, exec[p].order)

\* The worker takes a job and findById reads the row; an order that is not
\* TRIGGERED is skipped.
ExecStart(p, o) ==
    /\ At(p, "idle") /\ job[o].state = "wait"
    /\ IF row[o].status = "TRIGGERED"
       THEN /\ job' = [job EXCEPT ![o].state = "active", ![o].owner = p]
            /\ exec' = [exec EXCEPT ![p] = [IdleExec EXCEPT
                          !.pc = "chain", !.order = o, !.version = row[o].version]]
       ELSE /\ job' = [job EXCEPT ![o].state = "done"]
            /\ UNCHANGED exec
    /\ UNCHANGED <<row, mon, monUsed, hand, bg, cancel, chain, bounds>>

\* findById itself fails.
ExecStartFails(p, o) ==
    /\ At(p, "idle") /\ job[o].state = "wait"
    /\ AttemptFails(o)
    /\ UNCHANGED <<row, mon, monUsed, hand, exec, bg, cancel, chain, bounds>>

\* executor.isExecuted: the authoritative duplicate check.
ExecAskChain(p) ==
    /\ At(p, "chain")
    /\ Goto(p, IF IsExecuted(exec[p].order) THEN "settle" ELSE "preflight")
    /\ UNCHANGED <<row, queues, hand, bg, cancel, chain, bounds>>

ExecSettle(p) ==
    /\ At(p, "settle")
    /\ TransitionStatus(exec[p].order, "TRIGGERED", exec[p].version, "EXECUTED")
    /\ Return(p)
    /\ UNCHANGED <<mon, monUsed, hand, bg, cancel, chain, bounds>>

\* Fault: a deadline one unit beyond the configured window.
ExecPreflightLate(p) ==
    /\ At(p, "preflight")
    /\ exec' = [exec EXCEPT ![p].pc = "claim", ![p].ttl = Window + 1]
    /\ UNCHANGED <<row, queues, hand, bg, cancel, chain, bounds>>

\* Pause, balance and a fresh quote; buildExecutionParams fixes the deadline.
ExecPreflight(p) ==
    /\ At(p, "preflight")
    /\ exec' = [exec EXCEPT ![p].pc = "claim", ![p].ttl = Window]
    /\ UNCHANGED <<row, queues, hand, bg, cancel, chain, bounds>>

\* Fault: the loser of the claim goes on.
ExecClaimUnchecked(p) ==
    /\ At(p, "claim")
    /\ TransitionStatus(exec[p].order, "TRIGGERED", exec[p].version, "EXECUTING")
    /\ Goto(p, "sign")
    /\ UNCHANGED <<queues, hand, bg, cancel, chain, bounds>>

\* The claim TRIGGERED -> EXECUTING; the loser stands down.
ExecClaim(p) ==
    LET o == exec[p].order IN
    /\ At(p, "claim")
    /\ TransitionStatus(o, "TRIGGERED", exec[p].version, "EXECUTING")
    /\ IF Matches(o, "TRIGGERED", exec[p].version)
       THEN Goto(p, "sign") /\ UNCHANGED job
       ELSE Return(p)
    /\ UNCHANGED <<mon, monUsed, hand, bg, cancel, chain, bounds>>

\* Fault: the transaction is sent when it is signed, before it is recorded.
ExecSignAndSend(p, h) ==
    LET o == exec[p].order IN
    /\ At(p, "sign")
    /\ ~IsExecuted(o) /\ exec[p].ttl >= 0
    /\ tx[h].state = "unused"
    /\ tx' = [tx EXCEPT ![h] = [state |-> "pending", order |-> o, ttl |-> exec[p].ttl]]
    /\ exec' = [exec EXCEPT ![p].pc = "record", ![p].hash = h]
    /\ UNCHANGED <<row, queues, hand, bg, cancel, swaps, bounds>>

\* submit: the simulation passes on the current chain state, and a
\* transaction is signed locally.
ExecSign(p, h) ==
    LET o == exec[p].order IN
    /\ At(p, "sign")
    /\ ~IsExecuted(o) /\ exec[p].ttl >= 0
    /\ tx[h].state = "unused"
    /\ tx' = [tx EXCEPT ![h] = [state |-> "signed", order |-> o, ttl |-> exec[p].ttl]]
    /\ exec' = [exec EXCEPT ![p].pc = "record", ![p].hash = h]
    /\ UNCHANGED <<row, queues, hand, bg, cancel, swaps, bounds>>

\* onSigned: recordTxHash; its result is not looked at.
ExecRecord(p) ==
    /\ At(p, "record")
    /\ RecordTxHash(exec[p].order, exec[p].hash)
    /\ Goto(p, "broadcast")
    /\ UNCHANGED <<queues, hand, bg, cancel, chain, bounds>>

Broadcast(h) == tx' = [tx EXCEPT ![h].state = "pending"]

ExecBroadcast(p) ==
    /\ At(p, "broadcast")
    /\ Broadcast(exec[p].hash)
    /\ Goto(p, "handoff")
    /\ UNCHANGED <<row, queues, hand, bg, cancel, swaps, bounds>>

ExecHandoff(p) ==
    /\ At(p, "handoff")
    /\ MonitorEnqueue(exec[p].order)
    /\ Return(p)
    /\ UNCHANGED <<row, hand, bg, cancel, chain, bounds>>

\* Something inside the try block throws: a rejected order, an RPC, database
\* or Redis error.  A request whose answer was lost may have taken effect.
ExecError(p) ==
    LET o == exec[p].order IN
    /\ \/ At(p, "preflight") /\ UNCHANGED <<row, tx>>
       \/ At(p, "sign")      /\ UNCHANGED <<row, tx>>
       \/ At(p, "claim")     /\ UNCHANGED tx
                             /\ \/ UNCHANGED row
                                \/ TransitionStatus(o, "TRIGGERED", exec[p].version, "EXECUTING")
       \/ At(p, "record")    /\ UNCHANGED tx
                             /\ (UNCHANGED row \/ RecordTxHash(o, exec[p].hash))
       \/ At(p, "broadcast") /\ UNCHANGED row
                             /\ (UNCHANGED tx \/ Broadcast(exec[p].hash))
       \/ At(p, "handoff")   /\ UNCHANGED <<row, tx>>
    /\ Goto(p, "failed")
    /\ UNCHANGED <<queues, hand, bg, cancel, swaps, bounds>>

\* Fault: handleFailure fails a submitted order as well.
FailureNeverDeferred(o) == FALSE

\* handleFailure re-reads the row.  EXECUTING with a hash is left to the
\* monitor (the enqueue itself may fail); anything else is to become FAILED.
FailureDeferred(o) == row[o].status = "EXECUTING" /\ row[o].hash # NoHash

FailRead(p) ==
    LET o == exec[p].order IN
    /\ At(p, "failed")
    /\ IF FailureDeferred(o)
       THEN Return(p) /\ (MonitorEnqueue(o) \/ UNCHANGED <<mon, monUsed>>)
       ELSE /\ exec' = [exec EXCEPT ![p].pc = "failcas", ![p].status = row[o].status,
                                    ![p].version = row[o].version]
            /\ UNCHANGED queues
    /\ UNCHANGED <<row, hand, bg, cancel, chain, bounds>>

FailWrite(p) ==
    /\ At(p, "failcas")
    /\ TransitionStatus(exec[p].order, exec[p].status, exec[p].version, "FAILED")
    /\ Return(p)
    /\ UNCHANGED <<mon, monUsed, hand, bg, cancel, chain, bounds>>

\* An error outside the try block: the job is rejected and BullMQ retries it.
ExecThrow(p) ==
    LET o == exec[p].order IN
    /\ \/ At(p, "chain") /\ UNCHANGED row
       \/ At(p, "failed") /\ UNCHANGED row
       \/ At(p, "settle") /\ (\/ UNCHANGED row
                              \/ TransitionStatus(o, "TRIGGERED", exec[p].version, "EXECUTED"))
       \/ At(p, "failcas") /\ (\/ UNCHANGED row
                               \/ TransitionStatus(o, exec[p].status, exec[p].version, "FAILED"))
    /\ exec' = [exec EXCEPT ![p] = IdleExec]
    /\ JobThrows(p, o)
    /\ UNCHANGED <<mon, monUsed, hand, bg, cancel, chain, bounds>>

---------------------------------------------------------------------------
(* TxMonitorService.check with TransactionMonitor.getOutcome.  A process   *)
(* runs one background check at a time here; two processes show two        *)
(* concurrent ones.                                                        *)

BgAt(p, pc) == bg[p].pc = pc

BgDone(p) == bg' = [bg EXCEPT ![p] = IdleBg]

\* check reads the row: a settled order is skipped, an order without a hash
\* was never submitted, any other is looked up on the chain.
Check(p, o, fromJob) ==
    bg' = IF row[o].status # "EXECUTING" THEN bg
          ELSE [bg EXCEPT ![p] =
                 IF row[o].hash = NoHash \/ row[o].age = -1
                 THEN [IdleBg EXCEPT !.pc = "apply", !.order = o,
                         !.fromJob = fromJob, !.verdict = "NEVER_SUBMITTED"]
                 ELSE [IdleBg EXCEPT !.pc = "receipt", !.order = o, !.hash = row[o].hash,
                         !.age = row[o].age, !.fromJob = fromJob]]

MonitorJob(p, o) ==
    /\ BgAt(p, "idle") /\ o \in mon
    /\ mon' = mon \ {o}
    /\ Check(p, o, TRUE)
    /\ UNCHANGED <<row, job, monUsed, hand, exec, cancel, chain, bounds>>

\* TxMonitorService.sweepStuck and ReconcilerService.sweepStuckExecuting.
SweepStuck(p, o) ==
    /\ BgAt(p, "idle") /\ o \in FindStuckExecuting
    /\ Check(p, o, FALSE)
    /\ UNCHANGED <<row, queues, hand, exec, cancel, chain, bounds>>

Conclude(p, verdict) ==
    bg' = [bg EXCEPT ![p].pc = "apply", ![p].verdict = verdict]

\* PENDING and RPC_ERROR conclude nothing: a monitor job is queued again, a
\* sweep waits for its next round.
NoVerdict(p) ==
    /\ BgDone(p)
    /\ mon' = IF bg[p].fromJob THEN mon \cup {bg[p].order} ELSE mon

GetReceipt(p) ==
    LET state == tx[bg[p].hash].state IN
    /\ BgAt(p, "receipt")
    /\ CASE state = "success"  -> Conclude(p, "SUCCESS")
         [] state = "reverted" -> Conclude(p, "REVERTED")
         [] OTHER              -> bg' = [bg EXCEPT ![p].pc = "gettx"]
    /\ UNCHANGED <<row, queues, hand, exec, cancel, chain, bounds>>

Mined(h) == tx[h].state \in {"success", "reverted"}

\* getTransaction finds a mined transaction, and a pending one if the node
\* asked still has it.
TxFound(p) ==
    /\ BgAt(p, "gettx")
    /\ Mined(bg[p].hash) \/ tx[bg[p].hash].state = "pending"
    /\ NoVerdict(p)
    /\ UNCHANGED <<row, job, monUsed, hand, exec, cancel, chain, bounds>>

\* Fault: the grace period ends one unit early.
WithinGraceEarly(age) == age < Grace - 1

WithinGrace(age) == age < Grace

TxMissing(p) ==
    /\ BgAt(p, "gettx")
    /\ ~Mined(bg[p].hash)
    /\ IF WithinGrace(bg[p].age)
       THEN NoVerdict(p)
       ELSE bg' = [bg EXCEPT ![p].pc = "contract"] /\ UNCHANGED mon
    /\ UNCHANGED <<row, job, monUsed, hand, exec, cancel, chain, bounds>>

\* The decisive question, put to the contract.
DroppedVerdict(o) ==
    IF IsExecuted(o) THEN "DROPPED_BUT_EXECUTED" ELSE "DROPPED_NOT_EXECUTED"

AskContract(p) ==
    /\ BgAt(p, "contract")
    /\ Conclude(p, DroppedVerdict(bg[p].order))
    /\ UNCHANGED <<row, queues, hand, exec, cancel, chain, bounds>>

RpcError(p) ==
    /\ bg[p].pc \in {"receipt", "gettx", "contract"}
    /\ NoVerdict(p)
    /\ UNCHANGED <<row, job, monUsed, hand, exec, cancel, chain, bounds>>

\* Fault: any dropped transaction counts as executed.
ConfirmingAnyDrop == {"SUCCESS", "DROPPED_BUT_EXECUTED", "DROPPED_NOT_EXECUTED"}

ConfirmingVerdicts == {"SUCCESS", "DROPPED_BUT_EXECUTED"}

Apply(p) ==
    /\ BgAt(p, "apply")
    /\ Resolve(bg[p].order,
               IF bg[p].verdict \in ConfirmingVerdicts THEN "EXECUTED" ELSE "FAILED",
               bg[p].hash)
    /\ BgDone(p)
    /\ UNCHANGED <<queues, hand, exec, cancel, chain, bounds>>

---------------------------------------------------------------------------
(* ReconcilerService: backfillFromLogs and auditFailed (auditExecuted only *)
(* writes a log line).                                                     *)

SettledHash(o) == CHOOSE h \in Hashes : tx[h].state = "success" /\ tx[h].order = o

\* applyLog: a SwapExecuted log of an order whose row is not EXECUTED.
BackfillRead(p, o) ==
    /\ BgAt(p, "idle") /\ IsExecuted(o) /\ row[o].status # "EXECUTED"
    /\ bg' = [bg EXCEPT ![p] = [IdleBg EXCEPT !.pc = "force", !.order = o,
                                  !.hash = SettledHash(o), !.status = row[o].status]]
    /\ UNCHANGED <<row, queues, hand, exec, cancel, chain, bounds>>

\* auditFailed lists a FAILED order that got as far as signing...
AuditRead(p, o) ==
    /\ BgAt(p, "idle") /\ row[o].status = "FAILED"
    /\ row[o].hash # NoHash \/ row[o].age # -1
    /\ bg' = [bg EXCEPT ![p] = [IdleBg EXCEPT !.pc = "audit", !.order = o]]
    /\ UNCHANGED <<row, queues, hand, exec, cancel, chain, bounds>>

\* ...and asks the contract about it.
AuditAsk(p) ==
    /\ BgAt(p, "audit")
    /\ IF IsExecuted(bg[p].order)
       THEN bg' = [bg EXCEPT ![p].pc = "force", ![p].status = "FAILED"]
       ELSE BgDone(p)
    /\ UNCHANGED <<row, queues, hand, exec, cancel, chain, bounds>>

ReconcileForce(p) ==
    /\ BgAt(p, "force")
    /\ ForceExecuted(bg[p].order, bg[p].status, bg[p].hash)
    /\ BgDone(p)
    /\ UNCHANGED <<queues, hand, exec, cancel, chain, bounds>>

\* A database, RPC or Redis error ends the check or the pass; a monitor job
\* that throws, or cannot queue its re-check, has no further attempt.
BgThrow(p) ==
    /\ ~BgAt(p, "idle")
    /\ BgDone(p)
    /\ UNCHANGED <<row, queues, hand, exec, cancel, chain, bounds>>

---------------------------------------------------------------------------
\* A worker process dies and restarts: everything in its memory is lost, and
\* the monitor job it ran is lost or delivered again.
Crash(p) ==
    /\ crashes < MaxCrashes /\ crashes' = crashes + 1
    /\ exec' = [exec EXCEPT ![p] = IdleExec]
    /\ hand' = [hand EXCEPT ![p] = NoOrder]
    /\ BgDone(p)
    /\ \/ UNCHANGED mon
       \/ bg[p].fromJob /\ mon' = mon \cup {bg[p].order}
    /\ UNCHANGED <<row, job, monUsed, cancel, chain, retriggers>>

Trigger(p) == (\E o \in Orders : TriggerClaim(p, o)) \/ TriggerEnqueue(p) \/ TriggerEnqueueFails(p)

Execute(p) ==
    \/ \E o \in Orders : ExecStart(p, o) \/ ExecStartFails(p, o)
    \/ ExecAskChain(p) \/ ExecSettle(p) \/ ExecPreflight(p) \/ ExecClaim(p)
    \/ \E h \in Hashes : ExecSign(p, h)
    \/ ExecRecord(p) \/ ExecBroadcast(p) \/ ExecHandoff(p)
    \/ ExecError(p) \/ FailRead(p) \/ FailWrite(p) \/ ExecThrow(p)

Background(p) ==
    \/ \E o \in Orders : \/ MonitorJob(p, o) \/ SweepStuck(p, o)
                         \/ BackfillRead(p, o) \/ AuditRead(p, o)
    \/ GetReceipt(p) \/ TxFound(p) \/ TxMissing(p) \/ AskContract(p)
    \/ RpcError(p) \/ Apply(p) \/ AuditAsk(p) \/ ReconcileForce(p) \/ BgThrow(p)

Backend(o) == CancelRead(o) \/ CancelWrite(o) \/ MarkTriggered(o)

Queue(o) == RecoverDeadJob(o) \/ LockLapses(o)

Network(h) == Mine(h) \/ Vanish(h)

Next ==
    \/ \E p \in Procs : Trigger(p) \/ Execute(p) \/ Background(p) \/ Crash(p)
    \/ \E o \in Orders : Backend(o) \/ Queue(o)
    \/ \E h \in Hashes : Network(h)
    \/ Tick

Spec == Init /\ [][Next]_vars

---------------------------------------------------------------------------
(* Fairness.  A running process goes on; the stuck sweep and the audit of  *)
(* FAILED orders, which timers repeat for ever, get their turn; an RPC     *)
(* node or the database asked again and again answers at last; the network *)
(* mines or forgets a transaction.  Nothing is asked of users, of monitor  *)
(* jobs (they may all be lost) or of the log scan, and every failure stays *)
(* possible.                                                               *)

ExecProgress(p) ==
    \/ \E o \in Orders : ExecStart(p, o)
    \/ ExecAskChain(p) \/ ExecSettle(p) \/ ExecPreflight(p) \/ ExecClaim(p)
    \/ \E h \in Hashes : ExecSign(p, h)
    \/ ExecRecord(p) \/ ExecBroadcast(p) \/ ExecHandoff(p)
    \/ ExecError(p) \/ FailRead(p) \/ FailWrite(p)

Fairness ==
    /\ WF_vars(Tick)
    /\ \A h \in Hashes : WF_vars(Network(h))
    /\ \A o \in Orders : WF_vars(RecoverDeadJob(o))
    /\ \A p \in Procs :
        /\ WF_vars(TriggerEnqueue(p)) /\ WF_vars(ExecProgress(p))
        /\ SF_vars(GetReceipt(p)) /\ SF_vars(TxFound(p) \/ TxMissing(p))
        /\ SF_vars(AskContract(p)) /\ SF_vars(Apply(p))
        /\ SF_vars(AuditAsk(p)) /\ SF_vars(ReconcileForce(p))
        /\ \A o \in Orders : SF_vars(SweepStuck(p, o)) /\ SF_vars(AuditRead(p, o))

FairSpec == Spec /\ Fairness

---------------------------------------------------------------------------
(* Safety. *)

\* Whoever writes EXECUTED (executor, monitor, sweep, reconciler) has chain
\* evidence that is still true: an EXECUTED row has been traded on-chain.
ExecutedHasEvidence == \A o \in Orders : row[o].status = "EXECUTED" => IsExecuted(o)

Transactions(o) == {h \in Hashes : tx[h].state # "unused" /\ tx[h].order = o}

\* The claim TRIGGERED -> EXECUTING of executeOrder is won once in the life
\* of an order that nobody re-triggers: redelivered jobs, lapsed locks and
\* crashes never lead to a second signed transaction.
OneTransactionPerOrder == \A o \in Orders : \A h, k \in Transactions(o) : h = k

\* A user who was told CANCELLED is never traded: no transaction of the order
\* exists, nor is a worker about to sign one.
CancelledNeverTrades ==
    \A o \in Orders : row[o].status = "CANCELLED" =>
        /\ Transactions(o) = {} /\ ~IsExecuted(o)
        /\ \A p \in Procs : exec[p].order = o => exec[p].pc # "sign"

\* h has traded its order, or is on the network and still may.
Counts(h) == tx[h].state = "success" \/ (tx[h].state = "pending" /\ tx[h].ttl >= 0)

\* An order that is triggered again after a failure gets its second
\* transaction when the first one is out of the way: the failure handler, the
\* monitor and the sweeps release it only if the earlier transaction can
\* trade it no more, so that the contract's replay guard has nothing to
\* catch (the deadline window being shorter than the grace period).
AttemptsDoNotOverlap ==
    \A o \in Orders : \A h, k \in Transactions(o) : Counts(h) /\ Counts(k) => h = k

CanStillSettle(h) == tx[h].state \in {"signed", "pending"} /\ tx[h].ttl >= 0

\* The monitor's DROPPED_NOT_EXECUTED ("safe to re-trigger") is final: the
\* order was not traded and none of its transactions can be any more, even if
\* one of them shows up again.
DroppedIsFinal ==
    \A p \in Procs : bg[p].verdict = "DROPPED_NOT_EXECUTED" =>
        /\ ~IsExecuted(bg[p].order)
        /\ \A h \in Transactions(bg[p].order) : ~CanStillSettle(h)

\* No transaction is on the network without its hash in the order's row
\* (recordTxHash before sendRawTransaction).
BroadcastIsRecorded ==
    \A h \in Hashes : tx[h].state = "pending" => row[tx[h].order].hash = h

\* EXECUTED and CANCELLED are terminal: only the reconciler's evidence of a
\* settled swap may move a CANCELLED row, and nothing moves an EXECUTED one.
TerminalStaysTerminal ==
    [][\A o \in Orders : row[o].status \in TerminalStatuses =>
           row'[o].status \in {row[o].status, "EXECUTED"}]_vars

\* FAILED is true when it replaces EXECUTING: handleFailure and the monitor,
\* the sweeps included, write it only for an order that was not traded and
\* that no transaction on the network can trade any more, though the answer
\* to a broadcast may be lost and a verdict is older than its write.
FailureHidesNoTrade ==
    [][\A o \in Orders : row[o].status = "EXECUTING" /\ row'[o].status = "FAILED" =>
           /\ ~IsExecuted(o)
           /\ \A h \in Transactions(o) : ~(tx[h].state = "pending" /\ tx[h].ttl >= 0)]_vars

---------------------------------------------------------------------------
(* The abstract lifecycle.  Every status but the two final ones reads      *)
(* "open"; an order is committed once a transaction for it is signed.      *)

Told(o) ==
    CASE row[o].status = "EXECUTED"  -> "executed"
      [] row[o].status = "CANCELLED" -> "cancelled"
      [] OTHER                       -> "open"

Lifecycle == INSTANCE OrderLifecycle WITH
    told      <- [o \in Orders |-> Told(o)],
    committed <- {o \in Orders : Transactions(o) # {}},
    trades    <- swaps

\* The engine implements the lifecycle: through every interleaving of the
\* processes' writes, an order is committed, traded, reported and cancelled
\* in an order the owner was promised, one of these at a time.
ImplementsLifecycle == Lifecycle!Spec

---------------------------------------------------------------------------
(* Liveness. *)

\* The stuck sweep is a complete safety net for submitted orders: EXECUTING
\* with a recorded hash is resolved in the end, whatever was lost.
SubmittedResolves ==
    \A o \in Orders : (row[o].status = "EXECUTING" /\ row[o].hash # NoHash)
                          ~> row[o].status \in {"EXECUTED", "FAILED"}

\* The chain wins: once an order is traded its row becomes EXECUTED and, the
\* late failure handlers having run, stays EXECUTED.
SettlementIsReported ==
    \A o \in Orders : IsExecuted(o) ~> [](row[o].status = "EXECUTED")

\* No order is stuck: whoever is TRIGGERED or EXECUTING moves on in the end,
\* a failed hand-off being swept up and a lost claim failed, as the comments
\* of TriggerEngine.run and TxMonitorService.check promise.
NoOrderStuck ==
    LET InFlight(o) == row[o].status \in {"TRIGGERED", "EXECUTING"}
    IN  \A o \in Orders : InFlight(o) ~> ~InFlight(o)
============================================================================
