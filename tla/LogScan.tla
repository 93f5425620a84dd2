------------------------------ MODULE LogScan ------------------------------
(***************************************************************************)
(* ReconcilerService.backfillFromLogs: the scan of SwapExecuted logs that  *)
(* a persisted checkpoint drives, against a chain that grows and reorgs.   *)
(* Every await is a step, passes of several worker processes may overlap,  *)
(* and a pass may die between any two steps.  What applyLog does to the    *)
(* row is in OrderEngine (BackfillRead, ReconcileForce); here a log counts *)
(* as seen once it was handed to applyLog.                                 *)
(***************************************************************************)
EXTENDS Integers

CONSTANTS
    Orders,
    Procs,
    Steady,          \* processes that keep running, on a node that keeps up; any
                     \* other may stop for ever and may ask a lagging node
    ReorgBuffer,     \* REORG_BUFFER_BLOCKS
    MaxRange,        \* RECONCILE_MAX_BLOCK_RANGE
    MaxReorg,        \* deepest reorganisation of the chain
    MaxLag,          \* blocks a lagging node may be behind
    MaxHeight        \* bound: length of the chain

ASSUME ScanAssumption ==
    /\ Steady \subseteq Procs
    /\ ReorgBuffer \in Nat /\ MaxRange \in Nat \ {0}
    /\ MaxReorg \in Nat /\ MaxLag \in Nat /\ MaxHeight \in Nat

VARIABLES
    height,          \* the head of the canonical chain
    mined,           \* block of the order's SwapExecuted log, None without one
    checkpoint,      \* lastProcessedBlock, None before the first pass
    floor,           \* latest block at which a pass without a checkpoint started
    seen,            \* orders whose log was applied
    scan             \* the pass of each process: program point and locals

vars == <<height, mined, checkpoint, floor, seen, scan>>

None == -1

Larger(a, b) == IF a > b THEN a ELSE b
Smaller(a, b) == IF a < b THEN a ELSE b

Blocks == 0..MaxHeight

IdleScan == [pc |-> "idle", head |-> None, from |-> 0, to |-> 0, logs |-> {}]

TypeOK ==
    /\ height \in Blocks
    /\ mined \in [Orders -> Blocks \cup {None}]
    /\ checkpoint \in Blocks \cup {None}
    /\ floor \in Blocks \cup {None}
    /\ seen \subseteq Orders
    /\ scan \in [Procs -> [pc : {"idle", "window", "fetch", "apply", "compare", "write"},
                           head : Blocks \cup {None}, from : Blocks, to : Blocks,
                           logs : SUBSET Orders]]

Init ==
    /\ height = 0
    /\ mined = [o \in Orders |-> None]
    /\ checkpoint = None /\ floor = None
    /\ seen = {}
    /\ scan = [p \in Procs |-> IdleScan]

---------------------------------------------------------------------------
(* The chain. *)

Grow ==
    /\ height < MaxHeight
    /\ height' = height + 1
    /\ \/ UNCHANGED mined
       \/ \E o \in Orders : mined[o] = None /\ mined' = [mined EXCEPT ![o] = height + 1]
    /\ UNCHANGED <<checkpoint, floor, seen, scan>>

\* The last d blocks are replaced: a swap in one of them moves or is undone,
\* and one that was not mined yet may turn up in them.
Reorg(d) ==
    /\ d <= height
    /\ mined' \in [Orders -> Blocks \cup {None}]
    /\ \A o \in Orders :
        IF mined[o] = None \/ mined[o] > height - d
        THEN mined'[o] \in {None} \cup ((height - d + 1)..height)
        ELSE mined'[o] = mined[o]
    /\ UNCHANGED <<height, checkpoint, floor, seen, scan>>

---------------------------------------------------------------------------
(* One pass. *)

At(p, pc) == scan[p].pc = pc

\* How far the node a process asks may be behind.
Lag(p) == IF p \in Steady THEN 0 ELSE MaxLag

ReadHead(p) ==
    /\ At(p, "idle")
    /\ \E head \in Larger(0, height - Lag(p))..height :
        scan' = [scan EXCEPT ![p].pc = "window", ![p].head = head]
    /\ UNCHANGED <<height, mined, checkpoint, floor, seen>>

\* Fault: the reorg buffer is not re-scanned.
ScanFromCheckpoint(head) ==
    IF checkpoint # None THEN checkpoint ELSE Larger(0, head - MaxRange)

\* Fault: the start of the window is not clamped at block 0.
ScanFromUnclamped(head) ==
    IF checkpoint # None THEN checkpoint - ReorgBuffer ELSE Larger(0, head - MaxRange)

ScanFrom(head) ==
    IF checkpoint # None THEN Larger(0, checkpoint - ReorgBuffer)
                         ELSE Larger(0, head - MaxRange)

ScanTo(head, from) == Smaller(head, from + MaxRange)

\* A window that lies above the head (a lagging node) ends the pass.
ReadCheckpoint(p) ==
    LET head == scan[p].head
        from == ScanFrom(head)
        to == ScanTo(head, from) IN
    /\ At(p, "window")
    /\ scan' = [scan EXCEPT ![p] = IF to < from THEN IdleScan
                                   ELSE [@ EXCEPT !.pc = "fetch", !.from = from, !.to = to]]
    /\ floor' = IF checkpoint = None THEN Larger(floor, from) ELSE floor
    /\ UNCHANGED <<height, mined, checkpoint, seen>>

GetLogs(p) ==
    /\ At(p, "fetch")
    /\ scan' = [scan EXCEPT ![p].pc = "apply",
                            ![p].logs = {o \in Orders : mined[o] \in scan[p].from..scan[p].to}]
    /\ UNCHANGED <<height, mined, checkpoint, floor, seen>>

ApplyLog(p) ==
    /\ At(p, "apply")
    /\ \E o \in scan[p].logs :
        /\ scan' = [scan EXCEPT ![p].logs = @ \ {o}]
        /\ seen' = seen \cup {o}
    /\ UNCHANGED <<height, mined, checkpoint, floor>>

LogsApplied(p) ==
    /\ At(p, "apply") /\ scan[p].logs = {}
    /\ scan' = [scan EXCEPT ![p].pc = "compare"]
    /\ UNCHANGED <<height, mined, checkpoint, floor, seen>>

Ahead(p) == checkpoint = None \/ scan[p].to > checkpoint

\* setCheckpoint reads the row, and writes it in a second statement.
CompareCheckpoint(p) ==
    /\ At(p, "compare")
    /\ scan' = [scan EXCEPT ![p] = IF Ahead(p) THEN [@ EXCEPT !.pc = "write"] ELSE IdleScan]
    /\ UNCHANGED <<height, mined, checkpoint, floor, seen>>

\* Fault: the start of the window is stored instead of its end.
WriteWindowStart(p) ==
    /\ At(p, "write")
    /\ checkpoint' = scan[p].from
    /\ scan' = [scan EXCEPT ![p] = IdleScan]
    /\ UNCHANGED <<height, mined, floor, seen>>

WriteCheckpoint(p) ==
    /\ At(p, "write")
    /\ checkpoint' = scan[p].to
    /\ scan' = [scan EXCEPT ![p] = IdleScan]
    /\ UNCHANGED <<height, mined, floor, seen>>

\* An RPC or database error (`safely` logs it) or a crash ends the pass.
PassFails(p) ==
    /\ ~At(p, "idle")
    /\ scan' = [scan EXCEPT ![p] = IdleScan]
    /\ UNCHANGED <<height, mined, checkpoint, floor, seen>>

Pass(p) ==
    \/ ReadHead(p) \/ ReadCheckpoint(p) \/ GetLogs(p) \/ ApplyLog(p) \/ LogsApplied(p)
    \/ CompareCheckpoint(p) \/ WriteCheckpoint(p)

Next ==
    \/ Grow
    \/ \E d \in 1..MaxReorg : Reorg(d)
    \/ \E p \in Procs : Pass(p) \/ PassFails(p)

Spec == Init /\ [][Next]_vars

\* In a steady process the repeatable job runs the pass again and again; each
\* request, repeated again and again, goes through at last (the write of one
\* log included).
Fairness ==
    \A p \in Steady :
        /\ WF_vars(ReadHead(p)) /\ SF_vars(ReadCheckpoint(p)) /\ SF_vars(GetLogs(p))
        /\ \A logs \in SUBSET Orders : SF_vars(ApplyLog(p) /\ scan[p].logs = logs)
        /\ SF_vars(LogsApplied(p))
        /\ SF_vars(CompareCheckpoint(p)) /\ SF_vars(WriteCheckpoint(p))

FairSpec == Spec /\ Fairness

---------------------------------------------------------------------------
\* The checkpoint never outruns the work: below the blocks the next pass
\* re-scans, and from the start of the first pass on, the log of every swap on the
\* chain was applied, whatever was reorganised, failed or overlapped.
NoLogSkipped ==
    \A o \in Orders :
        mined[o] >= floor /\ mined[o] < checkpoint - ReorgBuffer => o \in seen

\* Every swap on the scanned part of the chain is backfilled in the end.
EverySwapSeen ==
    \A o \in Orders :
        (mined[o] # None /\ mined[o] >= floor) ~>
            (o \in seen \/ mined[o] = None \/ mined[o] < floor)
============================================================================
