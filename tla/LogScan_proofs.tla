--------------------------- MODULE LogScan_proofs ---------------------------
(***************************************************************************)
(* The log scan, for any number of orders and overlapping passes, any      *)
(* window, lag and length of the chain.  A reorganisation may replace one  *)
(* block more than the buffer that is scanned again, and no more: a deeper *)
(* one would let a swap turn up behind the checkpoint (TLC finds it).      *)
(*                                                                         *)
(* NoLogSkipped is about the checkpoint alone and not inductive: a pass    *)
(* carries the next checkpoint through five steps while the chain and the  *)
(* other passes go on.  Good says what a pass owes at each of them.        *)
(***************************************************************************)
EXTENDS LogScan, TLAPS

\* No reorganisation is more than one block deeper than the buffer.
Shallow == MaxReorg <= ReorgBuffer + 1

Windowed == {"fetch", "apply", "compare", "write"}

ScanType == [pc : {"idle", "window"} \cup Windowed, head : Blocks \cup {None},
             from : Blocks, to : Blocks, logs : SUBSET Orders]

\* What the checkpoint of a pass will cover was applied, or is still ahead of it.
Covers(s) ==
    \A o \in Orders :
        mined[o] >= floor /\ mined[o] < s.to - ReorgBuffer =>
            \/ o \in seen
            \/ s.pc = "fetch" /\ mined[o] >= s.from
            \/ s.pc = "apply" /\ o \in s.logs

\* A pass has read nothing of the chain that is ahead of it, and one past its
\* window has set a floor and covers its window.
Good(s) ==
    /\ s.pc # "idle" => s.head \in 0..height
    /\ s.pc \in Windowed => s.to <= height /\ floor # None /\ (Shallow => Covers(s))

ChainAndCheckpoint ==
    /\ height \in Blocks /\ mined \in [Orders -> Blocks \cup {None}]
    /\ checkpoint \in Blocks \cup {None} /\ floor \in Blocks \cup {None}
    /\ seen \subseteq Orders
    /\ checkpoint <= height /\ \A o \in Orders : mined[o] <= height
    /\ checkpoint # None => floor # None

IInv ==
    /\ ChainAndCheckpoint /\ (Shallow => NoLogSkipped)
    /\ scan \in [Procs -> ScanType] /\ \A p \in Procs : Good(scan[p])

\* The invariant holds before the first pass.
LEMMA ScanInit == Init => IInv
BY ScanAssumption DEF Init, IInv, ChainAndCheckpoint, NoLogSkipped, Good, ScanType, Windowed,
   IdleScan, Blocks, None

\* A step of one pass that writes only its record keeps the invariant, if the
\* record it writes is good.
LEMMA PassKeeps ==
    ASSUME IInv, NEW p \in Procs, NEW s \in ScanType, Good(s), scan' = [scan EXCEPT ![p] = s],
           UNCHANGED <<height, mined, checkpoint, floor, seen>>
    PROVE  IInv'
<1>1. scan' \in [Procs -> ScanType] /\ \A q \in Procs : Good(scan'[q])
  BY DEF IInv
<1>2. \A q \in Procs : Good(scan[q])'
  BY <1>1 DEF Good, Covers
<1>3. ChainAndCheckpoint' /\ (Shallow => NoLogSkipped)'
  BY DEF IInv, ChainAndCheckpoint, NoLogSkipped
<1> QED BY <1>1, <1>2, <1>3 DEF IInv

\* A pass that has ended owes nothing.
LEMMA IdleIsGood == IdleScan \in ScanType /\ Good(IdleScan)
BY ScanAssumption DEF IdleScan, Good, ScanType, Windowed, Blocks, None

\* A swap is mined in the new block, which is ahead of every window.
LEMMA GrowKeeps ==
    ASSUME IInv, Grow
    PROVE  IInv'
<1>1. ChainAndCheckpoint'
  BY ScanAssumption DEF IInv, ChainAndCheckpoint, Grow, Blocks, None
<1>2. \A o \in Orders : mined'[o] = mined[o] \/ mined'[o] = height + 1
  BY DEF Grow, IInv, ChainAndCheckpoint
<1>3. (Shallow => NoLogSkipped)'
  BY <1>2, ScanAssumption DEF IInv, ChainAndCheckpoint, NoLogSkipped, Grow, Blocks, None
<1>4. ASSUME NEW p \in Procs PROVE Good(scan[p])'
  <2>1. Good(scan[p]) /\ scan[p] \in ScanType
    BY DEF IInv
  <2> QED BY <1>2, <2>1, ScanAssumption
          DEF IInv, ChainAndCheckpoint, Good, Covers, ScanType, Windowed, Grow, Blocks, None
<1> QED BY <1>1, <1>3, <1>4 DEF IInv, Grow

\* A swap turns up in a replaced block, which is in the buffer of every window.
LEMMA ReorgKeeps ==
    ASSUME IInv, NEW d \in 1..MaxReorg, Reorg(d)
    PROVE  IInv'
<1>1. /\ mined' \in [Orders -> Blocks \cup {None}]
      /\ \A o \in Orders : \/ mined'[o] = mined[o] \/ mined'[o] = None
                           \/ /\ mined'[o] <= height
                              /\ Shallow => mined'[o] >= height - ReorgBuffer
  BY ScanAssumption DEF Shallow, Reorg, IInv, ChainAndCheckpoint, Blocks, None
<1>2. ChainAndCheckpoint'
  BY <1>1 DEF Reorg, IInv, ChainAndCheckpoint, Blocks, None
<1>3. (Shallow => NoLogSkipped)'
  BY <1>1, ScanAssumption DEF IInv, ChainAndCheckpoint, NoLogSkipped, Reorg, Blocks, None
<1>4. ASSUME NEW p \in Procs PROVE Good(scan[p])'
  <2>1. Good(scan[p]) /\ scan[p] \in ScanType
    BY DEF IInv
  <2> QED BY <1>1, <2>1, ScanAssumption
          DEF IInv, ChainAndCheckpoint, Good, Covers, ScanType, Windowed, Reorg, Blocks, None
<1> QED BY <1>2, <1>3, <1>4 DEF IInv, Reorg

\* The window starts where the checkpoint's promise ends, or sets the floor.
LEMMA WindowKeeps ==
    ASSUME IInv, NEW p \in Procs, ReadCheckpoint(p)
    PROVE  IInv'
<1> DEFINE head == scan[p].head
           from == ScanFrom(head)
           to == ScanTo(head, from)
           s == IF to < from THEN IdleScan ELSE [scan[p] EXCEPT !.pc = "fetch", !.from = from, !.to = to]
<1>1. scan[p] \in ScanType /\ head \in 0..height /\ height \in Nat /\ height <= MaxHeight
  BY ScanAssumption DEF IInv, ChainAndCheckpoint, ReadCheckpoint, At, Good, Blocks
<1>2. /\ from \in Nat /\ from <= height /\ to \in Int /\ to <= head
      /\ checkpoint = None => from <= head /\ from <= to
      /\ checkpoint # None => from = 0 \/ from = checkpoint - ReorgBuffer
  BY <1>1, ScanAssumption
     DEF ScanFrom, ScanTo, Larger, Smaller, IInv, ChainAndCheckpoint, Blocks, None
<1> HIDE DEF head, from, to
<1>3. /\ scan' = [scan EXCEPT ![p] = s] /\ UNCHANGED <<height, mined, checkpoint, seen>>
      /\ floor' = IF checkpoint = None THEN Larger(floor, from) ELSE floor
  BY DEF ReadCheckpoint, head, from, to
<1>4. /\ floor' \in Blocks /\ floor' >= floor
      /\ checkpoint = None => floor' >= from
  BY <1>1, <1>2, <1>3, ScanAssumption DEF Larger, IInv, ChainAndCheckpoint, Blocks, None
<1>5. ChainAndCheckpoint' /\ (Shallow => NoLogSkipped)'
  BY <1>3, <1>4, ScanAssumption DEF IInv, ChainAndCheckpoint, NoLogSkipped, Blocks, None
<1>6. s \in ScanType
  <2>1. to >= from => from \in Blocks /\ to \in Blocks
    BY <1>1, <1>2, ScanAssumption DEF Blocks
  <2>2. to >= from => [scan[p] EXCEPT !.pc = "fetch", !.from = from, !.to = to] \in ScanType
    BY <1>1, <2>1 DEF ScanType, Windowed
  <2> QED BY <1>2, <2>2, IdleIsGood
<1>7. ASSUME Shallow, to >= from
      PROVE  \A o \in Orders : mined[o] >= floor' => o \in seen \/ mined[o] >= from
  BY <1>2, <1>4, <1>7, ScanAssumption DEF IInv, ChainAndCheckpoint, NoLogSkipped, Blocks, None
<1>8. ASSUME NEW q \in Procs PROVE Good(scan[q])'
  <2>1. CASE q # p
    <3>1. Good(scan[q]) /\ scan[q] \in ScanType /\ scan'[q] = scan[q]
      BY <1>3, <2>1 DEF IInv
    <3>2. \A o \in Orders : mined[o] >= floor' => mined[o] >= floor
      BY <1>4 DEF IInv, ChainAndCheckpoint, Blocks, None
    <3>3. floor' # None
      BY <1>4, ScanAssumption DEF Blocks, None
    <3> QED BY <1>3, <3>1, <3>2, <3>3 DEF Good, Covers
  <2>2. CASE q = p /\ to < from
    BY <1>3, <2>2 DEF IInv, Good, IdleScan, Windowed
  <2>3. CASE q = p /\ to >= from
    <3>1. scan'[p] = [scan[p] EXCEPT !.pc = "fetch", !.from = from, !.to = to]
      BY <1>2, <1>3, <2>3 DEF IInv
    <3>2. scan'[p].pc = "fetch" /\ scan'[p].head = head /\ scan'[p].from = from /\ scan'[p].to = to
      BY <1>1, <3>1 DEF ScanType, head
    <3> QED BY <1>1, <1>2, <1>3, <1>4, <1>7, <2>3, <3>2
            DEF Good, Covers, Windowed, Blocks, None
  <2> QED BY <1>2, <2>1, <2>2, <2>3
<1> QED BY <1>3, <1>5, <1>6, <1>8 DEF IInv

\* A log that was applied is seen.
LEMMA ApplyKeeps ==
    ASSUME IInv, NEW p \in Procs, ApplyLog(p)
    PROVE  IInv'
<1>1. PICK o \in scan[p].logs : /\ scan' = [scan EXCEPT ![p].logs = @ \ {o}]
                                /\ seen' = seen \cup {o}
  BY DEF ApplyLog
<1>2. UNCHANGED <<height, mined, checkpoint, floor>> /\ scan[p].pc = "apply" /\ scan[p] \in ScanType
  BY DEF ApplyLog, At, IInv
<1>3. o \in Orders
  BY <1>1, <1>2 DEF ScanType
<1>4. ChainAndCheckpoint' /\ (Shallow => NoLogSkipped)'
  BY <1>1, <1>2, <1>3 DEF IInv, ChainAndCheckpoint, NoLogSkipped
<1>5. scan' \in [Procs -> ScanType]
  BY <1>1, <1>2 DEF IInv, ScanType
<1>6. ASSUME NEW q \in Procs PROVE Good(scan[q])'
  <2>1. Good(scan[q]) /\ scan[q] \in ScanType
    BY DEF IInv
  <2>2. CASE q # p
    <3>1. scan'[q] = scan[q]
      BY <1>1, <2>2 DEF IInv
    <3> QED BY <1>1, <1>2, <2>1, <3>1 DEF Good, Covers
  <2>3. CASE q = p
    <3>1. /\ scan'[p].pc = "apply" /\ scan'[p].head = scan[p].head /\ scan'[p].to = scan[p].to
          /\ scan'[p].logs = scan[p].logs \ {o}
      BY <1>1, <1>2 DEF IInv, ScanType
    <3> QED BY <1>1, <1>2, <2>1, <2>3, <3>1 DEF Good, Covers, Windowed
  <2> QED BY <2>2, <2>3
<1> QED BY <1>4, <1>5, <1>6 DEF IInv

\* The end of a window that was applied becomes the checkpoint, whatever the
\* checkpoint has become since it was compared.
LEMMA WriteKeeps ==
    ASSUME IInv, NEW p \in Procs, WriteCheckpoint(p)
    PROVE  IInv'
<1>1. /\ scan[p].pc = "write" /\ scan[p] \in ScanType /\ Good(scan[p])
      /\ checkpoint' = scan[p].to /\ scan' = [scan EXCEPT ![p] = IdleScan]
      /\ UNCHANGED <<height, mined, floor, seen>>
  BY DEF WriteCheckpoint, At, IInv
<1>2. scan[p].to \in Blocks /\ scan[p].to <= height /\ floor # None /\ (Shallow => Covers(scan[p]))
  BY <1>1 DEF Good, Windowed, ScanType
<1>3. ChainAndCheckpoint'
  BY <1>1, <1>2 DEF IInv, ChainAndCheckpoint
<1>4. (Shallow => NoLogSkipped)'
  BY <1>1, <1>2 DEF NoLogSkipped, Covers
<1>5. scan' \in [Procs -> ScanType]
  BY <1>1, IdleIsGood DEF IInv
<1>6. ASSUME NEW q \in Procs PROVE Good(scan[q])'
  <2>1. Good(scan'[q])
    BY <1>1, IdleIsGood DEF IInv
  <2> QED BY <1>1, <2>1 DEF Good, Covers
<1> QED BY <1>3, <1>4, <1>5, <1>6 DEF IInv

\* The other steps of a pass write its record only.
LEMMA LocalKeeps ==
    ASSUME IInv, NEW p \in Procs,
           ReadHead(p) \/ GetLogs(p) \/ LogsApplied(p) \/ CompareCheckpoint(p) \/ PassFails(p)
    PROVE  IInv'
<1>0. scan[p] \in ScanType /\ Good(scan[p]) /\ ChainAndCheckpoint
  BY DEF IInv
<1>1. scan' = [scan EXCEPT ![p] = IdleScan] /\ UNCHANGED <<height, mined, checkpoint, floor, seen>> => IInv'
  BY IdleIsGood, PassKeeps
<1>2. CASE ReadHead(p)
  <2>1. PICK head \in Larger(0, height - Lag(p))..height :
            scan' = [scan EXCEPT ![p].pc = "window", ![p].head = head]
    BY <1>2 DEF ReadHead
  <2>2. head \in 0..height /\ head \in Blocks
    BY <1>0, <2>1, ScanAssumption DEF Larger, Lag, ChainAndCheckpoint, Blocks
  <2> DEFINE s == [scan[p] EXCEPT !.pc = "window", !.head = head]
  <2>3. s \in ScanType /\ Good(s)
    BY <1>0, <2>2 DEF ScanType, Good, Windowed
  <2>4. scan' = [scan EXCEPT ![p] = s]
    BY <1>0, <2>1 DEF ScanType, IInv
  <2> HIDE DEF s
  <2> QED BY <1>2, <2>3, <2>4, PassKeeps DEF ReadHead
<1>3. CASE GetLogs(p)
  <2> DEFINE logs == {o \in Orders : mined[o] \in scan[p].from..scan[p].to}
             s == [scan[p] EXCEPT !.pc = "apply", !.logs = logs]
  <2>1. scan[p].pc = "fetch" /\ scan' = [scan EXCEPT ![p] = s]
    BY <1>0, <1>3 DEF GetLogs, At, ScanType, IInv
  <2>2. s \in ScanType /\ s.pc = "apply" /\ s.logs = logs /\ s.to = scan[p].to /\ s.head = scan[p].head
    BY <1>0 DEF ScanType, Windowed
  <2> HIDE DEF s
  <2>3. ASSUME Shallow PROVE Covers(s)
    <3> SUFFICES ASSUME NEW o \in Orders, mined[o] >= floor, mined[o] < s.to - ReorgBuffer,
                        o \notin seen
                 PROVE  o \in logs
      BY <2>2 DEF Covers
    <3>1. mined[o] >= scan[p].from
      BY <1>0, <2>1, <2>2, <2>3 DEF Good, Covers, Windowed
    <3> QED BY <1>0, <2>2, <3>1, ScanAssumption DEF ChainAndCheckpoint, ScanType, Blocks, None
  <2>4. Good(s)
    BY <1>0, <2>1, <2>2, <2>3 DEF Good, Windowed
  <2> QED BY <1>3, <2>1, <2>2, <2>4, PassKeeps DEF GetLogs
<1>4. ASSUME NEW pc \in {"compare", "write"}, scan[p].pc \in {"apply", "compare"},
             scan[p].pc = "apply" => scan[p].logs = {},
             scan' = [scan EXCEPT ![p] = [scan[p] EXCEPT !.pc = pc]],
             UNCHANGED <<height, mined, checkpoint, floor, seen>>
      PROVE  IInv'
  <2> DEFINE s == [scan[p] EXCEPT !.pc = pc]
  <2>1. s \in ScanType /\ s.pc = pc /\ s.to = scan[p].to /\ s.head = scan[p].head
    BY <1>0, <1>4 DEF ScanType, Windowed
  <2> HIDE DEF s
  <2>2. Good(s)
    BY <1>0, <1>4, <2>1 DEF Good, Covers, Windowed
  <2> QED BY <1>4, <2>1, <2>2, PassKeeps DEF s
<1>5. CASE LogsApplied(p)
  <2>1. scan' = [scan EXCEPT ![p] = [scan[p] EXCEPT !.pc = "compare"]]
    BY <1>5 DEF LogsApplied
  <2> QED BY <1>4, <1>5, <2>1 DEF LogsApplied, At
<1>6. CASE CompareCheckpoint(p)
  <2>1. CASE Ahead(p)
    <3>1. scan' = [scan EXCEPT ![p] = [scan[p] EXCEPT !.pc = "write"]]
      BY <1>6, <2>1 DEF CompareCheckpoint
    <3> QED BY <1>4, <1>6, <3>1 DEF CompareCheckpoint, At
  <2>2. CASE ~Ahead(p)
    BY <1>1, <1>6, <2>2 DEF CompareCheckpoint
  <2> QED BY <2>1, <2>2
<1>7. CASE PassFails(p)
  BY <1>1, <1>7 DEF PassFails
<1> QED BY <1>2, <1>3, <1>5, <1>6, <1>7

\* The invariant is kept by every step.
LEMMA ScanStep ==
    ASSUME IInv, [Next]_vars
    PROVE  IInv'
<1>1. CASE Grow
  BY <1>1, GrowKeeps
<1>2. ASSUME NEW d \in 1..MaxReorg, Reorg(d) PROVE IInv'
  BY <1>2, ReorgKeeps
<1>3. ASSUME NEW p \in Procs, Pass(p) \/ PassFails(p) PROVE IInv'
  BY <1>3, WindowKeeps, ApplyKeeps, WriteKeeps, LocalKeeps DEF Pass
<1>4. CASE UNCHANGED vars
  BY <1>4 DEF vars, IInv, ChainAndCheckpoint, NoLogSkipped, Good, Covers
<1> QED BY <1>1, <1>2, <1>3, <1>4 DEF Next

\* The invariant holds.
LEMMA ScanHolds == Spec => []IInv
<1>1. IInv /\ [Next]_vars => IInv'
  BY ScanStep
<1> QED BY <1>1, ScanInit, PTL DEF Spec

\* The blocks a pass computes with are blocks of the chain, whatever the chain,
\* the node and the other passes do: a window never starts before block 0 or
\* ends after the head, and no pass stores anything else.
THEOREM ScanTypeCorrect == Spec => []TypeOK
<1>1. IInv => TypeOK
  BY DEF IInv, ChainAndCheckpoint, TypeOK, ScanType, Windowed
<1> QED BY <1>1, ScanHolds, PTL

\* If no reorganisation is more than one block deeper than the buffer, the
\* checkpoint never outruns the work: below the blocks that are scanned again
\* the log of every swap was applied, for any number of overlapping, failing
\* and lagging passes, also when setCheckpoint overwrites a newer value.
THEOREM ScanNoLogSkipped == Shallow => (Spec => []NoLogSkipped)
<1> SUFFICES ASSUME Shallow PROVE Spec => []NoLogSkipped
  OBVIOUS
<1>1. IInv => NoLogSkipped
  BY DEF IInv
<1> QED BY <1>1, ScanHolds, PTL
=============================================================================
