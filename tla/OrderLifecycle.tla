--------------------------- MODULE OrderLifecycle ---------------------------
(***************************************************************************)
(* What the order system promises the owner of an order, without queues,   *)
(* processes or transactions.  An order is free until it is committed (a   *)
(* transaction for it exists) and is then traded at most once.  The owner  *)
(* is told "open", "executed" or "cancelled"; "executed" is told of traded *)
(* orders only and "cancelled" of free ones only, so no trade can follow.  *)
(* What was told may be withdrawn to "open" (a late failure handler), never*)
(* turned into the other answer.  OrderEngine implements this for orders   *)
(* that nobody re-triggers.                                                *)
(***************************************************************************)
EXTENDS Integers

CONSTANT Orders

VARIABLES told, committed, trades

vars == <<told, committed, trades>>

Init ==
    /\ told = [o \in Orders |-> "open"]
    /\ committed = {}
    /\ trades = [o \in Orders |-> 0]

Tell(o, from, to) == told[o] = from /\ told' = [told EXCEPT ![o] = to]

Commit(o) ==
    /\ o \notin committed /\ told[o] = "open" /\ trades[o] = 0
    /\ committed' = committed \cup {o}
    /\ UNCHANGED <<told, trades>>

Trade(o) ==
    /\ o \in committed /\ trades[o] = 0
    /\ trades' = [trades EXCEPT ![o] = 1]
    /\ UNCHANGED <<told, committed>>

Cancel(o) ==
    /\ o \notin committed
    /\ Tell(o, "open", "cancelled")
    /\ UNCHANGED <<committed, trades>>

Report(o) ==
    /\ trades[o] = 1
    /\ Tell(o, "open", "executed")
    /\ UNCHANGED <<committed, trades>>

Withdraw(o) ==
    /\ \E answer \in {"executed", "cancelled"} : Tell(o, answer, "open")
    /\ UNCHANGED <<committed, trades>>

Next == \E o \in Orders : Commit(o) \/ Trade(o) \/ Cancel(o) \/ Report(o) \/ Withdraw(o)

Spec == Init /\ [][Next]_vars
=============================================================================
