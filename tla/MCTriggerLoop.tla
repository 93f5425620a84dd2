--------------------------- MODULE MCTriggerLoop ---------------------------
EXTENDS TriggerLoop

Rows(status, sides, triggers) == [status : {status}, side : sides, trigger : triggers]

AnyOpen == Rows("PENDING", {"BUY", "SELL"}, Prices)

OpenAt(price) == Rows("PENDING", {"BUY", "SELL"}, {price})

Closed == Rows("CANCELLED", {"SELL"}, {100})

\* The orders that are numbered 1 and 2.
Pair(first, second) == {r \in [Orders -> first \cup second] : r[1] \in first /\ r[2] \in second}

\* One watcher with two orders, or two watchers after the same one.
Scenes ==
    { [running |-> {CHOOSE p \in Procs : TRUE}, rows |-> Pair(AnyOpen, OpenAt(100))],
      [running |-> Procs, rows |-> Pair(OpenAt(100), Closed)] }
============================================================================
