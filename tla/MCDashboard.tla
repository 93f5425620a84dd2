---------------------------- MODULE MCDashboard ----------------------------
EXTENDS Dashboard

\* The wallet and the workers change things under one click of the user, or
\* the user alone clicks on while the answers are still to come.
Eventful == [clicks |-> 1, events |-> 2, slots |-> Slots]

Hasty == [clicks |-> 4, events |-> 0, slots |-> {CHOOSE s \in Slots : TRUE}]

SomeBudgets == {Eventful, Hasty}
============================================================================
