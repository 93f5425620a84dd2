---------------------------- MODULE MCDeployment ----------------------------
EXTENDS Deployment

\* One operator runs these scripts, the other those.
Divide(one, two) == [s \in {"one", "two"} |-> IF s = "one" THEN one ELSE two]

\* One operator deploys, the other one configures or verifies what was
\* deployed; or a contract that has been set up is used: its executor is
\* rotated under a running worker, and deposits are made.
SetUpAndUse ==
    { [may |-> Divide({"deploy"}, {"configure"}), maxPending |-> 1, pausable |-> {}],
      [may |-> Divide({"deploy"}, {"verify"}), maxPending |-> 1, pausable |-> {}],
      [may |-> Divide({"worker", "configure"}, {"configure", "verify"}), maxPending |-> 2, pausable |-> {1}],
      [may |-> Divide({"deposit"}, {"deposit", "configure"}), maxPending |-> 2, pausable |-> {1}] }
=============================================================================
