----------------------------- MODULE Deployment -----------------------------
(***************************************************************************)
(* The operator's scripts (contracts/script): preflight and deploy,        *)
(* configure, verify and depositVault, and the worker's start-up check.    *)
(* A script is one step per await: it sends a transaction with the         *)
(* deployer's key and waits for its receipt, reads the contract, or reads  *)
(* or writes the deployment record, a file per network.  Scripts may run   *)
(* side by side in several terminals, and any of them may die (an          *)
(* interrupt, an RPC error, a receipt that does not come in time) while    *)
(* its transaction is still pending.  Every run reads its environment, so  *)
(* configure may be run for another executor than before (a rotation), at  *)
(* the same time too.                                                      *)
(***************************************************************************)
EXTENDS Integers, Sequences, FiniteSets

CONSTANTS
    MaxContracts,    \* bound: contracts created
    Terminals,
    Scenes,          \* who runs which script, and two bounds
    Deployer,        \* the account of DEPLOYER_PRIVATE_KEY
    Accounts,        \* admins and executors, Deployer among them
    Nobody,          \* address(0)
    NoTerminal,
    MinBalance,      \* MIN_DEPLOYER_BALANCE_WEI
    MaxDeposits      \* bound: deposits of depositVault

ASSUME DeploymentAssumption ==
    /\ Deployer \in Accounts /\ Nobody \notin Accounts
    /\ IsFiniteSet(Terminals) /\ NoTerminal \notin Terminals
    /\ MaxContracts \in Nat \ {0} /\ MinBalance \in Nat \ {0} /\ MaxDeposits \in Nat
    /\ \A c \in Scenes : c.maxPending \in Nat \ {0}

VARIABLES
    scene,        \* chosen once: terminal -> scripts that are run in it (may), how many
                  \* transactions may be pending on a chain (maxPending), and the contracts
                  \* that the admin pauses by hand (pausable)
    used,         \* history: the executors configure has been run for
    vault,        \* the contracts
    pending,      \* chain -> transactions of the deployer, in nonce order
    record,       \* deployments/<network>.json
    run,          \* terminal -> the script running in it
    weth,         \* the deployer's WETH on Sepolia
    confirmed     \* contract -> deposits reported as confirmed

vars == <<scene, used, vault, pending, record, run, weth, confirmed>>

Networks == {"sepolia", "localhost"}

\* What eth_chainId may answer: 11155111, 31337, a forbidden chain, any other.
Chains == {"sepolia", "hardhat", "mainnet", "other"}

\* The addresses the deployer's creations get, in turn.
Contracts == 1..MaxContracts

NoContract == 0

Fresh == [chain |-> "none", admin |-> Nobody, executor |-> Nobody, role |-> {},
          listed |-> {}, paused |-> FALSE, balance |-> 0, allowance |-> 0]

Live(c) == c # NoContract /\ vault[c].chain # "none"

NoRecord == [contract |-> NoContract, admin |-> Nobody, executor |-> Nobody]

Idle == [script |-> "none", pc |-> "idle", net |-> "sepolia", chain |-> "none",
         step |-> 1, rec |-> NoRecord, key |-> Nobody]

VaultType == [chain : Chains \cup {"none"}, admin : Accounts \cup {Nobody},
              executor : Accounts \cup {Nobody}, role : SUBSET Accounts,
              listed : SUBSET {"WETH", "USDC"}, paused : BOOLEAN,
              balance : Nat, allowance : 0..1]

RecordType == [contract : Contracts \cup {NoContract}, admin : Accounts \cup {Nobody},
               executor : Accounts \cup {Nobody}]

TxType == [op : {"create", "token", "executor", "wrap", "approve", "deposit"},
           contract : Contracts \cup {NoContract},
           arg : Accounts \cup {Nobody, "WETH", "USDC"}, by : Terminals \cup {NoTerminal}]

RunType == [script : {"none", "deploy", "configure", "verify", "deposit", "worker"},
            pc : {"idle", "wait", "record", "read", "send", "check", "etherscan", "started"},
            net : Networks, chain : Chains \cup {"none"}, step : 1..7, rec : RecordType,
            key : Accounts \cup {Nobody}]

TypeOK ==
    /\ scene \in Scenes /\ used \subseteq Accounts
    /\ vault \in [Contracts -> VaultType]
    /\ \A n \in Chains : /\ Len(pending[n]) <= scene.maxPending
                         /\ \A i \in 1..Len(pending[n]) : pending[n][i] \in TxType
    /\ record \in [Networks -> RecordType]
    /\ run \in [Terminals -> RunType]
    /\ weth \in Nat /\ confirmed \in [Contracts -> Nat]

Ready(e) == [Fresh EXCEPT !.chain = "sepolia", !.admin = Deployer, !.executor = e,
                          !.role = {e}, !.listed = {"WETH", "USDC"}]

ReadyRecord(e) == [contract |-> 1, admin |-> Deployer, executor |-> e]

\* Nothing is deployed yet or, where nobody is to deploy, a contract has been
\* deployed and configured before.
Init ==
    /\ scene \in Scenes
    /\ IF \E s \in Terminals : "deploy" \in scene.may[s]
       THEN /\ used = {}
            /\ vault = [c \in Contracts |-> Fresh]
            /\ record = [n \in Networks |-> NoRecord]
       ELSE \E e \in Accounts \ {Deployer} :
            /\ used = {e}
            /\ vault = [c \in Contracts |-> IF c = 1 THEN Ready(e) ELSE Fresh]
            /\ record = [n \in Networks |-> IF n = "sepolia" THEN ReadyRecord(e) ELSE NoRecord]
    /\ pending = [n \in Chains |-> << >>]
    /\ run = [s \in Terminals |-> Idle]
    /\ weth = 0 /\ confirmed = [c \in Contracts |-> 0]

---------------------------------------------------------------------------
(* Transactions.  The caps are fixed, so listing a token sets its cap; a   *)
(* deposit is always the same amount, counted as one.                      *)

\* The node estimates the gas (the callers' guards), then the transaction is
\* sent and its receipt awaited.
Send(s, waiting, op, c, arg) ==
    LET n == waiting.chain IN
    /\ Len(pending[n]) < scene.maxPending
    /\ pending' = [pending EXCEPT ![n] = Append(@, [op |-> op, contract |-> c,
                                                   arg |-> arg, by |-> s])]
    /\ run' = [run EXCEPT ![s] = [waiting EXCEPT !.pc = "wait"]]
    /\ UNCHANGED <<scene, used, vault, record, weth, confirmed>>

\* Fault: the executor that is replaced keeps its role.
SetExecutorNoRevoke(v, a) == [v EXCEPT !.executor = a, !.role = @ \cup {a}]

\* The role passes from the executor, if there is one, to its successor.
SetExecutor(v, a) ==
    IF v.executor = a THEN v
    ELSE [v EXCEPT !.executor = a, !.role = (@ \ {v.executor}) \cup {a}]

\* Fault: nothing asks for the approval.
DepositUnapproved(c) ==
    /\ ~vault[c].paused /\ "WETH" \in vault[c].listed
    /\ weth >= 1

\* deposit is whenNotPaused, for listed tokens, and pulls what was approved.
DepositAllowed(c) ==
    /\ ~vault[c].paused /\ "WETH" \in vault[c].listed
    /\ vault[c].allowance >= 1 /\ weth >= 1

Succeeds(t, c) ==
    CASE t.op = "create"  -> c \in Contracts /\ ~Live(c)
      [] t.op = "deposit" -> DepositAllowed(c)
      [] OTHER            -> TRUE

Effect(t, n, c) ==
    CASE t.op = "create"   -> [Fresh EXCEPT !.chain = n, !.admin = t.arg]
      [] t.op = "token"    -> [vault[c] EXCEPT !.listed = @ \cup {t.arg}]
      [] t.op = "executor" -> SetExecutor(vault[c], t.arg)
      [] t.op = "approve"  -> [vault[c] EXCEPT !.allowance = 1]
      [] t.op = "deposit"  -> [vault[c] EXCEPT !.balance = @ + 1, !.allowance = @ - 1]
      [] OTHER             -> vault[c]

\* Fault: depositVault does not look at the status of its receipts.
AfterReceiptAnyway(r, success, c) ==
    IF ~success /\ r.script # "deposit" THEN Idle
    ELSE IF r.script = "deploy" THEN [r EXCEPT !.pc = "record", !.rec.contract = c]
    ELSE IF r.step = 3 THEN [r EXCEPT !.pc = "check", !.step = 1]
    ELSE [r EXCEPT !.pc = "read", !.step = @ + 1]

\* A script goes on when its transaction succeeded, and throws otherwise.
AfterReceipt(r, success, c) ==
    IF ~success THEN Idle
    ELSE IF r.script = "deploy" THEN [r EXCEPT !.pc = "record", !.rec.contract = c]
    ELSE IF r.step = 3 THEN [r EXCEPT !.pc = "check", !.step = 1]
    ELSE [r EXCEPT !.pc = "read", !.step = @ + 1]

\* waitForTransactionReceipt returns in the terminal that waits.
Tell(t, success, c) ==
    run' = IF t.by = NoTerminal THEN run
           ELSE [run EXCEPT ![t.by] = AfterReceipt(@, success, c)]

NewAddress == Cardinality({c \in Contracts : Live(c)}) + 1

\* The next transaction is included in a block; it may run out of gas.
Mine(n) ==
    LET t == Head(pending[n])
        c == IF t.op = "create" THEN NewAddress ELSE t.contract IN
    /\ pending[n] # << >>
    /\ \/ /\ Succeeds(t, c)
          /\ vault' = [vault EXCEPT ![c] = Effect(t, n, c)]
          /\ weth' = CASE t.op = "wrap"    -> weth + 1
                       [] t.op = "deposit" -> weth - 1
                       [] OTHER            -> weth
          /\ Tell(t, TRUE, c)
       \/ /\ Tell(t, FALSE, c)
          /\ UNCHANGED <<vault, weth>>
    /\ pending' = [pending EXCEPT ![n] = Tail(@)]
    /\ UNCHANGED <<scene, used, record, confirmed>>

\* The admin pauses and resumes the contract by hand.
SetPaused(c, paused) ==
    /\ c \in scene.pausable /\ Live(c) /\ vault[c].paused # paused
    /\ vault' = [vault EXCEPT ![c].paused = paused]
    /\ UNCHANGED <<scene, used, pending, record, run, weth, confirmed>>

---------------------------------------------------------------------------
(* The scripts. *)

chain == <<scene, vault, pending, weth>>

At(s, script, pc) == run[s].script = script /\ run[s].pc = pc

Start(s, script, next) ==
    /\ run[s] = Idle /\ script \in scene.may[s]
    /\ run' = [run EXCEPT ![s] = [next EXCEPT !.script = script]]
    /\ UNCHANGED <<chain, record, confirmed>>

\* A script throws, is interrupted or gives up waiting.  Its transaction, if
\* one is pending, is not taken back.
Abort(s) ==
    /\ run[s] # Idle
    /\ run' = [run EXCEPT ![s] = Idle]
    /\ pending' = [n \in Chains |-> [i \in 1..Len(pending[n]) |->
                      [pending[n][i] EXCEPT !.by = IF @ = s THEN NoTerminal ELSE @]]]
    /\ UNCHANGED <<scene, used, vault, record, weth, confirmed>>

\* --network, the chain behind its RPC URL and ALLOW_LOCAL_DEPLOY.
Sites == [net : Networks, chain : Chains, allowLocal : BOOLEAN]

DryRun(e) == e.chain = "hardhat" /\ e.allowLocal

RightChain(e) == e.chain = "sepolia" \/ DryRun(e)

\* Everything that must hold before anything is sent: no .env.example
\* placeholder, the right chain, a funded deployer, code behind the addresses.
Preflight(e, placeholders, balance, code) ==
    /\ ~placeholders
    /\ e.chain # "mainnet" /\ RightChain(e)
    /\ balance >= MinBalance
    /\ code

\* The admin is CONTRACT_ADMIN_ADDRESS, the deployer when it is not set.
Deploy(s, e, admin) ==
    /\ run[s] = Idle /\ "deploy" \in scene.may[s]
    /\ \E placeholders, code \in BOOLEAN, balance \in {MinBalance - 1, MinBalance} :
           Preflight(e, placeholders, balance, code)
    /\ Send(s, [Idle EXCEPT !.script = "deploy", !.chain = e.chain, !.key = admin,
                            !.net = IF DryRun(e) THEN "localhost" ELSE "sepolia"],
            "create", NoContract, admin)

\* A bytecode that differs from the local build is only warned about.
DeployRecord(s) ==
    /\ At(s, "deploy", "record")
    /\ record' = [record EXCEPT ![run[s].net] =
                     [NoRecord EXCEPT !.contract = run[s].rec.contract,
                                      !.admin = run[s].key]]
    /\ run' = [run EXCEPT ![s] = Idle]
    /\ UNCHANGED <<chain, used, confirmed>>

---------------------------------------------------------------------------
(* configure: list WETH, list USDC, appoint the executor, each unless it   *)
(* is already so; then read everything back.                               *)

\* The record is loaded once; a contract that is not on the chain asked
\* answers no read.
Target(s) == run[s].rec.contract

Readable(s) == Live(Target(s)) /\ vault[Target(s)].chain = run[s].chain

\* The executor is EXECUTOR_ADDRESS or the account of EXECUTOR_PRIVATE_KEY.
StartConfigure(s, e, executor) ==
    /\ RightChain(e) /\ record[e.net] # NoRecord
    /\ Start(s, "configure", [Idle EXCEPT !.pc = "read", !.net = e.net, !.chain = e.chain,
                                          !.rec = record[e.net], !.key = executor])
    /\ used' = used \cup {executor}

\* Fault: the executor is appointed before the tokens are listed.
WritesExecutorFirst(executor) ==
    << [op |-> "executor", arg |-> executor],
       [op |-> "token", arg |-> "WETH"], [op |-> "token", arg |-> "USDC"] >>

Writes(executor) ==
    << [op |-> "token", arg |-> "WETH"], [op |-> "token", arg |-> "USDC"],
       [op |-> "executor", arg |-> executor] >>

AlreadySet(v, w) ==
    IF w.op = "token" THEN w.arg \in v.listed ELSE v.executor = w.arg

ConfigureRead(s) ==
    LET r == run[s] IN
    /\ At(s, "configure", "read") /\ Readable(s)
    /\ run' = [run EXCEPT ![s] =
          IF ~AlreadySet(vault[Target(s)], Writes(r.key)[r.step]) THEN [r EXCEPT !.pc = "send"]
          ELSE IF r.step = 3 THEN [r EXCEPT !.pc = "check", !.step = 1]
          ELSE [r EXCEPT !.step = @ + 1]]
    /\ UNCHANGED <<chain, used, record, confirmed>>

\* The estimate fails unless the signer is the contract's admin.
ConfigureSend(s) ==
    LET w == Writes(run[s].key)[run[s].step] IN
    /\ At(s, "configure", "send")
    /\ vault[Target(s)].admin = Deployer
    /\ Send(s, run[s], w.op, Target(s), w.arg)

\* The assertions, in the order they are read.
Checks(v, rec, executor) ==
    << "WETH" \in v.listed, "USDC" \in v.listed, v.executor = executor,
       executor \in v.role, Deployer \notin v.role, v.admin = rec.admin, ~v.paused >>

\* Fault: the executor is merged into the record as it is now.
ConfirmInPlace(s) ==
    record' = [record EXCEPT ![run[s].net].executor = run[s].key]

\* The record loaded at the start is written back, with its executor.
Confirm(s) ==
    record' = [record EXCEPT ![run[s].net] = [run[s].rec EXCEPT !.executor = run[s].key]]

\* One read per step.  A failed assertion ends in a throw; the reads that
\* would still come first change nothing.
ConfigureCheck(s) ==
    LET checks == Checks(vault[Target(s)], run[s].rec, run[s].key) IN
    /\ At(s, "configure", "check") /\ Readable(s)
    /\ IF ~checks[run[s].step] \/ run[s].step = Len(checks)
       THEN run' = [run EXCEPT ![s] = Idle]
       ELSE run' = [run EXCEPT ![s].step = @ + 1]
    /\ IF checks[run[s].step] /\ run[s].step = Len(checks) THEN Confirm(s) ELSE UNCHANGED record
    /\ UNCHANGED <<chain, used, confirmed>>

---------------------------------------------------------------------------
(* verify, depositVault and the start of a worker. *)

StartVerify(s, net) ==
    /\ record[net] # NoRecord
    /\ Start(s, "verify", [Idle EXCEPT !.pc = "etherscan", !.net = net, !.rec = record[net]])
    /\ UNCHANGED used

\* Etherscan verifies the contract, or already had; the record is written back
\* with its etherscanVerified flag, which nothing reads.
VerifyWrite(s) ==
    /\ At(s, "verify", "etherscan")
    /\ Live(Target(s)) /\ vault[Target(s)].chain = "sepolia"
    /\ record' = [record EXCEPT ![run[s].net] = run[s].rec]
    /\ run' = [run EXCEPT ![s] = Idle]
    /\ UNCHANGED <<chain, used, confirmed>>

\* The wrapped amount and the gas are there.
StartDeposit(s, e) ==
    /\ e.chain = "sepolia" /\ record["sepolia"] # NoRecord
    /\ Start(s, "deposit", [Idle EXCEPT !.pc = "read", !.chain = e.chain,
                                        !.rec = record["sepolia"]])
    /\ UNCHANGED used

DepositOps == <<"wrap", "approve", "deposit">>

\* The estimate of the third call fails when the deposit would.
DepositSend(s) ==
    LET op == DepositOps[run[s].step] IN
    /\ At(s, "deposit", "read") /\ Readable(s)
    /\ op = "wrap" => weth + vault[Target(s)].balance < MaxDeposits
    /\ op = "deposit" => DepositAllowed(Target(s))
    /\ Send(s, run[s], op, Target(s), Nobody)

DepositCheck(s) ==
    /\ At(s, "deposit", "check") /\ Readable(s)
    /\ confirmed' = IF vault[Target(s)].balance >= 1
                    THEN [confirmed EXCEPT ![Target(s)] = @ + 1] ELSE confirmed
    /\ run' = [run EXCEPT ![s] = Idle]
    /\ UNCHANGED <<chain, used, record>>

\* The worker refuses to start unless its key is the contract's executor.
WorkerReady(a, c) == vault[c].executor = a

\* EXECUTOR_CONTRACT_ADDRESS is copied from the record; the worker then runs
\* until it is stopped, and does not ask again.
StartWorker(s, a) ==
    LET c == record["sepolia"].contract IN
    /\ Live(c) /\ WorkerReady(a, c)
    /\ Start(s, "worker", [Idle EXCEPT !.pc = "started", !.key = a,
                                       !.rec = record["sepolia"]])
    /\ UNCHANGED used

Script(s) ==
    \/ \E e \in Sites, a \in Accounts : Deploy(s, e, a) \/ StartConfigure(s, e, a)
    \/ \E e \in Sites : StartDeposit(s, e)
    \/ \E net \in Networks : StartVerify(s, net)
    \/ \E a \in Accounts : StartWorker(s, a)
    \/ DeployRecord(s)
    \/ ConfigureRead(s) \/ ConfigureSend(s) \/ ConfigureCheck(s)
    \/ VerifyWrite(s) \/ DepositSend(s) \/ DepositCheck(s)
    \/ Abort(s)

Next ==
    \/ \E s \in Terminals : Script(s)
    \/ \E n \in Chains : Mine(n)
    \/ \E c \in Contracts, paused \in BOOLEAN : SetPaused(c, paused)

Spec == Init /\ [][Next]_vars

---------------------------------------------------------------------------
\* Nobody can trade before both tokens are listed and capped: the executor is
\* appointed last, also when configure was interrupted and run again.
ExecutorLast ==
    \A c \in Contracts : vault[c].executor # Nobody => vault[c].listed = {"WETH", "USDC"}

\* Both tokens are listed, and the executor and nobody else may trade.
Configured(c) ==
    /\ vault[c].listed = {"WETH", "USDC"}
    /\ vault[c].executor # Nobody /\ vault[c].role = {vault[c].executor}

\* The deployment records, which the other scripts and the backend rely on,
\* never lie, though scripts that overlap overwrite each other's record: a
\* record names a contract that exists on its network (a dry run never takes
\* the place of the Sepolia record), and one that names an executor stands
\* for a contract that is configured.  As long as configure has been run for
\* no other executor, it is that one, and the deployer may not trade; after a
\* rotation the record is only as new as the script that wrote it last.
RecordTellsTruth ==
    \A n \in Networks :
        LET c == record[n].contract  e == record[n].executor IN
        /\ record[n] # NoRecord =>
               Live(c) /\ vault[c].chain = (IF n = "sepolia" THEN "sepolia" ELSE "hardhat")
        /\ e # Nobody => Configured(c) /\ e \in used
        /\ e # Nobody /\ used = {e} => vault[c].executor = e /\ Deployer \notin vault[c].role

\* "Deposit confirmed" is said of deposits that were made: the read-back alone
\* (at least the amount) would also pass on the strength of earlier ones.
DepositsAreReal == \A c \in Contracts : confirmed[c] <= vault[c].balance

\* The worker's start-up check reads executor(), once, and the contract
\* enforces EXECUTOR_ROLE.  The two agree at every later moment: a worker may
\* trade exactly as long as its key is still the executor, so a rotation ends
\* the right of a worker that goes on running, and nothing short of a
\* configure run for another executor does.
WorkerAuthorised ==
    \A s \in Terminals : run[s].script = "worker" =>
        LET v == vault[run[s].rec.contract]  key == run[s].key IN
        /\ key \in v.role <=> v.executor = key
        /\ key \in v.role \/ used # {key}
=============================================================================
