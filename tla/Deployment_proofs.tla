-------------------------- MODULE Deployment_proofs --------------------------
(***************************************************************************)
(* What the operator's scripts and the records they leave behind are       *)
(* worth, for any number of terminals, contracts and accounts and any      *)
(* division of the scripts among the terminals, however the scripts        *)
(* overlap and wherever they die.                                          *)
(*                                                                         *)
(* A script acts on what it read many steps before, and a transaction may  *)
(* outlive the script that sent it.  The invariant says what a running     *)
(* script knows (ScriptOK), what a pending transaction may rely on (TxOK)  *)
(* and which terminal waits for it (Awaited); all of it is stable because  *)
(* contracts only grow (Grown): they are never replaced, keep their        *)
(* tokens, and are never without an executor again.                        *)
(*                                                                         *)
(* The predicates take the contracts v and the set E of the executors that *)
(* configure has been run for, which only grows, as parameters.            *)
(***************************************************************************)
EXTENDS Deployment, FiniteSetTheorems, SequenceTheorems, TLAPS

Both == {"WETH", "USDC"}

VaultOK(v, E) ==
    /\ v \in VaultType
    /\ v.chain = "none" => v = Fresh
    /\ \/ v.executor = Nobody /\ v.role = {}
       \/ v.executor \in E /\ v.role = {v.executor} /\ v.listed = Both

NetChain(net) == IF net = "sepolia" THEN "sepolia" ELSE "hardhat"

Exists(v, c) == c \in Contracts /\ v[c].chain # "none"

\* A record that is no lie.
RecordOK(rec, net, v, E) ==
    /\ rec \in RecordType
    /\ Exists(v, rec.contract) /\ v[rec.contract].chain = NetChain(net)
    /\ rec.executor # Nobody => /\ v[rec.contract].executor # Nobody
                                /\ rec.executor \in E /\ E # {Deployer}

DeployOK(r, v) ==
    /\ r.pc \in {"wait", "record"} /\ r.chain = NetChain(r.net)
    /\ r.pc = "record" => Exists(v, r.rec.contract) /\ v[r.rec.contract].chain = r.chain

\* The write a step of configure is about; the writes before it are done.
ConfigureOK(r, v, E) ==
    /\ r.key \in E
    /\ IF r.pc = "check"
       THEN /\ r.step > 3 => v[r.rec.contract].executor # Nobody
            /\ r.step > 5 => E # {Deployer}
       ELSE /\ r.pc \in {"read", "send", "wait"} /\ r.step \in 1..3
            /\ r.step >= 2 => "WETH" \in v[r.rec.contract].listed
            /\ r.step >= 3 => "USDC" \in v[r.rec.contract].listed

ScriptOK(r, v, E) ==
    /\ r \in RunType
    /\ r.script = "deploy" => DeployOK(r, v)
    /\ r.script \in {"configure", "deposit"} => r.chain \in Chains
    /\ r.script \in {"configure", "verify", "deposit"} => RecordOK(r.rec, r.net, v, E)
    /\ r.script = "configure" => ConfigureOK(r, v, E)
    /\ r.script = "verify" => r.pc = "etherscan"
    /\ r.script = "deposit" => r.pc = "check" \/ (r.pc \in {"read", "wait"} /\ r.step \in 1..3)
    /\ r.script = "worker" => r.pc = "started" /\ Exists(v, r.rec.contract)
                              /\ r.key \in E /\ v[r.rec.contract].executor # Nobody

TxOK(t, v, E) ==
    /\ t \in TxType
    /\ t.op = "create" => t.arg \in Accounts
    /\ t.op # "create" => Exists(v, t.contract)
    /\ t.op = "token" => t.arg \in Both
    /\ t.op = "executor" => t.arg \in E /\ v[t.contract].listed = Both

\* The script r waits for the transaction t on chain n.
Awaited(t, n, r) ==
    /\ r.pc = "wait" /\ r.chain = n
    /\ \/ r.script = "deploy" /\ t.op = "create"
       \/ /\ r.script = "configure" /\ t.contract = r.rec.contract
          /\ \/ r.step = 1 /\ t.op = "token" /\ t.arg = "WETH"
             \/ r.step = 2 /\ t.op = "token" /\ t.arg = "USDC"
             \/ r.step = 3 /\ t.op = "executor"
       \/ /\ r.script = "deposit" /\ t.contract = r.rec.contract
          /\ \/ r.step = 1 /\ t.op = "wrap"
             \/ r.step = 2 /\ t.op = "approve"
             \/ r.step = 3 /\ t.op = "deposit"

SettingsOK == scene \in Scenes /\ used \in SUBSET Accounts

VaultsOK ==
    /\ vault \in [Contracts -> VaultType] /\ weth \in Nat /\ confirmed \in [Contracts -> Nat]
    /\ \A c \in Contracts : VaultOK(vault[c], used)

RecordsOK ==
    /\ record \in [Networks -> RecordType]
    /\ \A n \in Networks :
        record[n] # NoRecord => RecordOK(record[n], n, vault, used)

ScriptsOK ==
    /\ run \in [Terminals -> RunType]
    /\ \A s \in Terminals : ScriptOK(run[s], vault, used)

\* A terminal waits for one transaction at most.
PendingOK ==
    /\ pending \in [Chains -> Seq(TxType)]
    /\ \A n \in Chains :
        /\ \A i \in 1..Len(pending[n]) :
            /\ TxOK(pending[n][i], vault, used)
            /\ pending[n][i].by # NoTerminal => Awaited(pending[n][i], n, run[pending[n][i].by])
        /\ \A i, j \in 1..Len(pending[n]) :
            pending[n][i].by = pending[n][j].by /\ pending[n][i].by # NoTerminal => i = j

Fits == \A n \in Chains : Len(pending[n]) <= scene.maxPending

IInv == SettingsOK /\ VaultsOK /\ RecordsOK /\ ScriptsOK /\ PendingOK /\ Fits

\* The scripts that will report a deposit into c: theirs was made.
Reports(r) == r.script = "deposit" /\ r.pc = "check"

Reporting(c) == {s \in Terminals : Reports(run[s]) /\ run[s].rec.contract = c}

DepositsOK == \A c \in Contracts : confirmed[c] + Cardinality(Reporting(c)) <= vault[c].balance

\* What a contract is made of.
LEMMA VaultFields ==
    ASSUME NEW n \in Chains \cup {"none"}, NEW admin \in Accounts \cup {Nobody},
           NEW x \in Accounts \cup {Nobody}, NEW role \in SUBSET Accounts, NEW listed \in SUBSET Both
    PROVE  [chain |-> n, admin |-> admin, executor |-> x, role |-> role, listed |-> listed,
            paused |-> FALSE, balance |-> 0, allowance |-> 0] \in VaultType
<1>1. 0 \in Nat /\ 0 \in 0..1
  OBVIOUS
<1>2. FALSE \in BOOLEAN
  OBVIOUS
<1> QED BY <1>1, <1>2, Zenon DEF VaultType, Both

---------------------------------------------------------------------------
(* Contracts only grow. *)

Grown(v, w) ==
    \A c \in Contracts :
        Exists(v, c) => /\ w[c].chain = v[c].chain /\ v[c].listed \subseteq w[c].listed
                        /\ v[c].executor # Nobody => w[c].executor # Nobody

\* A true record stays true.
LEMMA RecordGrown ==
    ASSUME NEW v, NEW w, Grown(v, w), NEW E, NEW F, E \subseteq F,
           NEW rec, NEW net, RecordOK(rec, net, v, E)
    PROVE  RecordOK(rec, net, w, F)
BY DeploymentAssumption DEF RecordOK, Grown, Exists

\* What a script knows stays true.
LEMMA ScriptGrown ==
    ASSUME NEW v, NEW w, Grown(v, w), NEW E, NEW F, E \subseteq F, NEW r, ScriptOK(r, v, E)
    PROVE  ScriptOK(r, w, F)
<1>1. r.script \in {"configure", "verify", "deposit"} => RecordOK(r.rec, r.net, w, F)
  BY RecordGrown DEF ScriptOK
<1>2. r.script = "deploy" => DeployOK(r, w)
  BY DEF ScriptOK, DeployOK, Grown, Exists
<1>3. r.script = "configure" => ConfigureOK(r, w, F)
  <2> SUFFICES ASSUME r.script = "configure" PROVE ConfigureOK(r, w, F)
    OBVIOUS
  <2>1. Exists(v, r.rec.contract) /\ ConfigureOK(r, v, E)
    BY DEF ScriptOK, RecordOK
  <2>2. r.key \in E /\ (E # {Deployer} => F # {Deployer})
    BY <2>1 DEF ConfigureOK
  <2> QED BY <2>1, <2>2, DeploymentAssumption DEF ConfigureOK, Grown, Exists
<1>4. r.script = "worker" => /\ r.pc = "started" /\ Exists(w, r.rec.contract)
                             /\ r.key \in F /\ w[r.rec.contract].executor # Nobody
  BY DeploymentAssumption DEF ScriptOK, Grown, Exists
<1> QED BY <1>1, <1>2, <1>3, <1>4 DEF ScriptOK

\* A transaction that is pending stays good.
LEMMA TxGrown ==
    ASSUME NEW v, NEW w, Grown(v, w), NEW E, NEW F, E \subseteq F, NEW t, TxOK(t, v, E),
           \A c \in Contracts : w[c] \in VaultType
    PROVE  TxOK(t, w, F)
BY DEF TxOK, Grown, Exists, VaultType, Both

\* A step that lets contracts grow takes nothing from what is known of them.
LEMMA KnownGrown ==
    ASSUME IInv, Grown(vault, vault'), VaultsOK', used \subseteq used'
    PROVE  /\ \A n \in Networks : record[n] # NoRecord => RecordOK(record[n], n, vault', used')
           /\ \A s \in Terminals : ScriptOK(run[s], vault', used')
           /\ \A n \in Chains : \A i \in 1..Len(pending[n]) : TxOK(pending[n][i], vault', used')
<1>1. \A c \in Contracts : vault'[c] \in VaultType
  BY DEF VaultsOK
<1>2. \A n \in Networks : record[n] # NoRecord => RecordOK(record[n], n, vault', used')
  BY RecordGrown DEF IInv, RecordsOK
<1>3. \A s \in Terminals : ScriptOK(run[s], vault', used')
  BY ScriptGrown DEF IInv, ScriptsOK
<1>4. \A n \in Chains : \A i \in 1..Len(pending[n]) : TxOK(pending[n][i], vault', used')
  BY <1>1, TxGrown DEF IInv, PendingOK
<1> QED BY <1>2, <1>3, <1>4

---------------------------------------------------------------------------
(* The steps of the scripts. *)

\* A script starts from the idle one.
LEMMA IdleFields == Idle \in RunType /\ Idle.pc = "idle" /\ Idle.net = "sepolia" /\ Idle.step = 1
BY DEF Idle, RunType, NoRecord, RecordType, Networks

\* The idle script knows nothing.
LEMMA IdleIsOK == \A v, E : ScriptOK(Idle, v, E)
BY DEF Idle, ScriptOK, RunType, NoRecord, RecordType, Networks

\* Nothing is pending that a script which does not wait has sent.
LEMMA NothingAwaited ==
    ASSUME IInv, NEW s \in Terminals, run[s].pc # "wait"
    PROVE  \A n \in Chains : \A i \in 1..Len(pending[n]) : pending[n][i].by # s
BY DeploymentAssumption DEF IInv, PendingOK, Awaited

\* A script that does not wait may go on with what it knows.
LEMMA LocalKeeps ==
    ASSUME IInv, NEW s \in Terminals, run[s].pc # "wait", NEW r,
           used \subseteq used', used' \subseteq Accounts,
           ScriptOK(r, vault, used'), run' = [run EXCEPT ![s] = r],
           UNCHANGED <<scene, vault, pending, weth>>,
           RecordsOK', confirmed' \in [Contracts -> Nat]
    PROVE  IInv'
<1>1. SettingsOK' /\ VaultsOK'
  BY DEF IInv, SettingsOK, VaultsOK, VaultOK
<1>2. Grown(vault, vault')
  BY DEF Grown
<1>3. ScriptsOK'
  <2>1. \A q \in Terminals : ScriptOK(run[q], vault', used')
    BY <1>1, <1>2, KnownGrown
  <2> QED BY <2>1 DEF IInv, ScriptsOK, ScriptOK
<1>4. \A n \in Chains : \A i \in 1..Len(pending[n]) :
          /\ pending[n][i].by # s /\ pending[n][i] \in TxType
          /\ TxOK(pending[n][i], vault', used')
  BY <1>1, <1>2, KnownGrown, NothingAwaited DEF IInv, PendingOK
<1>5. PendingOK' /\ Fits'
  <2>1. Fits'
    BY DEF IInv, Fits
  <2> QED BY <1>4, <2>1 DEF IInv, PendingOK, ScriptsOK, TxType
<1> QED BY <1>1, <1>3, <1>5 DEF IInv

\* The same, when configure is not being started.
LEMMA SameUsedKeeps ==
    ASSUME IInv, NEW s \in Terminals, run[s].pc # "wait", NEW r,
           ScriptOK(r, vault, used), run' = [run EXCEPT ![s] = r],
           UNCHANGED <<scene, used, vault, pending, weth>>,
           RecordsOK', confirmed' \in [Contracts -> Nat]
    PROVE  IInv'
<1>1. used' = used /\ used \subseteq Accounts
  BY DEF IInv, SettingsOK
<1>2. ScriptOK(r, vault, used') /\ used \subseteq used' /\ used' \subseteq Accounts
  BY <1>1
<1> QED BY <1>2, LocalKeeps

\* Nothing that a step leaves alone makes a record a lie.
LEMMA RecordsStay ==
    ASSUME IInv, UNCHANGED <<vault, record>>, used \subseteq used'
    PROVE  RecordsOK'
<1>1. Grown(vault, vault)
  BY DEF Grown
<1> QED BY <1>1, RecordGrown DEF IInv, RecordsOK

\* A script that does not wait may send a transaction.
LEMMA SendKeeps ==
    ASSUME IInv, NEW s \in Terminals, run[s].pc # "wait", NEW waiting \in RunType,
           NEW op, NEW c, NEW arg, Send(s, waiting, op, c, arg), NEW r, NEW t,
           r = [waiting EXCEPT !.pc = "wait"], t = [op |-> op, contract |-> c, arg |-> arg, by |-> s],
           waiting.chain \in Chains,
           ScriptOK(r, vault, used), TxOK(t, vault, used),
           Awaited(t, waiting.chain, r)
    PROVE  IInv'
<1> DEFINE n == waiting.chain
<1>1. /\ run' = [run EXCEPT ![s] = r] /\ pending' = [pending EXCEPT ![n] = Append(pending[n], t)]
      /\ Len(pending[n]) < scene.maxPending
      /\ UNCHANGED <<scene, used, vault, record, weth, confirmed>>
  BY DEF Send
<1>2. SettingsOK' /\ VaultsOK' /\ RecordsOK'
  BY <1>1 DEF IInv, SettingsOK, VaultsOK, RecordsOK
<1>3. ScriptsOK'
  BY <1>1 DEF IInv, ScriptsOK, ScriptOK
<1>4. t \in TxType /\ t.by = s /\ \A m \in Chains : pending[m] \in Seq(TxType)
  BY DEF TxOK, IInv, PendingOK
<1>5. /\ pending' \in [Chains -> Seq(TxType)]
      /\ Len(pending'[n]) = Len(pending[n]) + 1 /\ Len(pending[n]) \in Nat
      /\ \A i \in 1..Len(pending[n]) : pending'[n][i] = pending[n][i]
      /\ pending'[n][Len(pending[n]) + 1] = t
      /\ \A m \in Chains : m # n => pending'[m] = pending[m]
  <2>1. pending' \in [Chains -> Seq(TxType)] /\ pending'[n] = Append(pending[n], t)
    BY <1>1, <1>4, AppendProperties DEF IInv, PendingOK
  <2>2. \A m \in Chains : m # n => pending'[m] = pending[m]
    BY <1>1 DEF IInv, PendingOK
  <2> QED BY <1>4, <2>1, <2>2, AppendProperties
<1> HIDE DEF n
<1>6. Fits'
  <2>1. scene' = scene /\ scene.maxPending \in Nat
    BY <1>1, DeploymentAssumption DEF IInv, SettingsOK
  <2>2. /\ Len(pending'[n]) <= scene.maxPending
        /\ \A m \in Chains : Len(pending[m]) <= scene.maxPending
    BY <1>1, <1>5, <2>1 DEF n, IInv, Fits
  <2> QED BY <1>5, <2>1, <2>2 DEF Fits
<1>7. ASSUME NEW m \in Chains, NEW i \in 1..Len(pending'[m])
      PROVE  /\ TxOK(pending'[m][i], vault, used)
             /\ pending'[m][i].by # NoTerminal => Awaited(pending'[m][i], m, run'[pending'[m][i].by])
  <2>1. CASE i \in 1..Len(pending[m])
    <3>1. pending'[m][i] = pending[m][i] /\ pending[m][i].by # s
      BY <1>5, <2>1, NothingAwaited
    <3>2. pending[m][i] \in TxType
      BY <2>1, <1>4
    <3> QED BY <1>1, <2>1, <3>1, <3>2 DEF IInv, PendingOK, ScriptsOK, TxType
  <2>2. CASE m = n /\ i = Len(pending[n]) + 1
    BY <1>1, <1>4, <1>5, <2>2 DEF IInv, ScriptsOK, n
  <2> QED BY <1>5, <2>1, <2>2
<1>8. ASSUME NEW m \in Chains, NEW i \in 1..Len(pending'[m]), NEW j \in 1..Len(pending'[m]),
             pending'[m][i].by = pending'[m][j].by, pending'[m][i].by # NoTerminal
      PROVE  i = j
  <2>1. CASE m # n
    BY <1>5, <1>8, <2>1 DEF IInv, PendingOK
  <2>2. CASE m = n
    <3>1. \A l \in 1..Len(pending[n]) : pending'[n][l].by # s /\ pending'[n][l] = pending[n][l]
      BY <1>1, <1>5, <2>2, NothingAwaited
    <3>2. i \in 1..Len(pending[n]) \/ i = Len(pending[n]) + 1
      BY <1>5, <2>2
    <3>3. j \in 1..Len(pending[n]) \/ j = Len(pending[n]) + 1
      BY <1>5, <2>2
    <3> QED BY <1>4, <1>5, <1>8, <2>2, <3>1, <3>2, <3>3 DEF IInv, PendingOK
  <2> QED BY <2>1, <2>2
<1>9. PendingOK'
  <2>1. vault' = vault /\ used' = used
    BY <1>1
  <2>2. pending' \in [Chains -> Seq(TxType)]
    BY <1>5
  <2> QED BY <1>7, <1>8, <2>1, <2>2 DEF PendingOK
<1> QED BY <1>2, <1>3, <1>6, <1>9 DEF IInv

\* A script that stops is forgotten by what it has sent.
LEMMA AbortKeeps ==
    ASSUME IInv, NEW s \in Terminals, Abort(s)
    PROVE  IInv'
<1>1. /\ run' = [run EXCEPT ![s] = Idle] /\ UNCHANGED <<scene, used, vault, record, weth, confirmed>>
      /\ \A n \in Chains : pending'[n] = [i \in 1..Len(pending[n]) |->
                               [pending[n][i] EXCEPT !.by = IF @ = s THEN NoTerminal ELSE @]]
      /\ pending' = [n \in Chains |-> pending'[n]]
  BY DEF Abort
<1>2. SettingsOK' /\ VaultsOK' /\ RecordsOK'
  BY <1>1 DEF IInv, SettingsOK, VaultsOK, RecordsOK
<1>3. Idle \in RunType /\ ScriptOK(Idle, vault, used)
  BY IdleIsOK DEF ScriptOK
<1>4. ScriptsOK'
  BY <1>1, <1>3 DEF IInv, ScriptsOK
<1>5. ASSUME NEW n \in Chains
      PROVE  /\ pending'[n] \in Seq(TxType) /\ Len(pending'[n]) = Len(pending[n])
             /\ \A i \in 1..Len(pending[n]) :
                   /\ pending[n][i] \in TxType /\ pending'[n][i] \in TxType
                   /\ pending'[n][i].op = pending[n][i].op /\ pending'[n][i].arg = pending[n][i].arg
                   /\ pending'[n][i].contract = pending[n][i].contract
                   /\ pending'[n][i].by = IF pending[n][i].by = s THEN NoTerminal ELSE pending[n][i].by
  <2>1. pending[n] \in Seq(TxType) /\ Len(pending[n]) \in Nat
    BY DEF IInv, PendingOK
  <2>2. \A i \in 1..Len(pending[n]) : pending[n][i] \in TxType
    BY <2>1
  <2>3. \A i \in 1..Len(pending[n]) :
            pending'[n][i] = [pending[n][i] EXCEPT !.by = IF @ = s THEN NoTerminal ELSE @]
    BY <1>1
  <2>4. \A i \in 1..Len(pending[n]) :
            /\ pending'[n][i] \in TxType
            /\ pending'[n][i].op = pending[n][i].op /\ pending'[n][i].arg = pending[n][i].arg
            /\ pending'[n][i].contract = pending[n][i].contract
            /\ pending'[n][i].by = IF pending[n][i].by = s THEN NoTerminal ELSE pending[n][i].by
    <3> SUFFICES ASSUME NEW i \in 1..Len(pending[n])
                 PROVE  /\ pending'[n][i] \in TxType
                        /\ pending'[n][i].op = pending[n][i].op /\ pending'[n][i].arg = pending[n][i].arg
                        /\ pending'[n][i].contract = pending[n][i].contract
                        /\ pending'[n][i].by = IF pending[n][i].by = s THEN NoTerminal ELSE pending[n][i].by
      OBVIOUS
    <3> DEFINE t == pending[n][i]
               by == IF t.by = s THEN NoTerminal ELSE t.by
    <3>1. t \in TxType /\ pending'[n][i] = [t EXCEPT !.by = by]
      BY <2>2, <2>3
    <3>2. by \in Terminals \cup {NoTerminal}
      BY <3>1 DEF TxType
    <3> HIDE DEF by, t
    <3>3. /\ [t EXCEPT !.by = by] \in TxType /\ [t EXCEPT !.by = by].by = by
          /\ [t EXCEPT !.by = by].op = t.op /\ [t EXCEPT !.by = by].arg = t.arg
          /\ [t EXCEPT !.by = by].contract = t.contract
      BY <3>1, <3>2 DEF TxType
    <3> QED BY <3>1, <3>3 DEF by, t
  <2>5. pending'[n] = [i \in 1..Len(pending[n]) |-> pending'[n][i]]
    BY <1>1
  <2>6. pending'[n] \in Seq(TxType) /\ Len(pending'[n]) = Len(pending[n])
    BY <2>1, <2>4, <2>5
  <2> QED BY <2>2, <2>4, <2>6
<1>6. pending' \in [Chains -> Seq(TxType)]
  BY <1>1, <1>5
<1>7. ASSUME NEW n \in Chains, NEW i \in 1..Len(pending[n])
      PROVE  /\ TxOK(pending'[n][i], vault, used)
             /\ pending'[n][i].by # NoTerminal => Awaited(pending'[n][i], n, run'[pending'[n][i].by])
  <2>1. TxOK(pending[n][i], vault, used)
    BY DEF IInv, PendingOK
  <2>2. TxOK(pending'[n][i], vault, used)
    BY <1>5, <2>1 DEF TxOK
  <2>3. ASSUME pending'[n][i].by # NoTerminal
        PROVE  Awaited(pending'[n][i], n, run'[pending'[n][i].by])
    <3>1. pending[n][i].by # s /\ pending'[n][i].by = pending[n][i].by /\ pending[n][i].by \in Terminals
      BY <1>5, <2>3 DEF TxType
    <3>2. Awaited(pending[n][i], n, run[pending[n][i].by]) /\ run'[pending'[n][i].by] = run[pending[n][i].by]
      BY <1>1, <2>3, <3>1 DEF IInv, PendingOK, ScriptsOK
    <3> QED BY <1>5, <3>1, <3>2 DEF Awaited
  <2> QED BY <2>2, <2>3
<1>8. \A n \in Chains : \A i, j \in 1..Len(pending[n]) :
          pending'[n][i].by = pending'[n][j].by /\ pending'[n][i].by # NoTerminal => i = j
  BY <1>5 DEF IInv, PendingOK
<1>9. PendingOK'
  BY <1>1, <1>5, <1>6, <1>7, <1>8 DEF PendingOK, IInv
<1>10. Fits'
  BY <1>1, <1>5 DEF IInv, Fits
<1> QED BY <1>2, <1>4, <1>9, <1>10 DEF IInv

\* The admin's hand changes no more than the pause.
LEMMA PauseKeeps ==
    ASSUME IInv, NEW c \in Contracts, NEW b \in BOOLEAN, SetPaused(c, b)
    PROVE  IInv'
<1>1. /\ vault' = [vault EXCEPT ![c].paused = b] /\ vault[c].chain # "none"
      /\ UNCHANGED <<scene, used, pending, record, run, weth, confirmed>>
  BY DEF SetPaused, Live
<1>2. vault[c] \in VaultType /\ \A k \in Contracts : vault'[k] = IF k = c THEN [vault[c] EXCEPT !.paused = b] ELSE vault[k]
  BY <1>1 DEF IInv, VaultsOK
<1>3. VaultsOK' /\ Grown(vault, vault')
  BY <1>1, <1>2 DEF IInv, VaultsOK, VaultOK, VaultType, Grown
<1>4. SettingsOK' /\ RecordsOK' /\ ScriptsOK'
  BY <1>1, <1>3, KnownGrown DEF IInv, SettingsOK, RecordsOK, ScriptsOK
<1>5. PendingOK'
  BY <1>1, <1>3, KnownGrown DEF IInv, PendingOK
<1>6. Fits'
  BY <1>1 DEF IInv, Fits
<1> QED BY <1>3, <1>4, <1>5, <1>6 DEF IInv

---------------------------------------------------------------------------
(* A transaction is mined. *)

\* What is left in the queue of chain n when its first transaction was mined.
LEMMA TailKeeps ==
    ASSUME IInv, NEW n \in Chains, pending[n] # << >>,
           pending' = [pending EXCEPT ![n] = Tail(@)]
    PROVE  /\ Len(pending[n]) \in Nat /\ Len(pending[n]) >= 1 /\ Head(pending[n]) = pending[n][1]
           /\ pending' \in [Chains -> Seq(TxType)]
           /\ Len(pending'[n]) = Len(pending[n]) - 1
           /\ \A i \in 1..Len(pending'[n]) : pending'[n][i] = pending[n][i + 1]
           /\ \A m \in Chains : m # n => pending'[m] = pending[m]
<1>1. pending \in [Chains -> Seq(TxType)] /\ pending[n] \in Seq(TxType)
  BY DEF IInv, PendingOK
<1>2. pending'[n] = Tail(pending[n]) /\ \A m \in Chains : m # n => pending'[m] = pending[m]
  BY <1>1
<1>3. Len(pending[n]) \in Nat /\ Len(pending[n]) >= 1 /\ Head(pending[n]) = pending[n][1]
  BY <1>1
<1>4. pending' \in [Chains -> Seq(TxType)]
  BY <1>1, HeadTailProperties
<1> QED BY <1>1, <1>2, <1>3, <1>4, HeadTailProperties

\* A transaction that succeeds lets its contract grow.
LEMMA EffectGrows ==
    ASSUME IInv, NEW t, NEW n \in Chains, NEW c, TxOK(t, vault, used), Succeeds(t, c),
           t.op # "create" => c = t.contract,
           vault' = [vault EXCEPT ![c] = Effect(t, n, c)],
           weth' = CASE t.op = "wrap"    -> weth + 1
                     [] t.op = "deposit" -> weth - 1
                     [] OTHER            -> weth,
           UNCHANGED <<used, confirmed>>
    PROVE  /\ c \in Contracts /\ VaultsOK' /\ Grown(vault, vault')
           /\ t.op = "create" => vault'[c].chain = n
           /\ t.op = "token" => t.arg \in vault'[c].listed
           /\ \A k \in Contracts : vault'[k].balance = IF k = c /\ t.op = "deposit" THEN vault[k].balance + 1
                                                       ELSE vault[k].balance
<1> DEFINE w == Effect(t, n, c)
           E == used
           Goal == /\ VaultOK(w, E) /\ w \in VaultType
                   /\ vault[c].chain # "none" =>
                          /\ w.chain = vault[c].chain /\ vault[c].listed \subseteq w.listed
                          /\ vault[c].executor # Nobody => w.executor # Nobody
                   /\ t.op = "create" => w.chain = n
                   /\ t.op = "token" => t.arg \in w.listed
                   /\ w.balance = IF t.op = "deposit" THEN vault[c].balance + 1 ELSE vault[c].balance
                   /\ weth' \in Nat
<1>1. c \in Contracts /\ E \in SUBSET Accounts /\ vault[c] \in VaultType /\ VaultOK(vault[c], E)
  BY DEF IInv, VaultsOK, SettingsOK, TxOK, Exists, Succeeds
<1>2. weth \in Nat /\ t \in TxType /\ Nobody \notin E
  BY <1>1, DeploymentAssumption DEF IInv, VaultsOK, TxOK
<1>3. ASSUME t.op = "create" PROVE Goal
  <2>1. vault[c].chain = "none" /\ vault[c] = Fresh
    BY <1>1, <1>3, DeploymentAssumption DEF Succeeds, Live, VaultOK, Contracts, NoContract
  <2>2. w = [Fresh EXCEPT !.chain = n, !.admin = t.arg] /\ weth' = weth /\ t.arg \in Accounts
    BY <1>3 DEF Effect, TxOK
  <2>3. n # "none" /\ n \in Chains
    BY DEF Chains
  <2> HIDE DEF w, E
  <2>4. w = [chain |-> n, admin |-> t.arg, executor |-> Nobody, role |-> {}, listed |-> {},
             paused |-> FALSE, balance |-> 0, allowance |-> 0]
    BY <2>2 DEF Fresh
  <2>5. w \in VaultType
    <3>1. n \in Chains \cup {"none"} /\ t.arg \in Accounts \cup {Nobody}
      BY <2>2, <2>3
    <3> QED BY <2>4, <3>1, VaultFields
  <2>6. w.chain = n /\ w.executor = Nobody /\ w.role = {} /\ w.balance = 0 /\ Fresh.balance = 0
    BY <2>4 DEF Fresh
  <2> QED BY <1>2, <1>3, <2>1, <2>2, <2>3, <2>5, <2>6 DEF VaultOK
<1>4. ASSUME t.op # "create" PROVE vault[c].chain # "none"
  BY <1>4 DEF TxOK, Exists
<1>5. ASSUME t.op = "token" PROVE Goal
  <2>1. w = [vault[c] EXCEPT !.listed = @ \cup {t.arg}] /\ weth' = weth /\ t.arg \in Both
    BY <1>5 DEF Effect, TxOK
  <2> HIDE DEF w, E
  <2> QED BY <1>1, <1>2, <1>4, <1>5, <2>1 DEF VaultOK, VaultType, Both
<1>6. ASSUME t.op = "executor" PROVE Goal
  <2>1. /\ w = SetExecutor(vault[c], t.arg) /\ weth' = weth /\ vault[c].listed = Both
        /\ t.arg \in E
    BY <1>6 DEF Effect, TxOK
  <2> HIDE DEF w, E
  <2> QED BY <1>1, <1>2, <1>4, <1>6, <2>1 DEF VaultOK, VaultType, SetExecutor
<1>7. ASSUME t.op = "wrap" PROVE Goal
  <2>1. w = vault[c] /\ weth' = weth + 1
    BY <1>7 DEF Effect
  <2> HIDE DEF w, E
  <2> QED BY <1>1, <1>2, <1>4, <1>7, <2>1
<1>8. ASSUME t.op = "approve" PROVE Goal
  <2>1. w = [vault[c] EXCEPT !.allowance = 1] /\ weth' = weth
    BY <1>8 DEF Effect
  <2> HIDE DEF w, E
  <2> QED BY <1>1, <1>2, <1>4, <1>8, <2>1 DEF VaultOK, VaultType
<1>9. ASSUME t.op = "deposit" PROVE Goal
  <2>1. w = [vault[c] EXCEPT !.balance = @ + 1, !.allowance = @ - 1] /\ weth' = weth - 1
    BY <1>9 DEF Effect
  <2>2. vault[c].allowance >= 1 /\ weth >= 1
    BY <1>9 DEF Succeeds, DepositAllowed
  <2> HIDE DEF w, E
  <2>3. vault[c].allowance - 1 \in 0..1 /\ vault[c].balance + 1 \in Nat
    BY <1>1, <2>2 DEF VaultType
  <2>4. /\ w \in VaultType /\ w.chain = vault[c].chain /\ w.executor = vault[c].executor
        /\ w.role = vault[c].role /\ w.listed = vault[c].listed /\ w.balance = vault[c].balance + 1
    BY <1>1, <2>1, <2>3 DEF VaultType
  <2> QED BY <1>1, <1>2, <1>4, <1>9, <2>1, <2>2, <2>4 DEF VaultOK
<1>10. Goal
  BY <1>2, <1>3, <1>5, <1>6, <1>7, <1>8, <1>9 DEF TxType
<1> HIDE DEF w
<1>11. vault'[c] = w /\ \A k \in Contracts : k # c => vault'[k] = vault[k]
  BY <1>1 DEF IInv, VaultsOK, w
<1>12. vault' \in [Contracts -> VaultType]
  BY <1>1, <1>10, <1>11 DEF IInv, VaultsOK, w
<1>13. VaultsOK'
  BY <1>10, <1>11, <1>12 DEF IInv, VaultsOK
<1>14. Grown(vault, vault')
  BY <1>1, <1>10, <1>11 DEF Grown, Exists
<1> QED BY <1>1, <1>10, <1>11, <1>13, <1>14

\* The receipt of the transaction a script waits for tells it the truth.
LEMMA ReceiptTells ==
    ASSUME NEW r, NEW v, NEW w, NEW E \in SUBSET Accounts, NEW t \in TxType, NEW n, NEW c, ScriptOK(r, v, E),
           Grown(v, w), Awaited(t, n, r), c \in Contracts, t.op # "create" => c = t.contract,
           t.op = "create" => w[c].chain = n /\ n # "none",
           t.op = "token" => t.arg \in w[c].listed
    PROVE  ScriptOK(AfterReceipt(r, TRUE, c), w, E)
<1>1. r \in RunType /\ r.rec \in RecordType /\ r.pc = "wait" /\ r.chain = n /\ ScriptOK(r, w, E)
  BY ScriptGrown DEF ScriptOK, RunType, Awaited
<1>2. CASE r.script = "deploy"
  <2> DEFINE a == [r EXCEPT !.pc = "record", !.rec.contract = c]
  <2>1. AfterReceipt(r, TRUE, c) = a
    BY <1>2 DEF AfterReceipt
  <2>2. /\ a \in RunType /\ a.script = "deploy" /\ a.pc = "record" /\ a.chain = n /\ a.net = r.net
        /\ a.rec.contract = c
    BY <1>1, <1>2 DEF RunType, RecordType
  <2> HIDE DEF a
  <2> QED BY <1>1, <1>2, <2>1, <2>2 DEF ScriptOK, DeployOK, Exists, Awaited
<1>3. CASE r.script \in {"configure", "deposit"} /\ r.step = 3
  <2> DEFINE a == [r EXCEPT !.pc = "check", !.step = 1]
  <2>1. AfterReceipt(r, TRUE, c) = a
    BY <1>3 DEF AfterReceipt
  <2>2. a \in RunType
    <3>1. 1 \in 1..7
      OBVIOUS
    <3> QED BY <1>1, <3>1 DEF RunType
  <2>3. /\ a.script = r.script /\ a.pc = "check" /\ a.chain = r.chain /\ a.net = r.net
        /\ a.step = 1 /\ a.rec = r.rec /\ a.key = r.key
    BY <1>1 DEF RunType
  <2> HIDE DEF a
  <2>4. r.script = "configure" => ConfigureOK(a, w, E)
    BY <1>1, <2>3 DEF ConfigureOK, ScriptOK
  <2>5. RecordOK(a.rec, a.net, w, E) /\ a.chain \in Chains
    BY <1>1, <1>3, <2>3 DEF ScriptOK
  <2> QED BY <1>3, <2>1, <2>2, <2>3, <2>4, <2>5 DEF ScriptOK
<1>4. CASE r.script \in {"configure", "deposit"} /\ r.step \in 1..2
  <2> DEFINE a == [r EXCEPT !.pc = "read", !.step = @ + 1]
  <2>1. AfterReceipt(r, TRUE, c) = a
    BY <1>4 DEF AfterReceipt
  <2>2. r.step + 1 \in 2..3 /\ r.step + 1 \in 1..7
    BY <1>4
  <2>3. /\ a \in RunType /\ a.script = r.script /\ a.pc = "read" /\ a.chain = r.chain
        /\ a.net = r.net /\ a.step = r.step + 1 /\ a.rec = r.rec /\ a.key = r.key
    BY <1>1, <2>2 DEF RunType
  <2> HIDE DEF a
  <2>4. r.script = "configure" => ConfigureOK(a, w, E)
    <3> SUFFICES ASSUME r.script = "configure" PROVE ConfigureOK(a, w, E)
      OBVIOUS
    <3>1. ConfigureOK(r, w, E) /\ c = r.rec.contract
      BY <1>1, <1>4 DEF ScriptOK, Awaited
    <3>2. (r.step = 1 => "WETH" \in w[c].listed) /\ (r.step = 2 => "USDC" \in w[c].listed)
      BY <1>4 DEF Awaited
    <3> QED BY <1>1, <1>4, <2>3, <3>1, <3>2 DEF ConfigureOK
  <2>5. RecordOK(a.rec, a.net, w, E) /\ a.chain \in Chains /\ a.step \in 1..3
    BY <1>1, <1>4, <2>2, <2>3 DEF ScriptOK
  <2> QED BY <1>4, <2>1, <2>3, <2>4, <2>5 DEF ScriptOK
<1>5. r.script \in {"configure", "deposit"} => r.step = 3 \/ r.step \in 1..2
  BY DEF Awaited
<1> QED BY <1>2, <1>3, <1>4, <1>5 DEF Awaited

\* Every transaction that is mined, successfully or not, keeps the invariant.
LEMMA MineKeeps ==
    ASSUME IInv, NEW n \in Chains, Mine(n)
    PROVE  IInv' /\ Grown(vault, vault')
<1> DEFINE t == Head(pending[n])
           c == IF t.op = "create" THEN NewAddress ELSE t.contract
           E == used
<1>0. /\ pending[n] # << >> /\ pending' = [pending EXCEPT ![n] = Tail(@)]
      /\ UNCHANGED <<scene, used, record, confirmed>>
  BY DEF Mine
<1>1. /\ Len(pending[n]) \in Nat /\ Len(pending[n]) >= 1 /\ t = pending[n][1]
      /\ pending' \in [Chains -> Seq(TxType)]
      /\ Len(pending'[n]) = Len(pending[n]) - 1
      /\ \A i \in 1..Len(pending'[n]) : pending'[n][i] = pending[n][i + 1]
      /\ \A m \in Chains : m # n => pending'[m] = pending[m]
  BY <1>0, TailKeeps
<1>2. /\ TxOK(t, vault, E) /\ t \in TxType /\ (t.by # NoTerminal => Awaited(t, n, run[t.by]) /\ t.by \in Terminals)
  BY <1>1 DEF IInv, PendingOK, TxOK, TxType
<1>3. t.op # "create" => c = t.contract
  OBVIOUS
<1>4. PICK ok \in BOOLEAN :
          /\ Tell(t, ok, c)
          /\ ok => /\ Succeeds(t, c) /\ vault' = [vault EXCEPT ![c] = Effect(t, n, c)]
                   /\ weth' = CASE t.op = "wrap"    -> weth + 1
                                [] t.op = "deposit" -> weth - 1
                                [] OTHER            -> weth
          /\ ~ok => UNCHANGED <<vault, weth>>
  BY DEF Mine
<1> HIDE DEF t, c
<1>5. VaultsOK' /\ Grown(vault, vault')
  <2>1. CASE ok
    BY <1>0, <1>2, <1>3, <1>4, <2>1, EffectGrows
  <2>2. CASE ~ok
    BY <1>0, <1>4, <2>2 DEF IInv, VaultsOK, Grown
  <2> QED BY <2>1, <2>2
<1>6. SettingsOK' /\ RecordsOK'
  BY <1>0, <1>5, KnownGrown DEF IInv, SettingsOK, RecordsOK
<1>7. /\ t.by = NoTerminal => run' = run
      /\ t.by # NoTerminal => run' = [run EXCEPT ![t.by] = AfterReceipt(run[t.by], ok, c)]
  BY <1>4 DEF Tell
<1>8. ASSUME t.by # NoTerminal PROVE ScriptOK(AfterReceipt(run[t.by], ok, c), vault', E)
  <2>1. CASE ok
    <3>1. /\ c \in Contracts
          /\ t.op = "create" => vault'[c].chain = n /\ n # "none"
          /\ t.op = "token" => t.arg \in vault'[c].listed
      BY <1>0, <1>2, <1>3, <1>4, <2>1, EffectGrows DEF Chains
    <3>2. ScriptOK(run[t.by], vault, E) /\ E \in SUBSET Accounts /\ Awaited(t, n, run[t.by])
      BY <1>2, <1>8 DEF IInv, ScriptsOK, SettingsOK
    <3> HIDE DEF E
    <3>3. ok = TRUE
      BY <2>1
    <3> QED BY <1>2, <1>3, <1>5, <3>1, <3>2, <3>3, ReceiptTells
  <2>2. CASE ~ok
    <3>1. AfterReceipt(run[t.by], ok, c) = Idle
      BY <2>2 DEF AfterReceipt
    <3> QED BY <3>1, IdleIsOK
  <2> QED BY <2>1, <2>2
<1>9. ScriptsOK'
  <2>1. \A s \in Terminals : ScriptOK(run[s], vault', E)
    BY <1>0, <1>5, KnownGrown
  <2>2. \A s \in Terminals : ScriptOK(run'[s], vault', E)
    BY <1>2, <1>7, <1>8, <2>1 DEF IInv, ScriptsOK
  <2>3. run' \in [Terminals -> RunType]
    BY <1>2, <1>7, <1>8 DEF IInv, ScriptsOK, ScriptOK
  <2> QED BY <1>0, <2>2, <2>3 DEF ScriptsOK
<1>10. ASSUME NEW m \in Chains, NEW i \in 1..Len(pending'[m])
       PROVE  \E j \in 1..Len(pending[m]) :
                  pending'[m][i] = pending[m][j] /\ j = IF m = n THEN i + 1 ELSE i
  BY <1>1
<1>11. Fits'
  <2>1. scene' = scene /\ scene.maxPending \in Nat
    BY <1>0, DeploymentAssumption DEF IInv, SettingsOK
  <2>2. /\ Len(pending'[n]) <= Len(pending[n]) /\ Len(pending'[n]) \in Nat
        /\ Len(pending[n]) \in Nat /\ \A m \in Chains : m # n => pending'[m] = pending[m]
    BY <1>1 DEF IInv, PendingOK
  <2> QED BY <2>1, <2>2 DEF IInv, Fits
<1>12. PendingOK'
  <2>2. ASSUME NEW m \in Chains, NEW i \in 1..Len(pending'[m])
        PROVE  /\ TxOK(pending'[m][i], vault', E)
               /\ pending'[m][i].by # NoTerminal => Awaited(pending'[m][i], m, run'[pending'[m][i].by])
    <3>1. PICK j \in 1..Len(pending[m]) :
              pending'[m][i] = pending[m][j] /\ j = IF m = n THEN i + 1 ELSE i
      BY <1>10
    <3>2. TxOK(pending[m][j], vault', E)
      BY <1>0, <1>5, KnownGrown
    <3>3. ASSUME pending[m][j].by # NoTerminal
          PROVE  Awaited(pending[m][j], m, run'[pending[m][j].by])
      <4>1. Awaited(pending[m][j], m, run[pending[m][j].by]) /\ pending[m][j].by \in Terminals
        BY <3>2, <3>3 DEF IInv, PendingOK, TxOK, TxType
      <4>2. pending[m][j].by # t.by
        <5>1. CASE m = n
          <6>1. j # 1 /\ 1 \in 1..Len(pending[n])
            BY <1>1, <3>1, <5>1
          <6> QED BY <1>1, <3>3, <5>1, <6>1 DEF IInv, PendingOK
        <5>2. CASE m # n
          BY <1>2, <3>3, <4>1, <5>2 DEF Awaited
        <5> QED BY <5>1, <5>2
      <4>3. run'[pending[m][j].by] = run[pending[m][j].by]
        BY <1>2, <1>7, <4>1, <4>2 DEF IInv, ScriptsOK
      <4> QED BY <4>1, <4>3
    <3> QED BY <3>1, <3>2, <3>3
  <2>3. ASSUME NEW m \in Chains, NEW i \in 1..Len(pending'[m]), NEW j \in 1..Len(pending'[m]),
               pending'[m][i].by = pending'[m][j].by, pending'[m][i].by # NoTerminal
        PROVE  i = j
    <3>1. PICK k \in 1..Len(pending[m]) :
              pending'[m][i] = pending[m][k] /\ k = IF m = n THEN i + 1 ELSE i
      BY <1>10
    <3>2. PICK l \in 1..Len(pending[m]) :
              pending'[m][j] = pending[m][l] /\ l = IF m = n THEN j + 1 ELSE j
      BY <1>10
    <3>3. k = l
      BY <2>3, <3>1, <3>2 DEF IInv, PendingOK
    <3> QED BY <3>1, <3>2, <3>3
  <2>4. pending' \in [Chains -> Seq(TxType)] /\ used' = E
    BY <1>0, <1>1
  <2> HIDE DEF E
  <2> QED BY <2>2, <2>3, <2>4 DEF PendingOK
<1> QED BY <1>5, <1>6, <1>9, <1>11, <1>12 DEF IInv

---------------------------------------------------------------------------
(* The steps of the scripts, one by one. *)

\* Nothing is deployed, or a contract that was configured.
LEMMA DeploymentInit == Init => IInv
<1> SUFFICES ASSUME Init PROVE IInv
  OBVIOUS
<1> DEFINE E == used
<1>1. SettingsOK /\ E \in SUBSET Accounts
  BY DEF Init, SettingsOK
<1>2. Fresh \in VaultType /\ VaultOK(Fresh, E)
  <2>1. Fresh \in VaultType
    BY VaultFields DEF Fresh
  <2> QED BY <2>1 DEF VaultOK, Fresh
<1>3. NoRecord \in RecordType
  BY DEF NoRecord, RecordType
<1>4. ScriptsOK
  BY IdleIsOK DEF Init, ScriptsOK, ScriptOK
<1>5. PendingOK /\ Fits
  <2>1. << >> \in Seq(TxType) /\ Len(<< >>) = 0
    BY EmptySeq
  <2> QED BY <2>1, DeploymentAssumption DEF Init, PendingOK, Fits
<1>6. CASE \E s \in Terminals : "deploy" \in scene.may[s]
  <2>1. VaultsOK
    BY <1>2, <1>6 DEF Init, VaultsOK
  <2>2. RecordsOK
    BY <1>3, <1>6 DEF Init, RecordsOK
  <2> QED BY <1>1, <1>4, <1>5, <2>1, <2>2 DEF IInv
<1>7. CASE ~\E s \in Terminals : "deploy" \in scene.may[s]
  <2>1. PICK x \in Accounts \ {Deployer} :
            /\ E = {x} /\ vault = [c \in Contracts |-> IF c = 1 THEN Ready(x) ELSE Fresh]
            /\ record = [n \in Networks |-> IF n = "sepolia" THEN ReadyRecord(x) ELSE NoRecord]
            /\ weth = 0 /\ confirmed = [c \in Contracts |-> 0]
    BY <1>7 DEF Init
  <2>2. /\ Ready(x).chain = "sepolia" /\ Ready(x).executor = x /\ Ready(x).role = {x}
        /\ Ready(x).listed = Both /\ Ready(x) \in VaultType
    BY <1>1, <1>2, DeploymentAssumption DEF Ready, Both, VaultType, Chains
  <2>3. Ready(x) \in VaultType
    BY <2>2
  <2>4. VaultOK(Ready(x), E) /\ Ready(x).chain = "sepolia" /\ Ready(x).executor # Nobody
    BY <2>1, <2>2, DeploymentAssumption DEF VaultOK
  <2>5. 1 \in Contracts
    BY DeploymentAssumption DEF Contracts
  <2> HIDE DEF E
  <2>6. VaultsOK
    BY <1>2, <2>1, <2>3, <2>4 DEF VaultsOK, E
  <2>7. ReadyRecord(x) \in RecordType /\ ReadyRecord(x).contract = 1 /\ ReadyRecord(x).executor = x
    BY <2>5, DeploymentAssumption DEF ReadyRecord, RecordType
  <2>8. RecordOK(ReadyRecord(x), "sepolia", vault, E)
    BY <2>1, <2>4, <2>5, <2>7 DEF RecordOK, Exists, NetChain
  <2>9. RecordsOK
    BY <1>3, <2>1, <2>7, <2>8 DEF RecordsOK, Networks, E
  <2> QED BY <1>1, <1>4, <1>5, <2>6, <2>9 DEF IInv
<1> QED BY <1>6, <1>7

\* deploy passes its preflight on the chain its record will be named for.
LEMMA DeployKeeps ==
    ASSUME IInv, NEW s \in Terminals, NEW site \in Sites, NEW admin \in Accounts, Deploy(s, site, admin)
    PROVE  IInv'
<1> DEFINE net == IF DryRun(site) THEN "localhost" ELSE "sepolia"
           w == [Idle EXCEPT !.script = "deploy", !.chain = site.chain, !.key = admin, !.net = net]
           r == [w EXCEPT !.pc = "wait"]
           t == [op |-> "create", contract |-> NoContract, arg |-> admin, by |-> s]
<1>1. /\ run[s] = Idle /\ RightChain(site)
      /\ Send(s, w, "create", NoContract, admin)
  BY DEF Deploy, Preflight
<1>2. /\ net \in Networks /\ site.chain \in Chains /\ site.chain = NetChain(net)
      /\ NoRecord \in RecordType /\ 1 \in 1..7
  BY <1>1 DEF RightChain, DryRun, Networks, Sites, NetChain, NoRecord, RecordType, IInv, SettingsOK
<1> HIDE DEF net
<1>3. w \in RunType /\ w.chain = site.chain /\ w.script = "deploy" /\ w.net = net
  BY <1>2, IdleFields DEF RunType
<1>4. r \in RunType /\ r.script = "deploy" /\ r.pc = "wait" /\ r.net = net /\ r.chain = site.chain
  BY <1>3 DEF RunType
<1>5. t \in TxType /\ t.op = "create" /\ t.arg \in Accounts
  BY <1>2 DEF TxType
<1>6. run[s].pc # "wait"
  BY <1>1 DEF Idle
<1> HIDE DEF w, r, t
<1>7. ScriptOK(r, vault, used)
  BY <1>2, <1>4 DEF ScriptOK, DeployOK
<1>8. TxOK(t, vault, used) /\ Awaited(t, w.chain, r)
  BY <1>3, <1>4, <1>5 DEF TxOK, Awaited
<1>9. r = [w EXCEPT !.pc = "wait"]
  BY DEF r
<1>10. t = [op |-> "create", contract |-> NoContract, arg |-> admin, by |-> s]
  BY DEF t
<1> QED BY <1>1, <1>2, <1>3, <1>6, <1>7, <1>8, <1>9, <1>10, SendKeeps

\* A script starts with a record that is true.
LEMMA StartKeeps ==
    ASSUME IInv, NEW s \in Terminals, NEW script, NEW next, Start(s, script, next),
           used \subseteq used', used' \subseteq Accounts,
           ScriptOK([next EXCEPT !.script = script], vault, used')
    PROVE  IInv'
<1>1. run[s].pc # "wait" /\ run' = [run EXCEPT ![s] = [next EXCEPT !.script = script]]
  BY DEF Start, Idle
<1>2. UNCHANGED <<scene, vault, pending, weth, record, confirmed>>
  BY DEF Start, chain
<1>3. RecordsOK' /\ confirmed' \in [Contracts -> Nat]
  BY <1>2, RecordsStay DEF IInv, VaultsOK
<1> QED BY <1>1, <1>2, <1>3, LocalKeeps

\* configure, verify, depositVault and the worker start.
LEMMA StartsKeep ==
    ASSUME IInv, NEW s \in Terminals,
           \/ \E site \in Sites, a \in Accounts : StartConfigure(s, site, a)
           \/ \E site \in Sites : StartDeposit(s, site)
           \/ \E net \in Networks : StartVerify(s, net)
           \/ \E a \in Accounts : StartWorker(s, a)
    PROVE  IInv'
<1> DEFINE E == used
<1>0. Nobody \in Accounts \cup {Nobody} /\ 1 \in 1..7 /\ 1 \in 1..3 /\ E \in SUBSET Accounts
  BY DEF IInv, SettingsOK
<1>1. \A net \in Networks : /\ record[net] \in RecordType
                            /\ record[net] # NoRecord => RecordOK(record[net], net, vault, E)
  BY DEF IInv, RecordsOK
<1>2. ASSUME NEW site \in Sites, NEW a \in Accounts, StartConfigure(s, site, a) PROVE IInv'
  <2> DEFINE next == [Idle EXCEPT !.pc = "read", !.net = site.net, !.chain = site.chain,
                                  !.rec = record[site.net], !.key = a]
             r == [next EXCEPT !.script = "configure"]
  <2>1. site.net \in Networks /\ site.chain \in Chains /\ record[site.net] # NoRecord
        /\ Start(s, "configure", next) /\ used' = used \cup {a}
    BY <1>2 DEF StartConfigure, Sites
  <2>2. /\ next \in RunType /\ next.pc = "read" /\ next.net = site.net /\ next.chain = site.chain
        /\ next.step = 1 /\ next.rec = record[site.net] /\ next.key = a
    BY <1>1, <2>1, IdleFields DEF RunType
  <2> HIDE DEF next
  <2>3. /\ r \in RunType /\ r.script = "configure" /\ r.pc = "read" /\ r.net = site.net
        /\ r.chain = site.chain /\ r.step = 1 /\ r.rec = record[site.net] /\ r.key = a
    BY <2>2 DEF RunType
  <2> HIDE DEF r
  <2>4. ConfigureOK(r, vault, used')
    BY <1>0, <2>1, <2>3 DEF ConfigureOK
  <2>5. RecordOK(record[site.net], site.net, vault, used')
    <3>1. Grown(vault, vault)
      BY DEF Grown
    <3>2. E \subseteq used' /\ RecordOK(record[site.net], site.net, vault, E)
      BY <1>1, <2>1
    <3> QED BY <3>1, <3>2, RecordGrown
  <2>6. ScriptOK(r, vault, used')
    BY <2>1, <2>3, <2>4, <2>5 DEF ScriptOK
  <2>7. used \subseteq used' /\ used' \subseteq Accounts
    BY <1>0, <2>1
  <2> QED BY <2>1, <2>6, <2>7, StartKeeps DEF r
<1>3. ASSUME NEW site \in Sites, StartDeposit(s, site) PROVE IInv'
  <2> DEFINE next == [Idle EXCEPT !.pc = "read", !.chain = site.chain, !.rec = record["sepolia"]]
             r == [next EXCEPT !.script = "deposit"]
  <2>1. "sepolia" \in Networks /\ site.chain \in Chains /\ record["sepolia"] # NoRecord
        /\ Start(s, "deposit", next) /\ used' = used
    BY <1>3 DEF StartDeposit, Sites, Networks
  <2>2. /\ next \in RunType /\ next.pc = "read" /\ next.net = "sepolia" /\ next.chain = site.chain
        /\ next.step = 1 /\ next.rec = record["sepolia"]
    BY <1>1, <2>1, IdleFields DEF RunType
  <2> HIDE DEF next
  <2>3. /\ r \in RunType /\ r.script = "deposit" /\ r.pc = "read" /\ r.net = "sepolia"
        /\ r.chain = site.chain /\ r.step = 1 /\ r.rec = record["sepolia"]
    BY <2>2 DEF RunType
  <2> HIDE DEF r
  <2>4. ScriptOK(r, vault, E)
    BY <1>0, <1>1, <2>1, <2>3 DEF ScriptOK
  <2> QED BY <1>0, <2>1, <2>4, StartKeeps DEF r
<1>4. ASSUME NEW net \in Networks, StartVerify(s, net) PROVE IInv'
  <2> DEFINE next == [Idle EXCEPT !.pc = "etherscan", !.net = net, !.rec = record[net]]
             r == [next EXCEPT !.script = "verify"]
  <2>1. record[net] # NoRecord /\ Start(s, "verify", next) /\ used' = used
    BY <1>4 DEF StartVerify
  <2>2. next \in RunType /\ next.pc = "etherscan" /\ next.net = net /\ next.rec = record[net]
    BY <1>1, IdleFields DEF RunType
  <2> HIDE DEF next
  <2>3. /\ r \in RunType /\ r.script = "verify" /\ r.pc = "etherscan" /\ r.net = net
        /\ r.rec = record[net]
    BY <2>2 DEF RunType
  <2> HIDE DEF r
  <2>4. ScriptOK(r, vault, E)
    BY <1>1, <2>1, <2>3 DEF ScriptOK
  <2> QED BY <1>0, <2>1, <2>4, StartKeeps DEF r
<1>5. ASSUME NEW a \in Accounts, StartWorker(s, a) PROVE IInv'
  <2> DEFINE next == [Idle EXCEPT !.pc = "started", !.key = a, !.rec = record["sepolia"]]
             r == [next EXCEPT !.script = "worker"]
             c == record["sepolia"].contract
  <2>1. /\ "sepolia" \in Networks /\ Start(s, "worker", next) /\ Live(c) /\ vault[c].executor = a
        /\ used' = used
    BY <1>5 DEF StartWorker, WorkerReady, Networks
  <2>2. next \in RunType /\ next.pc = "started" /\ next.key = a /\ next.rec = record["sepolia"]
    BY <1>1, <2>1, IdleFields DEF RunType
  <2> HIDE DEF next
  <2>3. /\ r \in RunType /\ r.script = "worker" /\ r.pc = "started" /\ r.key = a
        /\ r.rec = record["sepolia"]
    BY <2>2 DEF RunType
  <2> HIDE DEF r
  <2>4. c \in Contracts /\ Exists(vault, c)
    BY <1>1, <2>1 DEF RecordType, Live, Exists
  <2>5. a \in E /\ vault[c].executor # Nobody
    BY <2>1, <2>4, DeploymentAssumption DEF IInv, VaultsOK, VaultOK
  <2>6. ScriptOK(r, vault, E)
    BY <2>1, <2>3, <2>4, <2>5 DEF ScriptOK
  <2> QED BY <1>0, <2>1, <2>6, StartKeeps DEF r
<1> QED BY <1>2, <1>3, <1>4, <1>5

\* A script ends and leaves a record behind, one that is true.
LEMMA WriteRecordKeeps ==
    ASSUME IInv, NEW s \in Terminals, run[s].pc # "wait", NEW net \in Networks, NEW rec,
           RecordOK(rec, net, vault, used), record' = [record EXCEPT ![net] = rec],
           run' = [run EXCEPT ![s] = Idle], UNCHANGED <<scene, used, vault, pending, weth, confirmed>>
    PROVE  IInv'
<1>1. RecordsOK'
  BY DEF IInv, RecordsOK, RecordOK
<1>2. confirmed' \in [Contracts -> Nat]
  BY DEF IInv, VaultsOK
<1> QED BY <1>1, <1>2, IdleIsOK, SameUsedKeeps

\* deploy records the contract that its receipt named.
LEMMA DeployRecordKeeps ==
    ASSUME IInv, NEW s \in Terminals, DeployRecord(s)
    PROVE  IInv'
<1> DEFINE rec == [NoRecord EXCEPT !.contract = run[s].rec.contract, !.admin = run[s].key]
<1>1. /\ run[s].script = "deploy" /\ run[s].pc = "record"
      /\ record' = [record EXCEPT ![run[s].net] = rec] /\ run' = [run EXCEPT ![s] = Idle]
      /\ UNCHANGED <<scene, used, vault, pending, weth, confirmed>>
  BY DEF DeployRecord, At, chain
<1>2. /\ run[s] \in RunType /\ run[s].net \in Networks /\ DeployOK(run[s], vault)
  BY <1>1 DEF IInv, ScriptsOK, ScriptOK, RunType
<1>3. /\ Exists(vault, run[s].rec.contract) /\ run[s].rec.contract \in Contracts
      /\ vault[run[s].rec.contract].chain = NetChain(run[s].net)
  BY <1>1, <1>2 DEF DeployOK, Exists
<1>4. rec \in RecordType /\ rec.contract = run[s].rec.contract /\ rec.executor = Nobody
  BY <1>2, <1>3 DEF NoRecord, RecordType, RunType
<1> HIDE DEF rec
<1>5. RecordOK(rec, run[s].net, vault, used)
  BY <1>3, <1>4 DEF RecordOK
<1> QED BY <1>1, <1>2, <1>5, WriteRecordKeeps

\* verify writes back the record it was given.
LEMMA VerifyWriteKeeps ==
    ASSUME IInv, NEW s \in Terminals, VerifyWrite(s)
    PROVE  IInv'
<1>1. /\ run[s].script = "verify" /\ run[s].pc = "etherscan"
      /\ record' = [record EXCEPT ![run[s].net] = run[s].rec] /\ run' = [run EXCEPT ![s] = Idle]
      /\ UNCHANGED <<scene, used, vault, pending, weth, confirmed>>
  BY DEF VerifyWrite, At, chain
<1>2. run[s].net \in Networks /\ RecordOK(run[s].rec, run[s].net, vault, used)
  BY <1>1 DEF IInv, ScriptsOK, ScriptOK, RunType
<1> QED BY <1>1, <1>2, WriteRecordKeeps

\* configure goes on to the next write when this one is already so.
LEMMA ConfigureReadKeeps ==
    ASSUME IInv, NEW s \in Terminals, ConfigureRead(s)
    PROVE  IInv'
<1> DEFINE E == used
           c == run[s].rec.contract
           w == Writes(run[s].key)[run[s].step]
<1>1. /\ run[s].script = "configure" /\ run[s].pc = "read"
      /\ run' = [run EXCEPT ![s] =
                   IF ~AlreadySet(vault[c], w) THEN [run[s] EXCEPT !.pc = "send"]
                   ELSE IF run[s].step = 3 THEN [run[s] EXCEPT !.pc = "check", !.step = 1]
                   ELSE [run[s] EXCEPT !.step = run[s].step + 1]]
      /\ UNCHANGED <<scene, used, vault, pending, weth, record, confirmed>>
  BY DEF ConfigureRead, At, chain, Target
<1>2. /\ run[s] \in RunType /\ ScriptOK(run[s], vault, E) /\ ConfigureOK(run[s], vault, E)
      /\ run[s].step \in 1..3
  BY <1>1 DEF IInv, ScriptsOK, ScriptOK, ConfigureOK
<1>3. RecordsOK' /\ confirmed' \in [Contracts -> Nat]
  BY <1>1, RecordsStay DEF IInv, VaultsOK
<1>4. ASSUME NEW r \in RunType, run' = [run EXCEPT ![s] = r], r.script = "configure",
             r.rec = run[s].rec, r.net = run[s].net, r.chain = run[s].chain, ConfigureOK(r, vault, E)
      PROVE  IInv'
  <2>1. ScriptOK(r, vault, E)
    BY <1>1, <1>2, <1>4 DEF ScriptOK
  <2> QED BY <1>1, <1>3, <1>4, <2>1, SameUsedKeeps
<1>5. CASE ~AlreadySet(vault[c], w)
  <2> DEFINE r == [run[s] EXCEPT !.pc = "send"]
  <2>1. run' = [run EXCEPT ![s] = r]
    BY <1>1, <1>5
  <2>2. /\ r \in RunType /\ r.script = run[s].script /\ r.pc = "send" /\ r.step = run[s].step
        /\ r.rec = run[s].rec /\ r.net = run[s].net /\ r.chain = run[s].chain /\ r.key = run[s].key
    BY <1>2 DEF RunType
  <2> HIDE DEF r
  <2>3. ConfigureOK(r, vault, E)
    BY <1>1, <1>2, <2>2 DEF ConfigureOK
  <2> QED BY <1>1, <1>4, <2>1, <2>2, <2>3
<1>6. CASE AlreadySet(vault[c], w) /\ run[s].step = 3
  <2> DEFINE r == [run[s] EXCEPT !.pc = "check", !.step = 1]
  <2>1. run' = [run EXCEPT ![s] = r] /\ 1 \in 1..7
    BY <1>1, <1>6
  <2>2. /\ r \in RunType /\ r.script = run[s].script /\ r.pc = "check" /\ r.step = 1
        /\ r.rec = run[s].rec /\ r.net = run[s].net /\ r.chain = run[s].chain /\ r.key = run[s].key
    BY <1>2, <2>1 DEF RunType
  <2> HIDE DEF r
  <2>3. ConfigureOK(r, vault, E)
    BY <1>2, <2>2 DEF ConfigureOK
  <2> QED BY <1>1, <1>4, <2>1, <2>2, <2>3
<1>7. CASE AlreadySet(vault[c], w) /\ run[s].step # 3
  <2> DEFINE r == [run[s] EXCEPT !.step = run[s].step + 1]
  <2>1. run' = [run EXCEPT ![s] = r] /\ run[s].step \in 1..2 /\ run[s].step + 1 \in 1..7
    BY <1>1, <1>2, <1>7
  <2>2. /\ r \in RunType /\ r.script = run[s].script /\ r.pc = run[s].pc /\ r.step = run[s].step + 1
        /\ r.rec = run[s].rec /\ r.net = run[s].net /\ r.chain = run[s].chain /\ r.key = run[s].key
    BY <1>2, <2>1 DEF RunType
  <2> HIDE DEF r
  <2>3. (run[s].step = 1 => "WETH" \in vault[c].listed) /\ (run[s].step = 2 => "USDC" \in vault[c].listed)
    BY <1>7 DEF AlreadySet, Writes
  <2>4. ConfigureOK(r, vault, E)
    BY <1>1, <1>2, <2>1, <2>2, <2>3 DEF ConfigureOK
  <2> QED BY <1>1, <1>4, <2>1, <2>2, <2>4
<1> QED BY <1>5, <1>6, <1>7

\* configure appoints the executor of a contract with both tokens.
LEMMA ConfigureSendKeeps ==
    ASSUME IInv, NEW s \in Terminals, ConfigureSend(s)
    PROVE  IInv'
<1> DEFINE E == used
           c == run[s].rec.contract
           w == Writes(run[s].key)[run[s].step]
           r == [run[s] EXCEPT !.pc = "wait"]
           t == [op |-> w.op, contract |-> c, arg |-> w.arg, by |-> s]
<1>1. run[s].script = "configure" /\ run[s].pc = "send" /\ Send(s, run[s], w.op, c, w.arg)
  BY DEF ConfigureSend, At, Target
<1>2. /\ run[s] \in RunType /\ ScriptOK(run[s], vault, E) /\ ConfigureOK(run[s], vault, E)
      /\ run[s].step \in 1..3 /\ run[s].chain \in Chains /\ Exists(vault, c) /\ c \in Contracts
      /\ run[s].key \in E /\ E \in SUBSET Accounts
  BY <1>1 DEF IInv, ScriptsOK, ScriptOK, ConfigureOK, RecordOK, Exists, SettingsOK
<1>3. /\ run[s].step = 1 => w.op = "token" /\ w.arg = "WETH"
      /\ run[s].step = 2 => w.op = "token" /\ w.arg = "USDC"
      /\ run[s].step = 3 => w.op = "executor" /\ w.arg = run[s].key
  BY DEF Writes
<1> HIDE DEF w
<1>4. /\ r \in RunType /\ r.script = "configure" /\ r.pc = "wait" /\ r.step = run[s].step
      /\ r.rec = run[s].rec /\ r.net = run[s].net /\ r.chain = run[s].chain /\ r.key = run[s].key
  BY <1>1, <1>2 DEF RunType
<1>5. t \in TxType /\ t.op = w.op /\ t.arg = w.arg /\ t.contract = c
  BY <1>2, <1>3 DEF TxType
<1>6. r = [run[s] EXCEPT !.pc = "wait"]
  OBVIOUS
<1>7. t = [op |-> w.op, contract |-> c, arg |-> w.arg, by |-> s]
  OBVIOUS
<1> HIDE DEF r, t
<1>8. ConfigureOK(r, vault, E)
  BY <1>1, <1>2, <1>4 DEF ConfigureOK
<1>9. ScriptOK(r, vault, E)
  BY <1>1, <1>2, <1>4, <1>8 DEF ScriptOK
<1>10. run[s].step = 3 => vault[c].listed = Both
  BY <1>1, <1>2 DEF ConfigureOK, IInv, VaultsOK, VaultType, Both
<1>11. TxOK(t, vault, E)
  BY <1>2, <1>3, <1>5, <1>10 DEF TxOK, Both
<1>12. Awaited(t, run[s].chain, r)
  BY <1>2, <1>3, <1>4, <1>5 DEF Awaited
<1>13. run[s].pc # "wait"
  BY <1>1
<1> QED BY <1>1, <1>2, <1>6, <1>7, <1>9, <1>11, <1>12, <1>13, SendKeeps

\* Every assertion of configure stays true until the last one was made.
LEMMA ConfigureCheckKeeps ==
    ASSUME IInv, NEW s \in Terminals, ConfigureCheck(s)
    PROVE  IInv'
<1> DEFINE E == used
           c == run[s].rec.contract
           v == vault[c]
           checks == Checks(v, run[s].rec, run[s].key)
           k == run[s].step
<1>1. /\ run[s].script = "configure" /\ run[s].pc = "check"
      /\ IF ~checks[k] \/ k = 7 THEN run' = [run EXCEPT ![s] = Idle]
                                ELSE run' = [run EXCEPT ![s].step = k + 1]
      /\ IF checks[k] /\ k = 7
         THEN record' = [record EXCEPT ![run[s].net] = [run[s].rec EXCEPT !.executor = run[s].key]]
         ELSE UNCHANGED record
      /\ UNCHANGED <<scene, used, vault, pending, weth, confirmed>>
  BY DEF ConfigureCheck, At, chain, Target, Confirm, Checks
<1>2. /\ run[s] \in RunType /\ ScriptOK(run[s], vault, E) /\ ConfigureOK(run[s], vault, E)
      /\ k \in 1..7 /\ run[s].net \in Networks /\ RecordOK(run[s].rec, run[s].net, vault, E)
      /\ E \in SUBSET Accounts /\ c \in Contracts
  BY <1>1 DEF IInv, ScriptsOK, ScriptOK, RunType, SettingsOK, RecordOK, Exists
<1>3. /\ k > 3 => v.executor # Nobody
      /\ k > 5 => E # {Deployer}
      /\ run[s].key \in E
  BY <1>1, <1>2 DEF ConfigureOK
<1>4. (k = 3 /\ checks[k] => v.executor # Nobody) /\ (k = 5 /\ checks[k] => Deployer \notin v.role)
  <2>1. (checks[3] <=> v.executor = run[s].key) /\ (checks[5] <=> Deployer \notin v.role)
    BY Zenon DEF Checks
  <2>2. run[s].key # Nobody
    BY <1>2, <1>3, DeploymentAssumption
  <2> HIDE DEF checks, v, E
  <2> QED BY <2>1, <2>2
<1>5. k = 5 /\ checks[k] => E # {Deployer}
  BY <1>2, <1>3, <1>4, DeploymentAssumption DEF IInv, VaultsOK, VaultOK
<1>6. UNCHANGED record => RecordsOK' /\ confirmed' \in [Contracts -> Nat]
  BY <1>1, RecordsStay DEF IInv, VaultsOK
<1> HIDE DEF checks
<1>7. CASE checks[k] /\ k = 7
  <2> DEFINE rec == [run[s].rec EXCEPT !.executor = run[s].key]
  <2>1. rec \in RecordType /\ rec.contract = c /\ rec.executor = run[s].key
    BY <1>2, <1>3 DEF RecordOK, RecordType
  <2> HIDE DEF rec
  <2>2. RecordOK(rec, run[s].net, vault, E)
    BY <1>2, <1>3, <1>7, <2>1 DEF RecordOK
  <2> QED BY <1>1, <1>2, <1>7, <2>2, WriteRecordKeeps DEF rec
<1>8. CASE ~checks[k]
  BY <1>1, <1>6, <1>8, IdleIsOK, SameUsedKeeps
<1>9. CASE checks[k] /\ k # 7
  <2> DEFINE r == [run[s] EXCEPT !.step = k + 1]
  <2>1. run' = [run EXCEPT ![s] = r] /\ k + 1 \in 1..7 /\ UNCHANGED record
    BY <1>1, <1>2, <1>9
  <2>2. /\ r \in RunType /\ r.script = run[s].script /\ r.pc = run[s].pc /\ r.step = k + 1
        /\ r.rec = run[s].rec /\ r.net = run[s].net /\ r.chain = run[s].chain /\ r.key = run[s].key
    BY <1>2, <2>1 DEF RunType
  <2> HIDE DEF r
  <2>3. ConfigureOK(r, vault, E)
    BY <1>1, <1>2, <1>3, <1>4, <1>5, <1>9, <2>2 DEF ConfigureOK
  <2>4. ScriptOK(r, vault, E)
    BY <1>1, <1>2, <2>2, <2>3 DEF ScriptOK
  <2> QED BY <1>1, <1>6, <2>1, <2>4, SameUsedKeeps
<1> QED BY <1>7, <1>8, <1>9

\* depositVault sends one transaction after the other.
LEMMA DepositSendKeeps ==
    ASSUME IInv, NEW s \in Terminals, DepositSend(s)
    PROVE  IInv'
<1> DEFINE E == used
           c == run[s].rec.contract
           op == DepositOps[run[s].step]
           r == [run[s] EXCEPT !.pc = "wait"]
           t == [op |-> op, contract |-> c, arg |-> Nobody, by |-> s]
<1>1. run[s].script = "deposit" /\ run[s].pc = "read" /\ Send(s, run[s], op, c, Nobody)
  BY DEF DepositSend, At, Target
<1>2. /\ run[s] \in RunType /\ ScriptOK(run[s], vault, E) /\ run[s].step \in 1..3
      /\ run[s].chain \in Chains /\ Exists(vault, c) /\ c \in Contracts
  BY <1>1 DEF IInv, ScriptsOK, ScriptOK, RecordOK, Exists
<1>3. /\ run[s].step = 1 => op = "wrap"
      /\ run[s].step = 2 => op = "approve"
      /\ run[s].step = 3 => op = "deposit"
  BY DEF DepositOps
<1> HIDE DEF op
<1>4. /\ r \in RunType /\ r.script = "deposit" /\ r.pc = "wait" /\ r.step = run[s].step
      /\ r.rec = run[s].rec /\ r.net = run[s].net /\ r.chain = run[s].chain /\ r.key = run[s].key
  BY <1>1, <1>2 DEF RunType
<1>5. t \in TxType /\ t.op = op /\ t.contract = c
  BY <1>2, <1>3 DEF TxType
<1>6. r = [run[s] EXCEPT !.pc = "wait"]
  OBVIOUS
<1>7. t = [op |-> op, contract |-> c, arg |-> Nobody, by |-> s]
  OBVIOUS
<1> HIDE DEF r, t
<1>8. ScriptOK(r, vault, E)
  BY <1>1, <1>2, <1>4 DEF ScriptOK
<1>9. TxOK(t, vault, E)
  BY <1>2, <1>3, <1>5 DEF TxOK
<1>10. Awaited(t, run[s].chain, r)
  BY <1>2, <1>3, <1>4, <1>5 DEF Awaited
<1>11. run[s].pc # "wait"
  BY <1>1
<1> QED BY <1>1, <1>2, <1>6, <1>7, <1>8, <1>9, <1>10, <1>11, SendKeeps

\* depositVault reports.
LEMMA DepositCheckKeeps ==
    ASSUME IInv, NEW s \in Terminals, DepositCheck(s)
    PROVE  IInv'
<1>1. /\ run[s].pc = "check" /\ run' = [run EXCEPT ![s] = Idle]
      /\ UNCHANGED <<scene, used, vault, pending, weth, record>>
  BY DEF DepositCheck, At, chain
<1>2. RecordsOK'
  BY <1>1, RecordsStay
<1>3. confirmed' \in [Contracts -> Nat]
  <2>1. confirmed \in [Contracts -> Nat]
    BY DEF IInv, VaultsOK
  <2>2. \/ confirmed' = confirmed
        \/ confirmed' = [confirmed EXCEPT ![Target(s)] = confirmed[Target(s)] + 1]
    BY DEF DepositCheck
  <2> QED BY <2>1, <2>2
<1> QED BY <1>1, <1>2, <1>3, IdleIsOK, SameUsedKeeps

\* The invariant is kept by every step.
LEMMA DeploymentStep ==
    ASSUME IInv, [Next]_vars
    PROVE  IInv'
<1>1. ASSUME NEW s \in Terminals, Script(s) PROVE IInv'
  <2>1. ASSUME NEW site \in Sites, NEW a \in Accounts, Deploy(s, site, a) PROVE IInv'
    BY <2>1, DeployKeeps
  <2> QED BY <1>1, <2>1, StartsKeep, DeployRecordKeeps, ConfigureReadKeeps, ConfigureSendKeeps,
             ConfigureCheckKeeps, VerifyWriteKeeps, DepositSendKeeps, DepositCheckKeeps, AbortKeeps
          DEF Script
<1>2. ASSUME NEW n \in Chains, Mine(n) PROVE IInv'
  BY <1>2, MineKeeps
<1>3. ASSUME NEW c \in Contracts, NEW b \in BOOLEAN, SetPaused(c, b) PROVE IInv'
  <2>1. c \in Contracts
    BY DeploymentAssumption DEF Contracts
  <2> QED BY <1>3, <2>1, PauseKeeps
<1>4. CASE UNCHANGED vars
  BY <1>4 DEF vars, IInv, SettingsOK, VaultsOK, RecordsOK, ScriptsOK, PendingOK, Fits
<1> QED BY <1>1, <1>2, <1>3, <1>4 DEF Next

---------------------------------------------------------------------------
(* Deposits. *)

\* Scripts are finitely many, so those that report can be counted.
LEMMA ReportingIsFinite ==
    \A c : /\ IsFiniteSet(Reporting(c)) /\ Cardinality(Reporting(c)) \in Nat
           /\ IsFiniteSet(Reporting(c)') /\ Cardinality(Reporting(c)') \in Nat
<1> SUFFICES ASSUME NEW c
             PROVE  /\ IsFiniteSet(Reporting(c)) /\ Cardinality(Reporting(c)) \in Nat
                    /\ IsFiniteSet(Reporting(c)') /\ Cardinality(Reporting(c)') \in Nat
  OBVIOUS
<1>1. Reporting(c) \in SUBSET Terminals /\ Reporting(c)' \in SUBSET Terminals
  BY DEF Reporting
<1>2. IsFiniteSet(Reporting(c)) /\ IsFiniteSet(Reporting(c)')
  BY <1>1, DeploymentAssumption, FS_Subset
<1> QED BY <1>2, FS_CardinalityType

\* A step that makes nobody report and takes no deposit back.
LEMMA QuietKeeps ==
    ASSUME IInv, DepositsOK, UNCHANGED confirmed,
           \A c \in Contracts : /\ vault'[c].balance \in Nat /\ vault'[c].balance >= vault[c].balance
                                /\ Reporting(c)' \subseteq Reporting(c)
    PROVE  DepositsOK'
<1> SUFFICES ASSUME NEW c \in Contracts
             PROVE  confirmed'[c] + Cardinality(Reporting(c)') <= vault'[c].balance
  BY DEF DepositsOK
<1>1. /\ confirmed[c] \in Nat /\ vault[c].balance \in Nat /\ confirmed' = confirmed
      /\ confirmed[c] + Cardinality(Reporting(c)) <= vault[c].balance
  BY DEF DepositsOK, IInv, VaultsOK, VaultType
<1>2. Cardinality(Reporting(c)') <= Cardinality(Reporting(c))
  BY ReportingIsFinite, FS_Subset
<1> QED BY <1>1, <1>2, ReportingIsFinite

\* A terminal whose script does not report adds nothing to the count.
LEMMA SilentStep ==
    ASSUME IInv, NEW s \in Terminals, NEW r, ~Reports(r), run' = [run EXCEPT ![s] = r]
    PROVE  \A c \in Contracts : Reporting(c)' \subseteq Reporting(c)
BY DEF IInv, ScriptsOK, Reporting

\* No script but depositVault reports, and it does so after its last receipt.
LEMMA ScriptKeepsDeposits ==
    ASSUME IInv, DepositsOK, NEW s \in Terminals, Script(s), ~DepositCheck(s)
    PROVE  DepositsOK'
<1>0. run[s] \in RunType
  BY DEF IInv, ScriptsOK
<1>1. ASSUME NEW r, ~Reports(r), run' = [run EXCEPT ![s] = r], UNCHANGED <<vault, confirmed>>
      PROVE  DepositsOK'
  <2>1. \A c \in Contracts : vault'[c].balance \in Nat /\ vault'[c].balance >= vault[c].balance
    BY <1>1 DEF IInv, VaultsOK, VaultType
  <2> QED BY <1>1, <2>1, SilentStep, QuietKeeps
<1>2. ~Reports(Idle)
  BY DEF Reports, Idle
<1>3. ASSUME NEW w \in RunType, NEW op, NEW c, NEW arg, Send(s, w, op, c, arg) PROVE DepositsOK'
  <2> DEFINE r == [w EXCEPT !.pc = "wait"]
  <2>1. ~Reports(r)
    BY <1>3 DEF Reports, RunType
  <2>2. run' = [run EXCEPT ![s] = r] /\ UNCHANGED <<vault, confirmed>>
    BY <1>3 DEF Send
  <2> HIDE DEF r
  <2> QED BY <1>1, <2>1, <2>2
<1>4. ASSUME NEW site \in Sites, NEW admin \in Accounts, Deploy(s, site, admin) PROVE DepositsOK'
  <2> DEFINE net == IF DryRun(site) THEN "localhost" ELSE "sepolia"
             w == [Idle EXCEPT !.script = "deploy", !.chain = site.chain, !.key = admin, !.net = net]
  <2>1. Send(s, w, "create", NoContract, admin)
    BY <1>4 DEF Deploy
  <2>2. net \in Networks /\ site.chain \in Chains
    BY DEF Networks, Sites
  <2> HIDE DEF net
  <2>3. w \in RunType
    BY <2>2, IdleFields DEF RunType
  <2> HIDE DEF w
  <2> QED BY <1>3, <2>1, <2>3
<1>5. ASSUME NEW script, NEW next, next.pc # "check", Start(s, script, next),
             [next EXCEPT !.script = script].pc = next.pc
      PROVE  DepositsOK'
  <2> DEFINE r == [next EXCEPT !.script = script]
  <2>1. ~Reports(r)
    BY <1>5 DEF Reports
  <2>2. run' = [run EXCEPT ![s] = r] /\ UNCHANGED <<vault, confirmed>>
    BY <1>5 DEF Start, chain
  <2> HIDE DEF r
  <2> QED BY <1>1, <2>1, <2>2
<1>6. ASSUME NEW site \in Sites, NEW a \in Accounts, StartConfigure(s, site, a) PROVE DepositsOK'
  <2> DEFINE next == [Idle EXCEPT !.pc = "read", !.net = site.net, !.chain = site.chain,
                                  !.rec = record[site.net], !.key = a]
  <2>1. next.pc = "read" /\ [next EXCEPT !.script = "configure"].pc = next.pc
    BY DEF Idle
  <2>2. Start(s, "configure", next)
    BY <1>6 DEF StartConfigure
  <2> HIDE DEF next
  <2> QED BY <1>5, <2>1, <2>2
<1>7. ASSUME NEW site \in Sites, StartDeposit(s, site) PROVE DepositsOK'
  <2> DEFINE next == [Idle EXCEPT !.pc = "read", !.chain = site.chain, !.rec = record["sepolia"]]
  <2>1. next.pc = "read" /\ [next EXCEPT !.script = "deposit"].pc = next.pc
    BY DEF Idle
  <2>2. Start(s, "deposit", next)
    BY <1>7 DEF StartDeposit
  <2> HIDE DEF next
  <2> QED BY <1>5, <2>1, <2>2
<1>8. ASSUME NEW net \in Networks, StartVerify(s, net) PROVE DepositsOK'
  <2> DEFINE next == [Idle EXCEPT !.pc = "etherscan", !.net = net, !.rec = record[net]]
  <2>1. next.pc = "etherscan" /\ [next EXCEPT !.script = "verify"].pc = next.pc
    BY DEF Idle
  <2>2. Start(s, "verify", next)
    BY <1>8 DEF StartVerify
  <2> HIDE DEF next
  <2> QED BY <1>5, <2>1, <2>2
<1>9. ASSUME NEW a \in Accounts, StartWorker(s, a) PROVE DepositsOK'
  <2> DEFINE next == [Idle EXCEPT !.pc = "started", !.key = a, !.rec = record["sepolia"]]
  <2>1. next.pc = "started" /\ [next EXCEPT !.script = "worker"].pc = next.pc
    BY DEF Idle
  <2>2. Start(s, "worker", next)
    BY <1>9 DEF StartWorker
  <2> HIDE DEF next
  <2> QED BY <1>5, <2>1, <2>2
<1>10. CASE DeployRecord(s) \/ VerifyWrite(s) \/ Abort(s)
  BY <1>1, <1>2, <1>10 DEF DeployRecord, VerifyWrite, Abort, chain
<1>11. CASE ConfigureSend(s) \/ DepositSend(s)
  BY <1>0, <1>3, <1>11 DEF ConfigureSend, DepositSend
<1>12. ASSUME NEW r, run' = [run EXCEPT ![s] = r], r.script = "configure", UNCHANGED <<vault, confirmed>>
       PROVE  DepositsOK'
  BY <1>1, <1>12 DEF Reports
<1>13. CASE ConfigureRead(s)
  <2> DEFINE r == IF ~AlreadySet(vault[Target(s)], Writes(run[s].key)[run[s].step]) THEN [run[s] EXCEPT !.pc = "send"]
                  ELSE IF run[s].step = 3 THEN [run[s] EXCEPT !.pc = "check", !.step = 1]
                  ELSE [run[s] EXCEPT !.step = @ + 1]
  <2>1. run' = [run EXCEPT ![s] = r] /\ UNCHANGED <<vault, confirmed>> /\ run[s].script = "configure"
    BY <1>13 DEF ConfigureRead, chain, At
  <2>2. r.script = run[s].script
    BY <1>0 DEF RunType
  <2> HIDE DEF r
  <2> QED BY <1>12, <2>1, <2>2
<1>14. CASE ConfigureCheck(s)
  <2> DEFINE r == [run[s] EXCEPT !.step = run[s].step + 1]
  <2>1. /\ run' = [run EXCEPT ![s] = Idle] \/ run' = [run EXCEPT ![s] = r]
        /\ UNCHANGED <<vault, confirmed>> /\ run[s].script = "configure"
    BY <1>14 DEF ConfigureCheck, chain, At
  <2>2. r.script = run[s].script
    BY <1>0 DEF RunType
  <2> HIDE DEF r
  <2> QED BY <1>1, <1>2, <1>12, <2>1, <2>2
<1> QED BY <1>4, <1>6, <1>7, <1>8, <1>9, <1>10, <1>11, <1>13, <1>14 DEF Script

\* A report is made of a deposit that nobody else reports.
LEMMA ReportKeepsDeposits ==
    ASSUME IInv, DepositsOK, NEW s \in Terminals, DepositCheck(s)
    PROVE  DepositsOK'
<1>1. /\ run[s].script = "deposit" /\ run[s].pc = "check" /\ run' = [run EXCEPT ![s] = Idle]
      /\ UNCHANGED vault
  BY DEF DepositCheck, At, chain
<1>2. PICK c \in Contracts : c = run[s].rec.contract
  BY <1>1 DEF IInv, ScriptsOK, ScriptOK, RecordOK, Exists
<1>3. s \in Reporting(c) /\ Reporting(c)' = Reporting(c) \ {s}
  BY <1>1, <1>2 DEF Reporting, Reports, Idle, IInv, ScriptsOK
<1>4. \A k \in Contracts : k # c => Reporting(k)' = Reporting(k)
  BY <1>1, <1>2 DEF Reporting, Reports, Idle, IInv, ScriptsOK
<1>5. Cardinality(Reporting(c)') = Cardinality(Reporting(c)) - 1
  BY <1>3, ReportingIsFinite, FS_RemoveElement
<1>6. \A k \in Contracts : /\ confirmed[k] \in Nat /\ vault[k].balance \in Nat
                           /\ confirmed[k] + Cardinality(Reporting(k)) <= vault[k].balance
  BY DEF DepositsOK, IInv, VaultsOK, VaultType
<1>7. \A k \in Contracts : confirmed'[k] = confirmed[k] \/ (k = c /\ confirmed'[k] = confirmed[k] + 1)
  BY <1>2 DEF DepositCheck, Target, IInv, VaultsOK
<1> SUFFICES ASSUME NEW k \in Contracts
             PROVE  confirmed'[k] + Cardinality(Reporting(k)') <= vault'[k].balance
  BY DEF DepositsOK
<1>8. CASE k = c
  BY <1>1, <1>5, <1>6, <1>7, <1>8, ReportingIsFinite
<1>9. CASE k # c
  BY <1>1, <1>4, <1>6, <1>7, <1>9
<1> QED BY <1>8, <1>9

\* A script comes to report by the receipt of a deposit that was made.
LEMMA MineKeepsDeposits ==
    ASSUME IInv, DepositsOK, NEW n \in Chains, Mine(n)
    PROVE  DepositsOK'
<1> DEFINE t == Head(pending[n])
           c == IF t.op = "create" THEN NewAddress ELSE t.contract
<1>1. /\ pending[n] # << >> /\ pending' = [pending EXCEPT ![n] = Tail(@)]
      /\ UNCHANGED <<used, confirmed>>
  BY DEF Mine
<1>2. t = pending[n][1] /\ 1 \in 1..Len(pending[n])
  BY <1>1, TailKeeps
<1>3. /\ TxOK(t, vault, used) /\ t \in TxType
      /\ t.by # NoTerminal => Awaited(t, n, run[t.by]) /\ t.by \in Terminals /\ run[t.by] \in RunType
  BY <1>2 DEF IInv, PendingOK, TxOK, TxType, ScriptsOK
<1>4. t.op # "create" => c = t.contract
  OBVIOUS
<1>5. PICK ok \in BOOLEAN :
          /\ Tell(t, ok, c)
          /\ ok => /\ Succeeds(t, c) /\ vault' = [vault EXCEPT ![c] = Effect(t, n, c)]
                   /\ weth' = CASE t.op = "wrap"    -> weth + 1
                                [] t.op = "deposit" -> weth - 1
                                [] OTHER            -> weth
          /\ ~ok => UNCHANGED <<vault, weth>>
  BY DEF Mine
<1> HIDE DEF t, c
<1>6. \A k \in Contracts : confirmed[k] \in Nat /\ vault[k].balance \in Nat
  BY DEF IInv, VaultsOK, VaultType
<1>7. /\ ok => /\ c \in Contracts
               /\ \A k \in Contracts : vault'[k].balance = IF k = c /\ t.op = "deposit" THEN vault[k].balance + 1
                                                           ELSE vault[k].balance
      /\ ~ok => vault' = vault
  BY <1>1, <1>3, <1>4, <1>5, EffectGrows
<1>8. \A k \in Contracts : vault'[k].balance \in Nat /\ vault'[k].balance >= vault[k].balance
  BY <1>6, <1>7
<1>9. CASE t.by = NoTerminal
  <2>1. \A k \in Contracts : Reporting(k)' \subseteq Reporting(k)
    BY <1>5, <1>9 DEF Tell, Reporting
  <2> QED BY <1>1, <1>8, <2>1, QuietKeeps
<1>10. ASSUME t.by # NoTerminal, ~Reports(AfterReceipt(run[t.by], ok, c)) PROVE DepositsOK'
  <2>1. run' = [run EXCEPT ![t.by] = AfterReceipt(run[t.by], ok, c)]
    BY <1>5, <1>10 DEF Tell
  <2> QED BY <1>1, <1>3, <1>8, <1>10, <2>1, SilentStep, QuietKeeps
<1>11. ASSUME t.by # NoTerminal, ~ok \/ t.op # "deposit" PROVE ~Reports(AfterReceipt(run[t.by], ok, c))
  <2> DEFINE r == run[t.by]
  <2>1. r \in RunType /\ Awaited(t, n, r)
    BY <1>3, <1>11
  <2>2. CASE ~ok
    BY <2>2 DEF AfterReceipt, Reports, Idle
  <2>3. CASE ok /\ r.script \in {"deploy", "configure"}
    BY <2>1, <2>3 DEF AfterReceipt, Reports, RunType
  <2>4. CASE ok /\ r.script = "deposit" /\ r.step # 3
    BY <2>1, <2>4 DEF AfterReceipt, Reports, RunType
  <2> QED BY <1>11, <2>1, <2>2, <2>3, <2>4 DEF Awaited
<1>12. CASE ok /\ t.by # NoTerminal /\ t.op = "deposit"
  <2>1. PICK s \in Terminals, k \in Contracts : s = t.by /\ k = c
    BY <1>3, <1>7, <1>12
  <2> DEFINE r == [run[s] EXCEPT !.pc = "check", !.step = 1]
  <2>2. /\ run[s].script = "deposit" /\ run[s].step = 3 /\ run[s].pc = "wait"
        /\ run[s].rec.contract = k
    BY <1>3, <1>4, <1>12, <2>1 DEF Awaited
  <2>3. run' = [run EXCEPT ![s] = r]
    BY <1>5, <1>12, <2>1, <2>2 DEF Tell, AfterReceipt
  <2>4. Reports(r) /\ r.rec.contract = k
    BY <1>3, <1>12, <2>1, <2>2 DEF Reports, RunType
  <2> HIDE DEF r
  <2>5. run'[s] = r /\ \A q \in Terminals : q # s => run'[q] = run[q]
    BY <2>3 DEF IInv, ScriptsOK
  <2>6. Reporting(k)' = Reporting(k) \cup {s} /\ s \notin Reporting(k)
    BY <2>2, <2>4, <2>5 DEF Reporting, Reports
  <2>7. \A j \in Contracts : j # k => Reporting(j)' = Reporting(j)
    BY <2>2, <2>4, <2>5 DEF Reporting, Reports
  <2>8. Cardinality(Reporting(k)') = Cardinality(Reporting(k)) + 1
    BY <2>6, ReportingIsFinite, FS_AddElement
  <2> SUFFICES ASSUME NEW j \in Contracts
               PROVE  confirmed'[j] + Cardinality(Reporting(j)') <= vault'[j].balance
    BY DEF DepositsOK
  <2>9. confirmed[j] + Cardinality(Reporting(j)) <= vault[j].balance /\ confirmed' = confirmed
    BY <1>1 DEF DepositsOK
  <2>10. CASE j = k
    BY <1>6, <1>7, <1>12, <2>1, <2>8, <2>9, <2>10, ReportingIsFinite
  <2>11. CASE j # k
    BY <1>6, <1>7, <1>12, <2>1, <2>7, <2>9, <2>11
  <2> QED BY <2>10, <2>11
<1> QED BY <1>9, <1>10, <1>11, <1>12

\* Every step keeps the count.
LEMMA DepositsStep ==
    ASSUME IInv, DepositsOK, [Next]_vars
    PROVE  DepositsOK'
<1>1. ASSUME NEW c \in Contracts, NEW b \in BOOLEAN, SetPaused(c, b) PROVE DepositsOK'
  <2>1. \A k \in Contracts : vault'[k].balance = vault[k].balance /\ vault[k].balance \in Nat
    BY <1>1 DEF SetPaused, IInv, VaultsOK, VaultType
  <2>2. \A k \in Contracts : Reporting(k)' \subseteq Reporting(k)
    BY <1>1 DEF SetPaused, Reporting
  <2>3. UNCHANGED confirmed
    BY <1>1 DEF SetPaused
  <2> QED BY <2>1, <2>2, <2>3, QuietKeeps
<1>2. CASE UNCHANGED vars
  BY <1>2 DEF vars, DepositsOK, Reporting
<1> QED BY <1>1, <1>2, ScriptKeepsDeposits, ReportKeepsDeposits, MineKeepsDeposits DEF Next

---------------------------------------------------------------------------
(* The theorems. *)

\* The invariants hold.
LEMMA DeploymentHolds == Spec => [](IInv /\ DepositsOK)
<1>1. Init => DepositsOK
  <2> SUFFICES ASSUME Init PROVE DepositsOK
    OBVIOUS
  <2>1. \A c \in Contracts : Reporting(c) = {}
    BY DEF Init, Reporting, Reports, Idle
  <2>2. \A c \in Contracts : confirmed[c] = 0 /\ vault[c].balance \in Nat
    BY DeploymentInit DEF Init, IInv, VaultsOK, VaultType
  <2> QED BY <2>1, <2>2, FS_EmptySet DEF DepositsOK
<1>2. IInv /\ DepositsOK /\ [Next]_vars => (IInv /\ DepositsOK)'
  BY DeploymentStep, DepositsStep
<1> QED BY <1>1, <1>2, DeploymentInit, PTL DEF Spec

\* The scripts' state keeps its shape: no allowance, balance or step leaves its
\* range, and every transaction that is mined finds the contract it was sent to.
THEOREM DeploymentTypeCorrect == Spec => []TypeOK
<1>1. IInv => TypeOK
  BY DEF IInv, SettingsOK, VaultsOK, RecordsOK, ScriptsOK, PendingOK, Fits, TxOK, TypeOK
<1> QED BY <1>1, DeploymentHolds, PTL

\* A contract has no executor before both tokens are listed, though configure
\* decides each of its writes on what it read before, may be interrupted with a
\* transaction pending, and runs in several terminals.
THEOREM DeploymentExecutorLast == Spec => []ExecutorLast
<1>1. IInv => ExecutorLast
  BY DEF IInv, VaultsOK, VaultOK, ExecutorLast, Both
<1> QED BY <1>1, DeploymentHolds, PTL

\* A deployment record names a contract of its network, and one that names an
\* executor stands for a contract that is configured, whichever script wrote it
\* last; the executor is the recorded one, and not the deployer, as long as
\* configure has been run for no other.
THEOREM DeploymentRecordTellsTruth == Spec => []RecordTellsTruth
<1>1. IInv => RecordTellsTruth
  <2> SUFFICES ASSUME IInv, NEW n \in Networks, record[n] # NoRecord
               PROVE  /\ Live(record[n].contract)
                      /\ vault[record[n].contract].chain = (IF n = "sepolia" THEN "sepolia" ELSE "hardhat")
                      /\ record[n].executor # Nobody =>
                            Configured(record[n].contract) /\ record[n].executor \in used
                      /\ record[n].executor # Nobody /\ used = {record[n].executor} =>
                            /\ vault[record[n].contract].executor = record[n].executor
                            /\ Deployer \notin vault[record[n].contract].role
    BY DEF RecordTellsTruth, NoRecord
  <2> DEFINE c == record[n].contract
             x == record[n].executor
  <2>1. RecordOK(record[n], n, vault, used) /\ used \in SUBSET Accounts
    BY DEF IInv, RecordsOK, SettingsOK
  <2>2. /\ c \in Contracts /\ vault[c].chain # "none" /\ vault[c].chain = NetChain(n)
        /\ x # Nobody => vault[c].executor # Nobody /\ x \in used /\ used # {Deployer}
    BY <2>1 DEF RecordOK, Exists
  <2>3. c # NoContract
    BY <2>2, DeploymentAssumption DEF Contracts, NoContract
  <2>4. VaultOK(vault[c], used)
    BY <2>2 DEF IInv, VaultsOK
  <2>5. x # Nobody => Configured(c)
    BY <2>2, <2>4 DEF Configured, VaultOK, Both
  <2>6. x # Nobody /\ used = {x} => vault[c].executor = x /\ Deployer \notin vault[c].role
    BY <2>2, <2>4 DEF VaultOK
  <2> QED BY <2>2, <2>3, <2>5, <2>6 DEF Live, NetChain
<1> QED BY <1>1, DeploymentHolds, PTL

\* depositVault confirms no more deposits than were made into a contract,
\* however many run at once and die at any point, though it only compares a balance.
THEOREM DeploymentDepositsAreReal == Spec => []DepositsAreReal
<1>1. IInv /\ DepositsOK => DepositsAreReal
  <2> SUFFICES ASSUME IInv, DepositsOK, NEW c \in Contracts PROVE confirmed[c] <= vault[c].balance
    BY DEF DepositsAreReal
  <2>1. confirmed[c] \in Nat /\ vault[c].balance \in Nat
    BY DEF IInv, VaultsOK, VaultType
  <2> QED BY <2>1, ReportingIsFinite DEF DepositsOK
<1> QED BY <1>1, DeploymentHolds, PTL

\* The worker's start-up check compares executor() and the contract enforces
\* EXECUTOR_ROLE: a running worker holds the role exactly as long as its key is
\* the executor, and loses it to no other cause than a rotation.
THEOREM DeploymentWorkerAuthorised == Spec => []WorkerAuthorised
<1>1. IInv => WorkerAuthorised
  <2> SUFFICES ASSUME IInv, NEW s \in Terminals, run[s].script = "worker"
               PROVE  LET v == vault[run[s].rec.contract]  key == run[s].key IN
                      /\ key \in v.role <=> v.executor = key
                      /\ key \in v.role \/ used # {key}
    BY DEF WorkerAuthorised
  <2> DEFINE v == vault[run[s].rec.contract]
             key == run[s].key
  <2>1. /\ run[s].rec.contract \in Contracts /\ key \in used /\ used \in SUBSET Accounts
        /\ v.executor # Nobody
    BY DEF IInv, ScriptsOK, ScriptOK, Exists, SettingsOK
  <2>2. VaultOK(v, used)
    BY <2>1 DEF IInv, VaultsOK
  <2>3. v.role = {v.executor} /\ v.executor \in used
    BY <2>1, <2>2 DEF VaultOK
  <2> QED BY <2>3
<1> QED BY <1>1, DeploymentHolds, PTL

\* Every step lets the contracts grow.
LEMMA ContractsGrow ==
    ASSUME IInv, [Next]_vars
    PROVE  Grown(vault, vault')
<1>1. ASSUME UNCHANGED vault PROVE Grown(vault, vault')
  BY <1>1 DEF Grown
<1>2. ASSUME NEW s \in Terminals, Script(s) PROVE UNCHANGED vault
  <2>1. ASSUME NEW site \in Sites, NEW a \in Accounts, Deploy(s, site, a) \/ StartConfigure(s, site, a)
        PROVE  UNCHANGED vault
    BY <2>1 DEF Deploy, Send, StartConfigure, Start, chain
  <2>2. ASSUME NEW site \in Sites, StartDeposit(s, site) PROVE UNCHANGED vault
    BY <2>2 DEF StartDeposit, Start, chain
  <2>3. ASSUME NEW net \in Networks, StartVerify(s, net) PROVE UNCHANGED vault
    BY <2>3 DEF StartVerify, Start, chain
  <2>4. ASSUME NEW a \in Accounts, StartWorker(s, a) PROVE UNCHANGED vault
    BY <2>4 DEF StartWorker, Start, chain
  <2>5. CASE ConfigureSend(s) \/ DepositSend(s) \/ Abort(s)
    BY <2>5 DEF ConfigureSend, DepositSend, Send, Abort
  <2>6. CASE \/ DeployRecord(s) \/ ConfigureRead(s) \/ ConfigureCheck(s)
            \/ VerifyWrite(s) \/ DepositCheck(s)
    BY <2>6 DEF DeployRecord, ConfigureRead, ConfigureCheck, VerifyWrite, DepositCheck, chain
  <2> QED BY <1>2, <2>1, <2>2, <2>3, <2>4, <2>5, <2>6 DEF Script
<1>3. ASSUME NEW n \in Chains, Mine(n) PROVE Grown(vault, vault')
  BY <1>3, MineKeeps
<1>4. ASSUME NEW c \in Contracts, NEW b \in BOOLEAN, SetPaused(c, b) PROVE Grown(vault, vault')
  <2>1. vault' = [vault EXCEPT ![c].paused = b] /\ vault \in [Contracts -> VaultType]
    BY <1>4 DEF SetPaused, IInv, VaultsOK
  <2>2. ASSUME NEW k \in Contracts
        PROVE  /\ vault'[k].chain = vault[k].chain /\ vault'[k].listed = vault[k].listed
               /\ vault'[k].executor = vault[k].executor
    BY <2>1 DEF VaultType
  <2> QED BY <2>2 DEF Grown
<1> QED BY <1>1, <1>2, <1>3, <1>4 DEF Next, vars

\* Configuring is never undone: scripts that are run again or side by side, for
\* the same executor or another, and transactions of scripts that died long ago
\* leave a configured contract configured, with one executor in its role.
ConfiguredStays == [][\A c \in Contracts : Configured(c) => Configured(c)']_vars

\* No script, however often it is run, interrupted or raced by another, and no
\* transaction that is mined long after its script died takes a listed token from
\* a contract that is configured, or leaves it without an executor or with two
\* accounts that may trade.
THEOREM DeploymentConfiguredStays == Spec => ConfiguredStays
<1>1. ASSUME IInv, [Next]_vars, NEW c \in Contracts, Configured(c) PROVE Configured(c)'
  <2>1. vault[c].executor # Nobody /\ vault[c].chain # "none"
    BY <1>1 DEF Configured, IInv, VaultsOK, VaultOK, Fresh
  <2>2. vault'[c].executor # Nobody
    BY <1>1, <2>1, ContractsGrow DEF Grown, Exists
  <2>3. VaultOK(vault'[c], used')
    BY <1>1, DeploymentStep DEF IInv, VaultsOK
  <2> QED BY <2>2, <2>3 DEF Configured, VaultOK, Both
<1>2. IInv /\ [Next]_vars => [\A c \in Contracts : Configured(c) => Configured(c)']_vars
  BY <1>1
<1> QED BY <1>2, DeploymentHolds, PTL DEF Spec, ConfiguredStays
=============================================================================
