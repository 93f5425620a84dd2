---------------------------- MODULE Vault_proofs ----------------------------
(***************************************************************************)
(* What the vault guarantees for any number of users, tokens, ids and      *)
(* keys, and for amounts and holdings of any size.                         *)
(***************************************************************************)
EXTENDS Vault, FiniteSetTheorems, WellFoundedInduction, TLAPS

\* The state keeps its shape: in particular no balance, total or holding of
\* the contract ever goes below zero.
THEOREM VaultTypeCorrect == Spec => []TypeOK
<1>1. Init => TypeOK
  <2> SUFFICES ASSUME Init PROVE TypeOK
    OBVIOUS
  <2>1. balances \in [Users -> [Tokens -> Nat]]
    BY DEF Init
  <2>2. totalAccounted \in [Tokens -> Nat] /\ held \in [Tokens -> Nat] /\ swaps \in [Ids -> Nat]
    BY DEF Init
  <2>3. maxTradeAmount \in [Tokens -> 0..MaxAmount]
    BY VaultAssumption DEF Init
  <2>4. executorRole \subseteq Keys
    BY DEF Init
  <2> QED BY <2>1, <2>2, <2>3, <2>4 DEF Init, TypeOK
<1>2. TypeOK /\ [Next]_vars => TypeOK'
  <2> SUFFICES ASSUME TypeOK, [Next]_vars PROVE TypeOK'
    OBVIOUS
  <2>1. CASE UserStep
    <3>1. ASSUME NEW u \in Users, NEW n \in Amounts, DepositETH(u, n) PROVE TypeOK'
      BY <3>1, VaultAssumption DEF DepositETH, Credit, TypeOK, Amounts, limits, replay, roles
    <3>2. ASSUME NEW u \in Users, NEW n \in Amounts, WithdrawETH(u, n) PROVE TypeOK'
      BY <3>2, VaultAssumption DEF WithdrawETH, Debit, TypeOK, Amounts, limits, replay, roles
    <3>3. ASSUME NEW u \in Users, NEW t \in Tokens, NEW n \in Amounts, Withdraw(u, t, n)
          PROVE TypeOK'
      BY <3>3, VaultAssumption DEF Withdraw, Debit, TypeOK, Amounts, limits, replay, roles
    <3>4. ASSUME NEW u \in Users, NEW t \in Tokens, NEW n \in Amounts, NEW r \in Amounts,
                 Deposit(u, t, n, r)
          PROVE TypeOK'
      BY <3>4, VaultAssumption DEF Deposit, Credit, TypeOK, Amounts, limits, replay, roles
    <3> QED BY <2>1, <3>1, <3>2, <3>3, <3>4 DEF UserStep
  <2>2. CASE SwapStep
    <3>1. ASSUME NEW s \in Keys, NEW id \in Ids, NEW u \in Users, NEW tin \in Tokens,
                 NEW tout \in Tokens, NEW expired \in BOOLEAN, NEW n \in Amounts,
                 NEW min \in 0..MaxAmount, NEW pulled \in 0..MaxAmount, NEW out \in 0..MaxAmount,
                 ExecuteSwap(s, id, u, tin, tout, n, min, expired, pulled, out)
          PROVE TypeOK'
      <4>1. balances' \in [Users -> [Tokens -> Nat]]
        BY <3>1, VaultAssumption DEF ExecuteSwap, SwapChecks, TypeOK, Amounts
      <4>2. totalAccounted' \in [Tokens -> Nat]
        BY <3>1, VaultAssumption DEF ExecuteSwap, SwapChecks, TypeOK, Amounts
      <4>3. held' \in [Tokens -> Nat]
        BY <3>1, VaultAssumption DEF ExecuteSwap, SwapChecks, TypeOK, Amounts
      <4>4. executedIds' \subseteq Ids /\ swaps' \in [Ids -> Nat]
        BY <3>1 DEF ExecuteSwap, TypeOK
      <4> QED BY <3>1, <4>1, <4>2, <4>3, <4>4 DEF ExecuteSwap, TypeOK, limits, roles
    <3> QED BY <2>2, <3>1 DEF SwapStep
  <2>3. CASE AdminStep
    <3>1. ASSUME NEW k \in Keys \cup {Nobody}, SetExecutor(k) PROVE TypeOK'
      BY <3>1 DEF SetExecutor, TypeOK, ledger, limits, replay
    <3>2. ASSUME NEW k \in Keys, GrantExecutorRole(k) \/ DropExecutorRole(k) PROVE TypeOK'
      BY <3>2 DEF GrantExecutorRole, DropExecutorRole, TypeOK, ledger, limits, replay
    <3>3. ASSUME NEW t \in Tokens, NEW max \in Amounts,
                 SetTokenAllowed(t, max) \/ SetMaxTradeAmount(t, max)
          PROVE TypeOK'
      BY <3>3, VaultAssumption
      DEF SetTokenAllowed, SetMaxTradeAmount, TypeOK, Amounts, ledger, replay, roles
    <3>4. ASSUME NEW t \in Tokens, RemoveToken(t) PROVE TypeOK'
      BY <3>4, VaultAssumption DEF RemoveToken, TypeOK, ledger, replay, roles
    <3>5. ASSUME NEW t \in Tokens, SweepUnaccounted(t) PROVE TypeOK'
      BY <3>5 DEF SweepUnaccounted, UnaccountedBalance, TypeOK, limits, replay, roles
    <3>6. ASSUME Pause \/ Unpause PROVE TypeOK'
      BY <3>6 DEF Pause, Unpause, TypeOK, ledger, limits, replay, roles
    <3> QED BY <2>3, <3>1, <3>2, <3>3, <3>4, <3>5, <3>6 DEF AdminStep
  <2>4. ASSUME NEW t \in Tokens, NEW n \in Amounts, Donate(t, n) PROVE TypeOK'
    BY <2>4, VaultAssumption DEF Donate, TypeOK, Amounts, limits, replay, roles
  <2>5. CASE UNCHANGED vars
    BY <2>5 DEF vars, ledger, limits, replay, roles, TypeOK
  <2> QED BY <2>1, <2>2, <2>3, <2>4, <2>5 DEF Next
<1> QED BY <1>1, <1>2, PTL DEF Spec

---------------------------------------------------------------------------
(* Solvency.  Each call moves the vault's holding and its debt together:   *)
(* a deposit adds the same to both, a withdrawal takes the same from both, *)
(* a swap takes at most from the holding what it takes from the debt.      *)

\* The holding of every token covers the debt in it, after any calls.
THEOREM VaultSolvent == Spec => []Solvent
<1>1. Init => Solvent
  BY DEF Init, Solvent
<1>2. TypeOK /\ Solvent /\ [Next]_vars => Solvent'
  <2> SUFFICES ASSUME TypeOK, Solvent, [Next]_vars, NEW x \in Tokens
               PROVE held'[x] >= totalAccounted'[x]
    BY DEF Solvent
  <2> USE DEF TypeOK, Solvent
  <2>1. CASE UserStep
    <3>1. ASSUME NEW u \in Users, NEW n \in Amounts, DepositETH(u, n)
          PROVE held'[x] >= totalAccounted'[x]
      BY <3>1, VaultAssumption DEF DepositETH, Credit, Amounts
    <3>4. ASSUME NEW u \in Users, NEW n \in Amounts, WithdrawETH(u, n)
          PROVE held'[x] >= totalAccounted'[x]
      BY <3>4, VaultAssumption DEF WithdrawETH, Debit, Amounts
    <3>2. ASSUME NEW u \in Users, NEW t \in Tokens, NEW n \in Amounts, Withdraw(u, t, n)
          PROVE held'[x] >= totalAccounted'[x]
      BY <3>2, VaultAssumption DEF Withdraw, Debit, Amounts
    <3>3. ASSUME NEW u \in Users, NEW t \in Tokens, NEW n \in Amounts, NEW r \in Amounts,
                 Deposit(u, t, n, r)
          PROVE held'[x] >= totalAccounted'[x]
      BY <3>3, VaultAssumption DEF Deposit, Credit, Amounts
    <3> QED BY <2>1, <3>1, <3>2, <3>3, <3>4 DEF UserStep
  <2>2. CASE SwapStep
    BY <2>2, VaultAssumption DEF SwapStep, ExecuteSwap, SwapChecks, Amounts
  <2>3. CASE AdminStep
    <3>1. ASSUME NEW t \in Tokens, SweepUnaccounted(t) PROVE held'[x] >= totalAccounted'[x]
      BY <3>1 DEF SweepUnaccounted, UnaccountedBalance
    <3>2. CASE UNCHANGED ledger
      BY <3>2 DEF ledger
    <3> QED BY <2>3, <3>1, <3>2
        DEF AdminStep, SetExecutor, GrantExecutorRole, DropExecutorRole, SetTokenAllowed,
            SetMaxTradeAmount, RemoveToken, Pause, Unpause
  <2>4. ASSUME NEW t \in Tokens, NEW n \in Amounts, Donate(t, n)
        PROVE held'[x] >= totalAccounted'[x]
    BY <2>4, VaultAssumption DEF Donate, Amounts
  <2>5. CASE UNCHANGED vars
    BY <2>5 DEF vars, ledger
  <2> QED BY <2>1, <2>2, <2>3, <2>4, <2>5 DEF Next
<1> QED BY <1>1, <1>2, VaultTypeCorrect, PTL DEF Spec

---------------------------------------------------------------------------
(* The allowlist and the limits. *)

\* A token is allowlisted exactly when it has a trade limit.
THEOREM VaultListedMeansLimited == Spec => []ListedMeansLimited
<1>1. Init => ListedMeansLimited
  BY DEF Init, ListedMeansLimited
<1>2. TypeOK /\ ListedMeansLimited /\ [Next]_vars => ListedMeansLimited'
  <2> SUFFICES ASSUME TypeOK, ListedMeansLimited, [Next]_vars PROVE ListedMeansLimited'
    OBVIOUS
  <2>1. ASSUME NEW t \in Tokens, NEW max \in Amounts,
               SetTokenAllowed(t, max) \/ SetMaxTradeAmount(t, max)
        PROVE ListedMeansLimited'
    BY <2>1 DEF SetTokenAllowed, SetMaxTradeAmount, ListedMeansLimited, TypeOK, Amounts
  <2>2. ASSUME NEW t \in Tokens, RemoveToken(t) PROVE ListedMeansLimited'
    BY <2>2 DEF RemoveToken, ListedMeansLimited, TypeOK
  <2>3. CASE UNCHANGED limits
    BY <2>3 DEF limits, ListedMeansLimited
  <2>4. CASE AdminStep
    BY <2>1, <2>2, <2>3, <2>4
    DEF AdminStep, SetExecutor, GrantExecutorRole, DropExecutorRole, SweepUnaccounted, Pause, Unpause
  <2>5. UserStep \/ (\E t \in Tokens, n \in Amounts : Donate(t, n)) => UNCHANGED limits
    BY DEF UserStep, Deposit, DepositETH, Withdraw, WithdrawETH, Donate
  <2>6. CASE SwapStep
    <3>1. ASSUME NEW s \in Keys, NEW id \in Ids, NEW u \in Users, NEW tin \in Tokens,
                 NEW tout \in Tokens, NEW expired \in BOOLEAN, NEW n \in Amounts,
                 NEW min \in 0..MaxAmount, NEW pulled \in 0..MaxAmount, NEW out \in 0..MaxAmount,
                 ExecuteSwap(s, id, u, tin, tout, n, min, expired, pulled, out)
          PROVE UNCHANGED limits
      BY <3>1 DEF ExecuteSwap
    <3> QED BY <2>3, <2>6, <3>1 DEF SwapStep
  <2> QED BY <2>3, <2>4, <2>5, <2>6 DEF Next, vars
<1> QED BY <1>1, <1>2, VaultTypeCorrect, PTL DEF Spec

---------------------------------------------------------------------------
(* Sums of claims.  The library's fold over a set is a recursive function; *)
(* what it computes is settled by a smallest counterexample: a family of   *)
(* sets of users in which a claim about the sums fails would have a member *)
(* that loses the property when any one user is taken out.                 *)

\* The user a sum takes out of a set first.
Pick(s) == CHOOSE x \in s : TRUE

\* It is one of the set.
LEMMA PickIn == ASSUME NEW s \in SUBSET Users, s # {} PROVE Pick(s) \in s /\ Pick(s) \in Users
BY DEF Pick

\* A non-empty family of subsets of a finite set has a smallest member.
LEMMA SmallestSet ==
    ASSUME NEW S, IsFiniteSet(S), NEW Bad \in SUBSET (SUBSET S), Bad # {}
    PROVE  \E s \in Bad : \A x \in s : s \ {x} \notin Bad
<1> DEFINE Sizes == {Cardinality(s) : s \in Bad}
           Less == {ss \in Nat \X Nat : ss[1] < ss[2]}
<1>1. \A s \in Bad : IsFiniteSet(s) /\ Cardinality(s) \in Nat
  BY FS_Subset, FS_CardinalityType
<1>2. Sizes \subseteq Nat /\ Sizes # {}
  BY <1>1
<1>3. IsWellFoundedOn(Less, Nat)
  BY NatLessThanWellFounded DEF OpToRel
<1> HIDE DEF Less, Sizes
<1>4. PICK n \in Sizes : \A m \in Sizes : ~ (<<m, n>> \in Less)
  BY <1>2, <1>3, WFMin, Zenon
<1>5. PICK s \in Bad : n = Cardinality(s)
  BY <1>4 DEF Sizes
<1>6. ASSUME NEW x \in s, s \ {x} \in Bad PROVE FALSE
  <2>1. Cardinality(s \ {x}) = Cardinality(s) - 1
    BY <1>1, FS_RemoveElement
  <2>2. Cardinality(s \ {x}) \in Sizes
    BY <1>6 DEF Sizes
  <2>3. <<Cardinality(s \ {x}), n>> \in Less
    BY <2>1, <1>1, <1>5, <1>6 DEF Less
  <2> QED BY <2>2, <2>3, <1>4
<1> QED BY <1>6

\* g maps every set of users to the sum of f over it, by taking users out
\* one by one.
IsSums(f, g) ==
    g = [s \in SUBSET Users |-> IF s = {} THEN 0 ELSE f[Pick(s)] + g[s \ {Pick(s)}]]

\* What g is at the empty set and at any other.
LEMMA SumsEquations ==
    ASSUME NEW f, NEW g, IsSums(f, g)
    PROVE  /\ g[{}] = 0
           /\ \A s \in SUBSET Users : s # {} => g[s] = f[Pick(s)] + g[s \ {Pick(s)}]
BY DEF IsSums

\* Sums of integers are integers.
LEMMA SumsInt ==
    ASSUME IsFiniteSet(Users), NEW f \in [Users -> Int], NEW g, IsSums(f, g)
    PROVE  g \in [SUBSET Users -> Int]
<1> DEFINE Bad == {s \in SUBSET Users : g[s] \notin Int}
<1>0. g = [s \in SUBSET Users |-> g[s]]
  BY DEF IsSums
<1>1. SUFFICES ASSUME Bad # {} PROVE FALSE
  BY <1>0
<1>2. PICK s \in Bad : \A x \in s : s \ {x} \notin Bad
  BY <1>1, SmallestSet
<1>3. s # {}
  BY <1>2, SumsEquations
<1>4. Pick(s) \in s /\ Pick(s) \in Users
  BY <1>2, <1>3, PickIn
<1>5. g[s] = f[Pick(s)] + g[s \ {Pick(s)}]
  <2>1. s \in SUBSET Users
    OBVIOUS
  <2>2. \A r \in SUBSET Users : r # {} => g[r] = f[Pick(r)] + g[r \ {Pick(r)}]
    BY SumsEquations
  <2> HIDE DEF Bad
  <2> QED BY <2>1, <2>2, <1>3, Zenon
<1>6. g[s \ {Pick(s)}] \in Int /\ f[Pick(s)] \in Int
  BY <1>2, <1>4
<1>7. g[s] \notin Int
  BY <1>2
<1> QED BY <1>5, <1>6, <1>7

\* There is only one such g.
LEMMA SumsUnique ==
    ASSUME IsFiniteSet(Users), NEW f \in [Users -> Int], NEW g, IsSums(f, g), NEW h, IsSums(f, h)
    PROVE  g = h
<1> DEFINE Bad == {s \in SUBSET Users : g[s] # h[s]}
<1>1. SUFFICES ASSUME Bad # {} PROVE FALSE
  BY DEF IsSums
<1>2. PICK s \in Bad : \A x \in s : s \ {x} \notin Bad
  BY <1>1, SmallestSet
<1>3. s # {} /\ g[s] = f[Pick(s)] + g[s \ {Pick(s)}] /\ h[s] = f[Pick(s)] + h[s \ {Pick(s)}]
  BY <1>2 DEF IsSums
<1>4. Pick(s) \in s /\ Pick(s) \in Users
  BY <1>2, <1>3, PickIn
<1> QED BY <1>2, <1>3, <1>4

\* One entry changes by n: every sum over a set with that entry does too.
LEMMA SumsShift ==
    ASSUME IsFiniteSet(Users), NEW f \in [Users -> Int], NEW g, IsSums(f, g),
           NEW u \in Users, NEW n \in Int, NEW e \in [Users -> Int],
           \A v \in Users : e[v] = IF v = u THEN f[v] + n ELSE f[v]
    PROVE  IsSums(e, [s \in SUBSET Users |-> IF u \in s THEN g[s] + n ELSE g[s]])
<1> DEFINE h == [s \in SUBSET Users |-> IF u \in s THEN g[s] + n ELSE g[s]]
<1>1. g \in [SUBSET Users -> Int]
  BY SumsInt
<1>2. ASSUME NEW s \in SUBSET Users
      PROVE  h[s] = IF s = {} THEN 0 ELSE e[Pick(s)] + h[s \ {Pick(s)}]
  <2>1. CASE s = {}
    BY <2>1 DEF IsSums
  <2>2. CASE s # {}
    <3>1. g[s] = f[Pick(s)] + g[s \ {Pick(s)}]
      BY <2>2 DEF IsSums
    <3>2. Pick(s) \in s /\ Pick(s) \in Users
      BY <2>2, PickIn
    <3>3. g[s] \in Int /\ g[s \ {Pick(s)}] \in Int /\ f[Pick(s)] \in Int
      BY <1>1, <3>2
    <3>4. h[s \ {Pick(s)}] = IF u \in s /\ u # Pick(s) THEN g[s \ {Pick(s)}] + n ELSE g[s \ {Pick(s)}]
      OBVIOUS
    <3>5. h[s] = IF u \in s THEN g[s] + n ELSE g[s]
      OBVIOUS
    <3> HIDE DEF h
    <3>6. CASE Pick(s) = u
      BY <3>1, <3>2, <3>3, <3>4, <3>5, <3>6, <2>2
    <3>7. CASE Pick(s) # u
      BY <3>1, <3>2, <3>3, <3>4, <3>5, <3>7, <2>2
    <3> QED BY <3>6, <3>7
  <2> QED BY <2>1, <2>2
<1> DEFINE k == [s \in SUBSET Users |-> IF s = {} THEN 0 ELSE e[Pick(s)] + h[s \ {Pick(s)}]]
<1>3. h = k
  <2>1. \A s \in SUBSET Users : h[s] = k[s]
    BY <1>2
  <2> QED BY <2>1
<1> QED BY <1>3 DEF IsSums

\* There is one: the recursion that MapThenSumSet stands for is well founded.
LEMMA SumsExist ==
    ASSUME IsFiniteSet(Users), NEW f \in [Users -> Int]
    PROVE  \E g : IsSums(f, g)
<1> DEFINE Part(s) == [u \in Users |-> IF u \in s THEN f[u] ELSE 0]
           Bad == {s \in SUBSET Users : ~ \E g : IsSums(Part(s), g)}
<1>1. Part(Users) = f
  OBVIOUS
<1>2. SUFFICES ASSUME Bad # {} PROVE FALSE
  <2>1. Users \notin Bad
    BY <1>2
  <2> QED BY <2>1, <1>1
<1>3. PICK s \in Bad : \A x \in s : s \ {x} \notin Bad
  BY <1>2, SmallestSet
<1>4. s # {}
  <2> DEFINE z == [r \in SUBSET Users |-> 0]
  <2>1. IsSums(Part({}), z)
    <3>1. \A r \in SUBSET Users : r # {} => Part({})[Pick(r)] + z[r \ {Pick(r)}] = 0
      BY PickIn
    <3> QED BY <3>1 DEF IsSums
  <2> QED BY <2>1, <1>3
<1>5. PICK x \in s : TRUE
  BY <1>4
<1>6. PICK g : IsSums(Part(s \ {x}), g)
  BY <1>3, <1>5
<1>7. IsSums(Part(s), [r \in SUBSET Users |-> IF x \in r THEN g[r] + f[x] ELSE g[r]])
  <2>1. Part(s \ {x}) \in [Users -> Int] /\ Part(s) \in [Users -> Int] /\ x \in Users /\ f[x] \in Int
    BY <1>3, <1>5
  <2>2. \A v \in Users : Part(s)[v] = IF v = x THEN Part(s \ {x})[v] + f[x] ELSE Part(s \ {x})[v]
    BY <1>3, <1>5
  <2> DEFINE e == Part(s)
             d == Part(s \ {x})
  <2>3. IsSums(d, g) /\ d \in [Users -> Int] /\ e \in [Users -> Int] /\ x \in Users /\ f[x] \in Int
    BY <1>6, <2>1
  <2>4. \A v \in Users : e[v] = IF v = x THEN d[v] + f[x] ELSE d[v]
    BY <2>2
  <2> HIDE DEF e, d
  <2> HIDE DEF Part, Bad
  <2>5. IsSums(e, [r \in SUBSET Users |-> IF x \in r THEN g[r] + f[x] ELSE g[r]])
    BY <2>3, <2>4, SumsShift, Zenon
  <2> QED BY <2>5 DEF e
<1> QED BY <1>3, <1>7

\* What AccountsBalance compares the total with.
SumOf(B, t) == MapThenSumSet(LAMBDA u : B[u][t], Users)

\* SumOf is the sum of a column of the ledger.
LEMMA SumOfIs ==
    ASSUME IsFiniteSet(Users), NEW B, NEW t, NEW f \in [Users -> Int],
           \A u \in Users : f[u] = B[u][t], NEW g, IsSums(f, g)
    PROVE  SumOf(B, t) = g[Users]
<1> DEFINE Eq(h) == h = [s \in SUBSET Users |-> IF s = {} THEN 0 ELSE B[Pick(s)][t] + h[s \ {Pick(s)}]]
<1>1. ASSUME NEW h PROVE Eq(h) <=> IsSums(f, h)
  <2>1. \A s \in SUBSET Users : s # {} => B[Pick(s)][t] = f[Pick(s)]
    BY PickIn
  <2>2. [s \in SUBSET Users |-> IF s = {} THEN 0 ELSE B[Pick(s)][t] + h[s \ {Pick(s)}]]
        = [s \in SUBSET Users |-> IF s = {} THEN 0 ELSE f[Pick(s)] + h[s \ {Pick(s)}]]
    BY <2>1
  <2> QED BY <2>2 DEF IsSums
<1>2. SumOf(B, t) = (CHOOSE h : Eq(h))[Users]
  BY Zenon DEF SumOf, MapThenSumSet, MapThenFoldSet, Pick
<1>3. \A h : Eq(h) <=> h = g
  BY <1>1, SumsUnique
<1> HIDE DEF Eq
<1>4. (CHOOSE h : Eq(h)) = g
  BY <1>3
<1> QED BY <1>2, <1>4

\* An entry of the column changes by n, and so does its sum.
LEMMA SumOfShift ==
    ASSUME IsFiniteSet(Users), NEW t, NEW B, \A v \in Users : B[v][t] \in Int,
           NEW u \in Users, NEW n \in Int,
           NEW C, \A v \in Users : C[v][t] = IF v = u THEN B[v][t] + n ELSE B[v][t]
    PROVE  SumOf(B, t) \in Int /\ SumOf(C, t) = SumOf(B, t) + n
<1> DEFINE f == [v \in Users |-> B[v][t]]
           e == [v \in Users |-> C[v][t]]
<1>1. f \in [Users -> Int] /\ e \in [Users -> Int]
  OBVIOUS
<1>2. (\A v \in Users : f[v] = B[v][t]) /\ (\A v \in Users : e[v] = C[v][t])
  OBVIOUS
<1>3. \A v \in Users : e[v] = IF v = u THEN f[v] + n ELSE f[v]
  OBVIOUS
<1> HIDE DEF f, e
<1>4. PICK g : IsSums(f, g)
  BY <1>1, SumsExist
<1> DEFINE h == [s \in SUBSET Users |-> IF u \in s THEN g[s] + n ELSE g[s]]
<1>5. IsSums(e, h)
  BY <1>1, <1>3, <1>4, SumsShift, Zenon
<1>6. h[Users] = g[Users] + n
  OBVIOUS
<1>7. g[Users] \in Int
  BY <1>1, <1>4, SumsInt
<1> HIDE DEF h
<1>8. SumOf(B, t) = g[Users]
  BY <1>1, <1>2, <1>4, SumOfIs
<1>9. SumOf(C, t) = h[Users]
  BY <1>1, <1>2, <1>5, SumOfIs
<1> QED BY <1>6, <1>7, <1>8, <1>9

\* An empty column adds up to nothing.
LEMMA SumOfZero ==
    ASSUME IsFiniteSet(Users), NEW t, NEW B, \A v \in Users : B[v][t] = 0
    PROVE  SumOf(B, t) = 0
<1> DEFINE f == [v \in Users |-> 0]
           z == [r \in SUBSET Users |-> 0]
<1>1. f \in [Users -> Int] /\ \A v \in Users : f[v] = B[v][t]
  OBVIOUS
<1>2. IsSums(f, z)
  <2>1. \A r \in SUBSET Users : r # {} => f[Pick(r)] + z[r \ {Pick(r)}] = 0
    BY PickIn
  <2> QED BY <2>1 DEF IsSums
<1>3. z[Users] = 0
  OBVIOUS
<1> HIDE DEF f, z
<1> QED BY <1>1, <1>2, <1>3, SumOfIs

\* Equal columns have equal sums.
LEMMA SumOfSame ==
    ASSUME IsFiniteSet(Users), NEW t, NEW B, \A v \in Users : B[v][t] \in Int,
           NEW C, \A v \in Users : C[v][t] = B[v][t]
    PROVE  SumOf(C, t) = SumOf(B, t)
<1> DEFINE f == [v \in Users |-> B[v][t]]
<1>1. f \in [Users -> Int] /\ (\A v \in Users : f[v] = B[v][t]) /\ (\A v \in Users : f[v] = C[v][t])
  OBVIOUS
<1> HIDE DEF f
<1>2. PICK g : IsSums(f, g)
  BY <1>1, SumsExist
<1>3. SumOf(B, t) = g[Users]
  BY <1>1, <1>2, SumOfIs
<1>4. SumOf(C, t) = g[Users]
  BY <1>1, <1>2, SumOfIs
<1> QED BY <1>3, <1>4

\* No entry exceeds the sum of its column.
LEMMA SumOfCovers ==
    ASSUME IsFiniteSet(Users), NEW t, NEW B, \A v \in Users : B[v][t] \in Nat, NEW u \in Users
    PROVE  SumOf(B, t) \in Nat /\ B[u][t] <= SumOf(B, t)
<1> DEFINE f == [v \in Users |-> B[v][t]]
<1>1. f \in [Users -> Int] /\ f \in [Users -> Nat] /\ \A v \in Users : f[v] = B[v][t]
  OBVIOUS
<1> HIDE DEF f
<1>2. PICK g : IsSums(f, g)
  BY <1>1, SumsExist
<1>3. g \in [SUBSET Users -> Int]
  BY <1>1, <1>2, SumsInt
<1>4. ASSUME NEW s \in SUBSET Users, s # {}
      PROVE  Pick(s) \in s /\ f[Pick(s)] \in Nat /\ g[s] = f[Pick(s)] + g[s \ {Pick(s)}]
  BY <1>1, <1>2, <1>4, PickIn, SumsEquations
<1>5. \A s \in SUBSET Users : g[s] >= 0
  <2> DEFINE Bad == {s \in SUBSET Users : ~(g[s] >= 0)}
  <2>1. SUFFICES ASSUME Bad # {} PROVE FALSE
    OBVIOUS
  <2>2. PICK s \in Bad : \A x \in s : s \ {x} \notin Bad
    BY <2>1, SmallestSet
  <2>3. s # {}
    BY <2>2, <1>2, SumsEquations
  <2>4. g[s \ {Pick(s)}] >= 0
    BY <2>2, <2>3, <1>4
  <2>5. g[s] = f[Pick(s)] + g[s \ {Pick(s)}] /\ f[Pick(s)] \in Nat /\ g[s] \in Int /\ g[s \ {Pick(s)}] \in Int
    BY <2>3, <1>3, <1>4
  <2>6. ~(g[s] >= 0)
    BY <2>2
  <2> QED BY <2>4, <2>5, <2>6
<1>6. \A s \in SUBSET Users : u \in s => g[s] >= f[u]
  <2> DEFINE Bad == {s \in SUBSET Users : u \in s /\ ~(g[s] >= f[u])}
  <2>1. SUFFICES ASSUME Bad # {} PROVE FALSE
    OBVIOUS
  <2>2. PICK s \in Bad : \A x \in s : s \ {x} \notin Bad
    BY <2>1, SmallestSet
  <2>3. u \in s /\ s # {} /\ ~(g[s] >= f[u]) /\ s \in SUBSET Users
    BY <2>2
  <2>4. Pick(s) # u => g[s \ {Pick(s)}] >= f[u]
    BY <2>2, <2>3, <1>4
  <2>5. g[s] = f[Pick(s)] + g[s \ {Pick(s)}] /\ f[Pick(s)] \in Nat /\ g[s] \in Int /\ g[s \ {Pick(s)}] \in Int
    BY <2>3, <1>3, <1>4
  <2>6. g[s \ {Pick(s)}] >= 0 /\ f[u] \in Nat
    BY <1>1, <1>5, <2>3
  <2> QED BY <2>3, <2>4, <2>5, <2>6
<1>7. SumOf(B, t) = g[Users]
  BY <1>1, <1>2, SumOfIs
<1>8. g[Users] \in Int /\ g[Users] >= 0 /\ g[Users] >= f[u] /\ f[u] = B[u][t]
  BY <1>1, <1>3, <1>5, <1>6
<1> QED BY <1>7, <1>8

---------------------------------------------------------------------------
(* The accounts.  *)

\* Column t of the ledger and its total change by the same n, in the entry of
\* one user.
Moved(t, u, n) ==
    /\ \A v \in Users : balances'[v][t] = IF v = u THEN balances[v][t] + n ELSE balances[v][t]
    /\ totalAccounted'[t] = totalAccounted[t] + n

\* Column t of the ledger and its total stay as they are.
Still(t) ==
    /\ \A v \in Users : balances'[v][t] = balances[v][t]
    /\ totalAccounted'[t] = totalAccounted[t]

\* Whatever the call, a token's column moves in one entry and with its total,
\* or not at all.
LEMMA ColumnsMove ==
    ASSUME TypeOK, [Next]_vars, NEW x \in Tokens
    PROVE  Still(x) \/ \E u \in Users, n \in Int : Moved(x, u, n)
<1> USE DEF TypeOK
<1>1. ASSUME NEW u \in Users, NEW t \in Tokens, NEW n \in Nat, Credit(u, t, n)
      PROVE  Still(x) \/ Moved(x, u, n)
  BY <1>1 DEF Credit, Still, Moved
<1>2. ASSUME NEW u \in Users, NEW t \in Tokens, NEW n \in Nat, Debit(u, t, n)
      PROVE  Still(x) \/ Moved(x, u, 0 - n)
  BY <1>2 DEF Debit, Still, Moved
<1>3. CASE UserStep
  <2>1. Amounts \subseteq Nat /\ Weth \in Tokens
    BY VaultAssumption DEF Amounts
  <2>2. ASSUME NEW u \in Users, NEW n \in Amounts, DepositETH(u, n)
        PROVE  Still(x) \/ Moved(x, u, n)
    BY <2>1, <2>2, <1>1 DEF DepositETH
  <2>3. ASSUME NEW u \in Users, NEW n \in Amounts, WithdrawETH(u, n)
        PROVE  Still(x) \/ Moved(x, u, 0 - n)
    BY <2>1, <2>3, <1>2 DEF WithdrawETH
  <2>4. ASSUME NEW u \in Users, NEW t \in Tokens, NEW n \in Amounts, Withdraw(u, t, n)
        PROVE  Still(x) \/ Moved(x, u, 0 - n)
    BY <2>1, <2>4, <1>2 DEF Withdraw
  <2>5. ASSUME NEW u \in Users, NEW t \in Tokens, NEW n \in Amounts, NEW r \in Amounts,
               Deposit(u, t, n, r)
        PROVE  Still(x) \/ Moved(x, u, r)
    BY <2>1, <2>5, <1>1 DEF Deposit
  <2>6. \A n \in Amounts : n \in Int /\ 0 - n \in Int
    BY <2>1
  <2> QED BY <1>3, <2>2, <2>3, <2>4, <2>5, <2>6 DEF UserStep
<1>4. CASE SwapStep
  <2>1. ASSUME NEW s \in Keys, NEW id \in Ids, NEW u \in Users, NEW tin \in Tokens,
               NEW tout \in Tokens, NEW expired \in BOOLEAN, NEW n \in Amounts,
               NEW min \in 0..MaxAmount, NEW pulled \in 0..MaxAmount, NEW out \in 0..MaxAmount,
               ExecuteSwap(s, id, u, tin, tout, n, min, expired, pulled, out)
        PROVE  Still(x) \/ \E k \in Int : Moved(x, u, k)
    <3>1. n \in Nat /\ out \in Nat /\ tin # tout
      BY <2>1, VaultAssumption DEF ExecuteSwap, SwapChecks, Amounts
    <3>2. CASE x = tin
      <4>1. Moved(x, u, 0 - n)
        BY <2>1, <3>1, <3>2 DEF ExecuteSwap, Moved
      <4> QED BY <3>1, <4>1
    <3>3. CASE x = tout
      <4>1. Moved(x, u, out)
        BY <2>1, <3>1, <3>3 DEF ExecuteSwap, Moved
      <4> QED BY <3>1, <4>1
    <3>4. CASE x # tin /\ x # tout
      BY <2>1, <3>4 DEF ExecuteSwap, Still
    <3> QED BY <3>2, <3>3, <3>4
  <2> QED BY <1>4, <2>1 DEF SwapStep
<1>5. CASE UNCHANGED <<balances, totalAccounted>>
  BY <1>5 DEF Still
<1> QED BY <1>3, <1>4, <1>5
    DEF Next, AdminStep, SetExecutor, GrantExecutorRole, DropExecutorRole, SetTokenAllowed,
        SetMaxTradeAmount, RemoveToken, SweepUnaccounted, Pause, Unpause, Donate, ledger, vars

\* totalAccounted is the exact sum of the balances after any sequence of
\* calls, for any number of users.
THEOREM VaultAccountsBalance == Spec => []AccountsBalance
<1> DEFINE Balanced == \A t \in Tokens : totalAccounted[t] = SumOf(balances, t)
<1>1. Init => Balanced
  <2> SUFFICES ASSUME Init, NEW t \in Tokens PROVE totalAccounted[t] = SumOf(balances, t)
    OBVIOUS
  <2>1. totalAccounted[t] = 0 /\ \A v \in Users : balances[v][t] = 0
    BY DEF Init
  <2> QED BY <2>1, SumOfZero, VaultAssumption
<1>2. TypeOK /\ Balanced /\ [Next]_vars => Balanced'
  <2> SUFFICES ASSUME TypeOK, Balanced, [Next]_vars, NEW t \in Tokens
               PROVE totalAccounted'[t] = SumOf(balances', t)
    OBVIOUS
  <2>1. IsFiniteSet(Users) /\ \A v \in Users : balances[v][t] \in Int
    BY VaultAssumption DEF TypeOK
  <2>2. totalAccounted[t] = SumOf(balances, t)
    OBVIOUS
  <2> HIDE DEF Balanced
  <2>3. CASE Still(t)
    BY <2>1, <2>2, <2>3, SumOfSame DEF Still
  <2>4. ASSUME NEW u \in Users, NEW n \in Int, Moved(t, u, n)
        PROVE  totalAccounted'[t] = SumOf(balances', t)
    BY <2>1, <2>2, <2>4, SumOfShift DEF Moved
  <2> QED BY <2>3, <2>4, ColumnsMove
<1>3. Balanced => AccountsBalance
  BY DEF AccountsBalance, SumOf
<1> QED BY <1>1, <1>2, <1>3, VaultTypeCorrect, PTL DEF Spec

\* What a withdrawal of a whole claim asks of the state: the claim is within
\* the total and within the vault's holding; and so are all claims together.
ClaimsPayable ==
    \A t \in Tokens :
        /\ MapThenSumSet(LAMBDA u : balances[u][t], Users) <= held[t]
        /\ \A u \in Users : balances[u][t] <= totalAccounted[t] /\ balances[u][t] <= held[t]

\* Every claim can be paid in full, alone or with all the others: the guards
\* of withdraw hold for the whole of any balance, paused or not, listed or not.
THEOREM VaultClaimsPayable == Spec => []ClaimsPayable
<1>1. TypeOK /\ Solvent /\ AccountsBalance => ClaimsPayable
  <2> SUFFICES ASSUME TypeOK, Solvent, AccountsBalance, NEW t \in Tokens
               PROVE  /\ SumOf(balances, t) <= held[t]
                      /\ \A u \in Users : balances[u][t] <= totalAccounted[t] /\ balances[u][t] <= held[t]
    BY DEF ClaimsPayable, SumOf
  <2>1. totalAccounted[t] = SumOf(balances, t)
    BY DEF AccountsBalance, SumOf
  <2>2. totalAccounted[t] \in Nat /\ held[t] \in Nat /\ held[t] >= totalAccounted[t]
    BY DEF TypeOK, Solvent
  <2>3. ASSUME NEW u \in Users PROVE balances[u][t] \in Nat /\ balances[u][t] <= totalAccounted[t]
    <3>1. \A v \in Users : balances[v][t] \in Nat
      BY DEF TypeOK
    <3> QED BY <2>1, <3>1, SumOfCovers, VaultAssumption
  <2> QED BY <2>1, <2>2, <2>3
<1> QED BY <1>1, VaultTypeCorrect, VaultSolvent, VaultAccountsBalance, PTL
============================================================================
