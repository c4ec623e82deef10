---------------------------- MODULE MirrorProofs ----------------------------
(***************************************************************************)
(* Code that is written twice agrees, for all inputs.                       *)
(*                                                                         *)
(* The budget of a sub-account is kept for all budgets, expiries, amounts,  *)
(* senders and every width of the counter.  BudgetKept is inductive with    *)
(* the types; it needs of time only that the clock never passes the expiry  *)
(* in a spend.                                                              *)
(*                                                                         *)
(* The readers of a dry run are filters of its balance changes and sums of  *)
(* what the filters keep.  Each is brought to that form, the sums to sums   *)
(* of weights over all changes, and those are added change by change, so    *)
(* that the readers agree on lists of every length.                         *)
(***************************************************************************)
EXTENDS Mirrors, InductionLemmas

(* The variables have their types at the start and after every step.        *)
LEMMA TypesKept ==
    /\ Init => SubAccountTypeOK
    /\ SubAccountTypeOK /\ [Next]_subVars => SubAccountTypeOK'
<1>1. Init => SubAccountTypeOK
  BY SubAccountAssumption DEF Init, NoSubAccount, SubAccountObject, SubAccountTypeOK
<1>2. ASSUME SubAccountTypeOK, [Next]_subVars
      PROVE  SubAccountTypeOK'
  <2>1. ASSUME NEW maxMist \in Budgets, NEW expiresAtMs \in Expiries,
               Create(maxMist, expiresAtMs)
        PROVE  SubAccountTypeOK'
    <3>1. maxMist \in 0..U64Max /\ expiresAtMs \in 0..U64Max /\ 0 \in 0..U64Max
      BY SubAccountAssumption
    <3>2. sub' = [created |-> TRUE, max_mist |-> maxMist, spent_mist |-> 0,
                  expires_at_ms |-> expiresAtMs, revoked |-> FALSE]
      BY <2>1 DEF Create, NoSubAccount
    <3>3. sub' \in SubAccountObject
      BY <3>1, <3>2 DEF SubAccountObject
    <3> QED
      BY <1>2, <2>1, <3>3 DEF Create, SubAccountTypeOK
  <2>2. ASSUME NEW sender \in Senders, NEW amount \in Spends,
               RecordSpend(sender, amount)
        PROVE  SubAccountTypeOK'
    <3>1. /\ amount \in Nat /\ sub.spent_mist \in Nat
          /\ sub.spent_mist + amount \in 0..U64Max
      BY <1>2, <2>2, SubAccountAssumption
      DEF RecordSpend, RecordsSpend, SubAccountObject, SubAccountTypeOK
    <3>2. sub' \in SubAccountObject
      BY <1>2, <2>2, <3>1 DEF RecordSpend, SubAccountObject, SubAccountTypeOK
    <3>3. paid' \in [count : Nat, total : Nat, last : Nat, afterRevoke : BOOLEAN]
      <4>1. (paid.afterRevoke \/ sub.revoked) \in BOOLEAN
        OBVIOUS
      <4>2. paid.count + 1 \in Nat /\ paid.total + amount \in Nat /\ clock \in Nat
        BY <1>2, <3>1 DEF SubAccountTypeOK
      <4> QED
        BY <2>2, <4>1, <4>2 DEF RecordSpend
    <3> QED
      BY <1>2, <2>2, <3>2, <3>3 DEF RecordSpend, SubAccountTypeOK
  <2>3. ASSUME NEW sender \in Senders, Revoke(sender)
        PROVE  SubAccountTypeOK'
    BY <1>2, <2>3 DEF Revoke, SubAccountObject, SubAccountTypeOK
  <2>4. CASE Tick
    BY <1>2, <2>4 DEF Tick, SubAccountTypeOK
  <2>5. CASE UNCHANGED subVars
    BY <1>2, <2>5 DEF subVars, SubAccountTypeOK
  <2> QED
    BY <1>2, <2>1, <2>2, <2>3, <2>4, <2>5 DEF Next
<1> QED
  BY <1>1, <1>2

(* No spend was taken before the object was there.                          *)
UnspentBeforeCreation ==
    ~sub.created => /\ sub = NoSubAccount
                    /\ paid.total = 0 /\ paid.last = 0

BudgetInv == SubAccountTypeOK /\ UnspentBeforeCreation /\ BudgetKept

(* A step keeps the budget: a spend adds the same amount to the counter and *)
(* to the payments, and its four asserts are what BudgetKept says of it.    *)
LEMMA BudgetInvKept ==
    BudgetInv /\ [Next]_subVars => BudgetInv'
<1> SUFFICES ASSUME BudgetInv, [Next]_subVars
             PROVE  BudgetInv'
  OBVIOUS
<1>1. SubAccountTypeOK /\ UnspentBeforeCreation /\ BudgetKept /\ SubAccountTypeOK'
  BY TypesKept DEF BudgetInv
<1>2. ASSUME NEW maxMist \in Budgets, NEW expiresAtMs \in Expiries,
             Create(maxMist, expiresAtMs)
      PROVE  UnspentBeforeCreation' /\ BudgetKept'
  <2>1. /\ sub'.created /\ sub'.spent_mist = 0
        /\ sub'.max_mist = maxMist /\ sub'.expires_at_ms = expiresAtMs
    BY <1>2 DEF Create, NoSubAccount
  <2>2. maxMist \in Nat /\ expiresAtMs \in Nat
    BY SubAccountAssumption
  <2>3. paid'.total = 0 /\ paid'.last = 0 /\ ~paid'.afterRevoke
    BY <1>1, <1>2 DEF Create, UnspentBeforeCreation, BudgetKept
  <2> QED
    BY <2>1, <2>2, <2>3 DEF UnspentBeforeCreation, BudgetKept
<1>3. ASSUME NEW sender \in Senders, NEW amount \in Spends,
             RecordSpend(sender, amount)
      PROVE  UnspentBeforeCreation' /\ BudgetKept'
  <2>1. /\ amount \in Nat /\ sub.spent_mist \in Nat /\ sub.max_mist \in Nat
        /\ sub.expires_at_ms \in Nat /\ clock \in Nat /\ paid.total \in Nat
    BY <1>1, SubAccountAssumption DEF SubAccountObject, SubAccountTypeOK
  <2>2. /\ sub'.created = sub.created /\ sub'.max_mist = sub.max_mist
        /\ sub'.expires_at_ms = sub.expires_at_ms
        /\ sub'.spent_mist = sub.spent_mist + amount
    BY <1>1, <1>3 DEF RecordSpend, SubAccountObject, SubAccountTypeOK
  <2>3. paid'.total = paid.total + amount /\ paid'.last = clock
    BY <1>3 DEF RecordSpend
  <2>4. ~paid'.afterRevoke
    BY <1>1, <1>3 DEF RecordSpend, RecordsSpend, BudgetKept
  <2>5. paid'.total = sub'.spent_mist /\ paid'.total <= sub'.max_mist
    BY <1>1, <1>3, <2>1, <2>2, <2>3 DEF RecordSpend, RecordsSpend, BudgetKept
  <2>6. paid'.last <= sub'.expires_at_ms
    BY <1>3, <2>2, <2>3 DEF RecordSpend, RecordsSpend
  <2>7. sub'.created
    BY <1>3, <2>2 DEF RecordSpend
  <2> QED
    BY <2>4, <2>5, <2>6, <2>7 DEF UnspentBeforeCreation, BudgetKept
<1>4. ASSUME NEW sender \in Senders, Revoke(sender)
      PROVE  UnspentBeforeCreation' /\ BudgetKept'
  <2>1. /\ sub'.created /\ sub'.max_mist = sub.max_mist
        /\ sub'.expires_at_ms = sub.expires_at_ms
        /\ sub'.spent_mist = sub.spent_mist
        /\ paid' = paid
    BY <1>1, <1>4 DEF Revoke, SubAccountObject, SubAccountTypeOK
  <2> QED
    BY <1>1, <2>1 DEF UnspentBeforeCreation, BudgetKept
<1>5. ASSUME Tick
      PROVE  UnspentBeforeCreation' /\ BudgetKept'
  BY <1>1, <1>5 DEF Tick, NoSubAccount, UnspentBeforeCreation, BudgetKept
<1>6. ASSUME UNCHANGED subVars
      PROVE  UnspentBeforeCreation' /\ BudgetKept'
  BY <1>1, <1>6 DEF subVars, NoSubAccount, UnspentBeforeCreation, BudgetKept
<1> QED
  BY <1>1, <1>2, <1>3, <1>4, <1>5, <1>6 DEF Next, BudgetInv

(* The variables of the sub-account keep their types.                       *)
THEOREM TypeCorrect == Spec => []SubAccountTypeOK
  BY TypesKept, PTL DEF Spec

(* All that the dApp ever spends fits the budget and was spent before the   *)
(* expiry and before the owner revoked it (subaccount.move:37-49).          *)
THEOREM BudgetAlwaysKept == Spec => []BudgetKept
<1>1. Init => BudgetInv
  BY TypesKept DEF Init, NoSubAccount, BudgetInv, UnspentBeforeCreation, BudgetKept
<1>2. BudgetInv => BudgetKept
  BY DEF BudgetInv
<1> QED
  BY <1>1, <1>2, BudgetInvKept, PTL DEF Spec

(* The client refuses exactly what the chain would abort, for every width   *)
(* of its counter: a sum that overflows exceeds every budget, so that the   *)
(* abort on overflow refuses nothing the client lets through                *)
(* (subaccounts.ts:20-38, subaccount.move:37-49).                           *)
THEOREM ClientAlwaysForesees == Spec => []ClientForeseesChain
<1>1. SubAccountTypeOK => ClientForeseesChain
  <2> SUFFICES ASSUME SubAccountTypeOK, NEW amount \in Spends
               PROVE  RecordsSpend(Dapp, amount) <=> RecordSubAccountSpendReturns(amount)
    BY DEF ClientForeseesChain
  <2>1. /\ sub.max_mist \in Nat /\ sub.max_mist <= U64Max
        /\ sub.spent_mist + amount \in Nat /\ U64Max \in Nat
    BY SubAccountAssumption DEF SubAccountTypeOK, SubAccountObject
  <2> QED
    BY <2>1 DEF RecordsSpend, RecordSubAccountSpendReturns
<1> QED
  BY <1>1, TypeCorrect, PTL
-----------------------------------------------------------------------------
Sums(sum, f, n) ==
    /\ sum = [i \in 0 .. n |-> sum[i]]
    /\ sum[0] = 0
    /\ \A i \in 1 .. n : sum[i] = sum[i - 1] + f[i]

(* There are such partial sums: the recursion defines something.            *)
LEMMA SumsExist ==
    ASSUME NEW f \in Seq(Int)
    PROVE  \A n \in Nat : n <= Len(f) =>
              \E sum : Sums(sum, f, n) /\ \A i \in 0 .. n : sum[i] \in Int
<1> DEFINE T == {n \in Nat : n <= Len(f) =>
                    \E sum : Sums(sum, f, n) /\ \A i \in 0 .. n : sum[i] \in Int}
<1>1. 0 \in T
  <2> DEFINE sum == [i \in 0 .. 0 |-> 0]
  <2>1. Sums(sum, f, 0) /\ \A i \in 0 .. 0 : sum[i] \in Int
    BY DEF Sums
  <2> QED
    BY <2>1
<1>2. ASSUME NEW n \in Nat, n \in T
      PROVE  n + 1 \in T
  <2> SUFFICES ASSUME n + 1 <= Len(f)
               PROVE  \E sum : Sums(sum, f, n + 1) /\ \A i \in 0 .. n + 1 : sum[i] \in Int
    OBVIOUS
  <2>1. n <= Len(f) /\ f[n + 1] \in Int
    OBVIOUS
  <2>2. PICK k : Sums(k, f, n) /\ \A i \in 0 .. n : k[i] \in Int
    BY <1>2, <2>1
  <2> DEFINE sum == [i \in 0 .. n + 1 |-> IF i = n + 1 THEN k[n] + f[n + 1] ELSE k[i]]
  <2>3. /\ sum = [i \in 0 .. n + 1 |-> sum[i]]
        /\ sum[n + 1] = k[n] + f[n + 1] /\ \A i \in 0 .. n : sum[i] = k[i]
    OBVIOUS
  <2> HIDE DEF sum
  <2>4. ASSUME NEW i \in 1 .. n + 1
        PROVE  sum[i] = sum[i - 1] + f[i]
    <3>1. CASE i = n + 1
      <4>1. i - 1 = n /\ n \in 0 .. n
        BY <3>1
      <4> QED
        BY <2>3, <3>1, <4>1
    <3>2. CASE i \in 1 .. n
      <4>1. k[i] = k[i - 1] + f[i]
        BY <2>2, <3>2 DEF Sums
      <4>2. i \in 0 .. n /\ i - 1 \in 0 .. n
        BY <3>2
      <4> QED
        BY <2>3, <4>1, <4>2
    <3> QED
      BY <3>1, <3>2
  <2>5. sum[0] = 0
    <3>1. 0 \in 0 .. n /\ k[0] = 0
      BY <2>2 DEF Sums
    <3> QED
      BY <2>3, <3>1
  <2>6. \A i \in 0 .. n + 1 : sum[i] \in Int
    <3>1. k[n] + f[n + 1] \in Int
      BY <2>1, <2>2
    <3>2. \A i \in 0 .. n + 1 : i = n + 1 \/ i \in 0 .. n
      OBVIOUS
    <3> QED
      BY <2>2, <2>3, <3>1, <3>2
  <2>7. Sums(sum, f, n + 1)
    BY <2>3, <2>4, <2>5 DEF Sums
  <2> QED
    BY <2>6, <2>7
<1>3. \A n \in Nat : n \in T
  <2> HIDE DEF T
  <2> QED
    BY <1>1, <1>2, NatSetInduction
<1> QED
  BY <1>3

(* Partial sums are determined by the numbers.                              *)
LEMMA SumsSame ==
    ASSUME NEW n \in Nat, NEW m \in Nat, n <= m, NEW f, NEW g, NEW a, NEW b,
           \A i \in 1 .. n : f[i] = g[i], Sums(a, f, n), Sums(b, g, m)
    PROVE  a[n] = b[n]
<1> DEFINE T == {k \in Nat : k <= n => a[k] = b[k]}
<1>1. 0 \in T
  BY DEF Sums
<1>2. ASSUME NEW k \in Nat, k \in T
      PROVE  k + 1 \in T
  <2> SUFFICES ASSUME k + 1 <= n
               PROVE  a[k + 1] = b[k + 1]
    OBVIOUS
  <2>1. k + 1 \in 1 .. n /\ k + 1 \in 1 .. m /\ (k + 1) - 1 = k /\ k <= n
    OBVIOUS
  <2>2. a[k + 1] = a[k] + f[k + 1] /\ b[k + 1] = b[k] + g[k + 1]
    BY <2>1 DEF Sums
  <2> QED
    BY <1>2, <2>1, <2>2
<1>3. \A k \in Nat : k \in T
  <2> HIDE DEF T
  <2> QED
    BY <1>1, <1>2, NatSetInduction
<1> QED
  BY <1>3

(* Total is the last of the partial sums.                                   *)
LEMMA TotalSums ==
    ASSUME NEW f \in Seq(Int)
    PROVE  \E sum : Sums(sum, f, Len(f)) /\ Total(f) = sum[Len(f)] /\ Total(f) \in Int
<1> DEFINE Fun(k) == [i \in 0 .. Len(f) |-> IF i = 0 THEN 0 ELSE k[i - 1] + f[i]]
           chosen == CHOOSE k : k = Fun(k)
<1>1. Len(f) \in Nat
  OBVIOUS
<1>2. PICK k : Sums(k, f, Len(f)) /\ \A i \in 0 .. Len(f) : k[i] \in Int
  BY <1>1, SumsExist
<1>3. k = Fun(k)
  <2>1. ASSUME NEW i \in 0 .. Len(f)
        PROVE  k[i] = Fun(k)[i]
    <3>1. i = 0 => k[i] = 0
      BY <1>2 DEF Sums
    <3>2. i # 0 => i \in 1 .. Len(f)
      BY <1>1
    <3>3. i # 0 => k[i] = k[i - 1] + f[i]
      BY <1>2, <3>2 DEF Sums
    <3> QED
      BY <3>1, <3>3
  <2>2. k = [i \in 0 .. Len(f) |-> k[i]] /\ Fun(k) = [i \in 0 .. Len(f) |-> Fun(k)[i]]
    BY <1>2 DEF Sums
  <2> HIDE DEF Fun
  <2> QED
    BY <2>1, <2>2
<1>4. chosen = Fun(chosen)
  <2> HIDE DEF Fun
  <2> QED
    BY <1>3
<1>5. Total(f) = chosen[Len(f)]
  BY DEF Total
<1> HIDE DEF chosen
<1>6. Sums(chosen, f, Len(f))
  <2>1. chosen = [i \in 0 .. Len(f) |-> chosen[i]]
    BY <1>4
  <2>2. ASSUME NEW i \in 0 .. Len(f)
        PROVE  chosen[i] = Fun(chosen)[i]
    <3> HIDE DEF Fun
    <3> QED
      BY <1>4
  <2>3. 0 \in 0 .. Len(f) /\ \A i \in 1 .. Len(f) : i \in 0 .. Len(f) /\ i # 0
    BY <1>1
  <2>4. chosen[0] = 0
    BY <2>2, <2>3
  <2>5. ASSUME NEW i \in 1 .. Len(f)
        PROVE  chosen[i] = chosen[i - 1] + f[i]
    <3>1. chosen[i] = Fun(chosen)[i]
      BY <2>2, <2>3
    <3> QED
      BY <2>3, <3>1
  <2> QED
    BY <2>1, <2>4, <2>5 DEF Sums
<1>7. Len(f) \in 0 .. Len(f) /\ chosen[Len(f)] = k[Len(f)]
  BY <1>1, <1>2, <1>6, SumsSame
<1> QED
  BY <1>2, <1>5, <1>6, <1>7

(* A list with one more number has a total that is larger by it.            *)
LEMMA TotalAppend ==
    /\ Total(<<>>) = 0
    /\ \A f \in Seq(Int), e \in Int :
          Total(f) \in Int /\ Total(Append(f, e)) = Total(f) + e
<1>1. Total(<<>>) = 0
  <2>1. <<>> \in Seq(Int) /\ Len(<<>>) = 0
    OBVIOUS
  <2> QED
    BY <2>1, TotalSums DEF Sums
<1>2. ASSUME NEW f \in Seq(Int), NEW e \in Int
      PROVE  Total(f) \in Int /\ Total(Append(f, e)) = Total(f) + e
  <2> DEFINE g == Append(f, e)
             n == Len(f)
  <2>1. /\ g \in Seq(Int) /\ n \in Nat /\ Len(g) = n + 1 /\ g[n + 1] = e
        /\ \A i \in 1 .. n : g[i] = f[i]
    OBVIOUS
  <2>2. PICK a : Sums(a, f, n) /\ Total(f) = a[n] /\ Total(f) \in Int
    BY TotalSums
  <2> HIDE DEF g, n
  <2>3. PICK b : Sums(b, g, n + 1) /\ Total(g) = b[n + 1]
    BY <2>1, TotalSums
  <2>4. /\ n + 1 \in Nat /\ n <= n + 1 /\ n \in 0 .. n /\ n + 1 \in 1 .. n + 1
        /\ (n + 1) - 1 = n
    BY <2>1
  <2>5. a[n] = b[n]
    <3>1. n \in Nat /\ n + 1 \in Nat /\ n <= n + 1
      BY <2>1
    <3>2. \A i \in 1 .. n : f[i] = g[i]
      BY <2>1
    <3>3. Sums(a, f, n) /\ Sums(b, g, n + 1)
      BY <2>2, <2>3
    <3> QED
      BY <3>1, <3>2, <3>3, SumsSame
  <2>6. b[n + 1] = b[n] + g[n + 1]
    BY <2>3, <2>4 DEF Sums
  <2>7. Total(g) = Total(f) + e
    BY <2>1, <2>2, <2>3, <2>5, <2>6
  <2> QED
    BY <2>2, <2>7 DEF g
<1> QED
  BY <1>1, <1>2
-----------------------------------------------------------------------------
(* What the elements of a list weigh.                                       *)
Weighed(s, w) == [i \in DOMAIN s |-> w[s[i]]]

(* What the elements of lists may weigh.                                    *)
Weights(X) == [X -> Int]

(* The weights of a list are numbers in its order.                          *)
LEMMA WeighedAre ==
    ASSUME NEW X, NEW w \in Weights(X)
    PROVE  /\ Weighed(<<>>, w) = <<>>
           /\ \A s \in Seq(X) : Weighed(s, w) \in Seq(Int)
           /\ \A s \in Seq(X), e \in X :
                 Weighed(Append(s, e), w) = Append(Weighed(s, w), w[e]) /\ w[e] \in Int
<1> USE DEF Weights
<1>1. Weighed(<<>>, w) = <<>>
  BY DEF Weighed
<1>2. ASSUME NEW s \in Seq(X)
      PROVE  Weighed(s, w) \in Seq(Int) /\ Len(Weighed(s, w)) = Len(s)
  BY DEF Weighed
<1>3. ASSUME NEW s \in Seq(X), NEW e \in X
      PROVE  Weighed(Append(s, e), w) = Append(Weighed(s, w), w[e]) /\ w[e] \in Int
  <2> DEFINE t == Append(s, e)
             l == Weighed(t, w)
             r == Append(Weighed(s, w), w[e])
             n == Len(s)
  <2>1. /\ n \in Nat /\ t \in Seq(X) /\ Len(t) = n + 1 /\ t[n + 1] = e
        /\ \A i \in 1 .. n : t[i] = s[i] /\ s[i] \in X
        /\ DOMAIN t = 1 .. n + 1 /\ DOMAIN s = 1 .. n
    OBVIOUS
  <2> HIDE DEF t
  <2>2. l \in Seq(Int) /\ Len(l) = n + 1 /\ \A i \in 1 .. n + 1 : l[i] = w[t[i]]
    BY <2>1, <1>2 DEF Weighed
  <2>3. /\ Weighed(s, w) \in Seq(Int) /\ Len(Weighed(s, w)) = n /\ w[e] \in Int
        /\ \A i \in 1 .. n : Weighed(s, w)[i] = w[s[i]]
    BY <2>1, <1>2 DEF Weighed
  <2>4. /\ r \in Seq(Int) /\ Len(r) = n + 1 /\ r[n + 1] = w[e]
        /\ \A i \in 1 .. n : r[i] = Weighed(s, w)[i]
    BY <2>1, <2>3
  <2> HIDE DEF l, r
  <2>5. \A i \in 1 .. n + 1 : l[i] = r[i]
    <3>1. \A i \in 1 .. n + 1 : i = n + 1 \/ i \in 1 .. n
      BY <2>1
    <3>2. l[n + 1] = r[n + 1]
      BY <2>1, <2>2, <2>4
    <3>3. \A i \in 1 .. n : i \in 1 .. n + 1 /\ l[i] = w[s[i]] /\ r[i] = w[s[i]]
      BY <2>1, <2>2, <2>3, <2>4
    <3> QED
      BY <3>1, <3>2, <3>3
  <2>6. l = r
    BY <2>2, <2>4, <2>5
  <2> QED
    BY <2>3, <2>6 DEF l, r, t
<1> QED
  BY <1>1, <1>2, <1>3

(* One more element weighs its own weight more.                             *)
LEMMA WeighedAppend ==
    ASSUME NEW X, NEW w \in Weights(X), NEW s \in Seq(X), NEW e \in X
    PROVE  /\ Total(Weighed(s, w)) \in Int /\ w[e] \in Int
           /\ Total(Weighed(Append(s, e), w)) = Total(Weighed(s, w)) + w[e]
<1>1. Weighed(s, w) \in Seq(Int) /\ w[e] \in Int
  BY WeighedAre
<1>2. Weighed(Append(s, e), w) = Append(Weighed(s, w), w[e])
  BY WeighedAre
<1> QED
  BY <1>1, <1>2, TotalAppend

(* The weight of what is outside S is taken away.                           *)
Masks(v, w, S, X) ==
    /\ v \in Weights(X) /\ w \in Weights(X)
    /\ \A x \in X : v[x] = IF x \in S THEN w[x] ELSE 0

(* w weighs what u and v weigh.                                             *)
WeighsBoth(w, u, v, X) ==
    /\ w \in Weights(X) /\ u \in Weights(X) /\ v \in Weights(X)
    /\ \A x \in X : w[x] = u[x] + v[x]

(* What a filter keeps weighs as much as the whole list when the others     *)
(* weigh nothing.                                                           *)
LEMMA TotalKept ==
    ASSUME NEW X, NEW seq \in Seq(X), NEW S, NEW v, NEW w, Masks(v, w, S, X)
    PROVE  Total(Weighed(Kept(seq, S), w)) = Total(Weighed(seq, v))
<1> DEFINE T == {s \in Seq(X) : Total(Weighed(Kept(s, S), w)) = Total(Weighed(s, v))}
<1>1. /\ v \in Weights(X) /\ w \in Weights(X)
      /\ \A x \in X : v[x] = IF x \in S THEN w[x] ELSE 0
  BY DEF Masks
<1>2. <<>> \in T
  <2>1. <<>> \in Seq(X)
    OBVIOUS
  <2>2. Weighed(<<>>, v) = <<>> /\ Weighed(<<>>, w) = <<>>
    BY <1>1, WeighedAre
  <2> QED
    BY <2>1, <2>2, KeptEmpty
<1>3. ASSUME NEW s \in Seq(X), NEW e \in X, s \in T
      PROVE  Append(s, e) \in T
  <2>1. Append(s, e) \in Seq(X) /\ Kept(s, S) \in Seq(X)
    BY KeptAre
  <2>4. /\ Total(Weighed(s, v)) \in Int
        /\ Total(Weighed(Append(s, e), v)) = Total(Weighed(s, v)) + v[e]
    BY <1>1, WeighedAppend
  <2>5. Total(Weighed(Append(Kept(s, S), e), w)) = Total(Weighed(Kept(s, S), w)) + w[e]
    BY <1>1, <2>1, WeighedAppend
  <2>6. Total(Weighed(Kept(s, S), w)) = Total(Weighed(s, v))
    BY <1>3
  <2>7. Total(Weighed(Kept(Append(s, e), S), w)) = Total(Weighed(Append(s, e), v))
    <3>1. CASE e \in S
      <4>1. Kept(Append(s, e), S) = Append(Kept(s, S), e) /\ v[e] = w[e]
        BY <1>1, <3>1, KeptAppend
      <4> QED
        BY <2>4, <2>5, <2>6, <4>1
    <3>2. CASE e \notin S
      <4>1. Kept(Append(s, e), S) = Kept(s, S) /\ v[e] = 0
        BY <1>1, <3>2, KeptAppend
      <4> QED
        BY <2>4, <2>6, <4>1
    <3> QED
      BY <3>1, <3>2
  <2> QED
    BY <2>1, <2>7
<1>4. \A s \in Seq(X) : s \in T
  <2> HIDE DEF T
  <2> QED
    BY <1>2, <1>3, SeqSetInduction
<1> QED
  BY <1>4

(* Weights may be added up before or after.                                 *)
LEMMA TotalAdds ==
    ASSUME NEW X, NEW seq \in Seq(X), NEW u, NEW v, NEW w, WeighsBoth(w, u, v, X)
    PROVE  Total(Weighed(seq, u)) + Total(Weighed(seq, v)) = Total(Weighed(seq, w))
<1> DEFINE T == {s \in Seq(X) : /\ Total(Weighed(s, u)) + Total(Weighed(s, v))
                                     = Total(Weighed(s, w))}
<1> USE DEF WeighsBoth
<1>1. <<>> \in T
  <2>1. <<>> \in Seq(X)
    OBVIOUS
  <2>2. Weighed(<<>>, u) = <<>> /\ Weighed(<<>>, v) = <<>> /\ Weighed(<<>>, w) = <<>>
    BY WeighedAre
  <2>3. Total(<<>>) = 0
    BY TotalAppend
  <2> QED
    BY <2>1, <2>2, <2>3
<1>2. ASSUME NEW s \in Seq(X), NEW e \in X, s \in T
      PROVE  Append(s, e) \in T
  <2>2. Total(Weighed(s, u)) + Total(Weighed(s, v)) = Total(Weighed(s, w))
    BY <1>2
  <2>3. w[e] = u[e] + v[e]
    OBVIOUS
  <2>4. Total(Weighed(Append(s, e), u)) + Total(Weighed(Append(s, e), v))
           = Total(Weighed(Append(s, e), w))
    <3>1. /\ Total(Weighed(s, u)) \in Int /\ u[e] \in Int
          /\ Total(Weighed(Append(s, e), u)) = Total(Weighed(s, u)) + u[e]
      BY WeighedAppend
    <3>2. /\ Total(Weighed(s, v)) \in Int /\ v[e] \in Int
          /\ Total(Weighed(Append(s, e), v)) = Total(Weighed(s, v)) + v[e]
      BY WeighedAppend
    <3>3. Total(Weighed(Append(s, e), w)) = Total(Weighed(s, w)) + w[e]
      BY WeighedAppend
    <3> QED
      BY <2>2, <2>3, <3>1, <3>2, <3>3
  <2>5. Append(s, e) \in Seq(X)
    OBVIOUS
  <2> QED
    BY <2>4, <2>5
<1>3. \A s \in Seq(X) : s \in T
  <2> HIDE DEF T
  <2> QED
    BY <1>1, <1>2, SeqSetInduction
<1> QED
  BY <1>3
-----------------------------------------------------------------------------
(* What a reader makes of what leaves: how each change is shown.            *)
Shown(c, to) == [coinType |-> c.coinType, amount |-> c.amount, to |-> to]

ShownSends(d, user, s) ==
    [i \in DOMAIN s |-> Shown(s[i], InferCoinRecipient(d, s[i].coinType, user))]

(* The summary from JSON-RPC in one filter per list.                        *)
LEMMA DryRunSummaryIs ==
    ASSUME NEW d \in DryRun, NEW user
    PROVE  LET out == Kept(d.balanceChanges, OwnedBy(user) \cap Leaves)
           IN  /\ SummarizeDryRun(d, user).sends
                     = [i \in DOMAIN out |->
                           Shown(out[i], InferRecipient(d, out[i].coinType, user))]
               /\ SummarizeDryRun(d, user).receives = Kept(d.balanceChanges, OwnedBy(user) \cap Comes)
               /\ SummarizeDryRun(d, user).gas = Gas(d)
               /\ SummarizeDryRun(d, user).failed = d.failed
               /\ SummarizeDryRun(d, user).objectsLeaving
                     = Left(Kept(d.objectChanges, LeavesBySender(d, user)))
<1>1. d.balanceChanges \in Seq(BalanceChange)
  BY DEF DryRun
<1>2. /\ Kept(Kept(d.balanceChanges, OwnedBy(user)), Leaves) = Kept(d.balanceChanges, OwnedBy(user) \cap Leaves)
      /\ Kept(Kept(d.balanceChanges, OwnedBy(user)), Comes) = Kept(d.balanceChanges, OwnedBy(user) \cap Comes)
  BY <1>1, KeptTwice
<1> QED
  BY <1>2 DEF SummarizeDryRun, Shown

(* A list with one more change has one more send.                           *)
LEMMA ShownAppend ==
    ASSUME NEW d, NEW user, NEW s \in Seq(BalanceChange), NEW e \in BalanceChange
    PROVE  ShownSends(d, user, Append(s, e))
              = Append(ShownSends(d, user, s), Shown(e, InferCoinRecipient(d, e.coinType, user)))
<1> DEFINE t == Append(s, e)
           F(c) == Shown(c, InferCoinRecipient(d, c.coinType, user))
           V == {F(c) : c \in BalanceChange}
           n == Len(s)
           l == ShownSends(d, user, t)
           r == Append(ShownSends(d, user, s), F(e))
<1>1. /\ n \in Nat /\ t \in Seq(BalanceChange) /\ Len(t) = n + 1 /\ t[n + 1] = e
      /\ \A i \in 1 .. n : t[i] = s[i] /\ s[i] \in BalanceChange
      /\ DOMAIN t = 1 .. n + 1 /\ DOMAIN s = 1 .. n
  OBVIOUS
<1> HIDE DEF t, n
<1>2. \A u \in Seq(BalanceChange) :
        ShownSends(d, user, u) = [i \in 1 .. Len(u) |-> F(u[i])]
  BY DEF ShownSends
<1> HIDE DEF F
<1>3. l = [i \in 1 .. n + 1 |-> F(t[i])] /\ ShownSends(d, user, s) = [i \in 1 .. n |-> F(s[i])]
  BY <1>1, <1>2 DEF n
<1>4. /\ F(e) \in V /\ \A i \in 1 .. n : F(s[i]) \in V
      /\ ShownSends(d, user, s) \in Seq(V) /\ Len(ShownSends(d, user, s)) = n
  <2>1. F(e) \in V /\ \A i \in 1 .. n : F(s[i]) \in V
    BY <1>1
  <2> HIDE DEF V
  <2> QED
    BY <1>1, <1>3, <2>1
<1> HIDE DEF V
<1>5. /\ r \in Seq(V) /\ Len(r) = n + 1 /\ r[n + 1] = F(e)
      /\ \A i \in 1 .. n : r[i] = F(s[i])
  BY <1>1, <1>3, <1>4
<1> HIDE DEF r
<1>6. \A i \in 1 .. n + 1 : r[i] = F(t[i])
  <2>1. \A i \in 1 .. n + 1 : i = n + 1 \/ i \in 1 .. n
    BY <1>1
  <2> QED
    BY <1>1, <1>5, <2>1
<1>7. r = [i \in 1 .. n + 1 |-> F(t[i])]
  BY <1>1, <1>5, <1>6
<1> QED
  BY <1>3, <1>7 DEF l, r, t, F

(* The summary from gRPC, which is read in one pass, is two filters as      *)
(* well.                                                                    *)
LEMMA SimulationSummaryIs ==
    ASSUME NEW d \in DryRun, NEW user
    PROVE  /\ SummarizeSimulation(d, user).sends
                 = ShownSends(d, user, Kept(d.balanceChanges, OwnedBy(user) \cap Leaves))
           /\ SummarizeSimulation(d, user).receives = Kept(d.balanceChanges, OwnedBy(user) \cap Comes)
           /\ SummarizeSimulation(d, user).gas = Gas(d)
           /\ SummarizeSimulation(d, user).failed = d.failed
           /\ SummarizeSimulation(d, user).objectsLeaving
                 = Left(Kept(d.objectChanges, LeavesItsOwner(d, user)))
<1> DEFINE b == d.balanceChanges
           n == Len(b)
           F(c) == [coinType |-> c.coinType, amount |-> c.amount,
                    to |-> InferCoinRecipient(d, c.coinType, user)]
           Pushed(list, c, S, shown) == IF c \in OwnedBy(user) \cap S THEN Append(list, shown)
                                        ELSE list
           Step(old, c) == [sends |-> Pushed(old.sends, c, Leaves, F(c)),
                            receives |-> Pushed(old.receives, c, Comes, c)]
           Fun(k) == [i \in 0 .. n |->
                         IF i = 0 THEN [sends |-> <<>>, receives |-> <<>>]
                         ELSE Step(k[i - 1], b[i])]
           chosen == CHOOSE k : k = Fun(k)
<1>1. b \in Seq(BalanceChange) /\ n \in Nat /\ \A i \in 1 .. n : b[i] \in BalanceChange
  BY DEF DryRun
<1>2. PICK out : Filters(out, b, OwnedBy(user) \cap Leaves, n) /\ Kept(b, OwnedBy(user) \cap Leaves) = out[n]
  BY <1>1, KeptFilters
<1>3. PICK in : Filters(in, b, OwnedBy(user) \cap Comes, n) /\ Kept(b, OwnedBy(user) \cap Comes) = in[n]
  BY <1>1, KeptFilters
<1>4. SummarizeSimulation(d, user)
         = [sends |-> chosen[n].sends, receives |-> chosen[n].receives,
            objectsLeaving |-> Left(Kept(d.objectChanges, LeavesItsOwner(d, user))),
            gas |-> Gas(d), failed |-> d.failed]
  BY DEF SummarizeSimulation
<1> DEFINE k == [i \in 0 .. n |-> [sends |-> ShownSends(d, user, out[i]), receives |-> in[i]]]
<1>5. \A i \in 0 .. n : k[i] = [sends |-> ShownSends(d, user, out[i]), receives |-> in[i]]
  OBVIOUS
<1>6. k = [i \in 0 .. n |-> k[i]]
  OBVIOUS
<1>7. Fun(k) = [i \in 0 .. n |-> Fun(k)[i]]
  OBVIOUS
<1>8. /\ \A z : Fun(z)[0] = [sends |-> <<>>, receives |-> <<>>]
      /\ \A z : \A i \in 1 .. n : Fun(z)[i] = Step(z[i - 1], b[i])
  BY <1>1
<1> HIDE DEF k, Fun, Step, chosen, b, n
<1>9. out[0] = <<>> /\ in[0] = <<>> /\ ShownSends(d, user, <<>>) = <<>>
  BY <1>2, <1>3 DEF Filters, ShownSends
<1>10. \A i \in 0 .. n : out[i] \in Seq(BalanceChange)
  <2> DEFINE T == {i \in Nat : i <= n => out[i] \in Seq(BalanceChange)}
  <2>1. 0 \in T
    <3>1. <<>> \in Seq(BalanceChange)
      OBVIOUS
    <3> QED
      BY <1>9, <3>1
  <2>2. ASSUME NEW i \in Nat, i \in T
        PROVE  i + 1 \in T
    <3> SUFFICES ASSUME i + 1 <= n
                 PROVE  out[i + 1] \in Seq(BalanceChange)
      OBVIOUS
    <3>1. i + 1 \in 1 .. n /\ i <= n /\ (i + 1) - 1 = i
      BY <1>1
    <3>2. /\ out[i + 1] = IF b[i + 1] \in OwnedBy(user) \cap Leaves THEN Append(out[i], b[i + 1])
                          ELSE out[i]
          /\ out[i] \in Seq(BalanceChange) /\ b[i + 1] \in BalanceChange
      BY <1>1, <1>2, <2>2, <3>1 DEF Filters
    <3> QED
      BY <3>2
  <2>3. \A i \in Nat : i \in T
    <3> HIDE DEF T
    <3> QED
      BY <2>1, <2>2, NatSetInduction
  <2> QED
    BY <2>3, <1>1
<1>11. ASSUME NEW i \in 1 .. n
       PROVE  k[i] = Step(k[i - 1], b[i])
  <2>1. i - 1 \in 0 .. n /\ i \in 0 .. n
    BY <1>1
  <2>2. /\ out[i] = IF b[i] \in OwnedBy(user) \cap Leaves THEN Append(out[i - 1], b[i]) ELSE out[i - 1]
        /\ in[i] = IF b[i] \in OwnedBy(user) \cap Comes THEN Append(in[i - 1], b[i]) ELSE in[i - 1]
    BY <1>2, <1>3 DEF Filters
  <2>3. /\ k[i - 1].sends = ShownSends(d, user, out[i - 1]) /\ k[i - 1].receives = in[i - 1]
        /\ k[i] = [sends |-> ShownSends(d, user, out[i]), receives |-> in[i]]
    <3>1. k[i] = [sends |-> ShownSends(d, user, out[i]), receives |-> in[i]]
      BY <1>5, <2>1, Zenon
    <3>2. k[i - 1] = [sends |-> ShownSends(d, user, out[i - 1]), receives |-> in[i - 1]]
      BY <1>5, <2>1, Zenon
    <3> QED
      BY <3>1, <3>2
  <2>4. ShownSends(d, user, out[i]) = IF b[i] \in OwnedBy(user) \cap Leaves
                                THEN Append(ShownSends(d, user, out[i - 1]), F(b[i]))
                                ELSE ShownSends(d, user, out[i - 1])
    <3>1. out[i - 1] \in Seq(BalanceChange) /\ b[i] \in BalanceChange
      BY <1>1, <1>10, <2>1
    <3>2. ShownSends(d, user, Append(out[i - 1], b[i]))
            = Append(ShownSends(d, user, out[i - 1]),
                     Shown(b[i], InferCoinRecipient(d, b[i].coinType, user)))
      BY <3>1, ShownAppend
    <3>3. Shown(b[i], InferCoinRecipient(d, b[i].coinType, user)) = F(b[i])
      BY DEF Shown
    <3> HIDE DEF F
    <3> QED
      BY <2>2, <3>2, <3>3
  <2> HIDE DEF F
  <2> QED
    BY <2>2, <2>3, <2>4 DEF Step
<1>12. k = Fun(k)
  <2>1. ASSUME NEW i \in 0 .. n
        PROVE  k[i] = Fun(k)[i]
    <3>1. CASE i = 0
      BY <1>5, <1>8, <1>9, <3>1
    <3>2. CASE i # 0
      <4>1. i \in 1 .. n
        BY <1>1, <3>2
      <4> QED
        BY <1>8, <1>11, <4>1
    <3> QED
      BY <3>1, <3>2
  <2> QED
    BY <1>6, <1>7, <2>1
<1>13. chosen = Fun(chosen)
  BY <1>12 DEF chosen
<1>14. \A i \in 0 .. n : chosen[i] = k[i]
  <2> DEFINE T == {i \in Nat : i <= n => chosen[i] = k[i]}
  <2>1. 0 \in T
    <3>1. chosen[0] = Fun(chosen)[0] /\ k[0] = Fun(k)[0]
      BY <1>12, <1>13
    <3> QED
      BY <1>8, <3>1
  <2>2. ASSUME NEW i \in Nat, i \in T
        PROVE  i + 1 \in T
    <3> SUFFICES ASSUME i + 1 <= n
                 PROVE  chosen[i + 1] = k[i + 1]
      OBVIOUS
    <3>1. i + 1 \in 1 .. n /\ i <= n /\ (i + 1) - 1 = i
      BY <1>1
    <3>2. chosen[i + 1] = Fun(chosen)[i + 1] /\ k[i + 1] = Fun(k)[i + 1]
      BY <1>12, <1>13
    <3>3. /\ Fun(chosen)[i + 1] = Step(chosen[(i + 1) - 1], b[i + 1])
          /\ Fun(k)[i + 1] = Step(k[(i + 1) - 1], b[i + 1])
      BY <1>8, <3>1
    <3>4. chosen[i] = k[i]
      BY <2>2, <3>1
    <3> QED
      BY <3>1, <3>2, <3>3, <3>4
  <2>3. \A i \in Nat : i \in T
    <3> HIDE DEF T
    <3> QED
      BY <2>1, <2>2, NatSetInduction
  <2> QED
    BY <2>3, <1>1
<1>15. chosen[n] = [sends |-> ShownSends(d, user, out[n]), receives |-> in[n]]
  <2>1. n \in 0 .. n
    BY <1>1
  <2> QED
    BY <1>5, <1>14, <2>1
<1> QED
  BY <1>2, <1>3, <1>4, <1>15 DEF b

(* What weighs in the coin of a row.                                        *)
InCoinOnly(coinType) ==
    [c \in BalanceChange |-> IF c.coinType = coinType THEN c.amount ELSE 0]

Plain == [c \in BalanceChange |-> c.amount]

(* Amounts and nets of lists of changes are weights of their elements.      *)
LEMMA AmountsAreWeights ==
    ASSUME NEW s \in Seq(BalanceChange), NEW coinType
    PROVE  /\ Plain \in Weights(BalanceChange) /\ InCoinOnly(coinType) \in Weights(BalanceChange)
           /\ AmountsOf(s) = Weighed(s, Plain)
           /\ NetOf(s, coinType) = Total(Weighed(s, InCoinOnly(coinType)))
<1>1. \A c \in BalanceChange : c.amount \in Int
  BY FactsAssumption DEF BalanceChange
<1>2. \A i \in DOMAIN s : s[i] \in BalanceChange
  OBVIOUS
<1>3. AmountsOf(s) = Weighed(s, Plain)
  BY <1>2 DEF AmountsOf, Weighed, Plain
<1>4. [i \in DOMAIN s |-> IF s[i].coinType = coinType THEN s[i].amount ELSE 0]
         = Weighed(s, InCoinOnly(coinType))
  BY <1>2 DEF Weighed, InCoinOnly
<1>5. Plain \in Weights(BalanceChange) /\ InCoinOnly(coinType) \in Weights(BalanceChange)
  BY <1>1 DEF Plain, InCoinOnly, Weights
<1> QED
  BY <1>3, <1>4, <1>5 DEF NetOf

(* A send that is shown keeps the coin and the amount of its change.        *)
LEMMA ShownAmounts ==
    ASSUME NEW s, NEW sends, NEW coinType, DOMAIN sends = DOMAIN s,
           \A i \in DOMAIN s : sends[i].coinType = s[i].coinType /\ sends[i].amount = s[i].amount
    PROVE  AmountsOf(sends) = AmountsOf(s) /\ NetOf(sends, coinType) = NetOf(s, coinType)
<1>1. AmountsOf(sends) = AmountsOf(s)
  BY DEF AmountsOf
<1>2. [i \in DOMAIN sends |-> IF sends[i].coinType = coinType THEN sends[i].amount ELSE 0]
        = [i \in DOMAIN s |-> IF s[i].coinType = coinType THEN s[i].amount ELSE 0]
  OBVIOUS
<1> QED
  BY <1>1, <1>2 DEF NetOf

(* What a list holds is of the list's type.                                 *)
LEMMA ElementsAre ==
    ASSUME NEW X, NEW s \in Seq(X)
    PROVE  \A e \in ToSet(s) : e \in X
  BY DEF ToSet

(* The first owner is one of the changes that are kept, if any is.          *)
LEMMA FirstOwnerIs ==
    ASSUME NEW s \in Seq(BalanceChange), NEW S
    PROVE  \/ /\ FirstOwner(Kept(s, S)) = Nobody
              /\ ToSet(s) \cap S = {}
           \/ \E c \in ToSet(s) \cap S : FirstOwner(Kept(s, S)) = c.owner
<1>1. Kept(s, S) \in Seq(BalanceChange) /\ ToSet(Kept(s, S)) = ToSet(s) \cap S
  BY KeptAre
<1>2. CASE Kept(s, S) = <<>>
  <2>1. ToSet(<<>>) = {}
    BY DEF ToSet
  <2> QED
    BY <1>1, <1>2, <2>1 DEF FirstOwner
<1>3. CASE Kept(s, S) # <<>>
  <2>1. Head(Kept(s, S)) \in ToSet(Kept(s, S))
    <3>1. 1 \in DOMAIN Kept(s, S) /\ Head(Kept(s, S)) = Kept(s, S)[1]
      BY <1>1, <1>3
    <3> QED
      BY <3>1 DEF ToSet
  <2> QED
    BY <1>1, <1>3, <2>1 DEF FirstOwner
<1> QED
  BY <1>2, <1>3

(* An address in small letters is one, of the same holder.                  *)
LEMMA LowerIs ==
    ASSUME NEW a \in Address
    PROVE  /\ a # Nobody /\ ToLowerCase(a) # Nobody
           /\ AddressOwner(a) = IF a.of \in Accounts THEN ToLowerCase(a) ELSE Nobody
<1>1. a # Nobody
  BY FactsAssumption
<1>2. [a EXCEPT !.lower = TRUE] \in Address
  BY DEF Address
<1>3. ToLowerCase(a) # Nobody
  BY <1>1, <1>2, FactsAssumption DEF ToLowerCase
<1> QED
  BY <1>1, <1>3 DEF AddressOwner

(* Nobody has no address.                                                   *)
LEMMA NobodyIs == ToLowerCase(Nobody) = Nobody /\ AddressOwner(Nobody) = Nobody
  BY DEF ToLowerCase, AddressOwner

(* An address with its leading zeros needs only small letters.              *)
LEMMA PaddedIsLower ==
    ASSUME NEW a \in Address, a.padded
    PROVE  NormalizeSuiAddress(a) = ToLowerCase(a)
<1>1. a # Nobody
  BY LowerIs
<1>2. a.padded = TRUE
  BY DEF Address
<1>3. [a EXCEPT !.padded = TRUE, !.lower = TRUE] = [a EXCEPT !.lower = TRUE]
  BY <1>2 DEF Address
<1> QED
  BY <1>1, <1>3 DEF NormalizeSuiAddress, ToLowerCase

(* The enclave's outflow and recipient are those of the summary.            *)
LEMMA EnclaveSeesIt ==
    ASSUME NEW d \in DryRun, NEW user
    PROVE  EnclaveSees(d, user)
<1> DEFINE b == d.balanceChanges
           out == Kept(b, OwnedBy(user) \cap Leaves)
           to == Comes \ OwnedBy(user)
<1>1. b \in Seq(BalanceChange) /\ out \in Seq(BalanceChange)
  BY KeptAre DEF DryRun
<1>2. /\ Sent(d, user) = [i \in DOMAIN out |->
                       Shown(out[i], InferRecipient(d, out[i].coinType, user))]
      /\ SummarizeDryRun(d, user).failed = d.failed
  BY DryRunSummaryIs DEF Sent
<1>3. DerivePolicyRequest(d, user, "0x2").error = d.failed
  <2>1. d.failed \in BOOLEAN
    BY DEF DryRun
  <2> QED
    BY <2>1, Zenon DEF DerivePolicyRequest
<1>4. ~d.failed => /\ DerivePolicyRequest(d, user, "0x2").netOutflow = NetOutflow(d, user)
                   /\ DerivePolicyRequest(d, user, "0x2").recipient = Recipient(d, user)
  BY DEF DerivePolicyRequest
<1>5. NetOutflow(d, user) = IF Amount(Sent(d, user)) > OutflowMax THEN OutflowMax
                            ELSE Amount(Sent(d, user))
  <2> HIDE DEF out
  <2>1. /\ DOMAIN Sent(d, user) = DOMAIN out
        /\ \A i \in DOMAIN out : /\ Sent(d, user)[i].coinType = out[i].coinType
                                 /\ Sent(d, user)[i].amount = out[i].amount
    BY <1>2 DEF Shown
  <2>2. AmountsOf(Sent(d, user)) = AmountsOf(out)
    BY <2>1, ShownAmounts
  <2> QED
    BY <2>2 DEF NetOutflow, Amount, out
<1>6. ASSUME NEW a \in Address, a.of \in Accounts, PaidTo(d, user) = {a}
      PROVE  /\ Recipient(d, user) = a
             /\ \A i \in DOMAIN Sent(d, user) : Sent(d, user)[i].to \in {a, Nobody}
  <2>1. ToSet(b) \cap to # {} /\ \A c \in ToSet(b) \cap to : ToLowerCase(c.owner) = a
    <3> HIDE DEF to
    <3>1. PaidTo(d, user) = {ToLowerCase(c.owner) : c \in ToSet(b) \cap to}
      BY DEF PaidTo, to
    <3> QED
      BY <1>6, <3>1, Zenon
  <2>2. Recipient(d, user) = a
    <3> HIDE DEF to
    <3>1. ToLowerCase(FirstOwner(Kept(b, to))) = a
      BY <1>1, <2>1, FirstOwnerIs, Zenon
    <3>2. PositiveBalanceRecipient(d, user) = a
      BY <3>1 DEF PositiveBalanceRecipient, to
    <3>3. a # Nobody
      BY LowerIs
    <3> QED
      BY <3>2, <3>3 DEF Recipient
  <2>3. ASSUME NEW coinType
        PROVE  InferRecipient(d, coinType, user) \in {a, Nobody}
    <3> DEFINE S == {c \in (InCoin(coinType) \cap Comes) \ OwnedBy(user) :
                        c.owner.of \in Accounts}
    <3>1. S \subseteq to
      OBVIOUS
    <3>2. InferRecipient(d, coinType, user) = AddressOwner(FirstOwner(Kept(b, S)))
      BY DEF InferRecipient
    <3>3. \A c \in S : c.owner.of \in Accounts
      OBVIOUS
    <3> HIDE DEF S, to
    <3>4. CASE FirstOwner(Kept(b, S)) = Nobody
      BY <3>2, <3>4, NobodyIs
    <3>5. ASSUME NEW c \in ToSet(b) \cap S, FirstOwner(Kept(b, S)) = c.owner
          PROVE  InferRecipient(d, coinType, user) = a
      <4>1. c \in BalanceChange
        BY <1>1, ElementsAre
      <4>2. c.owner \in Address
        BY <4>1 DEF BalanceChange
      <4>3. AddressOwner(c.owner) = ToLowerCase(c.owner)
        BY <3>3, <4>2, LowerIs
      <4>4. ToLowerCase(c.owner) = a
        BY <2>1, <3>1
      <4> QED
        BY <3>2, <3>5, <4>3, <4>4
    <3>6. \/ FirstOwner(Kept(b, S)) = Nobody
          \/ \E c \in ToSet(b) \cap S : FirstOwner(Kept(b, S)) = c.owner
      BY <1>1, FirstOwnerIs, Zenon
    <3> QED
      BY <3>4, <3>5, <3>6
  <2>4. \A i \in DOMAIN Sent(d, user) : Sent(d, user)[i].to = InferRecipient(d, out[i].coinType, user)
    <3> HIDE DEF out
    <3> QED
      BY <1>2 DEF Shown
  <2> QED
    BY <2>2, <2>3, <2>4
<1> QED
  BY <1>2, <1>3, <1>4, <1>5, <1>6, Zenon DEF EnclaveSees

(* A recipient that is an account is the same to both readers.              *)
LEMMA RecipientsAgree ==
    ASSUME NEW d \in DryRun, NEW user, NEW coinType,
           \A c \in ToSet(d.balanceChanges) : c.owner.of \in Accounts
    PROVE  InferRecipient(d, coinType, user)
              = ToLowerCase(InferCoinRecipient(d, coinType, user))
<1> DEFINE b == d.balanceChanges
           B == (InCoin(coinType) \cap Comes) \ OwnedBy(user)
           A == {c \in B : c.owner.of \in Accounts}
           first == FirstOwner(Kept(b, B))
<1>1. b \in Seq(BalanceChange)
  BY DEF DryRun
<1>2. \A i \in 1 .. Len(b) : b[i] \in ToSet(b)
  BY <1>1 DEF ToSet
<1>3. \A i \in 1 .. Len(b) : b[i] \in A <=> b[i] \in B
  BY <1>2
<1>4. /\ InferRecipient(d, coinType, user) = AddressOwner(FirstOwner(Kept(b, A)))
      /\ InferCoinRecipient(d, coinType, user) = first
  BY DEF InferRecipient, InferCoinRecipient
<1>5. \A c \in ToSet(b) : c.owner \in Address /\ c.owner.of \in Accounts
  <2>1. \A c \in ToSet(b) : c \in BalanceChange
    BY <1>1, ElementsAre
  <2> QED
    BY <2>1 DEF BalanceChange
<1> HIDE DEF A, B, b
<1>6. Kept(b, A) = Kept(b, B)
  BY <1>1, <1>3, KeptSame
<1>7. AddressOwner(first) = ToLowerCase(first)
  <2>1. CASE first = Nobody
    BY <2>1, NobodyIs
  <2>2. ASSUME NEW c \in ToSet(b), first = c.owner
        PROVE  AddressOwner(first) = ToLowerCase(first)
    BY <1>5, <2>2, LowerIs
  <2>3. first = Nobody \/ \E c \in ToSet(b) \cap B : first = c.owner
    BY <1>1, FirstOwnerIs, Zenon
  <2> QED
    BY <2>1, <2>2, <2>3
<1> QED
  BY <1>4, <1>6, <1>7

(* What the gRPC summary shows as leaving the JSON-RPC one shows too.       *)
LEMMA ObjectsAgree ==
    ASSUME NEW d \in DryRun, NEW user \in Address,
           \A c \in ToSet(d.objectChanges) : ToLowerCase(c.sender) = ToLowerCase(user)
    PROVE  LET json == Left(Kept(d.objectChanges, LeavesBySender(d, user)))
               grpc == Left(Kept(d.objectChanges, LeavesItsOwner(d, user)))
           IN  /\ ToSet(grpc) \subseteq ToSet(json)
               /\ LeavesBySender(d, user) \subseteq Lost(d, user) => grpc = json
<1> DEFINE o == d.objectChanges
           J == LeavesBySender(d, user)
           G == LeavesItsOwner(d, user)
<1>1. o \in Seq(Rendered)
  BY DEF DryRun
<1>2. ToLowerCase(user) # Nobody
  BY LowerIs
<1>3. G \subseteq J
  <2> SUFFICES ASSUME NEW c \in G
               PROVE  c \in J
    OBVIOUS
  <2>1. /\ c \in ToSet(o) /\ AddressOwner(c.inputOwner) = ToLowerCase(user)
        /\ \/ c.change \in {"wrapped", "deleted"}
           \/ AddressOwner(c.outputOwner) \notin {Nobody, ToLowerCase(user)}
    BY DEF LeavesItsOwner
  <2>2. c \in Rendered
    BY <1>1, <2>1, ElementsAre
  <2>3. /\ c.change \in {"created", "mutated", "transferred", "wrapped", "deleted"}
        /\ c.change = "created" => c.inputOwner = Nobody
        /\ c.change = "mutated" => c.outputOwner = c.inputOwner
    BY <2>2 DEF Rendered, ObjectChange
  <2>4. c.change # "created"
    BY <1>2, <2>1, <2>3, NobodyIs
  <2>5. c.change # "mutated"
    BY <2>1, <2>3
  <2> QED
    BY <2>1, <2>3, <2>4, <2>5 DEF LeavesBySender
<1>4. J \subseteq Lost(d, user) => J \subseteq G
  BY DEF LeavesBySender, LeavesItsOwner, Lost
<1>5. /\ J \subseteq ToSet(o) /\ G \subseteq ToSet(o)
      /\ \A i \in 1 .. Len(o) : o[i] \in ToSet(o)
  BY <1>1 DEF LeavesBySender, LeavesItsOwner, ToSet
<1> HIDE DEF o, J, G
<1>6. /\ ToSet(Kept(o, G)) = ToSet(o) \cap G /\ ToSet(Kept(o, J)) = ToSet(o) \cap J
  BY <1>1, KeptAre
<1>7. ToSet(Left(Kept(o, G))) \subseteq ToSet(Left(Kept(o, J)))
  <2> DEFINE row(c) == [objectId |-> c.objectId, to |-> AddressOwner(c.outputOwner)]
  <2>1. \A s : ToSet(Left(s)) = {row(c) : c \in ToSet(s)}
    BY DEF ToSet, Left
  <2>2. ToSet(Kept(o, G)) \subseteq ToSet(Kept(o, J))
    BY <1>3, <1>6
  <2> HIDE DEF row
  <2> QED
    BY <2>1, <2>2
<1>8. J \subseteq Lost(d, user) => Kept(o, G) = Kept(o, J)
  <2> SUFFICES ASSUME J \subseteq Lost(d, user)
               PROVE  Kept(o, G) = Kept(o, J)
    OBVIOUS
  <2>1. \A i \in 1 .. Len(o) : o[i] \in G <=> o[i] \in J
    BY <1>3, <1>4
  <2> QED
    BY <1>1, <2>1, KeptSame
<1> QED
  BY <1>7, <1>8 DEF o, J, G

(* The two summaries name the same amounts, and recipients that are         *)
(* accounts.                                                                *)
LEMMA SendsAgree ==
    ASSUME NEW d \in DryRun, NEW user
    PROVE  SameSends(d, SummarizeDryRun(d, user).sends, SummarizeSimulation(d, user).sends)
<1> DEFINE out == Kept(d.balanceChanges, OwnedBy(user) \cap Leaves)
           json == SummarizeDryRun(d, user).sends
           grpc == SummarizeSimulation(d, user).sends
<1>1. json = [i \in DOMAIN out |-> Shown(out[i], InferRecipient(d, out[i].coinType, user))]
  BY DryRunSummaryIs
<1>2. grpc = [i \in DOMAIN out |->
                Shown(out[i], InferCoinRecipient(d, out[i].coinType, user))]
  BY SimulationSummaryIs DEF ShownSends
<1> HIDE DEF out, json, grpc
<1>3. /\ DOMAIN json = DOMAIN out /\ DOMAIN grpc = DOMAIN out
      /\ \A i \in DOMAIN out :
            /\ json[i].coinType = out[i].coinType /\ grpc[i].coinType = out[i].coinType
            /\ json[i].amount = out[i].amount /\ grpc[i].amount = out[i].amount
            /\ json[i].to = InferRecipient(d, out[i].coinType, user)
            /\ grpc[i].to = InferCoinRecipient(d, out[i].coinType, user)
  BY <1>1, <1>2 DEF Shown
<1>4. ASSUME \A c \in ToSet(d.balanceChanges) : c.owner.of \in Accounts,
             NEW i \in DOMAIN out
      PROVE  json[i].to = ToLowerCase(grpc[i].to)
  BY <1>3, <1>4, RecipientsAgree
<1> QED
  BY <1>3, <1>4 DEF SameSends, json, grpc

(* So the two summaries agree.                                              *)
LEMMA SummariesDoAgree ==
    ASSUME NEW d \in DryRun, NEW user \in Address
    PROVE  SummariesAgree(d, user)
<1> DEFINE json == SummarizeDryRun(d, user)
           grpc == SummarizeSimulation(d, user)
<1>1. /\ json.receives = Kept(d.balanceChanges, OwnedBy(user) \cap Comes)
      /\ json.gas = Gas(d) /\ json.failed = d.failed
      /\ json.objectsLeaving = Left(Kept(d.objectChanges, LeavesBySender(d, user)))
  BY DryRunSummaryIs
<1>2. /\ grpc.receives = Kept(d.balanceChanges, OwnedBy(user) \cap Comes)
      /\ grpc.gas = Gas(d) /\ grpc.failed = d.failed
      /\ grpc.objectsLeaving = Left(Kept(d.objectChanges, LeavesItsOwner(d, user)))
  BY SimulationSummaryIs
<1>3. SameSends(d, json.sends, grpc.sends)
  BY SendsAgree
<1> HIDE DEF json, grpc
<1>4. SameObjects(d, user, json.objectsLeaving, grpc.objectsLeaving)
  BY <1>1, <1>2, ObjectsAgree DEF SameObjects
<1> QED
  BY <1>1, <1>2, <1>3, <1>4 DEF SummariesAgree, json, grpc

(* The row's net is the difference of what the summary lists of its coin.   *)
LEMMA RowDoesAgree ==
    ASSUME NEW d \in DryRun, NEW user \in Address
    PROVE  RowAgrees(d, user)
<1> SUFFICES ASSUME user.padded, \A c \in ToSet(d.balanceChanges) : c.owner.padded
             PROVE  LET shown == SummarizeDryRun(d, user)
                        row == ActivityRow(d, user)
                        net == NetOf(shown.receives, row.coinType)
                                 + NetOf(shown.sends, row.coinType)
                    IN  /\ row.amount = Absolute(net)
                        /\ (row.direction = "outbound") <=> (net < 0)
                        /\ (row.direction = "inbound") <=> (net > 0)
  BY DEF RowAgrees
<1> DEFINE b == d.balanceChanges
           out == Kept(b, OwnedBy(user) \cap Leaves)
           in == Kept(b, OwnedBy(user) \cap Comes)
           sends == SummarizeDryRun(d, user).sends
           own == Kept(b, OwnedBy(user))
           coin == PrimaryCoin(own)
           net == Total(AmountsOf(Kept(own, InCoin(coin))))
<1>1. /\ b \in Seq(BalanceChange) /\ out \in Seq(BalanceChange) /\ in \in Seq(BalanceChange)
      /\ own \in Seq(BalanceChange)
  BY KeptAre DEF DryRun
<1>2. /\ sends = [i \in DOMAIN out |->
                     Shown(out[i], InferRecipient(d, out[i].coinType, user))]
      /\ SummarizeDryRun(d, user).receives = in
  BY DryRunSummaryIs
<1>3. ActivityRow(d, user) = Row(coin, net, d)
  <2>1. \A c \in ToSet(b) : c.owner \in Address
    <3>1. \A c \in ToSet(b) : c \in BalanceChange
      BY <1>1, ElementsAre
    <3> QED
      BY <3>1 DEF BalanceChange
  <2>2. \A c \in ToSet(b) : NormalizeSuiAddress(c.owner) = ToLowerCase(c.owner)
    BY <2>1, PaddedIsLower
  <2>3. NormalizeSuiAddress(user) = ToLowerCase(user)
    BY PaddedIsLower
  <2>4. \A i \in 1 .. Len(b) : b[i] \in ToSet(b)
    BY <1>1 DEF ToSet
  <2>5. \A i \in 1 .. Len(b) : b[i] \in OwnedByPadded(user) <=> b[i] \in OwnedBy(user)
    BY <2>2, <2>3, <2>4 DEF OwnedByPadded, OwnedBy
  <2> HIDE DEF b
  <2>6. Kept(b, OwnedByPadded(user)) = own
    BY <1>1, <2>5, KeptSame
  <2> QED
    BY <2>6 DEF ActivityRow, b
<1>4. Kept(own, InCoin(coin)) = Kept(b, OwnedBy(user) \cap InCoin(coin))
  BY <1>1, KeptTwice
<1> HIDE DEF b, out, in, sends, coin, own
<1>5. NetOf(sends, coin) = NetOf(out, coin)
  <2>1. /\ DOMAIN sends = DOMAIN out
        /\ \A i \in DOMAIN out : /\ sends[i].coinType = out[i].coinType
                                 /\ sends[i].amount = out[i].amount
    BY <1>2 DEF Shown
  <2> QED
    BY <2>1, ShownAmounts
<1> DEFINE w == InCoinOnly(coin)
           sent == [c \in BalanceChange |-> IF c \in OwnedBy(user) \cap Leaves THEN w[c] ELSE 0]
           got == [c \in BalanceChange |-> IF c \in OwnedBy(user) \cap Comes THEN w[c] ELSE 0]
           all == [c \in BalanceChange |->
                      IF c \in OwnedBy(user) \cap InCoin(coin) THEN Plain[c] ELSE 0]
<1>6. w \in Weights(BalanceChange) /\ Plain \in Weights(BalanceChange)
  BY <1>1, AmountsAreWeights
<1>7. \A c \in BalanceChange : w[c] = (IF c.coinType = coin THEN c.amount ELSE 0)
                                /\ Plain[c] = c.amount
  BY DEF InCoinOnly, Plain
<1> HIDE DEF w
<1>8. /\ sent \in Weights(BalanceChange) /\ got \in Weights(BalanceChange)
      /\ all \in Weights(BalanceChange)
  BY <1>6 DEF Weights
<1>9. /\ \A c \in BalanceChange : sent[c] = IF c \in OwnedBy(user) \cap Leaves THEN w[c] ELSE 0
      /\ \A c \in BalanceChange : got[c] = IF c \in OwnedBy(user) \cap Comes THEN w[c] ELSE 0
      /\ \A c \in BalanceChange : all[c] = IF c \in OwnedBy(user) \cap InCoin(coin) THEN Plain[c]
                                                                           ELSE 0
  OBVIOUS
<1>10. \A c \in BalanceChange : all[c] = got[c] + sent[c]
  <2> SUFFICES ASSUME NEW c \in BalanceChange
               PROVE  all[c] = got[c] + sent[c]
    OBVIOUS
  <2>1. c.amount \in Int
    BY FactsAssumption DEF BalanceChange
  <2>2. /\ c \in Leaves <=> c.amount < 0
        /\ c \in Comes <=> c.amount > 0
        /\ c \in InCoin(coin) <=> c.coinType = coin
    BY DEF Leaves, Comes, InCoin
  <2>3. /\ sent[c] = IF c \in OwnedBy(user) /\ c.amount < 0 /\ c.coinType = coin THEN c.amount ELSE 0
        /\ got[c] = IF c \in OwnedBy(user) /\ c.amount > 0 /\ c.coinType = coin THEN c.amount ELSE 0
        /\ all[c] = IF c \in OwnedBy(user) /\ c.coinType = coin THEN c.amount ELSE 0
    BY <1>7, <2>2
  <2> QED
    BY <2>1, <2>3
<1>17. /\ Masks(sent, w, OwnedBy(user) \cap Leaves, BalanceChange)
       /\ Masks(got, w, OwnedBy(user) \cap Comes, BalanceChange)
       /\ Masks(all, Plain, OwnedBy(user) \cap InCoin(coin), BalanceChange)
       /\ WeighsBoth(all, got, sent, BalanceChange)
  <2> HIDE DEF sent, got, all
  <2> QED
    BY <1>6, <1>8, <1>9, <1>10 DEF Masks, WeighsBoth
<1> HIDE DEF sent, got, all, net
<1>11. /\ NetOf(out, coin) = Total(Weighed(b, sent))
       /\ NetOf(in, coin) = Total(Weighed(b, got))
  <2>1. /\ NetOf(out, coin) = Total(Weighed(out, w))
        /\ NetOf(in, coin) = Total(Weighed(in, w))
    BY <1>1, AmountsAreWeights DEF w
  <2>2. Total(Weighed(out, w)) = Total(Weighed(b, sent))
    BY <1>1, <1>17, TotalKept DEF out
  <2>3. Total(Weighed(in, w)) = Total(Weighed(b, got))
    BY <1>1, <1>17, TotalKept DEF in
  <2> QED
    BY <2>1, <2>2, <2>3
<1>12. net = Total(Weighed(b, all))
  <2> DEFINE mine == Kept(b, OwnedBy(user) \cap InCoin(coin))
  <2>1. mine \in Seq(BalanceChange)
    BY <1>1, KeptAre
  <2>2. net = Total(Weighed(mine, Plain))
    BY <1>4, <2>1, AmountsAreWeights DEF net
  <2>3. Total(Weighed(mine, Plain)) = Total(Weighed(b, all))
    BY <1>1, <1>17, TotalKept
  <2> QED
    BY <2>2, <2>3
<1>13. Total(Weighed(b, got)) + Total(Weighed(b, sent)) = Total(Weighed(b, all))
  BY <1>1, <1>17, TotalAdds
<1>14. net = NetOf(in, coin) + NetOf(sends, coin)
  BY <1>5, <1>11, <1>12, <1>13
<1>15. net \in Int
  <2>1. Weighed(b, all) \in Seq(Int)
    BY <1>1, <1>8, WeighedAre
  <2> QED
    BY <1>12, <2>1, TotalAppend
<1>16. /\ Row(coin, net, d).amount = Absolute(net) /\ Row(coin, net, d).coinType = coin
       /\ (Row(coin, net, d).direction = "outbound") <=> (net < 0)
       /\ (Row(coin, net, d).direction = "inbound") <=> (net > 0)
  BY <1>15 DEF Row
<1> QED
  BY <1>2, <1>3, <1>14, <1>16 DEF sends
-----------------------------------------------------------------------------
(* Only one input is read, and it is one of those that are given.           *)
ReadGiven ==
    \/ read = Nothing
    \/ \E d \in DryRuns, u \in Users : read = [of |-> "dryRun", input |-> d, user |-> u]

(* What is read stays what was given.                                       *)
LEMMA ReadStaysGiven ==
    /\ MirrorInit => ReadGiven
    /\ ReadGiven /\ [MirrorNext]_mirrorVars => ReadGiven'
<1>1. MirrorInit => ReadGiven
  BY DEF MirrorInit, ReadGiven
<1>2. ASSUME ReadGiven, [MirrorNext]_mirrorVars
      PROVE  ReadGiven'
  <2>1. CASE UNCHANGED read
    BY <1>2, <2>1 DEF ReadGiven
  <2>2. CASE ReadInput
    BY <2>2, Zenon DEF ReadInput, ReadGiven
  <2> QED
    BY <1>2, <2>1, <2>2, Zenon DEF MirrorNext, mirrorVars
<1> QED
  BY <1>1, <1>2

(* What is read is a dry run, for a user who is an account.                 *)
LEMMA InputIsGiven ==
    ASSUME ReadGiven, read.of = "dryRun"
    PROVE  read.input \in DryRun /\ read.user \in Address /\ read.user.of \in Accounts
<1>1. CASE read = Nothing
  BY <1>1 DEF Nothing
<1>2. ASSUME NEW d \in DryRuns, NEW u \in Users,
             read = [of |-> "dryRun", input |-> d, user |-> u]
      PROVE  /\ d \in DryRun /\ u \in Address /\ u.of \in Accounts
             /\ read.input = d /\ read.user = u
  BY <1>2, MirrorsAssumption
<1> QED
  BY <1>1, <1>2 DEF ReadGiven

(* Reading an input is a step that leaves the sub-account alone: all that   *)
(* is shown of SubAccount's Spec holds of MirrorSpec.                       *)
THEOREM MirrorsImplementSubAccount == MirrorSpec => Spec
<1>1. MirrorInit => Init
  BY DEF MirrorInit
<1>2. [MirrorNext]_mirrorVars => [Next]_subVars
  BY DEF MirrorNext, ReadInput, mirrorVars
<1> QED
  BY <1>1, <1>2, PTL DEF MirrorSpec, Spec

(* The enclave decides on what the user is shown, for dry runs of every     *)
(* length (simulation.rs:82-159, dry-run-summary.ts:41-118).                *)
THEOREM EnclaveAlwaysSeesWhatIsShown == MirrorSpec => []EnclaveSeesWhatIsShown
<1>1. ReadGiven => EnclaveSeesWhatIsShown
  BY InputIsGiven, EnclaveSeesIt DEF EnclaveSeesWhatIsShown
<1> QED
  BY <1>1, ReadStaysGiven, PTL DEF MirrorSpec

(* The two summaries and the activity row agree, for dry runs of every      *)
(* length (dry-run-summary.ts, sim-summary.ts, activity.ts:98-126).         *)
THEOREM ReadersAlwaysAgree == MirrorSpec => []ReadersAgree
<1>1. ReadGiven => ReadersAgree
  BY InputIsGiven, SummariesDoAgree, RowDoesAgree DEF ReadersAgree
<1> QED
  BY <1>1, ReadStaysGiven, PTL DEF MirrorSpec
=============================================================================
