---------------------------- MODULE ExpenseProofs ----------------------------
(***************************************************************************)
(* Proofs about expenses: the settlement of a payable, one expense from    *)
(* draft to payment, and the budget several expenses draw on.  For any     *)
(* people, stages, contents, vouchers, expenses and amounts.               *)
(***************************************************************************)
EXTENDS ExpenseToPay, ExpenseBudget, SettlementLedger, WorkflowProofs

-----------------------------------------------------------------------------
(* The settlement of a payable *)

\* The account starts empty and every step respects the two inequalities.
LEMMA SolventInit == LedgerInit => Solvent
  BY DEF LedgerInit, Solvent

\* Booking, reserving, releasing and settling keep paid <= reserved <= due.
LEMMA SolventNext == Solvent /\ [LedgerNext]_ledgerVars => Solvent'
<1> SUFFICES ASSUME Solvent, [LedgerNext]_ledgerVars PROVE Solvent'
  OBVIOUS
<1>1. ASSUME NEW d \in Payables, Book(d) PROVE Solvent'
  BY <1>1 DEF Book, Solvent
<1>2. ASSUME NEW a \in 1..reserved, Release(a) PROVE Solvent'
  BY <1>2 DEF Release, Solvent
<1>3. ASSUME NEW a \in 1..reserved, Settle(a) PROVE Solvent'
  BY <1>3 DEF Settle, Solvent
<1>4. ASSUME NEW a \in 1..due, Reserve(a) PROVE Solvent'
  BY <1>4 DEF Reserve, Solvent
<1>5. CASE UNCHANGED ledgerVars
  BY <1>5 DEF ledgerVars, Solvent
<1> QED
  BY <1>1, <1>2, <1>3, <1>4, <1>5 DEF LedgerNext

\* payExpense and executeExpensePayment, through the settlement they implement:
\* a payable is never over-reserved and never overpaid.
THEOREM NeverOverpaid == LedgerSpec => []Solvent
  BY SolventInit, SolventNext, PTL DEF LedgerSpec

\* Executed payments are final and postExpense books a liability once.
THEOREM PaymentsFinal == LedgerSpec => PaymentsAreFinal
<1>1. Solvent /\ [LedgerNext]_ledgerVars =>
        [paid' >= paid /\ (due > 0 => due' = due)]_ledgerVars
  <2> SUFFICES ASSUME Solvent, LedgerNext
               PROVE  paid' >= paid /\ (due > 0 => due' = due)
    OBVIOUS
  <2>1. paid \in Nat /\ reserved \in Nat /\ due \in Nat
    BY DEF Solvent
  <2> QED
    BY <2>1 DEF LedgerNext, Book, Reserve, Release, Settle
<1> QED
  BY <1>1, NeverOverpaid, PTL DEF LedgerSpec, PaymentsAreFinal

-----------------------------------------------------------------------------
(* Sums over finite sets.  MapThenSumSet folds a set in the order of CHOOSE; *)
(* what follows shows that the order does not matter.                        *)

Pick(T) == CHOOSE x \in T : TRUE

\* g is the fold of v over the subsets of S.
IsSum(g, v, S) ==
  g = [T \in SUBSET S |-> IF T = {} THEN 0 ELSE v[Pick(T)] + g[T \ {Pick(T)}]]

\* Some fold of v over S, with values.
SumFolds(v, S) == {g \in [SUBSET S -> Int] : IsSum(g, v, S)}

\* The sum of v over S.
Total(v, S) == (CHOOSE g \in SumFolds(v, S) : TRUE)[S]

\* T contains no other set of B.
Smallest(T, B) == T \in B /\ \A V \in B : V \subseteq T => V = T

\* Among any sets of elements of a finite set, one contains none of the others.
LEMMA SmallestSet ==
  ASSUME NEW P, IsFiniteSet(P), NEW B \in SUBSET (SUBSET P), B # {}
  PROVE  \E T : Smallest(T, B)
<1> DEFINE C == {Cardinality(T) : T \in B}
<1>1. \A T \in B : IsFiniteSet(T) /\ Cardinality(T) \in Nat
  BY FS_Subset, FS_CardinalityType
<1>2. C \in SUBSET Nat /\ C # {}
  BY <1>1
<1>3. PICK n \in C : \A m \in C : n <= m
  BY <1>2, LeastNumber
<1>4. PICK T \in B : n = Cardinality(T)
  BY <1>3
<1>5. ASSUME NEW V \in B, V \subseteq T PROVE V = T
  <2>1. Cardinality(V) \in Nat /\ Cardinality(T) \in Nat /\ Cardinality(T) <= Cardinality(V)
    BY <1>1, <1>3, <1>4
  <2>2. Cardinality(V) <= Cardinality(T) /\ (Cardinality(V) = Cardinality(T) => V = T)
    BY <1>1, <1>5, FS_Subset
  <2> QED
    BY <2>1, <2>2
<1>6. \A V \in B : V \subseteq T => V = T
  BY <1>5
<1> QED
  BY <1>6 DEF Smallest

\* CHOOSE takes an element of a set that has one.
LEMMA PickIn ==
  ASSUME NEW T, T # {}
  PROVE  Pick(T) \in T
  BY DEF Pick

\* A fold is determined by the values it sums.
LEMMA FoldUnique ==
  ASSUME NEW P, IsFiniteSet(P), NEW v \in [P -> Int],
         NEW S \in SUBSET P, NEW R \in SUBSET P, NEW g, NEW h,
         IsSum(g, v, S), IsSum(h, v, R),
         R \subseteq S
  PROVE  g[R] = h[R]
<1> DEFINE B == {T \in SUBSET R : g[T] # h[T]}
<1> SUFFICES ASSUME B # {} PROVE FALSE
  OBVIOUS
<1>1. IsFiniteSet(R)
  BY FS_Subset
<1>2. PICK T : Smallest(T, B)
  <2>1. B \in SUBSET (SUBSET R)
    OBVIOUS
  <2> HIDE DEF B
  <2> QED
    BY <1>1, <2>1, SmallestSet
<1>0. T \in SUBSET R /\ T \in SUBSET S /\ g[T] # h[T]
  BY <1>2 DEF Smallest
<1>3. /\ g[T] = IF T = {} THEN 0 ELSE v[Pick(T)] + g[T \ {Pick(T)}]
      /\ h[T] = IF T = {} THEN 0 ELSE v[Pick(T)] + h[T \ {Pick(T)}]
  BY <1>0 DEF IsSum
<1>4. T # {}
  BY <1>0, <1>3
<1>5. T \ {Pick(T)} \notin B /\ T \ {Pick(T)} \in SUBSET R
  BY <1>2, <1>0, <1>4, PickIn DEF Smallest
<1> QED
  BY <1>0, <1>3, <1>4, <1>5

\* Every finite set of integers can be folded.
LEMMA FoldExists ==
  ASSUME NEW P, IsFiniteSet(P), NEW v \in [P -> Int], NEW S \in SUBSET P
  PROVE  SumFolds(v, S) # {}
<1> DEFINE B == {U \in SUBSET S : SumFolds(v, U) = {}}
<1> SUFFICES ASSUME B # {} PROVE FALSE
  OBVIOUS
<1>1. IsFiniteSet(S)
  BY FS_Subset
<1>2. PICK U : Smallest(U, B)
  <2>1. B \in SUBSET (SUBSET S)
    OBVIOUS
  <2> HIDE DEF B
  <2> QED
    BY <1>1, <2>1, SmallestSet
<1> DEFINE F(T) == CHOOSE g \in SumFolds(v, T) : TRUE
           Val(T) == IF T = {} THEN 0 ELSE v[Pick(T)] + F(T \ {Pick(T)})[T \ {Pick(T)}]
           G == [T \in SUBSET U |-> Val(T)]
<1>3. ASSUME NEW T \in SUBSET U, T # U
      PROVE  F(T) \in [SUBSET T -> Int] /\ IsSum(F(T), v, T)
  <2>1. SumFolds(v, T) # {}
    BY <1>2, <1>3 DEF Smallest
  <2> QED
    BY <2>1 DEF SumFolds
<1> HIDE DEF F
<1>10. U \in SUBSET S /\ SumFolds(v, U) = {}
  BY <1>2 DEF Smallest
<1>4. ASSUME NEW T \in SUBSET U, T # {}
      PROVE  /\ T \ {Pick(T)} \in SUBSET U /\ T \ {Pick(T)} # U
             /\ Pick(T) \in P /\ T \ {Pick(T)} \subseteq T
  BY <1>10, <1>4, PickIn
<1>5. ASSUME NEW T \in SUBSET U, T # U PROVE Val(T) = F(T)[T]
  <2>1. F(T)[T] = IF T = {} THEN 0 ELSE v[Pick(T)] + F(T)[T \ {Pick(T)}]
    BY <1>3, <1>5 DEF IsSum
  <2>2. CASE T # {}
    <3>1. F(T)[T \ {Pick(T)}] = F(T \ {Pick(T)})[T \ {Pick(T)}]
      <4> DEFINE W == T \ {Pick(T)}
      <4>1. W \in SUBSET U /\ W # U /\ W \subseteq T
        BY <1>4, <2>2
      <4> HIDE DEF W
      <4>2. IsSum(F(T), v, T) /\ IsSum(F(W), v, W)
        BY <1>3, <1>5, <4>1
      <4>3. W \in SUBSET P /\ T \in SUBSET P /\ W \subseteq W
        BY <1>10, <4>1
      <4>4. F(T)[W] = F(W)[W]
        BY <4>1, <4>2, <4>3, FoldUnique
      <4> QED
        BY <4>4 DEF W
    <3> QED
      BY <2>1, <2>2, <3>1
  <2> QED
    BY <2>1, <2>2
<1>6. ASSUME NEW T \in SUBSET U PROVE Val(T) \in Int
  <2>1. CASE T # {}
    <3>1. F(T \ {Pick(T)})[T \ {Pick(T)}] \in Int
      <4> DEFINE W == T \ {Pick(T)}
      <4>1. W \in SUBSET U /\ W # U
        BY <1>4, <2>1
      <4> HIDE DEF W
      <4>2. F(W) \in [SUBSET W -> Int] /\ W \in SUBSET W
        BY <1>3, <4>1
      <4>3. F(W)[W] \in Int
        BY <4>2
      <4> QED
        BY <4>3 DEF W
    <3>2. v[Pick(T)] \in Int
      BY <1>4, <2>1
    <3> QED
      BY <2>1, <3>1, <3>2
  <2> QED
    BY <2>1
<1>7. ASSUME NEW T \in SUBSET U
      PROVE  Val(T) = IF T = {} THEN 0 ELSE v[Pick(T)] + G[T \ {Pick(T)}]
  <2>1. CASE T # {}
    <3>1. G[T \ {Pick(T)}] = F(T \ {Pick(T)})[T \ {Pick(T)}]
      BY <1>4, <1>5, <2>1
    <3> QED
      BY <2>1, <3>1
  <2> QED
    BY <2>1
<1>8. G \in [SUBSET U -> Int]
  BY <1>6
<1>9. IsSum(G, v, U)
  <2>1. G = [T \in SUBSET U |-> IF T = {} THEN 0 ELSE v[Pick(T)] + G[T \ {Pick(T)}]]
    BY <1>7
  <2> QED
    BY <2>1 DEF IsSum
<1> HIDE DEF G
<1> QED
  BY <1>10, <1>8, <1>9 DEF SumFolds

\* Any fold of v over S has the total as its value at S.
LEMMA FoldIsTotal ==
  ASSUME NEW P, IsFiniteSet(P), NEW v \in [P -> Int], NEW S \in SUBSET P, NEW g,
         IsSum(g, v, S)
  PROVE  g[S] = Total(v, S)
<1>1. SumFolds(v, S) # {}
  BY FoldExists
<1> DEFINE h == CHOOSE g_1 \in SumFolds(v, S) : TRUE
<1>2. IsSum(h, v, S)
  BY <1>1 DEF SumFolds
<1>3. Total(v, S) = h[S]
  BY DEF Total
<1> HIDE DEF h
<1> QED
  BY <1>2, <1>3, FoldUnique

\* g is the total of v over every subset of P.
IsTotal(g, v, P) ==
  /\ g \in [SUBSET P -> Int] /\ IsSum(g, v, P)
  /\ \A S \in SUBSET P : Total(v, S) = g[S]

\* One fold over P gives the totals over all its subsets.
LEMMA TotalWithin ==
  ASSUME NEW P, IsFiniteSet(P), NEW v \in [P -> Int]
  PROVE  \E g : IsTotal(g, v, P)
<1>1. PICK g : g \in [SUBSET P -> Int] /\ IsSum(g, v, P)
  <2>1. SumFolds(v, P) # {}
    BY FoldExists
  <2> QED
    BY <2>1 DEF SumFolds
<1>2. ASSUME NEW S \in SUBSET P PROVE Total(v, S) = g[S]
  <2>1. PICK h : IsSum(h, v, S)
    <3>1. SumFolds(v, S) # {}
      BY FoldExists
    <3> QED
      BY <3>1 DEF SumFolds
  <2>2. h[S] = Total(v, S)
    BY <2>1, FoldIsTotal
  <2>3. g[S] = h[S]
    BY <1>1, <2>1, FoldUnique
  <2> QED
    BY <2>2, <2>3
<1> QED
  BY <1>1, <1>2 DEF IsTotal

\* What a sum is: 0 over no elements, and one more element adds its value.
LEMMA TotalAdds ==
  ASSUME NEW P, IsFiniteSet(P), NEW v \in [P -> Int]
  PROVE  /\ \A S \in SUBSET P : Total(v, S) \in Int
         /\ Total(v, {}) = 0
         /\ \A S \in SUBSET P : \A x \in S : Total(v, S) = Total(v, S \ {x}) + v[x]
<1>0. PICK g : IsTotal(g, v, P)
  BY TotalWithin
<1>1. /\ g \in [SUBSET P -> Int] /\ IsSum(g, v, P)
      /\ \A S \in SUBSET P : Total(v, S) = g[S]
  BY <1>0 DEF IsTotal
<1>2. \A S \in SUBSET P : g[S] = IF S = {} THEN 0 ELSE v[Pick(S)] + g[S \ {Pick(S)}]
  BY <1>1 DEF IsSum
<1>3. \A S \in SUBSET P : g[S] \in Int
  BY <1>1
<1> DEFINE B == {U \in SUBSET P : \E x \in U : g[U] # g[U \ {x}] + v[x]}
<1>4. B = {}
  <2> SUFFICES ASSUME B # {} PROVE FALSE
    OBVIOUS
  <2>1. PICK U : Smallest(U, B)
    <3>1. B \in SUBSET (SUBSET P)
      OBVIOUS
    <3> HIDE DEF B
    <3> QED
      BY <3>1, SmallestSet
  <2>2. PICK x \in U : g[U] # g[U \ {x}] + v[x]
    BY <2>1 DEF Smallest
  <2> DEFINE y == Pick(U)
  <2>3. y \in U /\ U \in SUBSET P /\ g[U] = v[y] + g[U \ {y}]
    BY <1>2, <2>1, <2>2, PickIn DEF Smallest
  <2> HIDE DEF y
  <2>4. v[x] \in Int /\ v[y] \in Int /\ g[U \ {x}] \in Int /\ g[U \ {y}] \in Int
    BY <1>3, <2>2, <2>3
  <2>5. x # y
    <3>1. v[y] + g[U \ {y}] = g[U \ {y}] + v[y]
      BY <2>4
    <3> QED
      BY <2>2, <2>3, <3>1, Zenon
  <2>6. g[U \ {y}] = g[(U \ {y}) \ {x}] + v[x]
    <3>1. U \ {y} \notin B /\ x \in U \ {y} /\ U \ {y} \in SUBSET P
      BY <2>1, <2>2, <2>3, <2>5 DEF Smallest
    <3> QED
      BY <3>1
  <2>7. g[U \ {x}] = g[(U \ {x}) \ {y}] + v[y]
    <3>1. U \ {x} \notin B /\ y \in U \ {x} /\ U \ {x} \in SUBSET P
      BY <2>1, <2>2, <2>3, <2>5 DEF Smallest
    <3> QED
      BY <3>1
  <2>8. (U \ {x}) \ {y} = (U \ {y}) \ {x} /\ g[(U \ {x}) \ {y}] \in Int
    BY <1>3, <2>3
  <2> DEFINE a == g[(U \ {x}) \ {y}]
  <2>9. /\ g[U] = v[y] + (a + v[x])
        /\ g[U \ {x}] = a + v[y] /\ a \in Int
    BY <2>3, <2>6, <2>7, <2>8, Zenon
  <2>10. ASSUME NEW k \in Int, NEW m \in Int, NEW n \in Int
         PROVE  m + (k + n) = (k + m) + n
    OBVIOUS
  <2>11. v[y] + (a + v[x]) = (a + v[y]) + v[x]
    <3> HIDE DEF a
    <3> QED
      BY ONLY <2>4, <2>9, <2>10
  <2> QED
    BY <2>2, <2>9, <2>11, Zenon
<1>5. \A S \in SUBSET P : \A x \in S : g[S] = g[S \ {x}] + v[x]
  BY <1>4
<1>6. \A S \in SUBSET P : \A x \in S : S \ {x} \in SUBSET P
  OBVIOUS
<1>7. Total(v, {}) = 0
  BY <1>1, <1>2
<1> QED
  BY <1>1, <1>3, <1>5, <1>6, <1>7

\* A sum depends only on the values at its elements.
LEMMA TotalSame ==
  ASSUME NEW P, IsFiniteSet(P), NEW v \in [P -> Int], NEW u \in [P -> Int],
         NEW S \in SUBSET P, \A x \in S : u[x] = v[x]
  PROVE  Total(u, S) = Total(v, S)
<1> DEFINE B == {U \in SUBSET S : Total(u, U) # Total(v, U)}
<1> SUFFICES ASSUME B # {} PROVE FALSE
  OBVIOUS
<1>1. PICK U : Smallest(U, B)
  <2>1. B \in SUBSET (SUBSET S) /\ IsFiniteSet(S)
    BY FS_Subset
  <2> HIDE DEF B
  <2> QED
    BY <2>1, SmallestSet
<1>2. U \in SUBSET S /\ U \in SUBSET P /\ Total(u, U) # Total(v, U)
  BY <1>1 DEF Smallest
<1>3. U # {}
  BY <1>2, TotalAdds
<1>4. PICK x \in U : TRUE
  BY <1>3
<1>5. U \ {x} \notin B /\ U \ {x} \in SUBSET S
  BY <1>1, <1>2 DEF Smallest
<1>6. Total(u, U \ {x}) = Total(v, U \ {x}) /\ u[x] = v[x]
  BY <1>2, <1>5
<1>7. /\ Total(u, U) = Total(u, U \ {x}) + u[x]
      /\ Total(v, U) = Total(v, U \ {x}) + v[x]
  BY <1>2, TotalAdds
<1> QED
  BY <1>2, <1>6, <1>7

\* A sum of values that are not negative grows with the set.
LEMMA TotalGrows ==
  ASSUME NEW P, IsFiniteSet(P), NEW v \in [P -> Int], NEW S \in SUBSET P,
         \A x \in P : v[x] >= 0
  PROVE  /\ Total(v, S) >= 0
         /\ \A R \in SUBSET S : Total(v, R) <= Total(v, S)
<1>1. ASSUME NEW R \in SUBSET S PROVE Total(v, R) <= Total(v, S)
  <2> DEFINE B == {U \in SUBSET S : R \subseteq U /\ ~(Total(v, R) <= Total(v, U))}
  <2>1. B = {}
    <3> SUFFICES ASSUME B # {} PROVE FALSE
      OBVIOUS
    <3>1. PICK U : Smallest(U, B)
      <4>1. B \in SUBSET (SUBSET S) /\ IsFiniteSet(S)
        BY FS_Subset
      <4> HIDE DEF B
      <4> QED
        BY <4>1, SmallestSet
    <3>2. U \in SUBSET P /\ U \in SUBSET S /\ R \subseteq U /\ ~(Total(v, R) <= Total(v, U))
      BY <3>1 DEF Smallest
    <3>3. Total(v, R) \in Int /\ Total(v, U) \in Int
      BY <3>2, TotalAdds
    <3>4. PICK x \in U : x \notin R
      <4>1. U # R
        BY <3>2, <3>3
      <4> QED
        BY <3>2, <4>1
    <3>5. Total(v, R) <= Total(v, U \ {x})
      BY <3>1, <3>2, <3>4 DEF Smallest
    <3>6. Total(v, U) = Total(v, U \ {x}) + v[x] /\ Total(v, U \ {x}) \in Int
      BY <3>2, TotalAdds
    <3>7. v[x] \in Int /\ v[x] >= 0
      BY <3>2
    <3> DEFINE a == Total(v, U \ {x})
    <3> HIDE DEF a
    <3>8. Total(v, R) <= a /\ Total(v, U) = a + v[x] /\ a \in Int
      BY <3>5, <3>6 DEF a
    <3> QED
      BY <3>2, <3>3, <3>7, <3>8
  <2>2. S \notin B
    BY <2>1
  <2> QED
    BY <2>2
<1>2. Total(v, {}) = 0 /\ {} \in SUBSET S
  BY TotalAdds
<1>3. 0 <= Total(v, S) /\ Total(v, S) \in Int
  BY <1>1, <1>2, TotalAdds
<1> QED
  BY <1>1, <1>3

\* Nothing sums to nothing.
LEMMA TotalOfZeros ==
  ASSUME NEW P, IsFiniteSet(P), NEW v \in [P -> Int], NEW S \in SUBSET P,
         \A x \in S : v[x] = 0
  PROVE  Total(v, S) = 0
<1> DEFINE B == {U \in SUBSET S : Total(v, U) # 0}
<1> SUFFICES ASSUME B # {} PROVE FALSE
  OBVIOUS
<1>1. PICK U : Smallest(U, B)
  <2>1. B \in SUBSET (SUBSET S) /\ IsFiniteSet(S)
    BY FS_Subset
  <2> HIDE DEF B
  <2> QED
    BY <2>1, SmallestSet
<1>2. U \in SUBSET S /\ U \in SUBSET P /\ Total(v, U) # 0
  BY <1>1 DEF Smallest
<1>3. PICK x \in U : TRUE
  BY <1>2, TotalAdds
<1>4. Total(v, U \ {x}) = 0
  BY <1>1, <1>2 DEF Smallest
<1>5. Total(v, U) = Total(v, U \ {x}) + v[x] /\ v[x] = 0
  BY <1>2, TotalAdds
<1> QED
  BY <1>2, <1>4, <1>5

\* One value changes the sum by what it changes.
LEMMA TotalChanges ==
  ASSUME NEW P, IsFiniteSet(P), NEW v \in [P -> Int], NEW u \in [P -> Int],
         NEW S \in SUBSET P, NEW x \in S, \A y \in S \ {x} : u[y] = v[y]
  PROVE  Total(u, S) = Total(v, S) - v[x] + u[x]
<1>1. Total(u, S \ {x}) = Total(v, S \ {x})
  BY TotalSame
<1>2. /\ Total(u, S) = Total(u, S \ {x}) + u[x]
      /\ Total(v, S) = Total(v, S \ {x}) + v[x]
  BY TotalAdds
<1>3. Total(v, S \ {x}) \in Int /\ u[x] \in Int /\ v[x] \in Int
  BY TotalAdds
<1> DEFINE a == Total(v, S \ {x})
<1> HIDE DEF a
<1>4. a \in Int /\ Total(u, S) = a + u[x] /\ Total(v, S) = a + v[x]
  BY <1>1, <1>2, <1>3 DEF a
<1> QED
  BY <1>3, <1>4

\* MapThenSumSet of a function is its total.
LEMMA SumOfFunction ==
  ASSUME NEW P, IsFiniteSet(P), NEW v \in [P -> Int], NEW S \in SUBSET P
  PROVE  MapThenSumSet(LAMBDA x : v[x], S) = Total(v, S)
<1> DEFINE Fold(g) == g = [T \in SUBSET S |-> IF T = {} THEN 0
              ELSE v[CHOOSE x \in T : TRUE] + g[T \ {CHOOSE x \in T : TRUE}]]
<1>1. \A g : Fold(g) <=> IsSum(g, v, S)
  BY DEF IsSum, Pick
<1>2. \E g : Fold(g)
  <2>1. SumFolds(v, S) # {}
    BY FoldExists
  <2> QED
    BY <1>1, <2>1 DEF SumFolds
<1>3. Fold(CHOOSE g : Fold(g))
  BY <1>2
<1>4. MapThenSumSet(LAMBDA x : v[x], S) = (CHOOSE g : Fold(g))[S]
  BY DEF MapThenSumSet, MapThenFoldSet
<1> DEFINE h == CHOOSE g : Fold(g)
<1>5. IsSum(h, v, S)
  BY <1>1, <1>3
<1> HIDE DEF h
<1>6. h[S] = Total(v, S)
  BY <1>5, FoldIsTotal
<1> QED
  BY <1>4, <1>6 DEF h

-----------------------------------------------------------------------------
(* The budget *)

\* Expenses that reached the ledger.
Posted == {e \in Expenses : expense[e] = "POSTED"}

\* Values of the commitments, of the amounts and of the postings of S.
LEMMA BudgetSums ==
  ASSUME BudgetTypeOK, NEW S \in SUBSET Expenses
  PROVE  /\ committed(S) = Total(commit, S)
         /\ MapThenSumSet(LAMBDA e : Amount[e], S) = Total(Amount, S)
<1>1. commit \in [Expenses -> Int] /\ Amount \in [Expenses -> Int] /\ IsFiniteSet(Expenses)
  BY BudgetAssumption DEF BudgetTypeOK
<1>2. MapThenSumSet(LAMBDA e : commit[e], S) = Total(commit, S)
  BY <1>1, SumOfFunction
<1>3. MapThenSumSet(LAMBDA e : Amount[e], S) = Total(Amount, S)
  BY <1>1, SumOfFunction
<1> QED
  BY <1>2, <1>3 DEF committed

\* What a step does to one expense e; the others stay as they are.
BudgetMove(e) ==
  /\ \A d \in Expenses \ {e} : expense'[d] = expense[d] /\ commit'[d] = commit[d]
  /\ \/ \* it reserves its amount, as far as the budget allows
        /\ expense[e] = "CHECKED" /\ expense'[e] \in {"SUBMITTED", "APPROVED"}
        /\ HeaderTotal - committed(Expenses \ {e}) - actual >= Amount[e]
        /\ commit'[e] = Amount[e] /\ actual' = actual
     \/ \* it is posted
        /\ expense[e] = "APPROVED" /\ expense'[e] = "POSTED"
        /\ commit'[e] = 0 /\ actual' = actual + Amount[e]
     \/ \* it moves and keeps its reservation, or has none
        /\ expense[e] # "POSTED" /\ expense'[e] # "POSTED"
        /\ commit'[e] = commit[e] /\ actual' = actual
        /\ expense[e] \in {"SUBMITTED", "APPROVED"} <=> expense'[e] \in {"SUBMITTED", "APPROVED"}
     \/ \* it is refused or voided
        /\ expense[e] # "POSTED" /\ expense'[e] \in {"REJECTED", "VOID"}
        /\ commit'[e] = 0 /\ actual' = actual
     \/ \* finance releases its reservation
        /\ e \in Releasable /\ expense'[e] = expense[e]
        /\ commit'[e] = 0 /\ actual' = actual

\* Every step of the budget is such a move, and keeps the types.
LEMMA BudgetMoves ==
  ASSUME BudgetTypeOK, BudgetNext
  PROVE  BudgetTypeOK' /\ \E e \in Expenses : BudgetMove(e)
<1>1. PICK e \in Expenses :
        \/ submitCheck(e) \/ submitCommit(e) \/ submitRollback(e)
        \/ decision(e) \/ post(e) \/ void(e) \/ releaseBudgetCommitment(e)
  BY DEF BudgetNext
<1>2. /\ expense \in [Expenses -> {"DRAFT", "CHECKED", "SUBMITTED", "APPROVED",
                                   "REJECTED", "POSTED", "VOID"}]
      /\ commit \in [Expenses -> Nat] /\ actual \in Nat /\ Amount[e] \in Nat
  BY BudgetAssumption DEF BudgetTypeOK
<1>3. CASE submitCheck(e) \/ submitRollback(e)
  BY <1>2, <1>3 DEF submitCheck, submitRollback, BudgetTypeOK, BudgetMove
<1>4. CASE submitCommit(e)
  <2>1. PICK st \in {"SUBMITTED", "APPROVED"} : expense' = [expense EXCEPT ![e] = st]
    BY <1>4 DEF submitCommit
  <2>2. commit' = [commit EXCEPT ![e] = Amount[e]] /\ actual' = actual
    BY <1>4 DEF submitCommit, createBudgetCommitment
  <2>3. /\ expense[e] = "CHECKED"
        /\ HeaderTotal - committed(Expenses \ {e}) - actual >= Amount[e]
    BY <1>4 DEF submitCommit, createBudgetCommitment, budgetAllows
  <2> QED
    BY <1>2, <2>1, <2>2, <2>3 DEF BudgetTypeOK, BudgetMove
<1>5. CASE decision(e)
  BY <1>2, <1>5 DEF decision, BudgetTypeOK, BudgetMove
<1>6. CASE post(e)
  BY <1>2, <1>6 DEF post, BudgetTypeOK, BudgetMove
<1>7. CASE void(e)
  BY <1>2, <1>7 DEF void, BudgetTypeOK, BudgetMove
<1>8. CASE releaseBudgetCommitment(e)
  BY <1>2, <1>8 DEF releaseBudgetCommitment, BudgetTypeOK, BudgetMove
<1> QED
  BY <1>1, <1>3, <1>4, <1>5, <1>6, <1>7, <1>8

\* Each expense holds what its status says, unless finance released it.
HeldOnce ==
  \A e \in Expenses :
    \/ commit[e] = IF expense[e] \in {"SUBMITTED", "APPROVED"} THEN Amount[e] ELSE 0
    \/ commit[e] = 0 /\ e \in Releasable

\* The books hold exactly what was posted.
BooksMatch == actual = Total(Amount, Posted)

\* A step keeps both.
LEMMA ReservationStep ==
  ASSUME BudgetTypeOK, HeldOnce, BooksMatch, NEW e \in Expenses, BudgetMove(e)
  PROVE  HeldOnce' /\ BooksMatch'
<1>1. HeldOnce'
  BY DEF HeldOnce, BudgetMove
<1>2. BooksMatch'
  <2>1. Amount \in [Expenses -> Int] /\ IsFiniteSet(Expenses)
    BY BudgetAssumption
  <2>2. CASE expense'[e] = "POSTED" <=> expense[e] = "POSTED"
    <3>1. Posted' = Posted /\ actual' = actual
      BY <2>2 DEF Posted, BudgetMove
    <3> QED
      BY <3>1 DEF BooksMatch
  <2>3. CASE ~(expense'[e] = "POSTED" <=> expense[e] = "POSTED")
    <3>1. expense[e] = "APPROVED" /\ expense'[e] = "POSTED" /\ actual' = actual + Amount[e]
      BY <2>3 DEF BudgetMove
    <3>2. Posted' \ {e} = Posted /\ e \in Posted' /\ Posted' \in SUBSET Expenses
      BY <3>1 DEF Posted, BudgetMove
    <3>3. Total(Amount, Posted') = Total(Amount, Posted' \ {e}) + Amount[e]
      BY <2>1, <3>2, TotalAdds
    <3> QED
      BY <3>1, <3>2, <3>3 DEF BooksMatch
  <2> QED
    BY <2>2, <2>3
<1> QED
  BY <1>1, <1>2

\* The budget's rows at every moment.
LEMMA BudgetInvariant == BudgetSpec => [](BudgetTypeOK /\ HeldOnce /\ BooksMatch)
<1>1. BudgetInit => BudgetTypeOK /\ HeldOnce /\ BooksMatch
  <2> SUFFICES ASSUME BudgetInit PROVE BudgetTypeOK /\ HeldOnce /\ BooksMatch
    OBVIOUS
  <2>1. Posted = {}
    BY DEF Posted, BudgetInit
  <2>2. Amount \in [Expenses -> Int] /\ IsFiniteSet(Expenses)
    BY BudgetAssumption
  <2>3. Total(Amount, {}) = 0
    BY <2>2, TotalAdds
  <2> QED
    BY <2>1, <2>3 DEF BudgetInit, BudgetTypeOK, HeldOnce, BooksMatch
<1>2. BudgetTypeOK /\ HeldOnce /\ BooksMatch /\ [BudgetNext]_budgetVars
        => (BudgetTypeOK /\ HeldOnce /\ BooksMatch)'
  <2>1. CASE BudgetNext
    BY <2>1, BudgetMoves, ReservationStep
  <2>2. CASE UNCHANGED budgetVars
    BY <2>2 DEF budgetVars, BudgetTypeOK, HeldOnce, BooksMatch, Posted
  <2> QED
    BY <2>1, <2>2
<1> QED
  BY <1>1, <1>2, PTL DEF BudgetSpec

\* createBudgetCommitment and release_expense_budget_commitment: no reservation
\* leaks and none is counted twice, through every rollback, refusal, void,
\* posting and release by hand.
THEOREM ReservedOnce == BudgetSpec => []ReservedExactlyOnce
<1>1. BudgetTypeOK /\ HeldOnce /\ BooksMatch => ReservedExactlyOnce
  <2> SUFFICES ASSUME BudgetTypeOK, HeldOnce, BooksMatch PROVE ReservedExactlyOnce
    OBVIOUS
  <2>1. MapThenSumSet(LAMBDA e : Amount[e], Posted) = Total(Amount, Posted)
    BY BudgetSums DEF Posted
  <2> QED
    BY <2>1 DEF ReservedExactlyOnce, HeldOnce, BooksMatch, Posted
<1> QED
  BY <1>1, BudgetInvariant, PTL

\* Posted expenses whose reservation finance could release by hand.
Overrun == {e \in Releasable : expense[e] = "POSTED"}

\* Commitments and actuals, as totals, against the budgets' totals.
Covered == Total(commit, Expenses) + actual <= HeaderTotal + Total(Amount, Overrun)

\* The check made under the locks covers the reservation it lets through, and a
\* posting turns a reservation into an actual.
LEMMA CoveredStep ==
  ASSUME BudgetTypeOK, BudgetTypeOK', HeldOnce, Covered, NEW e \in Expenses, BudgetMove(e)
  PROVE  Covered'
<1>1. /\ commit \in [Expenses -> Int] /\ commit' \in [Expenses -> Int]
      /\ Amount \in [Expenses -> Int] /\ IsFiniteSet(Expenses)
      /\ \A d \in Expenses : Amount[d] >= 0
      /\ HeaderTotal \in Int /\ actual \in Int /\ actual' \in Int
  BY BudgetAssumption DEF BudgetTypeOK
<1>2. Overrun \in SUBSET Expenses /\ Overrun' \in SUBSET Expenses
  BY BudgetAssumption DEF Overrun
<1> DEFINE c == Total(commit, Expenses)
           d == Total(commit', Expenses)
           o == Total(Amount, Overrun)
           q == Total(Amount, Overrun')
<1>3. d = c - commit[e] + commit'[e]
  BY <1>1, TotalChanges DEF BudgetMove
<1>4. c \in Int /\ d \in Int /\ o \in Int /\ q \in Int /\ q >= 0
  BY <1>1, <1>2, TotalAdds, TotalGrows
<1>5. Overrun \subseteq Overrun' => o <= q
  BY <1>1, <1>2, TotalGrows
<1>6. e \in Overrun' /\ Overrun' \ {e} = Overrun => q = o + Amount[e]
  BY <1>1, <1>2, TotalAdds
<1>7. c = committed(Expenses \ {e}) + commit[e] /\ committed(Expenses \ {e}) \in Int
  <2>1. committed(Expenses \ {e}) = Total(commit, Expenses \ {e})
    BY BudgetSums
  <2> QED
    BY <1>1, <2>1, TotalAdds
<1>8. c + actual <= HeaderTotal + o /\ (Covered' <=> d + actual' <= HeaderTotal + q)
  BY DEF Covered
<1> HIDE DEF c, d, o, q
<1>9. /\ Amount[e] \in Int /\ Amount[e] >= 0
      /\ commit[e] \in Int /\ commit[e] >= 0 /\ commit'[e] \in Int
  BY <1>1 DEF BudgetTypeOK
<1>10. CASE /\ expense[e] = "CHECKED" /\ expense'[e] \in {"SUBMITTED", "APPROVED"}
            /\ HeaderTotal - committed(Expenses \ {e}) - actual >= Amount[e]
            /\ commit'[e] = Amount[e] /\ actual' = actual
  <2>1. commit[e] = 0
    BY <1>10 DEF HeldOnce
  <2> DEFINE k == committed(Expenses \ {e})
  <2> HIDE DEF k
  <2>2. HeaderTotal - k - actual >= Amount[e] /\ c = k /\ k \in Int
    BY <1>4, <1>7, <1>10, <2>1 DEF k
  <2> QED
    BY <1>1, <1>3, <1>4, <1>8, <1>9, <1>10, <2>1, <2>2
<1>11. CASE /\ expense[e] = "APPROVED" /\ expense'[e] = "POSTED"
            /\ commit'[e] = 0 /\ actual' = actual + Amount[e]
  <2>1. CASE commit[e] = Amount[e]
    <3>1. Overrun \subseteq Overrun'
      BY <1>11, BudgetAssumption DEF Overrun, BudgetMove
    <3> QED
      BY <1>1, <1>3, <1>4, <1>5, <1>8, <1>9, <1>11, <2>1, <3>1
  <2>2. CASE commit[e] = 0 /\ e \in Releasable
    <3>1. e \in Overrun' /\ Overrun' \ {e} = Overrun
      BY <1>11, <2>2, BudgetAssumption DEF Overrun, BudgetMove
    <3> QED
      BY <1>1, <1>3, <1>4, <1>6, <1>8, <1>9, <1>11, <2>2, <3>1
  <2> QED
    BY <1>11, <2>1, <2>2 DEF HeldOnce
<1>12. CASE /\ expense'[e] = "POSTED" <=> expense[e] = "POSTED"
            /\ commit'[e] \in {0, commit[e]} /\ actual' = actual
  <2>1. Overrun' = Overrun
    BY <1>12, BudgetAssumption DEF Overrun, BudgetMove
  <2>2. q = o
    BY <2>1 DEF q, o
  <2> QED
    BY <1>1, <1>3, <1>4, <1>8, <1>9, <1>12, <2>2
<1> QED
  BY <1>10, <1>11, <1>12 DEF BudgetMove

\* submitExpense's two checks, however the requests interleave: the budgets are
\* never exceeded, but by the amount of a posted expense whose reservation
\* finance had released.
THEOREM BudgetHolds == BudgetSpec => []WithinBudget
<1>1. BudgetInit => Covered
  <2> SUFFICES ASSUME BudgetInit PROVE Covered
    OBVIOUS
  <2>1. Overrun = {}
    BY BudgetAssumption DEF Overrun, BudgetInit
  <2>2. /\ Amount \in [Expenses -> Int] /\ IsFiniteSet(Expenses)
        /\ commit \in [Expenses -> Int] /\ \A e \in Expenses : commit[e] = 0
    BY BudgetAssumption DEF BudgetInit
  <2>3. Total(Amount, {}) = 0 /\ Total(commit, Expenses) = 0
    BY <2>2, TotalAdds, TotalOfZeros
  <2> QED
    BY <2>1, <2>3, BudgetAssumption DEF BudgetInit, Covered
<1>2. /\ BudgetTypeOK /\ HeldOnce /\ BooksMatch /\ Covered /\ [BudgetNext]_budgetVars
      => Covered'
  <2>1. CASE BudgetNext
    BY <2>1, BudgetMoves, CoveredStep
  <2>2. CASE UNCHANGED budgetVars
    BY <2>2 DEF budgetVars, Covered, Overrun
  <2> QED
    BY <2>1, <2>2
<1>3. BudgetTypeOK /\ Covered => WithinBudget
  <2> SUFFICES ASSUME BudgetTypeOK, Covered PROVE WithinBudget
    OBVIOUS
  <2>1. committed(Expenses) = Total(commit, Expenses)
    BY BudgetSums
  <2>2. MapThenSumSet(LAMBDA e : Amount[e], Overrun) = Total(Amount, Overrun)
    BY BudgetAssumption, BudgetSums DEF Overrun
  <2> QED
    BY <2>1, <2>2 DEF WithinBudget, Covered, Overrun
<1> QED
  BY <1>1, <1>2, <1>3, BudgetInvariant, PTL DEF BudgetSpec

-----------------------------------------------------------------------------
(* One expense: it implements the engine's specification *)

\* The columns of the expense, its vouchers and their reconciliations.
RowsOK ==
  /\ selfAuthorized \in BOOLEAN
  /\ verifiedBy \in People /\ postedBy \in People
  /\ payStatus \in {"UNPAID", "PARTIALLY_PAID", "PAID"}
  /\ pay \in [Payments -> PayRequest]
  /\ recon \in [Payments -> Reconciliation]

\* The accounting and payment services leave the approval rows alone.
LEMMA AccountingLeavesEngine ==
  ASSUME NEW u, NEW p, NEW a,
         \/ verifyExpenseForPosting(u) \/ payExpense(u, p, a)
         \/ approveExpensePayment(u, p) \/ rejectExpensePayment(u, p)
         \/ executeExpensePayment(u, p) \/ reconcileExpensePayment(u, p)
         \/ approveExpensePaymentReconciliation(u, p)
  PROVE  UNCHANGED vars /\ postedBy' = postedBy /\ selfAuthorized' = selfAuthorized
  BY DEF verifyExpenseForPosting, payExpense, approveExpensePayment, rejectExpensePayment,
     executeExpensePayment, reconcileExpensePayment, approveExpensePaymentReconciliation

\* Every service call is one of the engine's entry points, or writes only the
\* expense and its vouchers.
LEMMA ExpenseStepImplements == TypeOK /\ [ExpenseNext]_allVars => [Next]_vars
<1> SUFFICES ASSUME TypeOK, [ExpenseNext]_allVars PROVE [Next]_vars
  OBVIOUS
<1>1. /\ {"DRAFT", "SUBMITTED", "APPROVED", "POSTED", "VOID"} \subseteq Statuses
      /\ status \in Statuses /\ version \in Versions /\ AmountOf[version] \in Amounts
  BY ExpenseAssumption, ConstantsAssumption DEF TypeOK
<1>2. CASE updateExpense
  BY <1>1, <1>2 DEF updateExpense, lifecycleStep, Next
<1>3. CASE submitExpense
  <2>1. CASE selfAuthorize
    BY <1>1, <2>1 DEF selfAuthorize, lifecycleStep, Next
  <2>2. CASE ~selfAuthorize
    <3>1. PICK i \in Instances : startWorkflow(i, amount)
      BY <1>3, <2>2 DEF submitExpense
    <3>2. status' = "SUBMITTED"
      BY <1>3, <2>2 DEF submitExpense
    <3> QED
      BY <1>1, <3>1, <3>2 DEF submit, amount, Next
  <2> QED
    BY <2>1, <2>2
<1>4. CASE expenseEngineStep
  BY <1>4 DEF expenseEngineStep, Next
<1>5. CASE voidExpense
  BY <1>1, <1>5 DEF voidExpense, lifecycleStep, Next
<1>6. ASSUME NEW u \in Users, postExpense(u) PROVE [Next]_vars
  BY <1>1, <1>6 DEF postExpense, lifecycleStep, Next
<1>7. CASE UNCHANGED allVars
  BY <1>7 DEF allVars, vars
<1> QED
  BY <1>2, <1>3, <1>4, <1>5, <1>6, <1>7, AccountingLeavesEngine DEF ExpenseNext

\* Every column the services write passes its CHECK.
LEMMA RowsStayOK == TypeOK /\ RowsOK /\ [ExpenseNext]_allVars => RowsOK'
<1> SUFFICES ASSUME TypeOK, RowsOK, [ExpenseNext]_allVars PROVE RowsOK'
  OBVIOUS
<1>1. amount \in Nat
  BY ExpenseAssumption DEF TypeOK, amount
<1>2. CASE updateExpense \/ expenseEngineStep \/ voidExpense \/ UNCHANGED allVars
  BY <1>2 DEF updateExpense, expenseEngineStep, voidExpense, expenseVars, allVars, RowsOK
<1>3. CASE submitExpense
  BY <1>3 DEF submitExpense, RowsOK
<1>4. ASSUME NEW u \in Users, verifyExpenseForPosting(u) \/ postExpense(u) PROVE RowsOK'
  BY <1>4 DEF verifyExpenseForPosting, postExpense, RowsOK, People
<1>5. ASSUME NEW u \in Users, NEW p \in Payments, NEW a \in 1..amount, payExpense(u, p, a)
      PROVE  RowsOK'
  <2>0. a \in Nat
    BY <1>1
  <2>1. [NoRequest EXCEPT !.status = "SUBMITTED", !.amount = a, !.requestedBy = u] \in PayRequest
    BY <2>0 DEF NoRequest, PayRequest, People
  <2> QED
    BY <1>5, <2>1 DEF payExpense, RowsOK
<1>6. ASSUME NEW u \in Users, NEW p \in Payments,
             approveExpensePayment(u, p) \/ rejectExpensePayment(u, p) \/ executeExpensePayment(u, p)
      PROVE  RowsOK'
  <2>1. pay[p] \in PayRequest
    BY DEF RowsOK
  <2>2. /\ [pay[p] EXCEPT !.status = "APPROVED", !.approvedBy = u] \in PayRequest
        /\ [pay[p] EXCEPT !.status = "REJECTED"] \in PayRequest
        /\ [pay[p] EXCEPT !.status = "PAID", !.paidBy = u] \in PayRequest
    BY <2>1 DEF PayRequest, People
  <2>3. payStatus' \in {"UNPAID", "PARTIALLY_PAID", "PAID"}
    BY <1>6 DEF RowsOK, approveExpensePayment, rejectExpensePayment, executeExpensePayment
  <2>4. pay' \in [Payments -> PayRequest]
    BY <1>6, <2>2 DEF RowsOK, approveExpensePayment, rejectExpensePayment, executeExpensePayment
  <2> QED
    BY <1>6, <2>3, <2>4 DEF RowsOK, approveExpensePayment, rejectExpensePayment,
         executeExpensePayment
<1>7. ASSUME NEW u \in Users, NEW p \in Payments, reconcileExpensePayment(u, p)
      PROVE  RowsOK'
  <2>1. PICK st \in {"MATCHED", "VARIANCE"} :
          recon' = [recon EXCEPT ![p] = [NoRecon EXCEPT !.status = st, !.reconciledBy = u]]
    BY <1>7 DEF reconcileExpensePayment
  <2>2. [NoRecon EXCEPT !.status = st, !.reconciledBy = u] \in Reconciliation
    BY DEF NoRecon, Reconciliation, People
  <2> QED
    BY <1>7, <2>1, <2>2 DEF reconcileExpensePayment, RowsOK
<1>8. ASSUME NEW u \in Users, NEW p \in Payments, approveExpensePaymentReconciliation(u, p)
      PROVE  RowsOK'
  <2>1. [recon[p] EXCEPT !.status = "APPROVED", !.approvedBy = u] \in Reconciliation
    BY DEF RowsOK, Reconciliation, People
  <2> QED
    BY <1>8, <2>1 DEF approveExpensePaymentReconciliation, RowsOK
<1> QED
  BY <1>2, <1>3, <1>4, <1>5, <1>6, <1>7, <1>8 DEF ExpenseNext

\* The expense, its chains and its vouchers are well formed at every moment.
LEMMA ExpenseEngineInvariant == ExpenseSpec => [](EngineInv /\ RowsOK)
<1>1. ExpenseInit => EngineInv /\ RowsOK
  <2>1. NoRequest \in PayRequest /\ NoRecon \in Reconciliation
    BY DEF NoRequest, PayRequest, NoRecon, Reconciliation, People
  <2> QED
    BY <2>1, InitInv DEF ExpenseInit, RowsOK, People
<1>2. EngineInv /\ RowsOK /\ [ExpenseNext]_allVars => (EngineInv /\ RowsOK)'
  BY ExpenseStepImplements, RowsStayOK, NextInv DEF EngineInv
<1> QED
  BY <1>1, <1>2, PTL DEF ExpenseSpec

\* Every row the services write passes the CHECKs of its columns.
THEOREM ExpenseTypes == ExpenseSpec => []ExpenseTypeOK
<1>1. EngineInv /\ RowsOK => ExpenseTypeOK
  BY DEF EngineInv, RowsOK, ExpenseTypeOK
<1> QED
  BY <1>1, ExpenseEngineInvariant, PTL

\* The expense's lifecycle (update, submit, decide, verify, post, void, pay)
\* implements the specification of the approval engine.
THEOREM ExpenseImplementsEngine == ExpenseSpec => Spec
<1>1. ExpenseInit => Init
  BY DEF ExpenseInit
<1>2. EngineInv /\ [ExpenseNext]_allVars => [Next]_vars
  BY ExpenseStepImplements DEF EngineInv
<1> QED
  BY <1>1, <1>2, ExpenseEngineInvariant, PTL DEF ExpenseSpec, Spec

-----------------------------------------------------------------------------
(* Separation of duties *)

\* An expense goes through one chain, opened for the amount it is posted at;
\* once it is approved, no task of it is left to sign.
OneChain ==
  /\ status = "DRAFT" => \A i \in Instances : inst[i].status = "NONE"
  /\ \A i, j \in Instances :
       inst[i].status # "NONE" /\ inst[j].status # "NONE" => i = j
  /\ \A i \in Instances : inst[i].status # "NONE" => inst[i].amount = amount
  /\ status \in {"APPROVED", "POSTED"} =>
       /\ \A i \in Instances : inst[i].status \in {"NONE", "APPROVED"}
       /\ selfAuthorized \/ \E i \in Instances : inst[i].status = "APPROVED"

\* Verification and posting, by people other than the owner, the signatories
\* and each other.
BooksOK ==
  /\ status = "POSTED" <=> glPosted
  /\ verifiedBy # NoUser => status \in {"APPROVED", "POSTED", "VOID"}
  /\ verifiedBy # NoUser /\ status \in {"APPROVED", "POSTED"} =>
       verifiedBy # Owner /\ ~isExpenseApprover(verifiedBy) /\ amount > 0
  /\ glPosted => verifiedBy \notin {NoUser, postedBy}

\* One voucher p of a posted expense.
VoucherOK(p) ==
  /\ pay[p].status # "NONE" =>
       glPosted /\ pay[p].requestedBy # NoUser /\ pay[p].amount > 0
  /\ pay[p].approvedBy # NoUser <=> pay[p].status \in {"APPROVED", "PAID"}
  /\ pay[p].approvedBy # NoUser =>
       /\ pay[p].approvedBy \notin {Owner, pay[p].requestedBy}
       /\ ~isExpenseApprover(pay[p].approvedBy)
  /\ pay[p].paidBy # NoUser =>
       /\ pay[p].status = "PAID"
       /\ pay[p].paidBy \notin {Owner, verifiedBy, pay[p].requestedBy, pay[p].approvedBy}
       /\ ~isExpenseApprover(pay[p].paidBy)

VouchersOK == \A p \in Payments : VoucherOK(p)

\* Nothing is left to decide or to escalate on chains that ended in approval.
LEMMA ApprovedChainsStay ==
  ASSUME EngineInv, expenseEngineStep,
         \A i \in Instances : inst[i].status \in {"NONE", "APPROVED"}
  PROVE  inst' = inst /\ task' = task /\ status' = status
<1>1. ASSUME NEW i \in Instances, NEW s \in Steps PROVE task[i][s].status \notin OpenTask
  <2>1. RowsMatch(inst[i], task[i]) /\ StatusMatches(inst[i], task[i])
    BY DEF EngineInv, ChainOK
  <2> QED
    BY <2>1 DEF RowsMatch, StatusMatches, OpenTask, FullySigned
<1>2. CASE decide
  <2>1. PICK u \in Users, i \in Instances, s \in Steps :
          \/ approveTask(u, i, s)
          \/ \E d \in {"REJECTED", "RETURNED"} : rejectTask(u, i, s, d)
          \/ \E to \in Delegatees : delegateTask(u, i, s, to)
    BY <1>2 DEF decide
  <2>2. task[i][s].status \in OpenTask
    BY <2>1 DEF approveTask, rejectTask, delegateTask, Decidable
  <2> QED
    BY <1>1, <2>2
<1>3. CASE escalationUpdate
  <2>1. ASSUME NEW i \in Instances, NEW s \in Steps PROVE ~Escalated(i, s)
    BY <1>1 DEF Escalated, OpenTask
  <2>2. \A i \in Instances : inst[i].status # "RUNNING"
    OBVIOUS
  <2>3. task' = [i \in Instances |-> [s \in Steps |-> task[i][s]]]
    BY <1>3, <2>1 DEF escalationUpdate
  <2>4. inst' = [i \in Instances |-> inst[i]]
    BY <1>3, <2>2 DEF escalationUpdate
  <2>5. task \in [Instances -> [Steps -> Task]] /\ inst \in [Instances -> Instance]
    BY DEF EngineInv, TypeOK
  <2>6. task = [i \in Instances |-> [s \in Steps |-> task[i][s]]]
    BY <2>5
  <2> QED
    BY <1>3, <2>3, <2>4, <2>5, <2>6 DEF escalationUpdate
<1>4. CASE delegationChange \/ escalationSelect
  BY <1>4 DEF delegationChange, escalationSelect
<1> QED
  BY <1>2, <1>3, <1>4 DEF expenseEngineStep, escalation

\* What the engine may do to the row: refuse it, or approve it with the last
\* signature of its chain.
LEMMA EngineWrites ==
  ASSUME EngineInv, expenseEngineStep
  PROVE  /\ version' = version /\ UNCHANGED expenseVars
         /\ \/ status' = status
            \/ status' = "REJECTED" /\ status \notin {"POSTED", "VOID"}
            \/ /\ status' = "APPROVED" /\ status \notin {"POSTED", "VOID"}
               /\ \E i \in Instances : inst[i].status # "NONE" /\ inst'[i].status = "APPROVED"
<1>1. CASE decide
  <2>1. PICK u \in Users, i \in Instances, s \in Steps :
          \/ approveTask(u, i, s)
          \/ \E d \in {"REJECTED", "RETURNED"} : rejectTask(u, i, s, d)
          \/ \E to \in Delegatees : delegateTask(u, i, s, to)
    BY <1>1 DEF decide
  <2>2. version' = version
        /\ (status' = status \/ status' = "REJECTED" \/ completeWorkflow(i))
    BY <2>1 DEF approveTask, rejectTask, delegateTask
  <2>3. task[i][s].status # "NONE"
    BY <2>1 DEF approveTask, rejectTask, delegateTask, Decidable, OpenTask
  <2>4. inst[i].status # "NONE"
    BY <2>3 DEF EngineInv, ChainOK, RowsMatch
  <2>5. CASE completeWorkflow(i)
    <3>1. inst'[i].status = "APPROVED" /\ status' = "APPROVED"
      BY <2>5, ExpenseAssumption DEF completeWorkflow, EngineInv, TypeOK, Instance
    <3> QED
      BY <2>2, <2>4, <3>1 DEF expenseEngineStep, guard_ops_immutable
  <2> QED
    BY <2>2, <2>5 DEF expenseEngineStep, guard_ops_immutable
<1>2. CASE escalation \/ delegationChange
  BY <1>2 DEF expenseEngineStep, escalation, escalationSelect, escalationUpdate,
     delegationChange
<1> QED
  BY <1>1, <1>2 DEF expenseEngineStep

\* Every step keeps the one chain of the expense.
LEMMA OneChainStays ==
  ASSUME EngineInv, OneChain, [ExpenseNext]_allVars
  PROVE  OneChain'
<1>1. inst \in [Instances -> Instance] /\ NoInstance \in Instance
  BY NoInstanceType DEF EngineInv, TypeOK
<1>2. ASSUME inst' = inst, version' = version, selfAuthorized' = selfAuthorized,
             status' \in {status, "VOID"} \/ (status = "APPROVED" /\ status' = "POSTED")
      PROVE  OneChain'
  BY <1>2 DEF OneChain, amount
<1>3. CASE updateExpense
  BY <1>3 DEF updateExpense, engineVars, expenseVars, OneChain
<1>4. CASE submitExpense
  <2>1. CASE selfAuthorize /\ selfAuthorized' = TRUE
    BY <1>4, <2>1 DEF submitExpense, selfAuthorize, engineVars, OneChain, amount
  <2>2. CASE ~(selfAuthorize /\ selfAuthorized' = TRUE)
    <3>1. PICK i \in Instances : startWorkflow(i, amount)
      BY <1>4, <2>2 DEF submitExpense
    <3>2. status = "DRAFT" /\ status' = "SUBMITTED" /\ version' = version
      BY <1>4, <2>2, <3>1 DEF submitExpense, startWorkflow
    <3>3. inst'[i] = [NoInstance EXCEPT !.status = "RUNNING", !.amount = amount, !.hash = version]
      BY <1>1, <3>1 DEF startWorkflow
    <3>4. inst'[i].amount = amount
      BY <1>1, <3>3 DEF Instance
    <3>5. \A j \in Instances \ {i} : inst'[j].status = "NONE"
      BY <1>1, <3>1, <3>2 DEF startWorkflow, OneChain
    <3> QED
      BY <3>2, <3>4, <3>5 DEF OneChain, amount
  <2> QED
    BY <2>1, <2>2
<1>5. CASE expenseEngineStep
  <2>1. CASE status \in {"APPROVED", "POSTED"}
    <3>1. inst' = inst /\ status' = status
      BY <1>5, <2>1, ApprovedChainsStay DEF OneChain
    <3> QED
      BY <1>2, <1>5, <3>1, EngineWrites DEF expenseVars
  <2>2. CASE status \notin {"APPROVED", "POSTED"}
    <3>1. \A i \in Instances : ChainKept(i)
      BY <1>5, EngineKeepsChain DEF expenseEngineStep
    <3>2. version' = version /\ selfAuthorized' = selfAuthorized
      BY <1>5, EngineWrites DEF expenseVars
    <3>3. CASE status' \notin {"APPROVED", "POSTED"}
      <4>1. status' = "DRAFT" => status = "DRAFT"
        BY <1>5, EngineWrites
      <4> QED
        BY <3>1, <3>2, <3>3, <4>1 DEF OneChain, ChainKept, amount
    <3>4. CASE status' \in {"APPROVED", "POSTED"}
      <4>1. PICK i \in Instances : inst[i].status # "NONE" /\ inst'[i].status = "APPROVED"
        BY <1>5, <2>2, <3>4, EngineWrites
      <4>2. \A j \in Instances \ {i} : inst'[j].status = "NONE"
        BY <3>1, <4>1 DEF OneChain, ChainKept
      <4> QED
        BY <3>1, <3>2, <3>4, <4>1, <4>2 DEF OneChain, ChainKept, amount
    <3> QED
      BY <3>3, <3>4
  <2> QED
    BY <2>1, <2>2
<1>6. CASE voidExpense
  BY <1>2, <1>6 DEF voidExpense, engineVars, expenseVars
<1>7. ASSUME NEW u \in Users, postExpense(u) PROVE OneChain'
  BY <1>2, <1>7 DEF postExpense, engineVars
<1>8. CASE UNCHANGED allVars
  BY <1>2, <1>8 DEF allVars
<1>9. CASE UNCHANGED vars /\ selfAuthorized' = selfAuthorized
  BY <1>2, <1>9 DEF vars
<1> QED
  BY <1>3, <1>4, <1>5, <1>6, <1>7, <1>8, <1>9, AccountingLeavesEngine DEF ExpenseNext

\* Who signed does not change once the expense is approved.
LEMMA SignatoriesStay ==
  ASSUME EngineInv, OneChain, status \in {"APPROVED", "POSTED"}, [ExpenseNext]_allVars
  PROVE  /\ task' = task /\ version' = version /\ status' \in {status, "POSTED", "VOID"}
         /\ \A u : isExpenseApprover(u)' <=> isExpenseApprover(u)
<1>1. task' = task /\ version' = version /\ status' \in {status, "POSTED", "VOID"}
  <2>1. CASE expenseEngineStep
    BY <2>1, ApprovedChainsStay, EngineWrites DEF OneChain
  <2>2. CASE voidExpense
    BY <2>2 DEF voidExpense, engineVars
  <2>3. ASSUME NEW u \in Users, postExpense(u)
        PROVE  task' = task /\ version' = version /\ status' \in {status, "POSTED", "VOID"}
    BY <2>3 DEF postExpense, engineVars
  <2>4. CASE UNCHANGED vars \/ UNCHANGED allVars
    BY <2>4 DEF vars, allVars
  <2> QED
    BY <2>1, <2>2, <2>3, <2>4, AccountingLeavesEngine
    DEF ExpenseNext, updateExpense, submitExpense
<1> QED
  BY <1>1 DEF isExpenseApprover

\* verifyExpenseForPosting and postExpense keep their records apart.
LEMMA BooksStay ==
  ASSUME EngineInv, RowsOK, OneChain, BooksOK, [ExpenseNext]_allVars
  PROVE  BooksOK'
<1>0. NoUser \notin Users
  BY ConstantsAssumption
<1>1. ASSUME verifiedBy = NoUser, ~glPosted, verifiedBy' = verifiedBy, postedBy' = postedBy,
             status' # "POSTED"
      PROVE  BooksOK'
  BY <1>1 DEF BooksOK, glPosted
<1>2. CASE updateExpense \/ submitExpense
  <2>1. status = "DRAFT" /\ verifiedBy' = verifiedBy /\ postedBy' = postedBy
    BY <1>2 DEF updateExpense, submitExpense, expenseVars
  <2>2. status' # "POSTED"
    BY <1>2 DEF updateExpense, submitExpense, selfAuthorize
  <2> QED
    BY <1>1, <2>1, <2>2 DEF BooksOK
<1>3. CASE expenseEngineStep
  <2>1. version' = version /\ verifiedBy' = verifiedBy /\ postedBy' = postedBy
    BY <1>3, EngineWrites DEF expenseVars
  <2>2. CASE status \in {"APPROVED", "POSTED"}
    <3>1. status' = status
      BY <1>3, <2>2, ApprovedChainsStay DEF OneChain
    <3> QED
      BY <2>1, <2>2, <3>1, SignatoriesStay DEF BooksOK, glPosted, amount
  <2>3. CASE status = "VOID"
    <3>1. status' = "VOID"
      BY <1>3, <2>3, EngineWrites
    <3> QED
      BY <2>1, <2>3, <3>1 DEF BooksOK, glPosted
  <2>4. CASE status \notin {"APPROVED", "POSTED", "VOID"}
    <3>1. status' # "POSTED"
      BY <1>3, <2>4, EngineWrites
    <3> QED
      BY <1>1, <2>1, <2>4, <3>1 DEF BooksOK
  <2> QED
    BY <2>2, <2>3, <2>4
<1>4. CASE voidExpense
  <2>1. status' = "VOID" /\ ~glPosted /\ verifiedBy' = verifiedBy /\ postedBy' = postedBy
    BY <1>4 DEF voidExpense, expenseVars
  <2> QED
    BY <2>1 DEF BooksOK, glPosted
<1>5. ASSUME NEW u \in Users, verifyExpenseForPosting(u) PROVE BooksOK'
  <2>1. /\ status = "APPROVED" /\ status' = "APPROVED" /\ version' = version
        /\ verifiedBy' = u /\ postedBy' = postedBy /\ ~glPosted
        /\ u # Owner /\ ~isExpenseApprover(u) /\ amount > 0
    BY <1>5 DEF verifyExpenseForPosting, vars
  <2>2. ~isExpenseApprover(u)'
    BY <2>1, SignatoriesStay
  <2>3. ~isExpenseApprover(verifiedBy)'
    BY <2>1, <2>2 DEF isExpenseApprover
  <2> QED
    BY <1>0, <2>1, <2>3 DEF BooksOK, glPosted, amount
<1>6. ASSUME NEW u \in Users, postExpense(u) PROVE BooksOK'
  <2>1. /\ status = "APPROVED" /\ status' = "POSTED" /\ version' = version
        /\ verifiedBy' = verifiedBy /\ verifiedBy # NoUser /\ u # verifiedBy /\ postedBy' = u
    BY <1>6 DEF postExpense
  <2>2. ~isExpenseApprover(verifiedBy)'
    BY <2>1, SignatoriesStay DEF BooksOK, isExpenseApprover
  <2> QED
    BY <1>0, <2>1, <2>2 DEF BooksOK, glPosted, amount
<1>7. CASE UNCHANGED vars /\ verifiedBy' = verifiedBy /\ postedBy' = postedBy
  BY <1>7 DEF vars, BooksOK, glPosted, amount, isExpenseApprover
<1>8. ASSUME NEW u \in Users, NEW p \in Payments, NEW a,
             \/ payExpense(u, p, a)
             \/ approveExpensePayment(u, p) \/ rejectExpensePayment(u, p)
             \/ executeExpensePayment(u, p) \/ reconcileExpensePayment(u, p)
             \/ approveExpensePaymentReconciliation(u, p)
      PROVE  BooksOK'
  <2>1. UNCHANGED vars /\ verifiedBy' = verifiedBy /\ postedBy' = postedBy
    BY <1>8 DEF payExpense, approveExpensePayment, rejectExpensePayment,
       executeExpensePayment, reconcileExpensePayment, approveExpensePaymentReconciliation
  <2> QED
    BY <1>7, <2>1
<1>9. CASE UNCHANGED allVars
  BY <1>7, <1>9 DEF allVars, vars
<1> QED
  BY <1>2, <1>3, <1>4, <1>5, <1>6, <1>8, <1>9 DEF ExpenseNext

\* A voucher no step touches stays in order: its expense is posted, and who
\* signed, verified and posted it is settled.
LEMMA UntouchedVoucher ==
  ASSUME EngineInv, RowsOK, OneChain, BooksOK, [ExpenseNext]_allVars,
         NEW p \in Payments, VoucherOK(p), pay'[p] = pay[p]
  PROVE  VoucherOK(p)'
<1>1. CASE pay[p].status = "NONE"
  BY <1>1 DEF VoucherOK
<1>2. CASE pay[p].status # "NONE"
  <2>1. glPosted /\ status = "POSTED"
    BY <1>2 DEF VoucherOK, BooksOK
  <2>2. verifiedBy' = verifiedBy /\ postedBy' = postedBy
    BY <2>1 DEF ExpenseNext, allVars, expenseVars, updateExpense, submitExpense,
       expenseEngineStep, voidExpense, verifyExpenseForPosting, postExpense, payExpense,
       approveExpensePayment, rejectExpensePayment, executeExpensePayment,
       reconcileExpensePayment, approveExpensePaymentReconciliation
  <2>3. /\ isExpenseApprover(pay[p].approvedBy)' <=> isExpenseApprover(pay[p].approvedBy)
        /\ isExpenseApprover(pay[p].paidBy)' <=> isExpenseApprover(pay[p].paidBy)
    <3>1. task' = task
      BY <2>1, SignatoriesStay
    <3> QED
      BY <3>1 DEF isExpenseApprover
  <2> QED
    BY <2>2, <2>3 DEF VoucherOK, glPosted
<1> QED
  BY <1>1, <1>2

\* payExpense, and the review and the execution of vouchers.
LEMMA VouchersStay ==
  ASSUME EngineInv, RowsOK, OneChain, BooksOK, VouchersOK, [ExpenseNext]_allVars
  PROVE  VouchersOK'
<1>0. NoUser \notin Users /\ pay \in [Payments -> PayRequest]
  BY ConstantsAssumption DEF RowsOK
<1>1. CASE pay' = pay
  BY <1>1, UntouchedVoucher DEF VouchersOK
<1>2. ASSUME NEW q \in Payments, VoucherOK(q)', \A p \in Payments \ {q} : pay'[p] = pay[p]
      PROVE  VouchersOK'
  BY <1>2, UntouchedVoucher DEF VouchersOK
<1>3. ASSUME NEW u \in Users, NEW q \in Payments, NEW a \in 1..amount, payExpense(u, q, a)
      PROVE  VouchersOK'
  <2> DEFINE r == [NoRequest EXCEPT !.status = "SUBMITTED", !.amount = a, !.requestedBy = u]
  <2>1. /\ r.status = "SUBMITTED" /\ r.amount = a /\ r.requestedBy = u
        /\ r.approvedBy = NoUser /\ r.paidBy = NoUser
    BY DEF NoRequest
  <2>2. pay' = [pay EXCEPT ![q] = r]
    BY <1>3 DEF payExpense
  <2> HIDE DEF r
  <2>3. pay'[q] = r /\ \A p \in Payments \ {q} : pay'[p] = pay[p]
    BY <1>0, <2>2
  <2>4. glPosted /\ postedBy' = postedBy /\ a > 0
    BY <1>3 DEF payExpense
  <2>5. VoucherOK(q)'
    BY <1>0, <2>1, <2>3, <2>4 DEF VoucherOK, glPosted
  <2> QED
    BY <1>2, <2>3, <2>5
<1>4. ASSUME NEW u \in Users, NEW q \in Payments,
             \/ approveExpensePayment(u, q) \/ rejectExpensePayment(u, q)
             \/ executeExpensePayment(u, q)
      PROVE  VouchersOK'
  <2>1. \A p \in Payments \ {q} : pay'[p] = pay[p]
    BY <1>0, <1>4 DEF approveExpensePayment, rejectExpensePayment, executeExpensePayment
  <2>2. /\ pay'[q].amount = pay[q].amount /\ pay'[q].requestedBy = pay[q].requestedBy
        /\ postedBy' = postedBy /\ verifiedBy' = verifiedBy /\ task' = task
    BY <1>0, <1>4
    DEF approveExpensePayment, rejectExpensePayment, executeExpensePayment, PayRequest, vars
  <2>3. VoucherOK(q) /\ pay[q].status # "NONE"
    BY <1>4 DEF VouchersOK, approveExpensePayment, rejectExpensePayment,
       executeExpensePayment, mayReview
  <2>4. CASE approveExpensePayment(u, q)
    <3>1. /\ pay[q].status = "SUBMITTED" /\ pay'[q].status = "APPROVED"
          /\ pay'[q].approvedBy = u /\ pay'[q].paidBy = pay[q].paidBy
      BY <1>0, <2>4 DEF approveExpensePayment, mayReview, PayRequest
    <3>2. u \notin {Owner, pay[q].requestedBy} /\ ~isExpenseApprover(u)
      BY <2>4 DEF approveExpensePayment, mayReview
    <3>3. ~isExpenseApprover(pay[q].approvedBy)'
      BY <2>2, <3>1, <3>2 DEF isExpenseApprover
    <3>4. VoucherOK(q)'
      BY <1>0, <2>2, <2>3, <3>1, <3>2, <3>3 DEF VoucherOK, glPosted
    <3> QED
      BY <1>2, <2>1, <3>4
  <2>5. CASE rejectExpensePayment(u, q)
    <3>1. /\ pay[q].status = "SUBMITTED" /\ pay'[q].status = "REJECTED"
          /\ pay'[q].approvedBy = pay[q].approvedBy /\ pay'[q].paidBy = pay[q].paidBy
      BY <1>0, <2>5 DEF rejectExpensePayment, mayReview, PayRequest
    <3>2. VoucherOK(q)'
      BY <1>0, <2>2, <2>3, <3>1 DEF VoucherOK, glPosted
    <3> QED
      BY <1>2, <2>1, <3>2
  <2>6. CASE executeExpensePayment(u, q)
    <3>1. /\ pay[q].status = "APPROVED" /\ pay'[q].status = "PAID"
          /\ pay'[q].approvedBy = pay[q].approvedBy /\ pay'[q].paidBy = u
      BY <1>0, <2>6 DEF executeExpensePayment, PayRequest
    <3>2. /\ u \notin {Owner, verifiedBy, pay[q].requestedBy, pay[q].approvedBy}
          /\ ~isExpenseApprover(u)
      BY <2>6 DEF executeExpensePayment
    <3>3. ~isExpenseApprover(pay[q].paidBy)'
      BY <2>2, <3>1, <3>2 DEF isExpenseApprover
    <3>4. ~isExpenseApprover(pay[q].approvedBy)'
      BY <2>2, <2>3, <3>1 DEF isExpenseApprover, VoucherOK
    <3>5. VoucherOK(q)'
      BY <1>0, <2>2, <2>3, <3>1, <3>2, <3>3, <3>4 DEF VoucherOK, glPosted
    <3> QED
      BY <1>2, <2>1, <3>5
  <2> QED
    BY <1>4, <2>4, <2>5, <2>6
<1>5. CASE /\ ~ \E u \in Users, q \in Payments :
                  \/ \E a \in 1..amount : payExpense(u, q, a)
                  \/ approveExpensePayment(u, q) \/ rejectExpensePayment(u, q)
                  \/ executeExpensePayment(u, q)
  <2>1. pay' = pay
    BY <1>5 DEF ExpenseNext, allVars, expenseVars, updateExpense, submitExpense,
       expenseEngineStep, voidExpense, verifyExpenseForPosting, postExpense,
       reconcileExpensePayment, approveExpensePaymentReconciliation
  <2> QED
    BY <1>1, <2>1
<1> QED
  BY <1>3, <1>4, <1>5

\* The inductive invariant of one expense.
ExpenseInv == EngineInv /\ RowsOK /\ OneChain /\ BooksOK /\ VouchersOK

LEMMA ExpenseInvariant == ExpenseSpec => []ExpenseInv
<1>1. ExpenseInit => OneChain /\ BooksOK /\ VouchersOK
  <2> SUFFICES ASSUME ExpenseInit PROVE OneChain /\ BooksOK /\ VouchersOK
    OBVIOUS
  <2>1. \A i \in Instances : inst[i].status = "NONE"
    BY DEF ExpenseInit, Init, NoInstance
  <2>2. \A p \in Payments : /\ pay[p].status = "NONE" /\ pay[p].approvedBy = NoUser
                            /\ pay[p].paidBy = NoUser
    BY DEF ExpenseInit, NoRequest
  <2> QED
    BY <2>1, <2>2 DEF ExpenseInit, Init, OneChain, BooksOK, glPosted, VouchersOK, VoucherOK
<1>2. EngineInv /\ RowsOK /\ OneChain /\ BooksOK /\ VouchersOK /\ [ExpenseNext]_allVars
        => (OneChain /\ BooksOK /\ VouchersOK)'
  BY OneChainStays, BooksStay, VouchersStay
<1> QED
  BY <1>1, <1>2, ExpenseEngineInvariant, PTL DEF ExpenseSpec, ExpenseInv

\* postExpense: what reaches the ledger was approved by a complete chain for
\* the amount it is posted at (or submitted by a final authority), then verified
\* by one person and posted by another, none of them its owner, its verifier
\* none of its signatories.
THEOREM PostingUnderControl == ExpenseSpec => []PostingControlled
<1>1. ExpenseInv => PostingControlled
  BY DEF ExpenseInv, OneChain, BooksOK, PostingControlled
<1> QED
  BY <1>1, ExpenseInvariant, PTL

\* executeExpensePayment: cash leaves by four separate hands, none of them the
\* claimant's or a signatory's, whatever the order of the calls.
THEOREM DutiesApart == ExpenseSpec => []DutiesSegregated
<1>1. ExpenseInv => DutiesSegregated
  <2> SUFFICES ASSUME ExpenseInv, NEW p \in Payments
               PROVE  /\ pay[p].paidBy # NoUser =>
                           /\ pay[p].paidBy \notin {Owner, verifiedBy, pay[p].requestedBy,
                                                    pay[p].approvedBy}
                           /\ ~isExpenseApprover(pay[p].paidBy)
                           /\ NoUser \notin {verifiedBy, postedBy, pay[p].requestedBy,
                                             pay[p].approvedBy}
                      /\ pay[p].approvedBy # NoUser =>
                           /\ pay[p].approvedBy \notin {Owner, pay[p].requestedBy}
                           /\ ~isExpenseApprover(pay[p].approvedBy)
    BY DEF DutiesSegregated
  <2>1. VoucherOK(p) /\ BooksOK
    BY DEF ExpenseInv, VouchersOK
  <2> QED
    BY <2>1 DEF VoucherOK, BooksOK, glPosted
<1> QED
  BY <1>1, ExpenseInvariant, PTL

\* Every executed voucher rests on a chain for the very amount the expense was
\* posted at, signed throughout by entitled people, none of whom verified the
\* expense, approved the voucher or paid it; or on a final authority.
CashUnderControl ==
  \A p \in Payments : pay[p].paidBy # NoUser =>
    \/ selfAuthorized
    \/ \E i \in Instances :
         /\ inst[i].amount = amount
         /\ EntirelySigned(i)
         /\ \A s \in Applicable(amount) :
              task[i][s].decidedBy \notin {verifiedBy, pay[p].approvedBy, pay[p].paidBy}

\* submitExpense to executeExpensePayment: cash traces back to such a chain,
\* whatever was edited, delegated or escalated on the way.
THEOREM CashOnSignatures == ExpenseSpec => []CashUnderControl
<1>1. ExpenseInv /\ SignaturesEntitled /\ PostingControlled /\ DutiesSegregated
        => CashUnderControl
  <2> SUFFICES ASSUME ExpenseInv, SignaturesEntitled, PostingControlled, DutiesSegregated,
                      NEW p \in Payments, pay[p].paidBy # NoUser, ~selfAuthorized
               PROVE  \E i \in Instances :
                        /\ inst[i].amount = amount
                        /\ EntirelySigned(i)
                        /\ \A s \in Applicable(amount) :
                             task[i][s].decidedBy
                               \notin {verifiedBy, pay[p].approvedBy, pay[p].paidBy}
    BY DEF CashUnderControl
  <2>1. EngineInv /\ VoucherOK(p)
    BY DEF ExpenseInv, VouchersOK
  <2>2. glPosted /\ pay[p].approvedBy # NoUser
    BY <2>1 DEF VoucherOK
  <2>3. PICK i \in Instances : inst[i].status = "APPROVED" /\ inst[i].amount = amount
    BY <2>2 DEF PostingControlled
  <2>4. \A s \in Applicable(inst[i].amount) : task[i][s].status = "APPROVED"
    BY <2>1, <2>3, InvImpliesSigned DEF ChainSigned, FullySigned
  <2>5. EntirelySigned(i)
    BY <2>1, <2>4, ApprovedIsEntirelySigned
  <2>6. \A u \in {verifiedBy, pay[p].approvedBy, pay[p].paidBy} : ~isExpenseApprover(u)
    BY <2>2 DEF PostingControlled, DutiesSegregated
  <2>7. \A s \in Applicable(amount) : isExpenseApprover(task[i][s].decidedBy)
    BY <2>3, <2>4 DEF isExpenseApprover, Applicable
  <2> QED
    BY <2>3, <2>5, <2>6, <2>7
<1> QED
  BY <1>1, ExpenseInvariant, ExpenseImplementsEngine, SignersAreEntitled,
     PostingUnderControl, DutiesApart, PTL

-----------------------------------------------------------------------------
(* The vouchers implement the settlement of one payable *)

\* Vouchers f: those with a status in S, their amounts and the sum of these.
VouchersIn(f, S) == {p \in Payments : f[p].status \in S}
VoucherAmounts(f) == [p \in Payments |-> f[p].amount]
VoucherSum(f, S) == Total(VoucherAmounts(f), VouchersIn(f, S))

\* SUM(amount) over payment_requests is such a sum.
LEMMA SumOfVouchers ==
  ASSUME NEW f \in [Payments -> PayRequest], NEW S
  PROVE  MapThenSumSet(LAMBDA p : f[p].amount, {p \in Payments : f[p].status \in S})
           = VoucherSum(f, S)
<1> DEFINE v == VoucherAmounts(f)
           H == VouchersIn(f, S)
<1>1. v \in [Payments -> Int] /\ H \in SUBSET Payments /\ IsFiniteSet(Payments)
  BY ExpenseAssumption DEF VoucherAmounts, VouchersIn, PayRequest
<1> DEFINE Fold(g) == g = [T \in SUBSET H |-> IF T = {} THEN 0
             ELSE f[CHOOSE p \in T : TRUE].amount + g[T \ {CHOOSE p \in T : TRUE}]]
<1>2. \A T \in SUBSET H : T # {} => f[CHOOSE p \in T : TRUE].amount = v[Pick(T)]
  BY PickIn DEF Pick, VoucherAmounts, VouchersIn
<1>3. MapThenSumSet(LAMBDA p : f[p].amount, H) = (CHOOSE g : Fold(g))[H]
  BY DEF MapThenSumSet, MapThenFoldSet
<1> HIDE DEF v, H
<1>4. \A g : Fold(g) <=> IsSum(g, v, H)
  <2> SUFFICES ASSUME NEW g PROVE Fold(g) <=> IsSum(g, v, H)
    OBVIOUS
  <2>1. [T \in SUBSET H |-> IF T = {} THEN 0
             ELSE f[CHOOSE p \in T : TRUE].amount + g[T \ {CHOOSE p \in T : TRUE}]]
         = [T \in SUBSET H |-> IF T = {} THEN 0 ELSE v[Pick(T)] + g[T \ {Pick(T)}]]
    BY <1>2 DEF Pick
  <2> QED
    BY <2>1 DEF IsSum
<1>5. \E g : Fold(g)
  <2>1. SumFolds(v, H) # {}
    BY <1>1, FoldExists
  <2> QED
    BY <1>4, <2>1 DEF SumFolds
<1>6. Fold(CHOOSE g : Fold(g))
  BY <1>5
<1>7. (CHOOSE g : Fold(g))[H] = Total(v, H)
  <2> DEFINE h == CHOOSE g : Fold(g)
  <2>1. IsSum(h, v, H)
    BY <1>4, <1>6
  <2> HIDE DEF h
  <2>2. h[H] = Total(v, H)
    BY <1>1, <2>1, FoldIsTotal
  <2> QED
    BY <2>2 DEF h
<1> QED
  BY <1>3, <1>7 DEF v, H, VoucherSum, VouchersIn

\* One voucher changes a sum by what it brings in and what it takes out.
LEMMA VoucherSumChanges ==
  ASSUME NEW f \in [Payments -> PayRequest], NEW h \in [Payments -> PayRequest], NEW S,
         NEW q \in Payments, \A p \in Payments \ {q} : h[p] = f[p]
  PROVE  /\ VoucherSum(f, S) \in Int
         /\ VoucherSum(h, S) = VoucherSum(f, S)
                                 - (IF f[q].status \in S THEN f[q].amount ELSE 0)
                                 + (IF h[q].status \in S THEN h[q].amount ELSE 0)
<1> DEFINE v == VoucherAmounts(f)
           u == VoucherAmounts(h)
           H == VouchersIn(f, S)
           G == VouchersIn(h, S)
           R == H \ {q}
<1>1. /\ v \in [Payments -> Int] /\ u \in [Payments -> Int] /\ IsFiniteSet(Payments)
      /\ H \in SUBSET Payments /\ G \in SUBSET Payments /\ R \in SUBSET Payments
      /\ v[q] = f[q].amount /\ u[q] = h[q].amount
  BY ExpenseAssumption DEF VoucherAmounts, VouchersIn, PayRequest
<1>2. /\ G \ {q} = R /\ \A p \in R : u[p] = v[p]
      /\ q \in H <=> f[q].status \in S
      /\ q \in G <=> h[q].status \in S
  BY DEF VoucherAmounts, VouchersIn
<1>3. VoucherSum(f, S) = Total(v, H) /\ VoucherSum(h, S) = Total(u, G)
  BY DEF VoucherSum
<1> HIDE DEF v, u, H, G, R
<1>4. Total(u, R) = Total(v, R) /\ Total(v, R) \in Int /\ Total(v, H) \in Int
  BY <1>1, <1>2, TotalSame, TotalAdds
<1>5. Total(v, H) = Total(v, R) + (IF f[q].status \in S THEN f[q].amount ELSE 0)
  <2>1. CASE q \in H
    <3>1. Total(v, H) = Total(v, H \ {q}) + v[q]
      BY <1>1, <2>1, TotalAdds
    <3> QED
      BY <1>1, <1>2, <2>1, <3>1 DEF R
  <2>2. CASE q \notin H
    <3>1. H = R
      BY <2>2 DEF R
    <3> QED
      BY <1>2, <1>4, <2>2, <3>1
  <2> QED
    BY <2>1, <2>2
<1>6. Total(u, G) = Total(v, R) + (IF h[q].status \in S THEN h[q].amount ELSE 0)
  <2>1. CASE q \in G
    <3>1. Total(u, G) = Total(u, G \ {q}) + u[q]
      BY <1>1, <2>1, TotalAdds
    <3> QED
      BY <1>1, <1>2, <1>4, <2>1, <3>1
  <2>2. CASE q \notin G
    <3>1. G = R
      BY <1>2, <2>2
    <3> QED
      BY <1>2, <1>4, <2>2, <3>1
  <2> QED
    BY <2>1, <2>2
<1>7. f[q].amount \in Int /\ h[q].amount \in Int
  BY DEF PayRequest
<1> DEFINE a == Total(v, R)
           b == IF f[q].status \in S THEN f[q].amount ELSE 0
           c == IF h[q].status \in S THEN h[q].amount ELSE 0
<1>8. a \in Int /\ b \in Int /\ c \in Int /\ Total(v, H) = a + b /\ Total(u, G) = a + c
  BY <1>4, <1>5, <1>6, <1>7
<1> HIDE DEF a, b, c
<1>9. Total(u, G) = Total(v, H) - b + c
  BY <1>8
<1> QED
  BY <1>3, <1>4, <1>9 DEF b, c

\* What is paid out, with one more reserving voucher, stays inside what is
\* reserved.
LEMMA PaidWithinReserved ==
  ASSUME NEW f \in [Payments -> PayRequest]
  PROVE  /\ VoucherSum(f, {"PAID"}) \in Int /\ VoucherSum(f, Reserving) \in Int
         /\ VoucherSum(f, {"PAID"}) >= 0
         /\ \A q \in Payments : f[q].status \in Reserving \ {"PAID"} =>
              VoucherSum(f, {"PAID"}) + f[q].amount <= VoucherSum(f, Reserving)
<1> DEFINE v == VoucherAmounts(f)
           D == VouchersIn(f, {"PAID"})
           R == VouchersIn(f, Reserving)
<1>1. /\ v \in [Payments -> Int] /\ IsFiniteSet(Payments)
      /\ D \in SUBSET Payments /\ R \in SUBSET Payments /\ D \subseteq R
      /\ \A p \in Payments : v[p] >= 0 /\ v[p] = f[p].amount
  BY ExpenseAssumption DEF VoucherAmounts, VouchersIn, PayRequest, Reserving
<1>2. \A q \in Payments : f[q].status \in Reserving \ {"PAID"} => q \in R /\ q \notin D
  BY DEF VouchersIn
<1>3. VoucherSum(f, {"PAID"}) = Total(v, D) /\ VoucherSum(f, Reserving) = Total(v, R)
  BY DEF VoucherSum
<1> HIDE DEF v, D, R
<1>4. Total(v, D) \in Int /\ Total(v, R) \in Int /\ Total(v, D) >= 0
  BY <1>1, TotalAdds, TotalGrows
<1>5. ASSUME NEW q \in Payments, f[q].status \in Reserving \ {"PAID"}
      PROVE  Total(v, D) + f[q].amount <= Total(v, R)
  <2>1. q \in R /\ D \in SUBSET (R \ {q}) /\ R \ {q} \in SUBSET Payments
    BY <1>1, <1>2, <1>5
  <2>2. Total(v, D) <= Total(v, R \ {q}) /\ Total(v, R \ {q}) \in Int
    BY <1>1, <2>1, TotalGrows, TotalAdds
  <2>3. Total(v, R) = Total(v, R \ {q}) + v[q] /\ v[q] = f[q].amount /\ v[q] \in Int
    BY <1>1, <2>1, TotalAdds
  <2> DEFINE a == Total(v, R \ {q})
  <2> HIDE DEF a
  <2>4. Total(v, D) <= a /\ a \in Int /\ Total(v, R) = a + v[q]
    BY <2>2, <2>3 DEF a
  <2> QED
    BY <1>4, <2>3, <2>4
<1> QED
  BY <1>3, <1>4, <1>5

\* The two sums the settlement speaks of.
LEMMA SettlementSums ==
  RowsOK => /\ SumOf(Reserving) = VoucherSum(pay, Reserving)
            /\ SumOf({"PAID"}) = VoucherSum(pay, {"PAID"})
  BY SumOfVouchers DEF RowsOK, SumOf

\* due, reserved and paid of the settlement the expense implements.
owed == IF glPosted THEN amount ELSE 0

\* What a step does to them is a step of the settlement, or none.
LEMMA SettlementStep ==
  ASSUME ExpenseInv, RowsOK', [ExpenseNext]_allVars
  PROVE  [Ledger!LedgerNext]_(Ledger!ledgerVars)
<1> DEFINE res == VoucherSum(pay, Reserving)
           out == VoucherSum(pay, {"PAID"})
           res2 == VoucherSum(pay', Reserving)
           out2 == VoucherSum(pay', {"PAID"})
<1>1. /\ SumOf(Reserving) = res /\ SumOf({"PAID"}) = out
      /\ SumOf(Reserving)' = res2 /\ SumOf({"PAID"})' = out2
  <2>1. SumOf(Reserving) = res /\ SumOf({"PAID"}) = out
    BY SettlementSums DEF ExpenseInv
  <2>2. (/\ SumOf(Reserving) = VoucherSum(pay, Reserving)
         /\ SumOf({"PAID"}) = VoucherSum(pay, {"PAID"}))'
    BY SettlementSums, PTL
  <2> QED
    BY <2>1, <2>2
<1>2. /\ pay \in [Payments -> PayRequest] /\ pay' \in [Payments -> PayRequest]
      /\ amount \in Nat /\ version \in Versions
  BY ExpenseAssumption DEF ExpenseInv, RowsOK, EngineInv, TypeOK, amount
<1>3. /\ out \in Int /\ res \in Int /\ out >= 0
      /\ \A q \in Payments : pay[q].status \in Reserving \ {"PAID"} =>
           out + pay[q].amount <= res
  BY <1>2, PaidWithinReserved
<1>4. ASSUME pay' = pay PROVE res2 = res /\ out2 = out
  BY <1>4
<1>5. ASSUME NEW q \in Payments, \A p \in Payments \ {q} : pay'[p] = pay[p]
      PROVE  /\ res2 = res - (IF pay[q].status \in Reserving THEN pay[q].amount ELSE 0)
                           + (IF pay'[q].status \in Reserving THEN pay'[q].amount ELSE 0)
             /\ out2 = out - (IF pay[q].status \in {"PAID"} THEN pay[q].amount ELSE 0)
                           + (IF pay'[q].status \in {"PAID"} THEN pay'[q].amount ELSE 0)
  BY <1>2, <1>5, VoucherSumChanges
<1>6. \A q \in Payments : pay[q].amount \in Int /\ pay'[q].amount \in Int
  BY <1>2 DEF PayRequest
<1> HIDE DEF res, out, res2, out2
<1>7. ASSUME owed' = owed, pay' = pay PROVE UNCHANGED Ledger!ledgerVars
  BY <1>1, <1>4, <1>7 DEF Ledger!ledgerVars, owed
<1>8. ASSUME NEW u \in Users, postExpense(u) PROVE Ledger!LedgerNext
  <2>1. ~glPosted /\ postedBy' = u /\ version' = version /\ pay' = pay
    BY <1>8 DEF postExpense
  <2>2. amount > 0 /\ u # NoUser
    BY <1>8, ConstantsAssumption DEF postExpense, ExpenseInv, BooksOK
  <2>3. owed = 0 /\ owed' = amount
    BY <2>1, <2>2 DEF owed, glPosted, amount
  <2>4. amount \in {AmountOf[v] : v \in Versions} \ {0}
    BY <1>2, <2>2 DEF amount
  <2>5. Ledger!Book(amount)
    BY <1>1, <1>2, <1>4, <2>1, <2>2, <2>3 DEF Ledger!Book, owed
  <2> QED
    BY <2>4, <2>5 DEF Ledger!LedgerNext
<1>9. ASSUME NEW u \in Users, NEW q \in Payments, NEW a \in 1..amount, payExpense(u, q, a)
      PROVE  Ledger!LedgerNext
  <2>1. /\ glPosted /\ a > 0 /\ a <= amount - res /\ pay[q].status = "NONE"
        /\ postedBy' = postedBy /\ version' = version
    BY <1>1, <1>9 DEF payExpense, vars
  <2>2. \A p \in Payments \ {q} : pay'[p] = pay[p]
    BY <1>2, <1>9 DEF payExpense
  <2>3. pay'[q].status = "SUBMITTED" /\ pay'[q].amount = a
    BY <1>2, <1>9 DEF payExpense, NoRequest
  <2>4. res2 = res + a /\ out2 = out
    BY <1>3, <1>5, <1>6, <2>1, <2>2, <2>3 DEF Reserving
  <2>5. owed = amount /\ owed' = amount
    BY <2>1 DEF owed, glPosted, amount
  <2>6. Ledger!Reserve(a) /\ a \in 1..owed
    BY <1>1, <1>2, <1>3, <2>1, <2>4, <2>5 DEF Ledger!Reserve, owed
  <2> QED
    BY <2>6 DEF Ledger!LedgerNext, owed
<1>10. ASSUME NEW u \in Users, NEW q \in Payments,
              rejectExpensePayment(u, q) \/ executeExpensePayment(u, q)
       PROVE  Ledger!LedgerNext
  <2>1. /\ pay[q].status \in Reserving \ {"PAID"} /\ pay[q].status # "NONE"
        /\ postedBy' = postedBy /\ version' = version
    BY <1>10 DEF rejectExpensePayment, executeExpensePayment, mayReview, vars, Reserving
  <2>2. \A p \in Payments \ {q} : pay'[p] = pay[p]
    BY <1>2, <1>10 DEF rejectExpensePayment, executeExpensePayment
  <2>3. pay'[q].amount = pay[q].amount
    BY <1>2, <1>10 DEF rejectExpensePayment, executeExpensePayment, PayRequest
  <2>4. owed' = owed
    BY <2>1 DEF owed, glPosted, amount
  <2> DEFINE a == pay[q].amount
  <2>5. a > 0 /\ a \in Int /\ out + a <= res /\ a \in 1..res
    <3>1. a > 0
      BY <2>1 DEF ExpenseInv, VouchersOK, VoucherOK
    <3> QED
      BY <1>3, <1>6, <2>1, <3>1
  <2>6. /\ res2 = res - a + (IF pay'[q].status \in Reserving THEN a ELSE 0)
        /\ out2 = out + (IF pay'[q].status = "PAID" THEN a ELSE 0)
    BY <1>3, <1>5, <1>6, <2>1, <2>2, <2>3
  <2> HIDE DEF a
  <2>7. CASE rejectExpensePayment(u, q)
    <3>1. pay'[q].status = "REJECTED"
      BY <1>2, <2>7 DEF rejectExpensePayment, PayRequest
    <3>2. res2 = res - a /\ out2 = out
      BY <1>3, <2>5, <2>6, <3>1 DEF Reserving
    <3>3. Ledger!Release(a)
      BY <1>1, <2>4, <2>5, <3>2 DEF Ledger!Release, owed
    <3> QED
      BY <1>1, <2>5, <3>3 DEF Ledger!LedgerNext
  <2>8. CASE executeExpensePayment(u, q)
    <3>1. pay'[q].status = "PAID"
      BY <1>2, <2>8 DEF executeExpensePayment, PayRequest
    <3>2. res2 = res /\ out2 = out + a
      BY <1>3, <2>5, <2>6, <3>1 DEF Reserving
    <3>3. Ledger!Settle(a)
      BY <1>1, <2>4, <2>5, <3>2 DEF Ledger!Settle, owed
    <3> QED
      BY <1>1, <2>5, <3>3 DEF Ledger!LedgerNext
  <2> QED
    BY <1>10, <2>7, <2>8
<1>11. ASSUME NEW u \in Users, NEW q \in Payments, approveExpensePayment(u, q)
       PROVE  UNCHANGED Ledger!ledgerVars
  <2>1. /\ pay[q].status = "SUBMITTED" /\ pay'[q].status = "APPROVED"
        /\ pay'[q].amount = pay[q].amount /\ \A p \in Payments \ {q} : pay'[p] = pay[p]
    BY <1>2, <1>11 DEF approveExpensePayment, mayReview, PayRequest
  <2>2. res2 = res /\ out2 = out
    BY <1>3, <1>5, <1>6, <2>1 DEF Reserving
  <2>3. owed' = owed
    BY <1>11 DEF approveExpensePayment, vars, owed, glPosted, amount
  <2> QED
    BY <1>1, <2>2, <2>3 DEF Ledger!ledgerVars, owed
<1>12. CASE updateExpense \/ submitExpense
  <2>1. status = "DRAFT" /\ postedBy' = postedBy /\ pay' = pay
    BY <1>12 DEF updateExpense, submitExpense, expenseVars
  <2>2. owed = 0 /\ owed' = 0
    BY <2>1 DEF ExpenseInv, BooksOK, owed, glPosted
  <2> QED
    BY <1>7, <2>1, <2>2
<1>13. CASE expenseEngineStep \/ voidExpense \/ UNCHANGED allVars
  <2>1. version' = version /\ postedBy' = postedBy /\ pay' = pay
    BY <1>13, EngineWrites DEF ExpenseInv, voidExpense, expenseVars, allVars
  <2> QED
    BY <1>7, <2>1 DEF owed, glPosted, amount
<1>14. ASSUME NEW u \in Users, NEW q \in Payments,
              reconcileExpensePayment(u, q) \/ approveExpensePaymentReconciliation(u, q)
       PROVE  UNCHANGED Ledger!ledgerVars
  <2>1. version' = version /\ postedBy' = postedBy /\ pay' = pay
    BY <1>14 DEF reconcileExpensePayment,
       approveExpensePaymentReconciliation, vars
  <2> QED
    BY <1>7, <2>1 DEF owed, glPosted, amount
<1>15. ASSUME NEW u \in Users, verifyExpenseForPosting(u)
       PROVE  UNCHANGED Ledger!ledgerVars
  <2>1. version' = version /\ postedBy' = postedBy /\ pay' = pay
    BY <1>15 DEF verifyExpenseForPosting, vars
  <2> QED
    BY <1>7, <2>1 DEF owed, glPosted, amount
<1> QED
  BY <1>8, <1>9, <1>10, <1>11, <1>12, <1>13, <1>14, <1>15 DEF ExpenseNext

\* postExpense, payExpense, rejectExpensePayment and executeExpensePayment book,
\* reserve, release and settle one payable, and no other call touches it: the
\* vouchers implement the settlement ledger.
THEOREM VouchersSettle == ExpenseSpec => SettlementSpec
<1>1. ExpenseInit => Ledger!LedgerInit
  <2> SUFFICES ASSUME ExpenseInit PROVE Ledger!LedgerInit
    OBVIOUS
  <2>1. \A p \in Payments : pay[p].status = "NONE"
    BY DEF ExpenseInit, NoRequest
  <2>2. pay \in [Payments -> PayRequest]
    BY DEF ExpenseInit, NoRequest, PayRequest, People
  <2>3. VouchersIn(pay, Reserving) = {} /\ VouchersIn(pay, {"PAID"}) = {}
    BY <2>1 DEF VouchersIn, Reserving
  <2>4. VoucherAmounts(pay) \in [Payments -> Int] /\ IsFiniteSet(Payments)
    BY <2>2, ExpenseAssumption DEF VoucherAmounts, PayRequest
  <2>5. VoucherSum(pay, Reserving) = 0 /\ VoucherSum(pay, {"PAID"}) = 0
    BY <2>3, <2>4, TotalAdds DEF VoucherSum
  <2>6. SumOf(Reserving) = 0 /\ SumOf({"PAID"}) = 0
    BY <2>2, <2>5, SumOfVouchers DEF SumOf
  <2> QED
    BY <2>6 DEF Ledger!LedgerInit, ExpenseInit, glPosted
<1>2. ExpenseInv /\ ExpenseInv' /\ [ExpenseNext]_allVars
        => [Ledger!LedgerNext]_(Ledger!ledgerVars)
  BY SettlementStep DEF ExpenseInv
<1> QED
  BY <1>1, <1>2, ExpenseInvariant, PTL DEF ExpenseSpec, SettlementSpec, Ledger!LedgerSpec

\* A step of the settlement the expense implements keeps it solvent: the same
\* argument as SolventNext, on the sums of the vouchers.
LEMMA VouchersStaySolvent ==
  Ledger!Solvent /\ [Ledger!LedgerNext]_(Ledger!ledgerVars) => Ledger!Solvent'
<1> SUFFICES ASSUME Ledger!Solvent, [Ledger!LedgerNext]_(Ledger!ledgerVars)
             PROVE  Ledger!Solvent'
  OBVIOUS
<1> DEFINE d == IF glPosted THEN amount ELSE 0
           r == SumOf(Reserving)
           o == SumOf({"PAID"})
<1>1. /\ d \in Nat /\ r \in Nat /\ o \in Nat /\ o <= r /\ r <= d
      /\ Ledger!Solvent' <=> /\ d' \in Nat /\ r' \in Nat /\ o' \in Nat
                             /\ o' <= r' /\ r' <= d'
  BY DEF Ledger!Solvent
<1>2. \/ d' \in Nat \ {0} /\ d = 0 /\ r' = r /\ o' = o
      \/ \E a \in 1..r : /\ o + a <= r /\ d' = d
                         /\ \/ r' = r - a /\ o' = o
                            \/ r' = r /\ o' = o + a
      \/ \E a \in 1..d : r + a <= d /\ r' = r + a /\ d' = d /\ o' = o
      \/ d' = d /\ r' = r /\ o' = o
  <2>1. CASE UNCHANGED Ledger!ledgerVars
    BY <2>1 DEF Ledger!ledgerVars
  <2>2. CASE Ledger!LedgerNext
    BY <2>2 DEF Ledger!LedgerNext, Ledger!Book, Ledger!Reserve, Ledger!Release, Ledger!Settle
  <2> QED
    BY <2>1, <2>2
<1> HIDE DEF d, r, o
<1> QED
  BY <1>1, <1>2

\* payExpense and executeExpensePayment: the vouchers of an expense that are not
\* rejected never exceed the amount it was posted at, nor do payments exceed
\* them; nothing is reserved before posting.
THEOREM ExpenseNeverOverpaid == ExpenseSpec => []Ledger!Solvent
<1>1. Ledger!LedgerInit => Ledger!Solvent
  BY DEF Ledger!LedgerInit, Ledger!Solvent
<1> QED
  BY <1>1, VouchersStaySolvent, VouchersSettle, PTL DEF SettlementSpec, Ledger!LedgerSpec

\* executeExpensePayment, postExpense: what was paid on an expense is never
\* taken back, and once posted its liability keeps its amount; voiding,
\* rejecting a voucher and reconciling change neither.
THEOREM ExpensePaymentsFinal == ExpenseSpec => Ledger!PaymentsAreFinal
<1> DEFINE d == IF glPosted THEN amount ELSE 0
           r == SumOf(Reserving)
           o == SumOf({"PAID"})
<1>1. ASSUME Ledger!Solvent, [Ledger!LedgerNext]_(Ledger!ledgerVars)
      PROVE  o' >= o /\ (d > 0 => d' = d)
  <2>1. d \in Nat /\ r \in Nat /\ o \in Nat
    BY <1>1 DEF Ledger!Solvent
  <2>2. \/ d' \in Nat \ {0} /\ d = 0 /\ o' = o
        \/ \E a \in 1..r : d' = d /\ (o' = o \/ o' = o + a)
        \/ d' = d /\ o' = o
    <3>1. CASE UNCHANGED Ledger!ledgerVars
      BY <3>1 DEF Ledger!ledgerVars
    <3>2. CASE Ledger!LedgerNext
      BY <3>2 DEF Ledger!LedgerNext, Ledger!Book, Ledger!Reserve, Ledger!Release, Ledger!Settle
    <3> QED
      BY <1>1, <3>1, <3>2
  <2> HIDE DEF d, r, o
  <2> QED
    BY <2>1, <2>2
<1>2. Ledger!Solvent /\ [Ledger!LedgerNext]_(Ledger!ledgerVars)
        => [o' >= o /\ (d > 0 => d' = d)]_(Ledger!ledgerVars)
  BY <1>1
<1> QED
  BY <1>2, ExpenseNeverOverpaid, VouchersSettle, PTL
  DEF SettlementSpec, Ledger!LedgerSpec, Ledger!PaymentsAreFinal

=============================================================================
