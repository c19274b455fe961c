---------------------------- MODULE BooksProofs ----------------------------
(***************************************************************************)
(* Proofs about the books of Billing, for any customers, products, prices, *)
(* limits and bounds: the goods, the money and the order in which payments *)
(* settle invoices.                                                        *)
(*                                                                         *)
(* The laws are sums over the rows of the shop.  A sum is the recursive    *)
(* function that MapThenSumSet folds with; that it does not depend on the  *)
(* order of its terms, and how it moves with one of them, is proved by     *)
(* induction over the subsets of a finite set, taken as: if some subset    *)
(* had not the property, a smallest one would.                             *)
(*                                                                         *)
(* The goods (OnShelf) and the khata (Owes) then follow in one way: every  *)
(* request writes one row, a payment those of one customer, and moves the  *)
(* books by as much as it moves the sum over the rows (BalancedMove).      *)
(***************************************************************************)
EXTENDS BillingProofs, FiniteSetTheorems

-----------------------------------------------------------------------------
(* Induction. *)

\* A set of naturals that is not empty has a least member.
LEMMA LeastNatural ==
    ASSUME NEW S \in SUBSET Nat, S # {}
    PROVE  \E m \in S : \A n \in S : m <= n
<1> DEFINE R == {ss \in Nat \X Nat : ss[1] < ss[2]}
<1>1. IsWellFoundedOn(R, Nat)
    BY NatLessThanWellFounded DEF OpToRel
<1>2. \A x, y \in Nat : y < x => <<y, x>> \in R
    OBVIOUS
<1> HIDE DEF R
<1>3. PICK x \in S : \A y \in S : ~ (<<y, x>> \in R)
    BY <1>1, WFMin
<1>4. \A y \in S : ~ (y < x)
    BY <1>2, <1>3, Zenon
<1> QED
    BY <1>4

\* Induction along the first n naturals, for a set of those with the property.
LEMMA UpTo ==
    ASSUME NEW n \in Nat, NEW S, 0 \in S, \A k \in 1 .. n : k - 1 \in S => k \in S
    PROVE  0 .. n \subseteq S
<1> DEFINE M == (0 .. n) \ S
<1>1. SUFFICES ASSUME M # {} PROVE FALSE
    OBVIOUS
<1>2. PICK m \in M : \A k \in M : m <= k
    <2>1. M \in SUBSET Nat
        OBVIOUS
    <2> HIDE DEF M
    <2> QED
        BY <1>1, <2>1, LeastNatural
<1>3. m \in 1 .. n /\ m - 1 \in 0 .. n /\ m - 1 \notin M
    BY <1>2
<1> QED
    BY <1>2, <1>3

\* Induction over the subsets of a finite set, for a set B of those with the property.
LEMMA SubsetInduction ==
    ASSUME NEW S, IsFiniteSet(S), NEW B,
           \A T \in SUBSET S : (\A x \in T : T \ {x} \in B) => T \in B
    PROVE  \A T \in SUBSET S : T \in B
<1> DEFINE M == {T \in SUBSET S : T \notin B}
<1>1. SUFFICES ASSUME M # {} PROVE FALSE
    OBVIOUS
<1>2. /\ IsWellFoundedOn(StrictSubsetOrdering(S), FiniteSubsetsOf(S))
      /\ M \subseteq FiniteSubsetsOf(S)
    BY FS_StrictSubsetOrderingWellFounded, FS_FiniteSubsetsOfFinite
<1>3. PICK T \in M : \A U \in M : ~ (<<U, T>> \in StrictSubsetOrdering(S))
    <2> HIDE DEF M
    <2> QED
        BY <1>1, <1>2, WFMin
<1>4. \A x \in T : T \ {x} \notin M
    <2> TAKE x \in T
    <2>1. T \ {x} \in SUBSET S /\ T \ {x} # T
        BY <1>3
    <2> QED
        BY <1>3, <2>1 DEF StrictSubsetOrdering
<1>5. T \in SUBSET S /\ T \notin B
    BY <1>3
<1> QED
    BY <1>4, <1>5

-----------------------------------------------------------------------------
(* Sums. *)

\* The sum of f over S, as the model writes it.
SumOf(f, S) == MapThenSumSet(LAMBDA i : f[i], S)

\* The recursive function behind MapThenSumSet, and the element it takes first.
First(s) == CHOOSE x \in s : TRUE
IsSum(g, f, S) ==
    g = [s \in SUBSET S |-> IF s = {} THEN 0 ELSE f[First(s)] + g[s \ {First(s)}]]

\* The sum is the value of that function at S.
LEMMA SumOfIs ==
    ASSUME NEW f, NEW S
    PROVE  SumOf(f, S) = (CHOOSE g : IsSum(g, f, S))[S]
BY DEF SumOf, MapThenSumSet, MapThenFoldSet, IsSum, First

\* There is at most one such function.
LEMMA IsSumUnique ==
    ASSUME NEW S, IsFiniteSet(S), NEW f, NEW g, NEW h, IsSum(g, f, S), IsSum(h, f, S)
    PROVE  g = h
<1> DEFINE B == {T \in SUBSET S : g[T] = h[T]}
<1>1. ASSUME NEW T \in SUBSET S, \A x \in T : T \ {x} \in B
      PROVE  T \in B
    <2>1. T # {} => First(T) \in T
        BY DEF First
    <2> QED
        BY <1>1, <2>1 DEF IsSum
<1>2. \A T \in SUBSET S : T \in B
    <2> HIDE DEF B
    <2> QED
        BY <1>1, SubsetInduction
<1> QED
    BY <1>2 DEF IsSum

\* The sum over a finite set satisfies its recursion equation.
SumStep(f, T) ==
    SumOf(f, T) = IF T = {} THEN 0 ELSE f[First(T)] + SumOf(f, T \ {First(T)})

LEMMA SumSteps ==
    ASSUME NEW S, IsFiniteSet(S), NEW f
    PROVE  \A T \in SUBSET S : SumStep(f, T)
<1> DEFINE B == {T \in SUBSET S : \A U \in SUBSET T : SumStep(f, U)}
<1>1. ASSUME NEW T \in SUBSET S, \A x \in T : T \ {x} \in B
      PROVE  SumStep(f, T)
    <2> DEFINE h == [s \in SUBSET T |->
                       IF s # T THEN SumOf(f, s)
                       ELSE IF T = {} THEN 0 ELSE f[First(T)] + SumOf(f, T \ {First(T)})]
    <2>1. ASSUME NEW s \in SUBSET T
          PROVE  h[s] = IF s = {} THEN 0 ELSE f[First(s)] + h[s \ {First(s)}]
        <3>1. s # {} => First(s) \in s
            BY DEF First
        <3>2. CASE s = T
            BY <3>1, <3>2
        <3>3. CASE s # T
            <4>1. PICK x \in T : x \notin s
                BY <3>3
            <4>2. SumStep(f, s)
                BY <1>1, <4>1
            <4> QED
                BY <3>1, <3>3, <4>2 DEF SumStep
        <3> QED
            BY <3>2, <3>3
    <2>2. IsSum(h, f, T)
        BY <2>1 DEF IsSum
    <2>3. IsFiniteSet(T)
        BY FS_Subset
    <2>4. (CHOOSE g : IsSum(g, f, T)) = h
        <3> HIDE DEF h
        <3>1. IsSum(CHOOSE g : IsSum(g, f, T), f, T)
            BY <2>2
        <3> QED
            BY <2>2, <2>3, <3>1, IsSumUnique
    <2>5. SumOf(f, T) = h[T]
        BY <2>4, SumOfIs
    <2> QED
        BY <2>5 DEF SumStep
<1>2. ASSUME NEW T \in SUBSET S, \A x \in T : T \ {x} \in B
      PROVE  T \in B
    <2> SUFFICES ASSUME NEW U \in SUBSET T PROVE SumStep(f, U)
        OBVIOUS
    <2>1. CASE U = T
        BY <1>1, <1>2, <2>1
    <2>2. CASE U # T
        <3>1. PICK x \in T : x \notin U
            BY <2>2
        <3> QED
            BY <1>2, <3>1
    <2> QED
        BY <2>1, <2>2
<1>3. \A T \in SUBSET S : T \in B
    <2> HIDE DEF B
    <2> QED
        BY <1>2, SubsetInduction
<1> QED
    BY <1>3

\* f has integers to sum over S.
IntegersOn(f, S) == \A i \in S : f[i] \in Int

\* A sum of integers is an integer.
LEMMA SumIsInt ==
    ASSUME NEW S, IsFiniteSet(S), NEW f, IntegersOn(f, S)
    PROVE  \A T \in SUBSET S : SumOf(f, T) \in Int
<1> DEFINE B == {T \in SUBSET S : SumOf(f, T) \in Int}
<1>1. ASSUME NEW T \in SUBSET S, \A x \in T : T \ {x} \in B
      PROVE  T \in B
    <2>1. SumStep(f, T)
        BY SumSteps
    <2>2. T # {} => First(T) \in T
        BY DEF First
    <2> QED
        BY <1>1, <2>1, <2>2 DEF SumStep, IntegersOn
<1>2. \A T \in SUBSET S : T \in B
    <2> HIDE DEF B
    <2> QED
        BY <1>1, SubsetInduction
<1> QED
    BY <1>2

\* Any element may be taken out of a sum first.
LEMMA SumRemoves ==
    ASSUME NEW S, IsFiniteSet(S), NEW f, IntegersOn(f, S)
    PROVE  \A T \in SUBSET S : \A x \in T : SumOf(f, T) = f[x] + SumOf(f, T \ {x})
<1> DEFINE Holds(T) == \A x \in T : SumOf(f, T) = f[x] + SumOf(f, T \ {x})
           B == {T \in SUBSET S : Holds(T)}
<1>1. ASSUME NEW T \in SUBSET S, \A x \in T : T \ {x} \in B
      PROVE  Holds(T)
    <2> SUFFICES ASSUME NEW x \in T PROVE SumOf(f, T) = f[x] + SumOf(f, T \ {x})
        OBVIOUS
    <2>1. PICK p : p = First(T)
        OBVIOUS
    <2>2. p \in T /\ SumOf(f, T) = f[p] + SumOf(f, T \ {p})
        BY <2>1, SumSteps DEF SumStep, First
    <2>3. CASE x = p
        BY <2>2, <2>3
    <2>4. CASE x # p
        <3> DEFINE U == (T \ {p}) \ {x}
        <3>1. U = (T \ {x}) \ {p} /\ U \in SUBSET S
            OBVIOUS
        <3>2. Holds(T \ {p}) /\ Holds(T \ {x})
            <4> HIDE DEF Holds
            <4> QED
                BY <1>1, <2>2
        <3>3. /\ SumOf(f, T \ {p}) = f[x] + SumOf(f, U)
              /\ SumOf(f, T \ {x}) = f[p] + SumOf(f, U)
            BY <2>2, <2>4, <3>1, <3>2
        <3>4. f[x] \in Int /\ f[p] \in Int /\ SumOf(f, U) \in Int
            BY <2>2, <3>1, SumIsInt DEF IntegersOn
        <3> QED
            BY <2>2, <3>3, <3>4
    <2> QED
        BY <2>3, <2>4
<1>2. \A T \in SUBSET S : T \in B
    <2>1. \A T \in SUBSET S : (\A x \in T : T \ {x} \in B) => T \in B
        BY <1>1
    <2> HIDE DEF B
    <2> QED
        BY <2>1, SubsetInduction
<1> QED
    BY <1>2

\* Any element may be taken out of a sum, not only the first.
LEMMA SumTakesOut ==
    ASSUME NEW S, IsFiniteSet(S), NEW f, IntegersOn(f, S), NEW x \in S
    PROVE  SumOf(f, S) = f[x] + SumOf(f, S \ {x})
<1>1. S \in SUBSET S
    OBVIOUS
<1> QED
    BY <1>1, SumRemoves

\* Nothing sums to nothing.
LEMMA SumOfEmpty ==
    ASSUME NEW f
    PROVE  SumOf(f, {}) = 0
BY FS_EmptySet, SumSteps DEF SumStep

\* Functions that agree on a set have the same sum over it.
LEMMA SumSame ==
    ASSUME NEW S, IsFiniteSet(S), NEW f, NEW g, IntegersOn(f, S), \A i \in S : f[i] = g[i]
    PROVE  SumOf(f, S) = SumOf(g, S)
<1> DEFINE B == {T \in SUBSET S : SumOf(f, T) = SumOf(g, T)}
<1>1. ASSUME NEW T \in SUBSET S, \A x \in T : T \ {x} \in B
      PROVE  T \in B
    <2>1. T # {} => First(T) \in T
        BY DEF First
    <2>2. SumStep(f, T) /\ SumStep(g, T)
        BY SumSteps
    <2> QED
        BY <1>1, <2>1, <2>2 DEF SumStep
<1>2. \A T \in SUBSET S : T \in B
    <2> HIDE DEF B
    <2> QED
        BY <1>1, SubsetInduction
<1> QED
    BY <1>2

\* The sum of a sum, or of a difference, is taken summand by summand.
LEMMA SumAdds ==
    ASSUME NEW S, IsFiniteSet(S), NEW f, NEW g, NEW h, IntegersOn(f, S), IntegersOn(g, S),
           \A i \in S : h[i] = f[i] - g[i]
    PROVE  SumOf(h, S) = SumOf(f, S) - SumOf(g, S)
<1>1. IntegersOn(h, S)
    BY DEF IntegersOn
<1> DEFINE B == {T \in SUBSET S : SumOf(h, T) = SumOf(f, T) - SumOf(g, T)}
<1>2. ASSUME NEW T \in SUBSET S, \A x \in T : T \ {x} \in B
      PROVE  T \in B
    <2>1. SumStep(f, T) /\ SumStep(g, T) /\ SumStep(h, T)
        BY <1>1, SumSteps
    <2>2. CASE T = {}
        BY <2>1, <2>2 DEF SumStep
    <2>3. CASE T # {}
        <3>1. PICK p \in T : p = First(T)
            BY <2>3 DEF First
        <3>2. SumOf(f, T \ {p}) \in Int /\ SumOf(g, T \ {p}) \in Int /\ f[p] \in Int /\ g[p] \in Int
            BY SumIsInt DEF IntegersOn
        <3>3. SumOf(h, T \ {p}) = SumOf(f, T \ {p}) - SumOf(g, T \ {p}) /\ h[p] = f[p] - g[p]
            BY <1>2
        <3> QED
            BY <2>1, <2>3, <3>1, <3>2, <3>3 DEF SumStep
    <2> QED
        BY <2>2, <2>3
<1>3. \A T \in SUBSET S : T \in B
    <2>1. \A T \in SUBSET S : (\A x \in T : T \ {x} \in B) => T \in B
        BY <1>2
    <2> HIDE DEF B
    <2> QED
        BY <2>1, SubsetInduction
<1> QED
    BY <1>3

\* Summands that are zero may be left out.
LEMMA SumOutside ==
    ASSUME NEW S, IsFiniteSet(S), NEW T \in SUBSET S, NEW f, IntegersOn(f, S),
           \A i \in S \ T : f[i] = 0
    PROVE  SumOf(f, S) = SumOf(f, T)
<1> DEFINE B == {U \in SUBSET S : SumOf(f, U) = SumOf(f, U \cap T)}
<1>1. ASSUME NEW U \in SUBSET S, \A x \in U : U \ {x} \in B
      PROVE  U \in B
    <2>1. CASE U \subseteq T
        <3>1. U \cap T = U
            BY <2>1
        <3> QED
            BY <3>1
    <2>2. ASSUME NEW x \in U \ T PROVE U \in B
        <3>1. SumOf(f, U) = f[x] + SumOf(f, U \ {x}) /\ SumOf(f, U \ {x}) \in Int
            BY SumRemoves, SumIsInt
        <3>2. (U \ {x}) \cap T = U \cap T
            BY <2>2
        <3>3. SumOf(f, U \ {x}) = SumOf(f, U \cap T)
            BY <1>1, <3>2
        <3> QED
            BY <3>1, <3>3
    <2> QED
        BY <2>1, <2>2
<1>2. \A U \in SUBSET S : U \in B
    <2> HIDE DEF B
    <2> QED
        BY <1>1, SubsetInduction
<1>3. S \cap T = T /\ S \in B
    BY <1>2
<1> QED
    BY <1>3

\* What x adds to the sum of f over S.
At(f, S, x) == IF x \in S THEN f[x] ELSE 0

\* One element joins, leaves or changes its summand: the sum moves by the difference.
LEMMA SumOneChanged ==
    ASSUME NEW S, IsFiniteSet(S), NEW T, NEW x, S \ {x} = T \ {x},
           NEW f, NEW g, IntegersOn(f, S), IntegersOn(g, T), \A i \in S \ {x} : f[i] = g[i]
    PROVE  SumOf(g, T) = SumOf(f, S) - At(f, S, x) + At(g, T, x)
<1>1. IsFiniteSet(S \ {x}) /\ IsFiniteSet(T)
    <2>1. IsFiniteSet(S \ {x})
        BY FS_Subset
    <2>2. IsFiniteSet((S \ {x}) \cup {x})
        BY <2>1, FS_AddElement
    <2>3. T \subseteq (S \ {x}) \cup {x}
        OBVIOUS
    <2> QED
        BY <2>1, <2>2, <2>3, FS_Subset
<1>2. SumOf(f, S \ {x}) = SumOf(g, T \ {x}) /\ SumOf(f, S \ {x}) \in Int
    <2>1. IntegersOn(f, S \ {x})
        BY DEF IntegersOn
    <2> QED
        BY <1>1, <2>1, SumSame, SumIsInt
<1>3. SumOf(f, S) = At(f, S, x) + SumOf(f, S \ {x}) /\ At(f, S, x) \in Int
    <2>1. CASE x \in S
        BY <2>1, SumRemoves DEF At, IntegersOn
    <2>2. CASE x \notin S
        <3>1. S \ {x} = S
            BY <2>2
        <3>2. SumOf(f, S \ {x}) = SumOf(f, S)
            BY <3>1
        <3>3. At(f, S, x) = 0
            BY <2>2 DEF At
        <3>4. SumOf(f, S \ {x}) \in Int
            BY <1>2
        <3> QED
            BY <3>2, <3>3, <3>4
    <2> QED
        BY <2>1, <2>2
<1>4. SumOf(g, T) = At(g, T, x) + SumOf(g, T \ {x}) /\ At(g, T, x) \in Int
    <2>1. CASE x \in T
        BY <1>1, <2>1, SumRemoves DEF At, IntegersOn
    <2>2. CASE x \notin T
        <3>1. T \ {x} = T
            BY <2>2
        <3>2. SumOf(g, T \ {x}) = SumOf(g, T)
            BY <3>1
        <3>3. At(g, T, x) = 0
            BY <2>2 DEF At
        <3>4. SumOf(g, T \ {x}) \in Int
            BY <1>2
        <3> QED
            BY <3>2, <3>3, <3>4
    <2> QED
        BY <2>1, <2>2
<1> QED
    BY <1>2, <1>3, <1>4

\* An interval without its last element.
LEMMA WithoutLast ==
    ASSUME NEW k \in Nat \ {0}
    PROVE  /\ IsFiniteSet(1 .. k)
           /\ k \in 1 .. k
           /\ (1 .. k) \ {k} = 1 .. (k - 1)
<1>1. IsFiniteSet(1 .. k)
    BY FS_Interval
<1>2. \A j \in 1 .. k : j # k => j \in 1 .. (k - 1)
    OBVIOUS
<1>3. \A j \in 1 .. (k - 1) : j \in 1 .. k /\ j # k
    OBVIOUS
<1>4. (1 .. k) \ {k} = 1 .. (k - 1)
    BY <1>2, <1>3, Zenon
<1> QED
    BY <1>1, <1>4

\* What is taken from a remainder, step by step, sums to what it has lost.
LEMMA SumTelescopes ==
    ASSUME NEW n \in Nat, NEW run \in [0 .. n -> Int],
           NEW a, \A k \in 1 .. n : a[k] = run[k - 1] - run[k]
    PROVE  SumOf(a, 1 .. n) = run[0] - run[n]
<1> DEFINE Lost == {m \in 0 .. n : SumOf(a, 1 .. m) = run[0] - run[m]}
<1>1. 0 \in Lost
    <2>1. 1 .. 0 = {} /\ run[0] \in Int
        OBVIOUS
    <2> QED
        BY <2>1, SumOfEmpty
<1>2. ASSUME NEW k \in 1 .. n, k - 1 \in Lost PROVE k \in Lost
    <2> DEFINE U == 1 .. k
    <2>1. IsFiniteSet(U) /\ k \in U /\ U \ {k} = 1 .. (k - 1)
        <3>1. k \in Nat \ {0}
            OBVIOUS
        <3> QED
            BY <3>1, WithoutLast, Zenon
    <2>2. IntegersOn(a, U)
        BY DEF IntegersOn
    <2>3. SumOf(a, U) = a[k] + SumOf(a, U \ {k})
        <3> HIDE DEF U, Lost
        <3> QED
            BY <2>1, <2>2, SumTakesOut, Zenon
    <2>4. run[0] \in Int /\ run[k] \in Int /\ run[k - 1] \in Int /\ k \in 0 .. n
        OBVIOUS
    <2>5. SumOf(a, 1 .. (k - 1)) = run[0] - run[k - 1] /\ a[k] = run[k - 1] - run[k]
        BY <1>2
    <2>6. SumOf(a, 1 .. k) = a[k] + (run[0] - run[k - 1])
        BY <2>1, <2>3, <2>5
    <2>7. a[k] + (run[0] - run[k - 1]) = run[0] - run[k]
        BY <2>4, <2>5
    <2> QED
        BY <2>4, <2>6, <2>7
<1>3. 0 .. n \subseteq Lost
    <2>1. \A k \in 1 .. n : k - 1 \in Lost => k \in Lost
        BY <1>2
    <2> HIDE DEF Lost
    <2> QED
        BY <1>1, <2>1, UpTo
<1>4. n \in Lost
    BY <1>3
<1> QED
    BY <1>4

-----------------------------------------------------------------------------
(* What the requests write in the rows. *)

\* Nothing but row i is written; i may be a new row.
OnlyRow(i) ==
    /\ Ids \subseteq Ids' /\ Ids' \ {i} = Ids \ {i} /\ i \in Ids'
    /\ \A k \in Ids \ {i} : invoices'[k] = invoices[k]

\* A new invoice is a new row.
LEMMA Appends ==
    ASSUME BillingInv, NEW row, invoices' = Append(invoices, row)
    PROVE  \E i : OnlyRow(i) /\ i \notin Ids /\ invoices'[i] = row
<1>1. invoices \in Seq(Invoice) /\ Len(invoices) \in Nat
    BY LenProperties DEF BillingInv, TypeOK
<1>2. /\ Len(invoices') = Len(invoices) + 1
      /\ \A j \in 1 .. Len(invoices) : invoices'[j] = invoices[j]
      /\ invoices'[Len(invoices) + 1] = row
    BY <1>1
<1>3. PICK i : i = Len(invoices) + 1
    OBVIOUS
<1>4. OnlyRow(i) /\ i \notin Ids /\ invoices'[i] = row
    BY <1>1, <1>2, <1>3 DEF OnlyRow, Ids
<1> QED
    BY <1>4

\* An update is of one row.
LEMMA Rewrites ==
    ASSUME BillingInv, NEW i \in Ids, NEW row, invoices' = [invoices EXCEPT ![i] = row]
    PROVE  OnlyRow(i) /\ Ids' = Ids /\ invoices'[i] = row
<1>1. invoices \in Seq(Invoice)
    BY DEF BillingInv, TypeOK
<1> QED
    BY <1>1 DEF OnlyRow, Ids

\* A proforma becomes a sale: nothing was paid of it.
LEMMA ConvertWrites ==
    ASSUME BillingInv, NEW i \in Ids, NEW pay \in Amounts \cup {0}, ConvertProforma(i, pay)
    PROVE  /\ OnlyRow(i) /\ Ids' = Ids
           /\ invoices[i].status = "proforma" /\ invoices[i].paid = 0
           /\ invoices'[i].customer = invoices[i].customer
           /\ invoices'[i].items = invoices[i].items
           /\ invoices'[i].paid = Booked(pay, invoices[i].total)
           /\ ~Live(invoices[i]) /\ Live(invoices'[i])
<1> DEFINE row == [invoices[i] EXCEPT !.paid = Booked(pay, invoices[i].total),
                                      !.status = SaleStatus(pay, invoices[i].total)]
<1>1. invoices[i] \in Invoice /\ StatusFits(invoices[i]) /\ invoices[i].status = "proforma"
    BY RowType DEF ConvertProforma, ConvertEffect
<1>2. invoices' = [invoices EXCEPT ![i] = row]
    BY DEF ConvertProforma, ConvertEffect
<1>3. /\ row.customer = invoices[i].customer /\ row.items = invoices[i].items
      /\ row.paid = Booked(pay, invoices[i].total)
      /\ row.status = SaleStatus(pay, invoices[i].total)
    BY <1>1 DEF Invoice
<1> HIDE DEF row
<1>4. OnlyRow(i) /\ Ids' = Ids /\ invoices'[i] = row
    BY <1>2, Rewrites
<1> QED
    BY <1>1, <1>3, <1>4 DEF Live, SaleStatus, StatusFits

\* An edit replaces the items and the total of a pending invoice.
LEMMA UpdateWrites ==
    ASSUME BillingInv, NEW i \in Ids, NEW items, NEW total, UpdateInvoice(i, items, total)
    PROVE  /\ OnlyRow(i) /\ Ids' = Ids
           /\ invoices'[i].customer = invoices[i].customer
           /\ invoices'[i].items = items
           /\ invoices'[i].paid = invoices[i].paid
           /\ Live(invoices[i]) /\ Live(invoices'[i])
<1> DEFINE row == [invoices[i] EXCEPT !.items = items, !.total = total]
<1>1. invoices[i] \in Invoice /\ invoices[i].status = "pending"
    BY RowType DEF UpdateInvoice, UpdateEffect
<1>2. invoices' = [invoices EXCEPT ![i] = row]
    BY DEF UpdateInvoice, UpdateEffect
<1>3. /\ row.customer = invoices[i].customer /\ row.items = items
      /\ row.paid = invoices[i].paid /\ row.status = invoices[i].status
    BY <1>1 DEF Invoice
<1> HIDE DEF row
<1>4. OnlyRow(i) /\ Ids' = Ids /\ invoices'[i] = row
    BY <1>2, Rewrites
<1> QED
    BY <1>1, <1>3, <1>4 DEF Live

\* A cancellation writes the status only.
LEMMA CancelWrites ==
    ASSUME BillingInv, NEW i \in Ids, CancelInvoice(i)
    PROVE  /\ OnlyRow(i) /\ Ids' = Ids
           /\ invoices'[i].customer = invoices[i].customer
           /\ invoices'[i].items = invoices[i].items
           /\ invoices'[i].paid = invoices[i].paid
           /\ invoices[i].status = "proforma" => invoices[i].paid = 0
           /\ Live(invoices[i]) <=> invoices[i].status # "proforma"
           /\ ~Live(invoices'[i])
<1> DEFINE row == [invoices[i] EXCEPT !.status = "cancelled"]
<1>1. /\ invoices[i] \in Invoice /\ StatusFits(invoices[i])
      /\ invoices[i].status \in Statuses \ {"cancelled"}
    BY RowType DEF CancelInvoice, CancelEffect, Invoice
<1>2. invoices' = [invoices EXCEPT ![i] = row]
    BY DEF CancelInvoice, CancelEffect
<1>3. /\ row.customer = invoices[i].customer /\ row.items = invoices[i].items
      /\ row.paid = invoices[i].paid /\ row.status = "cancelled"
    BY <1>1 DEF Invoice
<1> HIDE DEF row
<1>4. OnlyRow(i) /\ Ids' = Ids /\ invoices'[i] = row
    BY <1>2, Rewrites
<1> QED
    BY <1>1, <1>3, <1>4 DEF Live, StatusFits, Statuses

\* A reversal finds something paid, so the row is no proforma; it ends up live.
LEMMA ReverseWrites ==
    ASSUME BillingInv, NEW i \in Ids, NEW amount \in Amounts, ReversePayment(i, amount)
    PROVE  /\ OnlyRow(i) /\ Ids' = Ids
           /\ invoices'[i].customer = invoices[i].customer
           /\ invoices'[i].items = invoices[i].items
           /\ invoices'[i].paid = invoices[i].paid - amount
           /\ Live(invoices[i]) \/ invoices[i].status = "cancelled"
           /\ Live(invoices'[i])
<1> DEFINE row == [invoices[i] EXCEPT
              !.paid = invoices[i].paid - amount,
              !.status = ReverseStatus(invoices[i].paid - amount, invoices[i].total)]
<1>1. invoices[i] \in Invoice /\ StatusFits(invoices[i])
    BY RowType
<1>2. invoices' = [invoices EXCEPT ![i] = row]
    BY DEF ReversePayment, ReverseEffect
<1>3. /\ row.customer = invoices[i].customer /\ row.items = invoices[i].items
      /\ row.paid = invoices[i].paid - amount
      /\ row.status = ReverseStatus(invoices[i].paid - amount, invoices[i].total)
    BY <1>1 DEF Invoice
<1> HIDE DEF row
<1>4. OnlyRow(i) /\ Ids' = Ids /\ invoices'[i] = row
    BY <1>2, Rewrites
<1>5. amount > 0 /\ amount \in Nat /\ amount <= invoices[i].paid
    BY ConstantsAssumption DEF ReversePayment, ReverseEffect
<1>6. invoices[i].status \in {"pending", "partial", "paid", "cancelled"}
    BY <1>1, <1>5 DEF StatusFits, Invoice, Statuses
<1>7. row.status \in {"pending", "partial", "paid"}
    BY <1>3 DEF ReverseStatus
<1> QED
    BY <1>3, <1>4, <1>6, <1>7 DEF Live

\* What a payment applies to each row, and what remains of it after that row.
Applies(c, amount, run) ==
    /\ run \in [0 .. Len(invoices) -> 0 .. amount]
    /\ run[0] = amount
    /\ \A k \in Ids :
          /\ Applied(invoices[k], c, run[k - 1]) \in Nat
          /\ run[k] = run[k - 1] - Applied(invoices[k], c, run[k - 1])
          /\ invoices'[k] = Settled(invoices[k], Applied(invoices[k], c, run[k - 1]))

\* A payment leaves, for the rows of its customer in turn, what the earlier ones left.
LEMMA PayWrites ==
    ASSUME BillingInv, NEW c \in Customers, NEW amount \in Nat, Pay(c, amount)
    PROVE  Ids' = Ids /\ \E run : Applies(c, amount, run)
<1>1. PICK run \in [0 .. Len(invoices) -> 0 .. amount] :
          /\ IsSettlementRun(run, c, amount)
          /\ invoices' = [k \in Ids |-> Settled(invoices[k], run[k - 1] - run[k])]
    BY DEF Pay, Settle
<1>2. Len(invoices) \in Nat
    BY LenProperties DEF BillingInv, TypeOK
<1>3. Ids' = Ids
    <2>1. DOMAIN invoices' = Ids
        BY <1>1
    <2>2. DOMAIN invoices' = 1 .. Len(invoices')
        BY PayInv, LenProperties DEF BillingInv, TypeOK
    <2> QED
        BY <2>1, <2>2 DEF Ids
<1>4. ASSUME NEW k \in Ids
      PROVE  /\ Applied(invoices[k], c, run[k - 1]) \in Nat
             /\ run[k] = run[k - 1] - Applied(invoices[k], c, run[k - 1])
             /\ invoices'[k] = Settled(invoices[k], Applied(invoices[k], c, run[k - 1]))
    <2>1. k \in 0 .. Len(invoices) /\ k - 1 \in 0 .. Len(invoices)
        BY <1>2, <1>4 DEF Ids
    <2>2. run[k] \in Nat /\ run[k - 1] \in Nat
        BY <2>1
    <2>3. Applied(invoices[k], c, run[k - 1]) \in Nat
        BY <2>2, RowType, SettledFits
    <2>4. run[k] = run[k - 1] - Applied(invoices[k], c, run[k - 1])
        BY <1>1 DEF IsSettlementRun
    <2>5. run[k - 1] - run[k] = Applied(invoices[k], c, run[k - 1])
        BY <2>2, <2>3, <2>4
    <2> QED
        BY <1>1, <2>3, <2>4, <2>5
<1> QED
    BY <1>1, <1>3, <1>4 DEF Applies, IsSettlementRun

\* Settling writes the paid amount and status of unpaid rows of the customer only.
LEMMA PaySettles ==
    ASSUME BillingInv, NEW c, NEW amount, NEW run, Applies(c, amount, run), NEW k \in Ids
    PROVE  /\ invoices'[k].customer = invoices[k].customer
           /\ invoices'[k].items = invoices[k].items
           /\ invoices'[k].paid = invoices[k].paid + Applied(invoices[k], c, run[k - 1])
           /\ Live(invoices'[k]) <=> Live(invoices[k])
           /\ ~Unpaid(invoices[k], c) =>
                 Applied(invoices[k], c, run[k - 1]) = 0 /\ invoices'[k] = invoices[k]
<1> DEFINE v == invoices[k]
           a == Applied(v, c, run[k - 1])
<1>1. v \in Invoice /\ invoices'[k] = Settled(v, a) /\ a \in Nat
    BY RowType DEF Applies
<1>2. v.paid \in Nat
    BY <1>1 DEF Invoice
<1>3. CASE a = 0
    BY <1>1, <1>2, <1>3 DEF Settled
<1>4. CASE a # 0
    <2>1. Unpaid(v, c)
        BY <1>4 DEF Applied
    <2>2. Live(v)
        BY <2>1 DEF Unpaid, Live
    <2> DEFINE st == IF a = Due(v) THEN "paid" ELSE "partial"
               row == [v EXCEPT !.paid = @ + a, !.status = st]
    <2>3. invoices'[k] = row
        BY <1>1, <1>4 DEF Settled
    <2>4. /\ row.customer = v.customer /\ row.items = v.items
          /\ row.paid = v.paid + a /\ row.status = st
        BY <1>1 DEF Invoice
    <2>5. Live(row)
        BY <2>4 DEF Live
    <2> HIDE DEF row, v, a, st
    <2> QED
        BY <2>1, <2>2, <2>3, <2>4, <2>5 DEF v, a
<1>5. ~Unpaid(v, c) => a = 0
    BY DEF Applied
<1> QED
    BY <1>1, <1>3, <1>4, <1>5 DEF Settled

-----------------------------------------------------------------------------
(* The stock. *)

\* What the live invoices carry of a product.
Carried(p) == [i \in LiveIds |-> invoices[i].items[p]]
\* The stock is what the opening stock lacks of it.
OnShelf == \A p \in Products : stock[p] = OpeningStock[p] - SumOf(Carried(p), LiveIds)

\* That is what StockConserved says where no invoice was reopened.
LEMMA StockIsOnShelf == StockConserved <=> (reopened = {} => OnShelf)
<1>1. ASSUME NEW p \in Products
      PROVE  MapThenSumSet(LAMBDA i : invoices[i].items[p], LiveIds) = SumOf(Carried(p), LiveIds)
    BY DEF SumOf, MapThenSumSet, MapThenFoldSet, Carried
<1> QED
    BY <1>1 DEF StockConserved, OnShelf

\* There are finitely many rows, and live ones carry numbers of items.
LEMMA RowsAreFinite ==
    ASSUME BillingInv
    PROVE  IsFiniteSet(Ids)
<1>1. Len(invoices) \in Nat
    BY LenProperties DEF BillingInv, TypeOK
<1> QED
    BY <1>1, FS_Interval DEF Ids

\* So what they carry can be summed,
LEMMA CarriedType ==
    BillingInv => IsFiniteSet(LiveIds) /\ \A p \in Products : IntegersOn(Carried(p), LiveIds)
<1> SUFFICES ASSUME BillingInv
             PROVE  IsFiniteSet(LiveIds) /\ \A p \in Products : IntegersOn(Carried(p), LiveIds)
    OBVIOUS
<1>1. IsFiniteSet(LiveIds)
    BY RowsAreFinite, FS_Subset DEF LiveIds
<1>2. ASSUME NEW p \in Products, NEW i \in LiveIds PROVE Carried(p)[i] \in Int
    BY <1>2, RowType DEF Carried, Invoice, LiveIds
<1> QED
    BY <1>1, <1>2 DEF IntegersOn

\* after a step as before it.
LEMMA CarriedTypeNext ==
    (BillingInv => IsFiniteSet(LiveIds) /\ \A p \in Products : IntegersOn(Carried(p), LiveIds))'
BY CarriedType, PTL

\* What row i has on the books of a product.
Holds(i, p) == IF i \in LiveIds THEN invoices[i].items[p] ELSE 0

\* Where the stock moves by what one row gives back and takes, it stays conserved.
LEMMA RowMovesStock ==
    ASSUME BillingInv, BillingInv', OnShelf, NEW i,
           LiveIds' \ {i} = LiveIds \ {i},
           \A k \in LiveIds \ {i} : invoices'[k].items = invoices[k].items,
           \A p \in Products : stock'[p] = stock[p] + Holds(i, p) - Holds(i, p)'
    PROVE  OnShelf'
<1> SUFFICES ASSUME NEW p \in Products
             PROVE  stock'[p] = OpeningStock[p] - SumOf(Carried(p)', LiveIds')
    BY DEF OnShelf
<1>1. IsFiniteSet(LiveIds) /\ IntegersOn(Carried(p), LiveIds)
    BY CarriedType
<1>2. IntegersOn(Carried(p)', LiveIds')
    BY CarriedTypeNext
<1>3. \A k \in LiveIds \ {i} : Carried(p)[k] = Carried(p)'[k]
    BY DEF Carried
<1>4. /\ At(Carried(p), LiveIds, i) = Holds(i, p)
      /\ At(Carried(p)', LiveIds', i) = Holds(i, p)'
    BY DEF At, Carried, Holds
<1>5. SumOf(Carried(p)', LiveIds') = SumOf(Carried(p), LiveIds) - Holds(i, p) + Holds(i, p)'
    BY <1>1, <1>2, <1>3, <1>4, SumOneChanged
<1>6. SumOf(Carried(p), LiveIds) \in Int
    BY <1>1, SumIsInt
<1>7. Holds(i, p) \in Int /\ Holds(i, p)' \in Int
    BY <1>1, <1>2 DEF Holds, IntegersOn, Carried
<1>8. stock[p] \in Int /\ OpeningStock[p] \in Int
    BY ConstantsAssumption DEF BillingInv, TypeOK
<1>9. stock[p] = OpeningStock[p] - SumOf(Carried(p), LiveIds)
    BY DEF OnShelf
<1> QED
    BY <1>5, <1>6, <1>7, <1>8, <1>9

\* The same for a request that writes one row.
LEMMA OnlyRowStock ==
    ASSUME BillingInv, BillingInv', OnShelf, NEW i, OnlyRow(i),
           \A p \in Products : stock'[p] = stock[p] + Holds(i, p) - Holds(i, p)'
    PROVE  OnShelf'
<1>1. LiveIds' \ {i} = LiveIds \ {i}
    BY DEF LiveIds, OnlyRow
<1>2. \A k \in LiveIds \ {i} : invoices'[k].items = invoices[k].items
    BY DEF LiveIds, OnlyRow
<1> QED
    BY <1>1, <1>2, RowMovesStock

\* The numbers on row i are integers.
LEMMA HoldsType ==
    ASSUME BillingInv, NEW p \in Products, NEW i
    PROVE  Holds(i, p) \in Int
BY RowType DEF Holds, LiveIds, Invoice

\* A sale takes what its row carries.
LEMMA SellStock ==
    ASSUME BillingInv, BillingInv', OnShelf,
           NEW c \in Customers, NEW items \in Baskets, NEW total, NEW pay,
           Sell(c, items, total, pay)
    PROVE  OnShelf'
<1> DEFINE row == [customer |-> c, items |-> items, total |-> total,
                  paid |-> Booked(pay, total), status |-> SaleStatus(pay, total)]
<1>1. PICK i : OnlyRow(i) /\ i \notin Ids /\ invoices'[i] = row
    BY Appends DEF Sell
<1>2. Live(invoices'[i]) /\ invoices'[i].items = items
    BY <1>1 DEF Live, SaleStatus
<1> HIDE DEF row
<1>3. \A p \in Products : Holds(i, p) = 0 /\ Holds(i, p)' = items[p]
    BY <1>1, <1>2 DEF Holds, LiveIds, OnlyRow
<1>4. \A p \in Products : stock'[p] = stock[p] + Holds(i, p) - Holds(i, p)'
    <2>1. \A p \in Products : stock[p] \in Int /\ items[p] \in Nat
        BY ConstantsAssumption DEF BillingInv, TypeOK
    <2> QED
        BY <1>3, <2>1 DEF Sell, Take
<1> QED
    BY <1>1, <1>4, OnlyRowStock

\* A proforma carries nothing yet.
LEMMA ProformaStock ==
    ASSUME BillingInv, BillingInv', OnShelf,
           NEW c, NEW items, NEW total, CreateProforma(c, items, total)
    PROVE  OnShelf'
<1> DEFINE row == [customer |-> c, items |-> items, total |-> total,
                   paid |-> 0, status |-> "proforma"]
<1>1. PICK i : OnlyRow(i) /\ i \notin Ids /\ invoices'[i] = row
    BY Appends DEF CreateProforma
<1>2. ~Live(invoices'[i])
    BY <1>1 DEF Live
<1> HIDE DEF row
<1>3. \A p \in Products : Holds(i, p) = 0 /\ Holds(i, p)' = 0
    BY <1>1, <1>2 DEF Holds, LiveIds
<1>4. \A p \in Products : stock'[p] = stock[p] + Holds(i, p) - Holds(i, p)'
    <2>1. \A p \in Products : stock[p] \in Int
        BY DEF BillingInv, TypeOK
    <2> QED
        BY <1>3, <2>1 DEF CreateProforma
<1> QED
    BY <1>1, <1>4, OnlyRowStock

\* A change gives back what its row carried and takes what it carries now.
LEMMA ChangeStock ==
    ASSUME BillingInv, BillingInv', StockConserved, Change
    PROVE  StockConserved'
<1>1. SUFFICES ASSUME reopened' = {} PROVE OnShelf'
    <2>1. (StockConserved <=> (reopened = {} => OnShelf))'
        BY StockIsOnShelf, PTL
    <2> QED
        BY <2>1
<1>2. PICK i \in Ids :
        \/ \E pay \in Amounts \cup {0} : ConvertProforma(i, pay)
        \/ \E items \in Baskets, total \in Totals : UpdateInvoice(i, items, total)
        \/ CancelInvoice(i)
        \/ \E amount \in Amounts : ReversePayment(i, amount)
    BY DEF Change
<1>3. reopened = {}
    <2>1. reopened \subseteq reopened'
        BY <1>2 DEF ConvertProforma, ConvertEffect, UpdateInvoice, UpdateEffect,
           CancelInvoice, CancelEffect, ReversePayment, ReverseEffect
    <2> QED
        BY <1>1, <2>1
<1>4. OnShelf
    BY <1>3, StockIsOnShelf
<1>5. \A p \in Products : /\ stock[p] \in Int /\ Holds(i, p) \in Int
                          /\ invoices[i].items[p] \in Nat
    BY RowType, HoldsType DEF Invoice, BillingInv, TypeOK
<1> DEFINE Moves == \A p \in Products : stock'[p] = stock[p] + Holds(i, p) - Holds(i, p)'
<1>6. ASSUME NEW pay \in Amounts \cup {0}, ConvertProforma(i, pay) PROVE OnShelf'
    <2>1. \A p \in Products : Holds(i, p) = 0 /\ Holds(i, p)' = invoices[i].items[p]
        BY <1>6, ConvertWrites DEF Holds, LiveIds
    <2>2. Moves
        BY <1>5, <1>6, <2>1 DEF ConvertProforma, ConvertEffect, Take
    <2> QED
        BY <1>4, <1>6, <2>2, ConvertWrites, OnlyRowStock
<1>7. ASSUME NEW items \in Baskets, NEW total \in Totals, UpdateInvoice(i, items, total)
      PROVE  OnShelf'
    <2>1. \A p \in Products : Holds(i, p) = invoices[i].items[p] /\ Holds(i, p)' = items[p]
        BY <1>7, UpdateWrites DEF Holds, LiveIds
    <2>2. \A p \in Products : items[p] \in Nat
        BY ConstantsAssumption
    <2>3. Moves
        BY <1>5, <1>7, <2>1, <2>2 DEF UpdateInvoice, UpdateEffect, Take, Put
    <2> QED
        BY <1>4, <1>7, <2>3, UpdateWrites, OnlyRowStock
<1>8. ASSUME CancelInvoice(i) PROVE OnShelf'
    <2>1. \A p \in Products :
             /\ Holds(i, p) = IF invoices[i].status = "proforma" THEN 0 ELSE invoices[i].items[p]
             /\ Holds(i, p)' = 0
        BY <1>8, CancelWrites DEF Holds, LiveIds
    <2>2. Moves
        BY <1>5, <1>8, <2>1 DEF CancelInvoice, CancelEffect, Put
    <2> QED
        BY <1>4, <1>8, <2>2, CancelWrites, OnlyRowStock
<1>9. ASSUME NEW amount \in Amounts, ReversePayment(i, amount) PROVE OnShelf'
    <2>1. Live(invoices[i])
        BY <1>1, <1>9, ReverseWrites DEF ReversePayment, ReverseEffect
    <2>2. invoices'[i].items = invoices[i].items
        BY <1>9, RowType DEF ReversePayment, ReverseEffect, BillingInv, TypeOK, Ids, Invoice
    <2>3. \A p \in Products : Holds(i, p)' = Holds(i, p)
        BY <1>9, <2>1, <2>2, ReverseWrites DEF Holds, LiveIds
    <2>4. Moves
        BY <1>5, <1>9, <2>3 DEF ReversePayment, ReverseEffect
    <2> QED
        BY <1>4, <1>9, <2>4, ReverseWrites, OnlyRowStock
<1> QED
    BY <1>2, <1>6, <1>7, <1>8, <1>9

\* Payments and credit move no goods.
LEMMA KhataStock ==
    ASSUME BillingInv, BillingInv', OnShelf, NEW c \in Customers, NEW amount \in Nat,
           Pay(c, amount) \/ AddCredit(c, amount)
    PROVE  OnShelf'
<1>1. /\ Ids' = Ids
      /\ \A k \in Ids : /\ invoices'[k].items = invoices[k].items
                        /\ Live(invoices'[k]) <=> Live(invoices[k])
    BY PayWrites, PaySettles DEF AddCredit, Ids
<1>2. LiveIds' = LiveIds /\ 0 \notin LiveIds
    BY <1>1 DEF LiveIds, Ids
<1>3. \A p \in Products : stock'[p] = stock[p] + Holds(0, p) - Holds(0, p)'
    <2>1. \A p \in Products : stock[p] \in Int
        BY DEF BillingInv, TypeOK
    <2> QED
        BY <1>2, <2>1 DEF Holds, Pay, AddCredit
<1> QED
    BY <1>1, <1>2, <1>3, RowMovesStock DEF LiveIds

\* Every request keeps the stock conserved, unless it reopens an invoice.
LEMMA StockNext ==
    ASSUME BillingInv, StockConserved, [Next]_vars
    PROVE  StockConserved'
<1>1. BillingInv'
    BY BillingNext
<1>2. (StockConserved <=> (reopened = {} => OnShelf))'
    BY StockIsOnShelf, PTL
<1>3. CASE UNCHANGED vars
    BY <1>2, <1>3, StockIsOnShelf DEF vars, OnShelf, Carried, LiveIds, Ids
<1>4. CASE Sale
    <2>1. PICK c \in Customers, items \in Baskets, total \in Totals :
              \/ \E pay \in Amounts \cup {0} : Sell(c, items, total, pay)
              \/ CreateProforma(c, items, total)
        BY <1>4 DEF Sale, CreateInvoice, ConfirmInvoice
    <2>2. reopened' = reopened
        BY <2>1 DEF CreateProforma, Sell
    <2>3. OnShelf => OnShelf'
        BY <1>1, <2>1, SellStock, ProformaStock
    <2> QED
        BY <1>2, <2>2, <2>3, StockIsOnShelf
<1>5. CASE Change
    BY <1>1, <1>5, ChangeStock
<1>6. CASE Khata
    <2>1. PICK c \in Customers, amount \in Nat : Pay(c, amount) \/ AddCredit(c, amount)
        BY <1>6, ConstantsAssumption DEF Khata, RecordPayment, RecordMixedPayment
    <2>2. reopened' = reopened
        BY <2>1 DEF Pay, AddCredit
    <2>3. OnShelf => OnShelf'
        BY <1>1, <2>1, KhataStock
    <2> QED
        BY <1>2, <2>2, <2>3, StockIsOnShelf
<1> QED
    BY <1>3, <1>4, <1>5, <1>6 DEF Next

\* An empty shop has its opening stock.
LEMMA InitStock == Init => StockConserved
<1> SUFFICES ASSUME Init PROVE OnShelf
    BY StockIsOnShelf
<1>1. LiveIds = {}
    BY DEF Init, LiveIds, Ids
<1>2. \A p \in Products : SumOf(Carried(p), LiveIds) = 0
    BY <1>1, SumOfEmpty
<1>3. \A p \in Products : OpeningStock[p] \in Int /\ stock[p] = OpeningStock[p]
    BY ConstantsAssumption DEF Init
<1> QED
    BY <1>2, <1>3 DEF OnShelf

\* For every shop: goods are neither lost nor made by any order of sales, edits,
\* conversions, cancellations, payments and reversals, until one reopens an invoice.
THEOREM StockConservedAlways == Spec => []StockConserved
BY InitStock, StockNext, InitBillingInv, BillingInvariant, PTL DEF Spec

-----------------------------------------------------------------------------
(* The money. *)

\* What the rows of a customer show as paid, and what of it is on rows that are not
\* live: the payments of cancelled invoices.
Paid(c) == [i \in Of(c) |-> invoices[i].paid]
Kept(c) == [i \in Of(c) |-> IF Live(invoices[i]) THEN 0 ELSE invoices[i].paid]

\* The advance of a customer in these words, before a step and after it.
LEMMA AdvanceIs ==
    ASSUME NEW c \in Customers
    PROVE  Advance(c) = received[c] - SumOf(Paid(c), Of(c))
BY DEF Advance, SumOf, MapThenSumSet, MapThenFoldSet, Paid

LEMMA AdvanceIsNext ==
    ASSUME NEW c \in Customers
    PROVE  Advance(c)' = received'[c] - SumOf(Paid(c)', Of(c)')
BY DEF Advance, SumOf, MapThenSumSet, MapThenFoldSet, Paid

\* The khata in other words: purchases less receipts, and the payments of cancelled
\* invoices on top.
Owes(c) == balance[c] = totalPurchases[c] - received[c] + SumOf(Kept(c), Of(c))

\* The rows of a customer can be summed, before a step and after it.
LEMMA OfType ==
    BillingInv => \A c \in Customers :
        IsFiniteSet(Of(c)) /\ IntegersOn(Paid(c), Of(c)) /\ IntegersOn(Kept(c), Of(c))
<1> SUFFICES ASSUME BillingInv, NEW c \in Customers
             PROVE  IsFiniteSet(Of(c)) /\ IntegersOn(Paid(c), Of(c)) /\ IntegersOn(Kept(c), Of(c))
    OBVIOUS
<1>1. IsFiniteSet(Of(c))
    BY RowsAreFinite, FS_Subset DEF Of
<1>2. \A i \in Of(c) : invoices[i].paid \in Nat
    BY RowType DEF Of, Invoice
<1>3. IntegersOn(Paid(c), Of(c))
    BY <1>2 DEF IntegersOn, Paid
<1>4. IntegersOn(Kept(c), Of(c))
    BY <1>2 DEF IntegersOn, Kept
<1> QED
    BY <1>1, <1>3, <1>4

LEMMA OfTypeNext ==
    (BillingInv => \A c \in Customers :
        IsFiniteSet(Of(c)) /\ IntegersOn(Paid(c), Of(c)) /\ IntegersOn(Kept(c), Of(c)))'
BY OfType, PTL

\* The three sums of the khata are one: what live rows lack, with what they cost and
\* all rows were paid, leaves what the other rows were paid.
LEMMA KhataIsOwes ==
    BillingInv => \A c \in Customers :
        balance[c] = Outstanding(c) + Credit(c) - Advance(c) <=> Owes(c)
<1> SUFFICES ASSUME BillingInv, NEW c \in Customers
             PROVE  balance[c] = Outstanding(c) + Credit(c) - Advance(c) <=> Owes(c)
    OBVIOUS
<1> DEFINE L == Of(c) \cap LiveIds
           due == [i \in L |-> Due(invoices[i])]
           total == [i \in L |-> invoices[i].total]
           paid == [i \in L |-> invoices[i].paid]
           shown == [i \in Of(c) |-> IF Live(invoices[i]) THEN invoices[i].paid ELSE 0]
<1>1. Outstanding(c) = SumOf(due, L)
    BY DEF Outstanding, SumOf, MapThenSumSet, MapThenFoldSet
<1>2. Credit(c) = totalPurchases[c] - SumOf(total, L)
    BY DEF Credit, SumOf, MapThenSumSet, MapThenFoldSet
<1>3. /\ IsFiniteSet(Of(c)) /\ IsFiniteSet(L) /\ L \in SUBSET Of(c)
      /\ IntegersOn(Paid(c), Of(c)) /\ IntegersOn(Kept(c), Of(c))
    BY OfType, FS_Subset
<1>4. \A i \in Of(c) : invoices[i].paid \in Nat /\ invoices[i].total \in Nat
    BY RowType DEF Of, Invoice
<1>5. IntegersOn(total, L) /\ IntegersOn(paid, L) /\ IntegersOn(shown, Of(c))
    BY <1>4 DEF IntegersOn
<1>6. SumOf(due, L) = SumOf(total, L) - SumOf(paid, L)
    <2>1. \A i \in L : due[i] = total[i] - paid[i]
        BY DEF Due
    <2> HIDE DEF L, due, total, paid
    <2> QED
        BY <1>3, <1>5, <2>1, SumAdds
<1>7. SumOf(Kept(c), Of(c)) = SumOf(Paid(c), Of(c)) - SumOf(shown, Of(c))
    <2>1. \A i \in Of(c) : Kept(c)[i] = Paid(c)[i] - shown[i]
        BY <1>4 DEF Kept, Paid
    <2> HIDE DEF shown
    <2> QED
        BY <1>3, <1>5, <2>1, SumAdds
<1>8. SumOf(shown, Of(c)) = SumOf(paid, L)
    <2>1. \A i \in Of(c) \ L : shown[i] = 0
        BY DEF Of, LiveIds
    <2>2. \A i \in L : shown[i] = paid[i]
        BY DEF LiveIds
    <2>3. IntegersOn(shown, L)
        BY <1>3, <1>5 DEF IntegersOn
    <2> HIDE DEF L, shown, paid
    <2>4. SumOf(shown, Of(c)) = SumOf(shown, L)
        BY <1>3, <1>5, <2>1, SumOutside
    <2>5. SumOf(shown, L) = SumOf(paid, L)
        BY <1>3, <2>2, <2>3, SumSame
    <2> QED
        BY <2>4, <2>5
<1>9. /\ SumOf(total, L) \in Int /\ SumOf(paid, L) \in Int /\ SumOf(Paid(c), Of(c)) \in Int
      /\ SumOf(Kept(c), Of(c)) \in Int
    <2> HIDE DEF L, total, paid
    <2> QED
        BY <1>3, <1>5, SumIsInt
<1>10. balance[c] \in Int /\ totalPurchases[c] \in Int /\ received[c] \in Int
    BY DEF BillingInv, TypeOK
<1> HIDE DEF L, due, total, paid, shown
<1> QED
    BY <1>1, <1>2, <1>6, <1>7, <1>8, <1>9, <1>10, AdvanceIs DEF Owes

LEMMA KhataIsOwesNext ==
    (BillingInv => \A c \in Customers :
        balance[c] = Outstanding(c) + Credit(c) - Advance(c) <=> Owes(c))'
BY KhataIsOwes, PTL

\* A customer's two sums, and what row i adds to each.
PaidSum(c) == SumOf(Paid(c), Of(c))
KeptSum(c) == SumOf(Kept(c), Of(c))
PaidOn(i, c) == IF i \in Of(c) THEN invoices[i].paid ELSE 0
KeptOn(i, c) == IF i \in Of(c) /\ ~Live(invoices[i]) THEN invoices[i].paid ELSE 0

\* The counters and the sums of a customer are integers, before a step and after it.
LEMMA SumTypes ==
    BillingInv => \A c \in Customers :
        /\ balance[c] \in Int /\ totalPurchases[c] \in Int /\ received[c] \in Int
        /\ PaidSum(c) \in Int /\ KeptSum(c) \in Int
<1> SUFFICES ASSUME BillingInv, NEW c \in Customers
             PROVE  /\ balance[c] \in Int /\ totalPurchases[c] \in Int /\ received[c] \in Int
                    /\ PaidSum(c) \in Int /\ KeptSum(c) \in Int
    OBVIOUS
<1>1. PaidSum(c) \in Int /\ KeptSum(c) \in Int
    BY OfType, SumIsInt DEF PaidSum, KeptSum
<1> QED
    BY <1>1 DEF BillingInv, TypeOK

LEMMA SumTypesNext ==
    (BillingInv => \A c \in Customers :
        /\ balance[c] \in Int /\ totalPurchases[c] \in Int /\ received[c] \in Int
        /\ PaidSum(c) \in Int /\ KeptSum(c) \in Int)'
BY SumTypes, PTL

\* A request that writes one row moves the sums of a customer by what it does to it.
LEMMA OnlyRowSums ==
    ASSUME BillingInv, BillingInv', NEW i, OnlyRow(i), NEW c \in Customers
    PROVE  /\ PaidSum(c)' = PaidSum(c) - PaidOn(i, c) + PaidOn(i, c)'
           /\ KeptSum(c)' = KeptSum(c) - KeptOn(i, c) + KeptOn(i, c)'
<1>1. /\ IsFiniteSet(Of(c)) /\ IntegersOn(Paid(c), Of(c)) /\ IntegersOn(Kept(c), Of(c))
      /\ IntegersOn(Paid(c)', Of(c)') /\ IntegersOn(Kept(c)', Of(c)')
    BY OfType, OfTypeNext
<1>2. Of(c) \ {i} = Of(c)' \ {i}
    BY DEF Of, OnlyRow
<1>3. \A k \in Of(c) \ {i} : k \in Of(c)' /\ invoices'[k] = invoices[k]
    BY DEF Of, OnlyRow
<1>4. PaidSum(c)' = PaidSum(c) - PaidOn(i, c) + PaidOn(i, c)'
    <2>1. \A k \in Of(c) \ {i} : Paid(c)[k] = Paid(c)'[k]
        BY <1>3 DEF Paid
    <2>2. /\ At(Paid(c), Of(c), i) = PaidOn(i, c)
          /\ At(Paid(c)', Of(c)', i) = PaidOn(i, c)'
        BY DEF At, Paid, PaidOn
    <2> QED
        BY <1>1, <1>2, <2>1, <2>2, SumOneChanged DEF PaidSum
<1>5. KeptSum(c)' = KeptSum(c) - KeptOn(i, c) + KeptOn(i, c)'
    <2>1. \A k \in Of(c) \ {i} : Kept(c)[k] = Kept(c)'[k]
        BY <1>3 DEF Kept
    <2>2. /\ At(Kept(c), Of(c), i) = KeptOn(i, c)
          /\ At(Kept(c)', Of(c)', i) = KeptOn(i, c)'
        BY DEF At, Kept, KeptOn
    <2> QED
        BY <1>1, <1>2, <2>1, <2>2, SumOneChanged DEF KeptSum
<1> QED
    BY <1>4, <1>5

\* By how much a request of customer c0 moves the books: the balance, purchases and
\* receipts, and what the rows show as paid and what is kept of it.
Part(c, c0, n) == IF c = c0 THEN n ELSE 0
Moved(c0, owed, bought, got, paid, kept) ==
    \A c \in Customers :
        /\ balance'[c] = balance[c] + Part(c, c0, owed)
        /\ totalPurchases'[c] = totalPurchases[c] + Part(c, c0, bought)
        /\ received'[c] = received[c] + Part(c, c0, got)
        /\ PaidSum(c)' = PaidSum(c) + Part(c, c0, paid)
        /\ KeptSum(c)' = KeptSum(c) + Part(c, c0, kept)

\* An increment of one counter is a part of a move.
LEMMA AddToParts ==
    ASSUME NEW f \in [Customers -> Int], NEW c0 \in Customers, NEW n \in Int
    PROVE  /\ \A c \in Customers : AddTo(f, c0, n)[c] = f[c] + Part(c, c0, n)
           /\ AddTo(f, c0, 0) = f
BY DEF AddTo, Part

\* What row i shows as paid, and what is kept of it.
ShownOn(i) == IF i \in Ids THEN invoices[i].paid ELSE 0
KeptBy(i) == IF i \in Ids /\ ~Live(invoices[i]) THEN invoices[i].paid ELSE 0

\* A request that writes one row of customer c0 moves the sums by what it does to that row.
LEMMA RowMovesBooks ==
    ASSUME BillingInv, BillingInv', NEW i, OnlyRow(i),
           NEW c0 \in Customers, invoices'[i].customer = c0,
           i \in Ids => invoices[i].customer = c0,
           NEW owed \in Int, NEW bought \in Int, NEW got \in Int,
           balance' = AddTo(balance, c0, owed),
           totalPurchases' = AddTo(totalPurchases, c0, bought),
           received' = AddTo(received, c0, got)
    PROVE  Moved(c0, owed, bought, got, ShownOn(i)' - ShownOn(i), KeptBy(i)' - KeptBy(i))
<1> SUFFICES ASSUME NEW c \in Customers
             PROVE  /\ balance'[c] = balance[c] + Part(c, c0, owed)
                    /\ totalPurchases'[c] = totalPurchases[c] + Part(c, c0, bought)
                    /\ received'[c] = received[c] + Part(c, c0, got)
                    /\ PaidSum(c)' = PaidSum(c) + Part(c, c0, ShownOn(i)' - ShownOn(i))
                    /\ KeptSum(c)' = KeptSum(c) + Part(c, c0, KeptBy(i)' - KeptBy(i))
    BY DEF Moved
<1>1. /\ balance'[c] = balance[c] + Part(c, c0, owed)
      /\ totalPurchases'[c] = totalPurchases[c] + Part(c, c0, bought)
      /\ received'[c] = received[c] + Part(c, c0, got)
    <2>1. /\ balance \in [Customers -> Int] /\ totalPurchases \in [Customers -> Int]
          /\ received \in [Customers -> Int]
        BY DEF BillingInv, TypeOK
    <2>2. balance'[c] = balance[c] + Part(c, c0, owed)
        BY <2>1, AddToParts
    <2>3. totalPurchases'[c] = totalPurchases[c] + Part(c, c0, bought)
        BY <2>1, AddToParts
    <2>4. received'[c] = received[c] + Part(c, c0, got)
        BY <2>1, AddToParts
    <2> QED
        BY <2>2, <2>3, <2>4
<1>2. /\ PaidOn(i, c) = Part(c, c0, ShownOn(i)) /\ PaidOn(i, c)' = Part(c, c0, ShownOn(i)')
      /\ KeptOn(i, c) = Part(c, c0, KeptBy(i)) /\ KeptOn(i, c)' = Part(c, c0, KeptBy(i)')
    BY DEF PaidOn, KeptOn, Part, ShownOn, KeptBy, Of, OnlyRow
<1>3. ShownOn(i) \in Int /\ KeptBy(i) \in Int
    BY RowType DEF ShownOn, KeptBy, Invoice
<1>4. ShownOn(i)' \in Int /\ KeptBy(i)' \in Int
    <2>1. invoices'[i] \in Invoice
        BY ElementOfSeq DEF OnlyRow, BillingInv, TypeOK, Ids
    <2> QED
        BY <2>1 DEF ShownOn, KeptBy, Invoice
<1>5. PaidSum(c) \in Int /\ KeptSum(c) \in Int
    BY SumTypes
<1>6. /\ PaidSum(c)' = PaidSum(c) - PaidOn(i, c) + PaidOn(i, c)'
      /\ KeptSum(c)' = KeptSum(c) - KeptOn(i, c) + KeptOn(i, c)'
    BY OnlyRowSums
<1>7. PaidSum(c)' = PaidSum(c) + Part(c, c0, ShownOn(i)' - ShownOn(i))
    BY <1>2, <1>3, <1>4, <1>5, <1>6 DEF Part
<1>8. KeptSum(c)' = KeptSum(c) + Part(c, c0, KeptBy(i)' - KeptBy(i))
    BY <1>2, <1>3, <1>4, <1>5, <1>6 DEF Part
<1> QED
    BY <1>1, <1>7, <1>8

\* A sale: the row shows as paid what was received, and the rest is owed.
LEMMA SellMoves ==
    ASSUME BillingInv, BillingInv', NEW c0 \in Customers, NEW items, NEW total \in Nat,
           NEW pay \in Nat, Sell(c0, items, total, pay)
    PROVE  LET b == Booked(pay, total) IN Moved(c0, total - b, total, b, b, 0)
<1> DEFINE b == Booked(pay, total)
           row == [customer |-> c0, items |-> items, total |-> total,
                   paid |-> b, status |-> SaleStatus(pay, total)]
<1>1. PICK i : OnlyRow(i) /\ i \notin Ids /\ invoices'[i] = row
    BY Appends DEF Sell
<1>2. b \in Int /\ total - b \in Int
    BY BookedFits
<1>3. row.customer = c0 /\ row.paid = b /\ Live(row)
    BY DEF Live, SaleStatus
<1>4. /\ balance' = AddTo(balance, c0, total - b)
      /\ totalPurchases' = AddTo(totalPurchases, c0, total)
      /\ received' = AddTo(received, c0, b)
    BY DEF Sell
<1> HIDE DEF row, b
<1>5. ShownOn(i)' - ShownOn(i) = b /\ KeptBy(i)' - KeptBy(i) = 0
    BY <1>1, <1>2, <1>3 DEF ShownOn, KeptBy, OnlyRow
<1>6. Moved(c0, total - b, total, b, ShownOn(i)' - ShownOn(i), KeptBy(i)' - KeptBy(i))
    BY <1>1, <1>2, <1>3, <1>4, RowMovesBooks
<1> QED
    BY <1>5, <1>6 DEF b

\* A proforma moves nothing.
LEMMA ProformaMoves ==
    ASSUME BillingInv, BillingInv', NEW c0 \in Customers, NEW items, NEW total,
           CreateProforma(c0, items, total)
    PROVE  Moved(c0, 0, 0, 0, 0, 0)
<1> DEFINE row == [customer |-> c0, items |-> items, total |-> total,
                   paid |-> 0, status |-> "proforma"]
<1>1. PICK i : OnlyRow(i) /\ i \notin Ids /\ invoices'[i] = row
    BY Appends DEF CreateProforma
<1>2. row.customer = c0 /\ row.paid = 0
    OBVIOUS
<1>3. PICK none \in Int : none = 0
    OBVIOUS
<1>4. /\ balance' = AddTo(balance, c0, none)
      /\ totalPurchases' = AddTo(totalPurchases, c0, none)
      /\ received' = AddTo(received, c0, none)
    BY <1>3, AddToParts DEF CreateProforma, BillingInv, TypeOK
<1> HIDE DEF row
<1>5. ShownOn(i)' - ShownOn(i) = 0 /\ KeptBy(i)' - KeptBy(i) = 0
    BY <1>1, <1>2 DEF ShownOn, KeptBy, OnlyRow
<1>6. Moved(c0, none, none, none, ShownOn(i)' - ShownOn(i), KeptBy(i)' - KeptBy(i))
    BY <1>1, <1>2, <1>4, RowMovesBooks
<1> QED
    BY <1>3, <1>5, <1>6

\* The fields of a row that was read.
LEMMA RowFields ==
    ASSUME BillingInv, NEW i \in Ids
    PROVE  /\ invoices[i].customer \in Customers
           /\ invoices[i].items \in [Products -> Nat]
           /\ invoices[i].total \in Nat /\ invoices[i].paid \in Nat
BY RowType DEF Invoice

\* A converted proforma moves the books as a sale does.
LEMMA ConvertMoves ==
    ASSUME BillingInv, BillingInv', NEW i \in Ids, NEW pay \in Amounts \cup {0},
           ConvertProforma(i, pay)
    PROVE  LET b == Booked(pay, invoices[i].total)
           IN  Moved(invoices[i].customer, invoices[i].total - b, invoices[i].total, b, b, 0)
<1>1. PICK c0 \in Customers, total \in Nat :
          c0 = invoices[i].customer /\ total = invoices[i].total
    BY RowFields
<1>2. PICK b \in Int : b = Booked(pay, total) /\ total - b \in Int
    <2>1. pay \in Nat
        BY ConstantsAssumption
    <2> QED
        BY <2>1, BookedFits
<1>3. /\ balance' = AddTo(balance, c0, total - b)
      /\ totalPurchases' = AddTo(totalPurchases, c0, total)
      /\ received' = AddTo(received, c0, b)
    BY <1>1, <1>2 DEF ConvertProforma, ConvertEffect
<1>4. OnlyRow(i) /\ Ids' = Ids /\ invoices'[i].customer = c0
    BY <1>1, ConvertWrites
<1>5. ShownOn(i)' - ShownOn(i) = b /\ KeptBy(i)' - KeptBy(i) = 0
    BY <1>1, <1>2, ConvertWrites DEF ShownOn, KeptBy
<1>6. Moved(c0, total - b, total, b, ShownOn(i)' - ShownOn(i), KeptBy(i)' - KeptBy(i))
    BY <1>1, <1>2, <1>3, <1>4, RowMovesBooks
<1> QED
    BY <1>1, <1>2, <1>5, <1>6

\* An edit moves purchases and balance alike.
LEMMA UpdateMoves ==
    ASSUME BillingInv, BillingInv', NEW i \in Ids, NEW items, NEW total \in Nat,
           UpdateInvoice(i, items, total)
    PROVE  LET more == total - invoices[i].total
           IN  Moved(invoices[i].customer, more, more, 0, 0, 0)
<1>1. PICK c0 \in Customers : c0 = invoices[i].customer
    BY RowFields
<1>2. PICK more \in Int, none \in Int : more = total - invoices[i].total /\ none = 0
    BY RowFields
<1>3. /\ balance' = AddTo(balance, c0, more)
      /\ totalPurchases' = AddTo(totalPurchases, c0, more)
      /\ received' = AddTo(received, c0, none)
    BY <1>1, <1>2, AddToParts DEF UpdateInvoice, UpdateEffect, BillingInv, TypeOK
<1>4. OnlyRow(i) /\ Ids' = Ids /\ invoices'[i].customer = c0
    BY <1>1, UpdateWrites
<1>5. ShownOn(i)' - ShownOn(i) = 0 /\ KeptBy(i)' - KeptBy(i) = 0
    BY RowFields, UpdateWrites DEF ShownOn, KeptBy
<1>6. Moved(c0, more, more, none, ShownOn(i)' - ShownOn(i), KeptBy(i)' - KeptBy(i))
    BY <1>1, <1>3, <1>4, RowMovesBooks
<1> QED
    BY <1>1, <1>2, <1>5, <1>6

\* A cancelled sale takes what is still owed off the balance, and keeps what was paid; a
\* cancelled proforma has nothing of either.
LEMMA CancelMoves ==
    ASSUME BillingInv, BillingInv', NEW i \in Ids, CancelInvoice(i)
    PROVE  LET v == invoices[i]
           IN  IF v.status = "proforma" THEN Moved(v.customer, 0, 0, 0, 0, 0)
               ELSE Moved(v.customer, v.paid - v.total, - v.total, 0, 0, v.paid)
<1>1. PICK c0 \in Customers, total \in Nat, paid \in Nat :
          /\ c0 = invoices[i].customer
          /\ total = invoices[i].total
          /\ paid = invoices[i].paid
    BY RowFields
<1>2. OnlyRow(i) /\ Ids' = Ids /\ invoices'[i].customer = c0
    BY <1>1, CancelWrites
<1>3. CASE invoices[i].status = "proforma"
    <2> PICK none \in Int : none = 0
        OBVIOUS
    <2>1. /\ balance' = AddTo(balance, c0, none)
          /\ totalPurchases' = AddTo(totalPurchases, c0, none)
          /\ received' = AddTo(received, c0, none)
        BY <1>3, AddToParts DEF CancelInvoice, CancelEffect, BillingInv, TypeOK
    <2>2. ShownOn(i)' - ShownOn(i) = 0 /\ KeptBy(i)' - KeptBy(i) = 0
        BY <1>1, <1>3, CancelWrites DEF ShownOn, KeptBy
    <2>3. Moved(c0, none, none, none, ShownOn(i)' - ShownOn(i), KeptBy(i)' - KeptBy(i))
        BY <1>1, <1>2, <2>1, RowMovesBooks
    <2> QED
        BY <1>1, <1>3, <2>2, <2>3
<1>4. CASE invoices[i].status # "proforma"
    <2>1. PICK owed \in Int, bought \in Int : owed = paid - total /\ bought = - total
        OBVIOUS
    <2>2. /\ balance' = AddTo(balance, c0, owed)
          /\ totalPurchases' = AddTo(totalPurchases, c0, bought)
          /\ received' = AddTo(received, c0, 0)
        BY <1>1, <1>4, <2>1, AddToParts DEF CancelInvoice, CancelEffect, BillingInv, TypeOK
    <2>3. ShownOn(i)' - ShownOn(i) = 0 /\ KeptBy(i)' - KeptBy(i) = paid
        BY <1>1, <1>4, CancelWrites DEF ShownOn, KeptBy
    <2>4. Moved(c0, owed, bought, 0, ShownOn(i)' - ShownOn(i), KeptBy(i)' - KeptBy(i))
        BY <1>1, <1>2, <2>2, RowMovesBooks
    <2> QED
        BY <1>1, <1>4, <2>1, <2>3, <2>4
<1> QED
    BY <1>3, <1>4

\* A reversal takes the amount off the receipts and off the row; of a cancelled invoice
\* all that was kept is kept no longer.
LEMMA ReverseMoves ==
    ASSUME BillingInv, BillingInv', NEW i \in Ids, NEW amount \in Amounts,
           ReversePayment(i, amount)
    PROVE  LET v == invoices[i]
           IN  Moved(v.customer, amount, 0, - amount, - amount,
                     IF v.status = "cancelled" THEN - v.paid ELSE 0)
<1>1. PICK c0 \in Customers, paid \in Nat :
          c0 = invoices[i].customer /\ paid = invoices[i].paid
    BY RowFields
<1>2. PICK got \in Int : got = - amount /\ amount \in Int
    BY ConstantsAssumption
<1>3. /\ balance' = AddTo(balance, c0, amount)
      /\ totalPurchases' = AddTo(totalPurchases, c0, 0)
      /\ received' = AddTo(received, c0, got)
    BY <1>1, <1>2, AddToParts DEF ReversePayment, ReverseEffect, BillingInv, TypeOK
<1>4. OnlyRow(i) /\ Ids' = Ids /\ invoices'[i].customer = c0
    BY <1>1, ReverseWrites
<1>5. ShownOn(i)' - ShownOn(i) = got
    BY <1>1, <1>2, ReverseWrites DEF ShownOn
<1>6. KeptBy(i)' - KeptBy(i) = IF invoices[i].status = "cancelled" THEN - paid ELSE 0
    BY <1>1, ReverseWrites DEF KeptBy, Live
<1>7. Moved(c0, amount, 0, got, ShownOn(i)' - ShownOn(i), KeptBy(i)' - KeptBy(i))
    BY <1>1, <1>2, <1>3, <1>4, RowMovesBooks
<1> QED
    BY <1>1, <1>2, <1>5, <1>6, <1>7

\* What a payment has settled when it has passed all rows is what it does not have left.
LEMMA AppliedSum ==
    ASSUME BillingInv, NEW c0 \in Customers, NEW amount \in Nat, NEW run, Applies(c0, amount, run)
    PROVE  /\ run[Len(invoices)] \in Nat
           /\ SumOf([k \in Ids |-> run[k - 1] - run[k]], Of(c0)) = amount - run[Len(invoices)]
<1> DEFINE n == Len(invoices)
           a == [k \in Ids |-> run[k - 1] - run[k]]
<1>1. n \in Nat /\ Ids = 1 .. n /\ IsFiniteSet(Ids) /\ Of(c0) \in SUBSET Ids
    BY LenProperties, RowsAreFinite DEF BillingInv, TypeOK, Ids, Of
<1>2. run \in [0 .. n -> Int] /\ run[n] \in Nat /\ run[0] = amount
    BY <1>1 DEF Applies
<1>3. \A k \in Ids : k \in 0 .. n /\ k - 1 \in 0 .. n
    BY <1>1
<1>4. IntegersOn(a, Ids) /\ \A k \in 1 .. n : a[k] = run[k - 1] - run[k]
    BY <1>1, <1>2, <1>3 DEF IntegersOn
<1>5. \A k \in Ids \ Of(c0) : a[k] = 0
    <2> SUFFICES ASSUME NEW k \in Ids, k \notin Of(c0) PROVE run[k - 1] - run[k] = 0
        OBVIOUS
    <2>1. Applied(invoices[k], c0, run[k - 1]) = 0
        BY DEF Applied, Unpaid, Of
    <2>2. run[k] = run[k - 1] - 0 /\ run[k - 1] \in Int
        BY <1>2, <1>3, <2>1 DEF Applies
    <2> QED
        BY <2>2
<1> HIDE DEF a, n
<1>6. SumOf(a, Ids) = SumOf(a, Of(c0))
    BY <1>1, <1>4, <1>5, SumOutside
<1>7. SumOf(a, 1 .. n) = run[0] - run[n]
    BY <1>1, <1>2, <1>4, SumTelescopes
<1> QED
    BY <1>1, <1>2, <1>6, <1>7 DEF a, n

\* A payment takes its amount off the balance, and the rows of the customer show it as
\* paid but for what it has left; what cancelled invoices keep stays.
LEMMA PayMoves ==
    ASSUME BillingInv, BillingInv', NEW c0 \in Customers, NEW amount \in Nat, Pay(c0, amount),
           NEW run, Applies(c0, amount, run)
    PROVE  Moved(c0, - amount, 0, amount, amount - run[Len(invoices)], 0)
<1> DEFINE a == [k \in Ids |-> run[k - 1] - run[k]]
           left == run[Len(invoices)]
<1> SUFFICES ASSUME NEW c \in Customers
             PROVE  /\ balance'[c] = balance[c] + Part(c, c0, - amount)
                    /\ totalPurchases'[c] = totalPurchases[c] + Part(c, c0, 0)
                    /\ received'[c] = received[c] + Part(c, c0, amount)
                    /\ PaidSum(c)' = PaidSum(c) + Part(c, c0, amount - left)
                    /\ KeptSum(c)' = KeptSum(c) + Part(c, c0, 0)
    BY DEF Moved
<1>1. balance'[c] = balance[c] + Part(c, c0, - amount)
    <2>1. PICK owed \in Int : owed = - amount
        OBVIOUS
    <2> QED
        BY <2>1, AddToParts DEF Pay, BillingInv, TypeOK
<1>2. received'[c] = received[c] + Part(c, c0, amount)
    <2>1. PICK got \in Int : got = amount
        OBVIOUS
    <2>2. received \in [Customers -> Int] /\ received' = AddTo(received, c0, got)
        BY <2>1 DEF Pay, BillingInv, TypeOK
    <2> QED
        BY <2>1, <2>2, AddToParts
<1>3. totalPurchases'[c] = totalPurchases[c] + Part(c, c0, 0)
    BY SumTypes DEF Pay, Part
<1>4. Ids' = Ids
    BY PayWrites
<1>5. \A k \in Ids : /\ invoices'[k].customer = invoices[k].customer
                     /\ invoices'[k].paid = invoices[k].paid + Applied(invoices[k], c0, run[k - 1])
                     /\ Live(invoices'[k]) <=> Live(invoices[k])
                     /\ ~Unpaid(invoices[k], c0) =>
                          /\ Applied(invoices[k], c0, run[k - 1]) = 0
                          /\ invoices'[k] = invoices[k]
    BY PaySettles
<1>6. Of(c)' = Of(c)
    BY <1>4, <1>5 DEF Of
<1>7. /\ IsFiniteSet(Of(c)) /\ IntegersOn(Paid(c), Of(c)) /\ IntegersOn(Kept(c), Of(c))
      /\ IntegersOn(Paid(c)', Of(c))
    BY <1>6, OfType, OfTypeNext
<1>8. PaidSum(c) \in Int /\ KeptSum(c) \in Int
    BY SumTypes
<1>9. KeptSum(c)' = KeptSum(c) + Part(c, c0, 0)
    <2>1. \A k \in Of(c) : Kept(c)[k] = Kept(c)'[k]
        BY <1>5, <1>6 DEF Kept, Of, Unpaid, Live
    <2>2. SumOf(Kept(c), Of(c)) = SumOf(Kept(c)', Of(c))
        BY <1>7, <2>1, SumSame
    <2> QED
        BY <1>6, <1>8, <2>2 DEF KeptSum, Part
<1>10. PaidSum(c)' = PaidSum(c) + Part(c, c0, amount - left)
    <2>1. CASE c # c0
        <3>1. \A k \in Of(c) : Paid(c)[k] = Paid(c)'[k]
            BY <1>5, <1>6, <2>1 DEF Paid, Of, Unpaid
        <3>2. SumOf(Paid(c), Of(c)) = SumOf(Paid(c)', Of(c))
            BY <1>7, <3>1, SumSame
        <3> QED
            BY <1>6, <1>8, <2>1, <3>2 DEF PaidSum, Part
    <2>2. CASE c = c0
        <3>1. ASSUME NEW k \in Of(c) PROVE a[k] = Paid(c)'[k] - Paid(c)[k]
            <4>1. k \in Ids /\ k - 1 \in 0 .. Len(invoices) /\ k \in 0 .. Len(invoices)
                BY LenProperties DEF Of, Ids, BillingInv, TypeOK
            <4>2. run[k - 1] \in Int /\ run[k] \in Int
                BY <4>1 DEF Applies
            <4>3. /\ run[k] = run[k - 1] - Applied(invoices[k], c0, run[k - 1])
                  /\ Applied(invoices[k], c0, run[k - 1]) \in Nat
                BY <4>1 DEF Applies
            <4>4. invoices'[k].paid = invoices[k].paid + Applied(invoices[k], c0, run[k - 1])
                BY <1>5, <4>1
            <4>5. invoices[k].paid \in Nat
                BY <4>1, RowFields
            <4>6. Paid(c)[k] = invoices[k].paid /\ Paid(c)'[k] = invoices'[k].paid
                BY <1>6 DEF Paid
            <4> QED
                BY <4>1, <4>2, <4>3, <4>4, <4>5, <4>6
        <3> HIDE DEF a
        <3>2. SumOf(a, Of(c)) = SumOf(Paid(c)', Of(c)) - SumOf(Paid(c), Of(c))
            BY <1>7, <3>1, SumAdds
        <3>3. SumOf(Paid(c)', Of(c)) \in Int
            BY <1>7, SumIsInt
        <3>4. SumOf(a, Of(c)) = amount - left
            BY <2>2, AppliedSum DEF a
        <3> QED
            BY <1>6, <1>8, <2>2, <3>2, <3>3, <3>4 DEF PaidSum, Part
    <2> QED
        BY <2>1, <2>2
<1> QED
    BY <1>1, <1>2, <1>3, <1>9, <1>10

\* Credit moves purchases and balance alike.
LEMMA CreditMoves ==
    ASSUME BillingInv, BillingInv', NEW c0 \in Customers, NEW amount \in Nat, AddCredit(c0, amount)
    PROVE  Moved(c0, amount, amount, 0, 0, 0)
<1>1. \A c \in Customers : Of(c)' = Of(c) /\ PaidSum(c)' = PaidSum(c) /\ KeptSum(c)' = KeptSum(c)
    BY DEF AddCredit, PaidSum, KeptSum, Paid, Kept, Of, Ids
<1>2. \A c \in Customers : /\ PaidSum(c)' = PaidSum(c) + Part(c, c0, 0)
                           /\ KeptSum(c)' = KeptSum(c) + Part(c, c0, 0)
                           /\ received'[c] = received[c] + Part(c, c0, 0)
    BY <1>1, SumTypes DEF AddCredit, Part
<1>3. \A c \in Customers : /\ balance'[c] = balance[c] + Part(c, c0, amount)
                           /\ totalPurchases'[c] = totalPurchases[c] + Part(c, c0, amount)
    <2>1. PICK more \in Int : more = amount
        OBVIOUS
    <2>2. /\ balance \in [Customers -> Int] /\ balance' = AddTo(balance, c0, more)
          /\ totalPurchases \in [Customers -> Int]
          /\ totalPurchases' = AddTo(totalPurchases, c0, more)
        BY <2>1 DEF AddCredit, BillingInv, TypeOK
    <2>3. \A c \in Customers : balance'[c] = balance[c] + Part(c, c0, more)
        BY <2>2, AddToParts
    <2>4. \A c \in Customers : totalPurchases'[c] = totalPurchases[c] + Part(c, c0, more)
        BY <2>2, AddToParts
    <2> QED
        BY <2>1, <2>3, <2>4
<1> QED
    BY <1>2, <1>3 DEF Moved

\* What every request has in common: no row shows more as paid than was received, and
\* the balance moves with purchases, receipts and what is kept, unless a cancelled invoice
\* of the customer is reopened.
Reopens(c0) == Of(c0)' \cap reopened' # {}
BalancedMove ==
    \E c0 \in Customers, owed, bought, got, paid, kept \in Int :
        /\ Moved(c0, owed, bought, got, paid, kept)
        /\ got >= paid
        /\ owed = bought - got + kept \/ Reopens(c0)

\* Sales, changes of an invoice, and payments and credit are of this kind.
LEMMA SaleMoves ==
    ASSUME BillingInv, BillingInv', Sale
    PROVE  BalancedMove
<1>1. PICK c \in Customers, items \in Baskets, total \in Totals :
          \/ \E pay \in Amounts \cup {0} : Sell(c, items, total, pay)
          \/ CreateProforma(c, items, total)
    BY DEF Sale, CreateInvoice, ConfirmInvoice
<1>2. total \in Nat /\ \A pay \in Amounts \cup {0} : pay \in Nat
    BY ConstantsAssumption
<1>3. ASSUME NEW pay \in Nat, Sell(c, items, total, pay) PROVE BalancedMove
    <2>1. PICK b \in Int, owed \in Int, none \in Int :
              b = Booked(pay, total) /\ owed = total - b /\ none = 0
        BY <1>2, BookedFits
    <2>2. Moved(c, owed, total, b, b, none)
        BY <1>2, <1>3, <2>1, SellMoves
    <2>3. total \in Int /\ b >= b /\ owed = total - b + none
        BY <1>2, <2>1
    <2> QED
        BY <2>1, <2>2, <2>3 DEF BalancedMove
<1>4. ASSUME CreateProforma(c, items, total) PROVE BalancedMove
    <2>1. PICK none \in Int : none = 0
        OBVIOUS
    <2>2. Moved(c, none, none, none, none, none)
        BY <1>4, <2>1, ProformaMoves
    <2>3. none >= none /\ none = none - none + none
        BY <2>1
    <2> QED
        BY <2>2, <2>3 DEF BalancedMove
<1> QED
    BY <1>1, <1>2, <1>3, <1>4

LEMMA ChangeMoves ==
    ASSUME BillingInv, BillingInv', Change
    PROVE  BalancedMove
<1>1. PICK i \in Ids :
        \/ \E pay \in Amounts \cup {0} : ConvertProforma(i, pay)
        \/ \E items \in Baskets, total \in Totals : UpdateInvoice(i, items, total)
        \/ CancelInvoice(i)
        \/ \E amount \in Amounts : ReversePayment(i, amount)
    BY DEF Change
<1>2. PICK c \in Customers, total \in Nat, paid \in Nat, none \in Int :
          /\ c = invoices[i].customer /\ total = invoices[i].total /\ paid = invoices[i].paid
          /\ none = 0
    BY RowFields
<1>3. ASSUME NEW pay \in Amounts \cup {0}, ConvertProforma(i, pay) PROVE BalancedMove
    <2>1. pay \in Nat
        BY ConstantsAssumption
    <2>2. PICK b \in Int, owed \in Int : b = Booked(pay, total) /\ owed = total - b
        BY <2>1, BookedFits
    <2>3. Moved(c, owed, total, b, b, none)
        BY <1>2, <1>3, <2>2, ConvertMoves
    <2>4. total \in Int /\ b >= b /\ owed = total - b + none
        BY <1>2, <2>2
    <2> QED
        BY <2>3, <2>4 DEF BalancedMove
<1>4. ASSUME NEW items, NEW new \in Totals, UpdateInvoice(i, items, new) PROVE BalancedMove
    <2>1. new \in Nat
        BY ConstantsAssumption
    <2>2. PICK more \in Int : more = new - total
        BY <2>1
    <2>3. Moved(c, more, more, none, none, none)
        BY <1>2, <1>4, <2>1, <2>2, UpdateMoves
    <2>4. none >= none /\ more = more - none + none
        BY <1>2
    <2> QED
        BY <2>3, <2>4 DEF BalancedMove
<1>5. ASSUME CancelInvoice(i), invoices[i].status = "proforma" PROVE BalancedMove
    <2>1. Moved(c, none, none, none, none, none)
        BY <1>2, <1>5, CancelMoves
    <2>2. none >= none /\ none = none - none + none
        BY <1>2
    <2> QED
        BY <2>1, <2>2 DEF BalancedMove
<1>6. ASSUME CancelInvoice(i), invoices[i].status # "proforma" PROVE BalancedMove
    <2>1. PICK owed \in Int, bought \in Int : owed = paid - total /\ bought = - total
        OBVIOUS
    <2>2. Moved(c, owed, bought, none, none, paid)
        BY <1>2, <1>6, <2>1, CancelMoves
    <2>3. paid \in Int /\ none >= none /\ owed = bought - none + paid
        BY <1>2, <2>1
    <2> QED
        BY <2>2, <2>3 DEF BalancedMove
<1>7. ASSUME NEW amount \in Amounts, ReversePayment(i, amount) PROVE BalancedMove
    <2>1. amount \in Int
        BY ConstantsAssumption
    <2>2. PICK got \in Int, kept \in Int :
              /\ got = - amount
              /\ kept = IF invoices[i].status = "cancelled" THEN - paid ELSE 0
        BY <2>1
    <2>3. Moved(c, amount, none, got, got, kept)
        BY <1>2, <1>7, <2>2, ReverseMoves
    <2>4. got >= got
        BY <2>2
    <2>5. invoices[i].status # "cancelled" => amount = none - got + kept
        BY <1>2, <2>1, <2>2
    <2>6. invoices[i].status = "cancelled" => Reopens(c)
        <3>1. i \in Of(c)'
            BY <1>2, <1>7, ReverseWrites DEF Of
        <3>2. invoices[i].status = "cancelled" => i \in reopened'
            BY <1>7 DEF ReversePayment, ReverseEffect
        <3> QED
            BY <3>1, <3>2 DEF Reopens
    <2> QED
        BY <2>1, <2>3, <2>4, <2>5, <2>6 DEF BalancedMove
<1> QED
    BY <1>1, <1>3, <1>4, <1>5, <1>6, <1>7

LEMMA KhataMoves ==
    ASSUME BillingInv, BillingInv', Khata
    PROVE  BalancedMove
<1>1. PICK c \in Customers, amount \in Nat : Pay(c, amount) \/ AddCredit(c, amount)
    BY ConstantsAssumption DEF Khata, RecordPayment, RecordMixedPayment
<1>2. PICK none \in Int : none = 0 /\ amount \in Int
    OBVIOUS
<1>3. ASSUME Pay(c, amount) PROVE BalancedMove
    <2>1. PICK run : Applies(c, amount, run)
        BY <1>3, PayWrites
    <2>2. PICK left \in Nat : left = run[Len(invoices)]
        BY <2>1, AppliedSum
    <2>3. PICK owed \in Int, paid \in Int : owed = - amount /\ paid = amount - left
        OBVIOUS
    <2>4. Moved(c, owed, none, amount, paid, none)
        BY <1>2, <1>3, <2>1, <2>2, <2>3, PayMoves
    <2>5. amount >= paid /\ owed = none - amount + none
        BY <1>2, <2>3
    <2> QED
        BY <1>2, <2>4, <2>5 DEF BalancedMove
<1>4. ASSUME AddCredit(c, amount) PROVE BalancedMove
    <2>1. Moved(c, amount, amount, none, none, none)
        BY <1>2, <1>4, CreditMoves
    <2>2. none >= none /\ amount = amount - none + none
        BY <1>2
    <2> QED
        BY <1>2, <2>1, <2>2 DEF BalancedMove
<1> QED
    BY <1>1, <1>3, <1>4

\* Rows stay their customer's, and what was reopened stays marked.
LEMMA RowsStay ==
    ASSUME BillingInv, Next
    PROVE  reopened \subseteq reopened' /\ \A c \in Customers : Of(c) \subseteq Of(c)'
<1>1. /\ reopened \subseteq reopened'
      /\ \A k \in Ids : k \in Ids' /\ invoices'[k].customer = invoices[k].customer
    <2>1. CASE Sale
        <3>1. PICK c \in Customers, items \in Baskets, total \in Totals :
                  \/ \E pay \in Amounts \cup {0} : Sell(c, items, total, pay)
                  \/ CreateProforma(c, items, total)
            BY <2>1 DEF Sale, CreateInvoice, ConfirmInvoice
        <3>2. reopened' = reopened /\ \E row : invoices' = Append(invoices, row)
            BY <3>1 DEF Sell, CreateProforma
        <3> QED
            BY <3>2, Appends DEF OnlyRow
    <2>2. CASE Change
        <3>1. PICK i \in Ids :
                  \/ \E pay \in Amounts \cup {0} : ConvertProforma(i, pay)
                  \/ \E items \in Baskets, total \in Totals : UpdateInvoice(i, items, total)
                  \/ CancelInvoice(i)
                  \/ \E amount \in Amounts : ReversePayment(i, amount)
            BY <2>2 DEF Change
        <3>2. OnlyRow(i) /\ invoices'[i].customer = invoices[i].customer
            BY <3>1, ConvertWrites, UpdateWrites, CancelWrites, ReverseWrites
        <3>3. reopened \subseteq reopened'
            BY <3>1 DEF ConvertProforma, ConvertEffect, UpdateInvoice, UpdateEffect,
               CancelInvoice, CancelEffect, ReversePayment, ReverseEffect
        <3> QED
            BY <3>2, <3>3 DEF OnlyRow
    <2>3. CASE Khata
        <3>1. PICK c \in Customers, amount \in Nat : Pay(c, amount) \/ AddCredit(c, amount)
            BY <2>3, ConstantsAssumption DEF Khata, RecordPayment, RecordMixedPayment
        <3>2. reopened' = reopened
            BY <3>1 DEF Pay, AddCredit
        <3> QED
            BY <3>1, <3>2, PayWrites, PaySettles DEF AddCredit, Ids
    <2> QED
        BY <2>1, <2>2, <2>3 DEF Next
<1> QED
    BY <1>1 DEF Of

\* A balanced move keeps the khata of every customer without a reopened invoice, and no
\* customer's rows show more than was received.
LEMMA BalancedKeeps ==
    ASSUME BillingInv, BillingInv', BalancedMove, NEW c \in Customers
    PROVE  /\ Owes(c) => Owes(c)' \/ Reopens(c)
           /\ Advance(c) >= 0 => Advance(c)' >= 0
<1>1. PICK c0 \in Customers, owed \in Int, bought \in Int, got \in Int, paid \in Int, kept \in Int :
          /\ Moved(c0, owed, bought, got, paid, kept)
          /\ got >= paid
          /\ owed = bought - got + kept \/ Reopens(c0)
    BY DEF BalancedMove
<1>2. /\ balance'[c] = balance[c] + Part(c, c0, owed)
      /\ totalPurchases'[c] = totalPurchases[c] + Part(c, c0, bought)
      /\ received'[c] = received[c] + Part(c, c0, got)
      /\ PaidSum(c)' = PaidSum(c) + Part(c, c0, paid)
      /\ KeptSum(c)' = KeptSum(c) + Part(c, c0, kept)
    BY <1>1 DEF Moved
<1>3. /\ balance[c] \in Int /\ totalPurchases[c] \in Int /\ received[c] \in Int
      /\ PaidSum(c) \in Int /\ KeptSum(c) \in Int
    BY SumTypes
<1>4. Owes(c) => Owes(c)' \/ Reopens(c)
    <2>1. Owes(c) <=> balance[c] = totalPurchases[c] - received[c] + KeptSum(c)
        BY DEF Owes, KeptSum
    <2>2. Owes(c)' <=> balance'[c] = totalPurchases'[c] - received'[c] + KeptSum(c)'
        BY DEF Owes, KeptSum
    <2> QED
        BY <1>1, <1>2, <1>3, <2>1, <2>2 DEF Part
<1>5. Advance(c) >= 0 => Advance(c)' >= 0
    <2>1. Advance(c) = received[c] - PaidSum(c)
        BY AdvanceIs DEF PaidSum
    <2>2. Advance(c)' = received'[c] - PaidSum(c)'
        BY AdvanceIsNext DEF PaidSum
    <2> QED
        BY <1>1, <1>2, <1>3, <2>1, <2>2 DEF Part
<1> QED
    BY <1>4, <1>5

\* Every request keeps the laws of the money.
MoneyInv == KhataBalance /\ PaidWasReceived

LEMMA MoneyNext ==
    ASSUME BillingInv, MoneyInv, [Next]_vars
    PROVE  MoneyInv'
<1>1. BillingInv'
    BY BillingNext
<1>2. CASE UNCHANGED vars
    <2>1. \A c \in Customers : Owes(c)' = Owes(c) /\ Of(c)' = Of(c)
        BY <1>2 DEF vars, Owes, Kept, Of, Ids
    <2>2. \A c \in Customers : Advance(c)' = Advance(c)
        <3>1. \A c \in Customers : SumOf(Paid(c)', Of(c)') = SumOf(Paid(c), Of(c))
            BY <1>2 DEF vars, Paid, Of, Ids
        <3> QED
            BY <1>2, <3>1, AdvanceIs, AdvanceIsNext DEF vars
    <2> QED
        BY <1>1, <1>2, <2>1, <2>2, KhataIsOwes, KhataIsOwesNext
           DEF vars, MoneyInv, KhataBalance, PaidWasReceived
<1>3. CASE Next
    <2>1. BalancedMove
        BY <1>1, <1>3, SaleMoves, ChangeMoves, KhataMoves DEF Next
    <2>2. ASSUME NEW c \in Customers, Of(c)' \cap reopened' = {}
          PROVE  balance'[c] = Outstanding(c)' + Credit(c)' - Advance(c)'
        <3>1. Of(c) \cap reopened = {}
            BY <1>3, <2>2, RowsStay
        <3>2. Owes(c)
            BY <3>1, KhataIsOwes DEF MoneyInv, KhataBalance
        <3>3. Owes(c)'
            BY <1>1, <2>1, <2>2, <3>2, BalancedKeeps DEF Reopens
        <3> QED
            BY <1>1, <3>3, KhataIsOwesNext
    <2>3. \A c \in Customers : Advance(c)' >= 0
        BY <1>1, <2>1, BalancedKeeps DEF MoneyInv, PaidWasReceived
    <2> QED
        BY <2>2, <2>3 DEF MoneyInv, KhataBalance, PaidWasReceived
<1> QED
    BY <1>2, <1>3

\* Nobody owes or has paid anything at first.
LEMMA InitMoney == Init => MoneyInv
<1> SUFFICES ASSUME Init, NEW c \in Customers
             PROVE  balance[c] = Outstanding(c) + Credit(c) - Advance(c) /\ Advance(c) >= 0
    BY DEF MoneyInv, KhataBalance, PaidWasReceived
<1>1. Of(c) = {}
    BY DEF Init, Of, Ids
<1>2. SumOf(Kept(c), Of(c)) = 0 /\ SumOf(Paid(c), Of(c)) = 0
    BY <1>1, SumOfEmpty
<1>3. balance[c] = 0 /\ totalPurchases[c] = 0 /\ received[c] = 0
    BY DEF Init
<1>4. Owes(c)
    BY <1>2, <1>3 DEF Owes
<1>5. Advance(c) = 0
    BY <1>2, <1>3, AdvanceIs
<1> QED
    BY <1>4, <1>5, InitBillingInv, KhataIsOwes

\* So the laws of the money hold in every reachable state.
LEMMA MoneyInvariant == Spec => []MoneyInv
BY InitMoney, MoneyNext, InitBillingInv, BillingInvariant, PTL DEF Spec

\* For every shop: what a customer owes is what the live invoices lack, plus credit, less
\* advances, after any order of requests that reopens none of the customer's invoices.
THEOREM KhataBalanceAlways == Spec => []KhataBalance
<1>1. MoneyInv => KhataBalance
    BY DEF MoneyInv
<1> QED
    BY <1>1, MoneyInvariant, PTL

\* For every shop: the invoices of a customer never show more as paid than was received,
\* also where invoices are reopened.
THEOREM PaidWasReceivedAlways == Spec => []PaidWasReceived
<1>1. MoneyInv => PaidWasReceived
    BY DEF MoneyInv
<1> QED
    BY <1>1, MoneyInvariant, PTL

-----------------------------------------------------------------------------
(* The order of settlement. *)

\* What remains of a payment only falls from row to row.
LEMMA RunFalls ==
    ASSUME BillingInv, NEW c, NEW amount \in Nat, NEW run, Applies(c, amount, run)
    PROVE  \A j, k \in 0 .. Len(invoices) : j <= k => run[k] <= run[j]
<1> SUFFICES ASSUME NEW j \in 0 .. Len(invoices)
             PROVE  \A k \in 0 .. Len(invoices) : j <= k => run[k] <= run[j]
    OBVIOUS
<1> DEFINE n == Len(invoices)
           Below == {k \in 0 .. n : j <= k => run[k] <= run[j]}
<1>1. n \in Nat
    BY LenProperties DEF BillingInv, TypeOK
<1>2. \A k \in 0 .. n : run[k] \in Int
    BY DEF Applies
<1>3. 0 \in Below
    BY <1>1, <1>2
<1>4. ASSUME NEW k \in 1 .. n, k - 1 \in Below PROVE k \in Below
    <2>1. k \in 0 .. n /\ k - 1 \in 0 .. n /\ k \in Ids
        BY <1>1 DEF Ids
    <2>2. run[k] <= run[k - 1]
        <3>1. /\ run[k] = run[k - 1] - Applied(invoices[k], c, run[k - 1])
              /\ Applied(invoices[k], c, run[k - 1]) \in Nat
            BY <2>1 DEF Applies
        <3> QED
            BY <1>2, <2>1, <3>1
    <2>3. CASE j = k
        BY <1>2, <2>1, <2>3
    <2>4. CASE j < k
        <3>1. j <= k - 1
            BY <2>1, <2>4
        <3>2. run[k - 1] <= run[j]
            BY <1>4, <3>1
        <3> QED
            BY <1>2, <2>1, <2>2, <3>2
    <2> QED
        BY <2>1, <2>3, <2>4
<1>5. 0 .. n \subseteq Below
    <2>1. \A k \in 1 .. n : k - 1 \in Below => k \in Below
        BY <1>4
    <2> HIDE DEF Below, n
    <2> QED
        BY <1>1, <1>3, <2>1, UpTo
<1> QED
    BY <1>5

\* An unpaid row that the payment passes with something left is paid in full.
LEMMA PassedIsPaid ==
    ASSUME BillingInv, NEW c, NEW amount \in Nat, NEW run, Applies(c, amount, run),
           NEW k \in Ids, Unpaid(invoices[k], c), run[k] > 0
    PROVE  invoices'[k].status = "paid"
<1> DEFINE v == invoices[k]
           a == Applied(v, c, run[k - 1])
<1>1. v \in Invoice /\ invoices'[k] = Settled(v, a) /\ run[k] = run[k - 1] - a /\ a \in Nat
    BY RowType DEF Applies
<1>2. run[k - 1] \in Int /\ run[k] \in Int
    <2>1. k \in 0 .. Len(invoices) /\ k - 1 \in 0 .. Len(invoices)
        BY LenProperties DEF Ids, BillingInv, TypeOK
    <2> QED
        BY <2>1 DEF Applies
<1>3. Due(v) \in Int /\ Due(v) > 0
    BY <1>1 DEF Due, Invoice, Unpaid
<1>4. a = Due(v)
    <2>1. a = Lesser(Due(v), run[k - 1])
        BY DEF Applied
    <2>2. a # run[k - 1]
        BY <1>1, <1>2
    <2> QED
        BY <2>1, <2>2 DEF Lesser
<1>5. invoices'[k] = [v EXCEPT !.paid = @ + a, !.status = "paid"]
    BY <1>1, <1>3, <1>4 DEF Settled
<1> QED
    BY <1>1, <1>5 DEF Invoice

\* Only a payment of the customer raises both what was received and what was paid.
LEMMA PaymentIsPay ==
    ASSUME BillingInv, Next, NEW c \in Customers, IsPayment(c)
    PROVE  \E amount \in Nat : Pay(c, amount)
<1>1. totalPayments \in [Customers -> Int] /\ totalPayments[c] \in Int
    BY DEF BillingInv, TypeOK
<1>2. totalPayments'[c] > totalPayments[c]
    BY DEF IsPayment
<1>3. CASE Sale
    <2>1. PICK d \in Customers, items \in Baskets, total \in Totals :
              \/ \E pay \in Amounts \cup {0} : Sell(d, items, total, pay)
              \/ CreateProforma(d, items, total)
        BY <1>3 DEF Sale, CreateInvoice, ConfirmInvoice
    <2>2. totalPayments' = totalPayments
        BY <2>1 DEF Sell, CreateProforma
    <2> QED
        BY <1>1, <1>2, <2>2
<1>4. CASE Change
    <2>1. PICK i \in Ids :
              \/ \E pay \in Amounts \cup {0} : ConvertProforma(i, pay)
              \/ \E items \in Baskets, total \in Totals : UpdateInvoice(i, items, total)
              \/ CancelInvoice(i)
              \/ \E amount \in Amounts : ReversePayment(i, amount)
        BY <1>4 DEF Change
    <2>2. CASE \E amount \in Amounts : ReversePayment(i, amount)
        <3>1. PICK amount \in Amounts :
                  totalPayments' = AddTo(totalPayments, invoices[i].customer, - amount)
            BY <2>2 DEF ReversePayment, ReverseEffect
        <3>2. amount \in Nat
            BY ConstantsAssumption
        <3>3. totalPayments'[c] <= totalPayments[c]
            BY <1>1, <3>1, <3>2 DEF AddTo
        <3> QED
            BY <1>1, <1>2, <3>1, <3>2, <3>3 DEF AddTo
    <2>3. CASE totalPayments' = totalPayments
        BY <1>1, <1>2, <2>3
    <2> QED
        BY <2>1, <2>2, <2>3 DEF ConvertProforma, ConvertEffect, UpdateInvoice, UpdateEffect,
           CancelInvoice, CancelEffect
<1>5. CASE Khata
    <2>1. PICK x \in Customers, amount \in Nat : Pay(x, amount) \/ AddCredit(x, amount)
        BY <1>5, ConstantsAssumption DEF Khata, RecordPayment, RecordMixedPayment
    <2>2. ~AddCredit(x, amount)
        BY <1>1, <1>2 DEF AddCredit
    <2>3. x = c
        BY <1>1, <1>2, <2>1, <2>2, AddToTouches DEF Pay
    <2> QED
        BY <2>1, <2>2, <2>3
<1> QED
    BY <1>3, <1>4, <1>5 DEF Next

\* A row that a payment reaches has all older unpaid rows of the customer paid.
LEMMA OldestFirstStep ==
    ASSUME BillingInv, Next, NEW c \in Customers, IsPayment(c),
           NEW j \in Ids, NEW k \in Ids, j < k, Unpaid(invoices[j], c),
           invoices'[k].paid > invoices[k].paid
    PROVE  invoices'[j].status = "paid"
<1>1. PICK amount \in Nat : Pay(c, amount)
    BY PaymentIsPay
<1>2. PICK run : Applies(c, amount, run)
    BY <1>1, PayWrites
<1>3. {j, k - 1, k} \subseteq 0 .. Len(invoices) /\ j <= k - 1
    BY LenProperties DEF Ids, BillingInv, TypeOK
<1>4. run[j] \in Int /\ run[k - 1] \in Int /\ run[k] \in Nat
    <2>1. run \in [0 .. Len(invoices) -> Nat]
        BY <1>2 DEF Applies
    <2> QED
        BY <1>3, <2>1
<1>5. run[k - 1] > 0
    <2>1. invoices'[k].paid = invoices[k].paid + Applied(invoices[k], c, run[k - 1])
        BY <1>2, PaySettles
    <2>2. invoices[k].paid \in Nat
        BY RowFields
    <2>3. /\ Applied(invoices[k], c, run[k - 1]) \in Nat
          /\ run[k] = run[k - 1] - Applied(invoices[k], c, run[k - 1])
        BY <1>2 DEF Applies
    <2> QED
        BY <1>4, <2>1, <2>2, <2>3
<1>6. run[k - 1] <= run[j]
    BY <1>2, <1>3, RunFalls
<1>7. run[j] > 0
    BY <1>4, <1>5, <1>6
<1> QED
    BY <1>2, <1>7, PassedIsPaid

\* A payment with something left after the last row has paid every row of the customer.
LEMMA AdvanceStep ==
    ASSUME BillingInv, Next, NEW c \in Customers, IsPayment(c), Advance(c)' > Advance(c),
           NEW i \in Ids
    PROVE  ~Unpaid(invoices'[i], c)
<1>1. PICK amount \in Nat : Pay(c, amount)
    BY PaymentIsPay
<1>2. PICK run : Applies(c, amount, run)
    BY <1>1, PayWrites
<1>3. run[Len(invoices)] \in Nat /\ BillingInv'
    BY <1>2, AppliedSum, BillingNext
<1>4. run[Len(invoices)] > 0
    <2>1. Moved(c, - amount, 0, amount, amount - run[Len(invoices)], 0)
        BY <1>1, <1>2, <1>3, PayMoves
    <2>2. /\ received'[c] = received[c] + amount
          /\ PaidSum(c)' = PaidSum(c) + (amount - run[Len(invoices)])
        BY <2>1 DEF Moved, Part
    <2>3. received[c] \in Int /\ PaidSum(c) \in Int
        BY SumTypes
    <2>4. Advance(c) = received[c] - PaidSum(c) /\ Advance(c)' = received'[c] - PaidSum(c)'
        BY AdvanceIs, AdvanceIsNext DEF PaidSum
    <2> QED
        BY <1>3, <2>2, <2>3, <2>4
<1>5. run[i] \in Int /\ run[Len(invoices)] <= run[i]
    <2>1. i \in 0 .. Len(invoices) /\ Len(invoices) \in 0 .. Len(invoices) /\ i <= Len(invoices)
        BY LenProperties DEF Ids, BillingInv, TypeOK
    <2>2. run \in [0 .. Len(invoices) -> Nat]
        BY <1>2 DEF Applies
    <2>3. run[i] \in Int
        BY <2>1, <2>2
    <2> QED
        BY <1>2, <2>1, <2>3, RunFalls
<1>6. run[i] > 0
    BY <1>3, <1>4, <1>5
<1>7. CASE Unpaid(invoices[i], c)
    BY <1>2, <1>6, <1>7, PassedIsPaid DEF Unpaid
<1>8. CASE ~Unpaid(invoices[i], c)
    BY <1>2, <1>8, PaySettles
<1> QED
    BY <1>7, <1>8

\* "Oldest-first settlement", for every payment of every shop.
THEOREM OldestFirstAlways == Spec => OldestFirst
<1> DEFINE Ordered == \A c \in Customers : IsPayment(c) =>
              \A j, k \in Ids :
                  /\ j < k /\ Unpaid(invoices[j], c)
                  /\ invoices'[k].customer = c /\ invoices'[k].paid > invoices[k].paid
                  => invoices'[j].status = "paid"
<1>1. BillingInv /\ [Next]_vars => [Ordered]_vars
    BY OldestFirstStep
<1> QED
    BY <1>1, BillingInvariant, PTL DEF Spec, OldestFirst

\* A payment leaves an advance only where it leaves no invoice of the customer unpaid.
THEOREM AdvanceOnlyWhenSettledAlways == Spec => AdvanceOnlyWhenSettled
<1> DEFINE Settles == \A c \in Customers :
              IsPayment(c) /\ Advance(c)' > Advance(c) => \A i \in Ids : ~Unpaid(invoices'[i], c)
<1>1. BillingInv /\ [Next]_vars => [Settles]_vars
    BY AdvanceStep
<1> QED
    BY <1>1, BillingInvariant, PTL DEF Spec, AdvanceOnlyWhenSettled

-----------------------------------------------------------------------------
(* Overlapping requests. *)

\* Clients that keep two requests apart that write one invoice, and clients that only sell,
\* take payments and give credit.
LEMMA CarefulClients == (OneAtATime \/ SalesAlone) /\ ConcurrentSpec => ImplementsBilling
BY ImplementsBillingAlways, SalesNeedNoLock

\* The shelf of such clients: the same law under overlapping requests, as each commit is a
\* request of Billing made at that moment.
THEOREM ConcurrentStockConserved == (OneAtATime \/ SalesAlone) /\ ConcurrentSpec => []StockConserved
BY CarefulClients, StockConservedAlways, PTL DEF ImplementsBilling

\* The balances of their customers.
THEOREM ConcurrentKhataBalance == (OneAtATime \/ SalesAlone) /\ ConcurrentSpec => []KhataBalance
BY CarefulClients, KhataBalanceAlways, PTL DEF ImplementsBilling

\* What their invoices show as paid.
THEOREM ConcurrentPaidWasReceived == (OneAtATime \/ SalesAlone) /\ ConcurrentSpec => []PaidWasReceived
BY CarefulClients, PaidWasReceivedAlways, PTL DEF ImplementsBilling

\* And the status of every invoice of theirs.
THEOREM ConcurrentPaidMatchesStatus == (OneAtATime \/ SalesAlone) /\ ConcurrentSpec => []PaidMatchesStatus
BY CarefulClients, PaidMatchesStatusAlways, PTL DEF ImplementsBilling

-----------------------------------------------------------------------------
(* The credit limit under overlapping requests. *)

\* A sum of numbers up to m is at most m for each.
LEMMA SumAtMost ==
    ASSUME NEW S, IsFiniteSet(S), NEW f, NEW m \in Nat, \A i \in S : f[i] \in 0 .. m
    PROVE  SumOf(f, S) \in Nat /\ SumOf(f, S) <= Cardinality(S) * m
<1> DEFINE B == {T \in SUBSET S : SumOf(f, T) \in Nat /\ SumOf(f, T) <= Cardinality(T) * m}
<1>0. IntegersOn(f, S)
    BY DEF IntegersOn
<1>1. ASSUME NEW T \in SUBSET S, \A x \in T : T \ {x} \in B
      PROVE  T \in B
    <2>1. IsFiniteSet(T)
        BY FS_Subset
    <2>2. CASE T = {}
        <3>1. SumOf(f, T) = 0 /\ Cardinality(T) = 0
            BY <2>2, SumOfEmpty, FS_EmptySet
        <3> QED
            BY <3>1
    <2>3. CASE T # {}
        <3>1. PICK x \in T : TRUE
            BY <2>3
        <3>2. SumOf(f, T) = f[x] + SumOf(f, T \ {x})
            BY <1>0, SumRemoves
        <3>3. Cardinality(T \ {x}) = Cardinality(T) - 1 /\ Cardinality(T) \in Nat
            BY <2>1, FS_RemoveElement, FS_CardinalityType
        <3>4. /\ SumOf(f, T \ {x}) \in Nat /\ SumOf(f, T \ {x}) <= Cardinality(T \ {x}) * m
              /\ f[x] \in Nat /\ f[x] <= m
            BY <1>1
        <3>5. (Cardinality(T) - 1) * m + m = Cardinality(T) * m
            BY <3>3
        <3> QED
            BY <3>2, <3>3, <3>4, <3>5
    <2> QED
        BY <2>2, <2>3
<1>2. \A T \in SUBSET S : T \in B
    <2> HIDE DEF B
    <2> QED
        BY <1>1, SubsetInduction
<1> QED
    BY <1>2

\* What a request in flight may still add to the balance of c, if it passed the check.
MayAdd(q, c) == IF HeldToLimit(q) /\ q.customer = c THEN q.total ELSE 0
MayAddOf(c) == [r \in Requests |-> MayAdd(inflight[r], c)]

\* No total is above the largest.
LEMMA Largest == LargestTotal \in Nat /\ \A total \in Totals : total \in Nat /\ total <= LargestTotal
BY ConstantsAssumption, ConcurrentAssumption DEF LargestTotal

\* It adds nothing, or one of the totals.
LEMMA MayAddType ==
    ASSUME NEW q \in ReadRequest \cup {Idle}, NEW c
    PROVE  MayAdd(q, c) \in 0 .. LargestTotal
<1>1. HeldToLimit(q) => q.total \in Totals
    BY ReadFields DEF HeldToLimit, Idle
<1> QED
    BY <1>1, Largest DEF MayAdd

\* Together they add what is passed.
LEMMA PassedIs ==
    OverlapInv => \A c \in Customers :
        /\ Passed(c) = SumOf(MayAddOf(c), Requests)
        /\ \A r \in Requests : MayAddOf(c)[r] \in 0 .. LargestTotal
<1> SUFFICES ASSUME OverlapInv, NEW c \in Customers
             PROVE  /\ Passed(c) = SumOf(MayAddOf(c), Requests)
                    /\ \A r \in Requests : MayAddOf(c)[r] \in 0 .. LargestTotal
    OBVIOUS
<1> DEFINE H == {r \in Requests : HeldToLimit(inflight[r]) /\ inflight[r].customer = c}
           total == [r \in H |-> inflight[r].total]
<1>1. Passed(c) = SumOf(total, H)
    BY DEF Passed, SumOf, MapThenSumSet, MapThenFoldSet
<1>2. \A r \in Requests : MayAddOf(c)[r] \in 0 .. LargestTotal
    BY MayAddType DEF OverlapInv, MayAddOf
<1>3. IntegersOn(MayAddOf(c), Requests) /\ IntegersOn(MayAddOf(c), H)
    BY <1>2, Largest DEF IntegersOn
<1>4. IsFiniteSet(Requests) /\ IsFiniteSet(H) /\ H \in SUBSET Requests
    BY ConcurrentAssumption, FS_Subset
<1>5. \A r \in Requests \ H : MayAddOf(c)[r] = 0
    BY DEF MayAddOf, MayAdd
<1>6. \A r \in H : MayAddOf(c)[r] = total[r]
    BY DEF MayAddOf, MayAdd
<1> HIDE DEF H, total
<1>7. SumOf(MayAddOf(c), Requests) = SumOf(MayAddOf(c), H)
    BY <1>3, <1>4, <1>5, SumOutside
<1>8. SumOf(MayAddOf(c), H) = SumOf(total, H)
    BY <1>3, <1>4, <1>6, SumSame
<1> QED
    BY <1>1, <1>2, <1>7, <1>8

LEMMA PassedIsNext ==
    (OverlapInv => \A c \in Customers :
        /\ Passed(c) = SumOf(MayAddOf(c), Requests)
        /\ \A r \in Requests : MayAddOf(c)[r] \in 0 .. LargestTotal)'
BY PassedIs, PTL

\* The bound, for one customer.
MostOwed(c) == CreditLimit[c] + (Cardinality(Requests) - 1) * LargestTotal

LEMMA MostOwedType ==
    ASSUME NEW c \in Customers
    PROVE  /\ MostOwed(c) \in Nat /\ CreditLimit[c] \in Nat
           /\ (Cardinality(Requests) - 1) * LargestTotal \in Nat
<1>1. Cardinality(Requests) \in Nat /\ Cardinality(Requests) # 0
    BY ConcurrentAssumption, FS_CardinalityType, FS_EmptySet
<1>2. PICK n \in Nat : n = Cardinality(Requests) - 1
    BY <1>1
<1>3. n * LargestTotal \in Nat
    BY Largest
<1> QED
    BY <1>2, <1>3, ConstantsAssumption DEF MostOwed

\* A step of r in which the balance and what r may still add do not rise together.
LEMMA ExposureFalls ==
    ASSUME OverlapInv, OverlapInv', CreditExposure, unchecked \subseteq unchecked', NEW r \in Requests,
           \A s \in Requests : s # r => inflight'[s] = inflight[s],
           NEW c \in Customers, c \notin unchecked', CreditLimit[c] > 0,
           balance'[c] + MayAdd(inflight'[r], c) <= balance[c] + MayAdd(inflight[r], c)
    PROVE  balance'[c] + Passed(c)' <= MostOwed(c)
<1> DEFINE f == MayAddOf(c)
           g == MayAddOf(c)'
<1>1. /\ Passed(c) = SumOf(f, Requests) /\ Passed(c)' = SumOf(g, Requests)
      /\ IntegersOn(f, Requests) /\ IntegersOn(g, Requests) /\ IsFiniteSet(Requests)
    BY PassedIs, PassedIsNext, Largest, ConcurrentAssumption DEF IntegersOn
<1>2. \A s \in Requests \ {r} : f[s] = g[s]
    BY DEF MayAddOf
<1>3. At(f, Requests, r) = MayAdd(inflight[r], c) /\ At(g, Requests, r) = MayAdd(inflight'[r], c)
    BY DEF At, MayAddOf
<1>4. SumOf(f, Requests) \in Int /\ f[r] \in Int /\ g[r] \in Int
    <2>1. Requests \in SUBSET Requests
        OBVIOUS
    <2> QED
        BY <1>1, <2>1, SumIsInt DEF IntegersOn
<1>5. /\ balance[c] + Passed(c) <= MostOwed(c) /\ MostOwed(c) \in Int
      /\ balance[c] \in Int /\ balance'[c] \in Int
    BY MostOwedType DEF CreditExposure, MostOwed, OverlapInv, TypeOK
<1>6. f[r] = MayAdd(inflight[r], c) /\ g[r] = MayAdd(inflight'[r], c)
    BY DEF MayAddOf
<1> HIDE DEF f, g
<1>7. SumOf(g, Requests) = SumOf(f, Requests) - At(f, Requests, r) + At(g, Requests, r)
    BY <1>1, <1>2, SumOneChanged
<1> QED
    BY <1>1, <1>3, <1>4, <1>5, <1>6, <1>7

\* A sale that has just passed the check: whatever the others add, they are one fewer.
LEMMA ExposureAtCheck ==
    ASSUME OverlapInv, OverlapInv', NEW r \in Requests, NEW c \in Customers,
           balance'[c] = balance[c],
           balance[c] + MayAdd(inflight'[r], c) <= CreditLimit[c]
    PROVE  balance'[c] + Passed(c)' <= MostOwed(c)
<1> DEFINE g == MayAddOf(c)'
           S == Requests \ {r}
<1>1. /\ Passed(c)' = SumOf(g, Requests) /\ \A s \in Requests : g[s] \in 0 .. LargestTotal
      /\ IsFiniteSet(Requests)
    BY PassedIsNext, ConcurrentAssumption
<1>2. IntegersOn(g, Requests) /\ g[r] \in Nat
    BY <1>1, Largest DEF IntegersOn
<1>3. g[r] = MayAdd(inflight'[r], c)
    BY DEF MayAddOf
<1>4. IsFiniteSet(S) /\ Cardinality(S) = Cardinality(Requests) - 1
    BY <1>1, FS_RemoveElement
<1>5. balance[c] \in Int /\ CreditLimit[c] \in Nat
    BY ConstantsAssumption DEF OverlapInv, TypeOK
<1> HIDE DEF g
<1>6. SumOf(g, Requests) = g[r] + SumOf(g, S)
    BY <1>1, <1>2, SumTakesOut
<1>7. SumOf(g, S) \in Nat /\ SumOf(g, S) <= Cardinality(S) * LargestTotal
    <2> HIDE DEF S
    <2>1. \A s \in S : g[s] \in 0 .. LargestTotal
        BY <1>1 DEF S
    <2> QED
        BY <1>4, <2>1, SumAtMost, Largest
<1>8. SumOf(g, S) <= (Cardinality(Requests) - 1) * LargestTotal
    BY <1>4, <1>7
<1>9. (Cardinality(Requests) - 1) * LargestTotal \in Nat
    BY MostOwedType
<1> HIDE DEF S
<1> QED
    BY <1>1, <1>2, <1>3, <1>5, <1>6, <1>7, <1>8, <1>9 DEF MostOwed

\* A read leaves the balances alone, and a sale to c that passed was within the limit.
LEMMA ExposureRead ==
    ASSUME OverlapInv, OverlapInv', CreditExposure, NEW r \in Requests, ReadStep(r),
           NEW c \in Customers, c \notin unchecked', CreditLimit[c] > 0
    PROVE  balance'[c] + Passed(c)' <= MostOwed(c)
<1>1. ASSUME NEW q, Start(r, q),
             MayAdd(q, c) = 0 \/ balance[c] + MayAdd(q, c) <= CreditLimit[c]
      PROVE  balance'[c] + Passed(c)' <= MostOwed(c)
    <2>1. UNCHANGED <<balance, unchecked>> /\ inflight[r] = Idle /\ inflight' = [inflight EXCEPT ![r] = q]
        BY <1>1 DEF Start, vars
    <2>2. inflight'[r] = q /\ \A s \in Requests : s # r => inflight'[s] = inflight[s]
        BY <2>1 DEF OverlapInv
    <2>3. MayAdd(inflight[r], c) = 0
        BY <2>1 DEF MayAdd, HeldToLimit, Idle
    <2>4. balance[c] \in Int
        BY DEF OverlapInv, TypeOK
    <2>5. CASE MayAdd(q, c) = 0
        BY <2>1, <2>2, <2>3, <2>4, <2>5, ExposureFalls
    <2>6. CASE balance[c] + MayAdd(q, c) <= CreditLimit[c]
        BY <2>1, <2>2, <2>6, ExposureAtCheck
    <2> QED
        BY <1>1, <2>5, <2>6
<1>2. ASSUME NEW d \in Customers, NEW items \in Baskets, NEW total \in Totals,
             NEW pay \in Amounts \cup {0}, NEW override \in Overrides,
             ReadForCreate(r, d, items, total, pay, override)
      PROVE  balance'[c] + Passed(c)' <= MostOwed(c)
    BY <1>1, <1>2 DEF ReadForCreate, MayAdd, HeldToLimit, WithinLimit
<1>3. ASSUME NEW i \in Ids,
             \/ \E pay \in Amounts \cup {0} : ReadForConvert(r, i, pay)
             \/ \E items \in Baskets, total \in Totals : ReadForUpdate(r, i, items, total)
             \/ ReadForCancel(r, i)
             \/ \E amount \in Amounts : ReadForReverse(r, i, amount)
      PROVE  balance'[c] + Passed(c)' <= MostOwed(c)
    <2>1. \A q : Start(r, q) /\ q.op # "create" => balance'[c] + Passed(c)' <= MostOwed(c)
        BY <1>1 DEF MayAdd, HeldToLimit
    <2>2. ASSUME NEW pay, ReadForConvert(r, i, pay)
          PROVE  balance'[c] + Passed(c)' <= MostOwed(c)
        BY <2>1, <2>2 DEF ReadForConvert
    <2>3. ASSUME NEW items, NEW total, ReadForUpdate(r, i, items, total)
          PROVE  balance'[c] + Passed(c)' <= MostOwed(c)
        BY <2>1, <2>3 DEF ReadForUpdate
    <2>4. ASSUME ReadForCancel(r, i)
          PROVE  balance'[c] + Passed(c)' <= MostOwed(c)
        BY <2>1, <2>4 DEF ReadForCancel
    <2>5. ASSUME NEW amount, ReadForReverse(r, i, amount)
          PROVE  balance'[c] + Passed(c)' <= MostOwed(c)
        BY <2>1, <2>5 DEF ReadForReverse
    <2> QED
        BY <1>3, <2>2, <2>3, <2>4, <2>5
<1> QED
    BY <1>2, <1>3 DEF ReadStep

\* The sale that commits adds no more than it might; of what raises a balance otherwise,
\* unchecked keeps the account.
LEMMA ExposureCommit ==
    ASSUME OverlapInv, OverlapInv', CreditExposure, NEW r \in Requests, CommitRequest(r),
           NEW c \in Customers, c \notin unchecked', CreditLimit[c] > 0
    PROVE  balance'[c] + Passed(c)' <= MostOwed(c)
<1> DEFINE q == inflight[r]
<1>1. /\ q \in ReadRequest /\ Writes(q) /\ inflight' = [inflight EXCEPT ![r] = Idle]
      /\ unchecked' = IF HeldToLimit(q) THEN unchecked ELSE unchecked \cup Raised
    BY OverlapRead DEF CommitRequest
<1>2. inflight'[r] = Idle /\ \A s \in Requests : s # r => inflight'[s] = inflight[s]
    BY <1>1 DEF OverlapInv
<1>3. MayAdd(inflight'[r], c) = 0
    BY <1>2 DEF MayAdd, HeldToLimit, Idle
<1>4. balance[c] \in Int /\ balance'[c] \in Int /\ balance \in [Customers -> Int]
    BY DEF OverlapInv, TypeOK
<1>5. balance'[c] <= balance[c] + MayAdd(q, c)
    <2>1. CASE ~HeldToLimit(q)
        <3>1. c \notin Raised
            BY <1>1, <2>1
        <3> QED
            BY <1>4, <2>1, <3>1 DEF Raised, MayAdd
    <2>2. CASE HeldToLimit(q)
        <3> HIDE DEF q
        <3>0. q \in ReadRequest /\ q.op = "create"
            BY <1>1, <2>2 DEF HeldToLimit
        <3>1. Sell(q.customer, q.items, q.total, q.amount)
            BY <1>1, <3>0 DEF Writes
        <3>2. /\ q.customer \in Customers /\ q.total \in Totals /\ q.amount \in Amounts \cup {0}
            BY <3>0, ReadFields
        <3>3. q.total \in Nat /\ q.amount \in Nat
            <4>1. Totals \subseteq Nat /\ Amounts \cup {0} \subseteq Nat
                BY ConstantsAssumption
            <4> QED
                BY <3>2, <4>1
        <3>4. Booked(q.amount, q.total) \in Nat
            BY <3>3, BookedFits
        <3>5. balance' = AddTo(balance, q.customer, q.total - Booked(q.amount, q.total))
            BY <3>1 DEF Sell
        <3>6. CASE q.customer = c
            BY <1>4, <2>2, <3>3, <3>4, <3>5, <3>6 DEF AddTo, MayAdd
        <3>7. CASE q.customer # c
            BY <1>4, <3>2, <3>5, <3>7, AddToTouches DEF MayAdd
        <3> QED
            BY <3>6, <3>7
    <2> QED
        BY <2>1, <2>2
<1>6. unchecked \subseteq unchecked'
    BY <1>1
<1> QED
    BY <1>2, <1>3, <1>4, <1>5, <1>6, ExposureFalls

\* Every step keeps the exposure within its bound.
LEMMA ExposureNext ==
    ASSUME OverlapInv, OverlapInv', CreditExposure, [ConcurrentNext]_allVars
    PROVE  CreditExposure'
<1> SUFFICES ASSUME NEW c \in Customers, c \notin unchecked', CreditLimit[c] > 0
             PROVE  balance'[c] + Passed(c)' <= MostOwed(c)
    BY DEF CreditExposure, MostOwed
<1>0. balance[c] \in Int /\ balance'[c] \in Int
    BY DEF OverlapInv, TypeOK
<1>1. ASSUME UNCHANGED inflight, unchecked \subseteq unchecked', balance'[c] <= balance[c]
      PROVE  balance'[c] + Passed(c)' <= MostOwed(c)
    <2>1. PICK r \in Requests : TRUE
        BY ConcurrentAssumption
    <2>2. MayAdd(inflight[r], c) \in Int
        BY MayAddType, Largest DEF OverlapInv
    <2> QED
        BY <1>0, <1>1, <2>2, ExposureFalls
<1>2. CASE OneStep
    <2>1. UNCHANGED inflight /\ unchecked' = unchecked \cup Raised
        BY <1>2 DEF OneStep
    <2>2. balance'[c] <= balance[c]
        BY <1>0, <2>1 DEF Raised
    <2> QED
        BY <1>1, <2>1, <2>2
<1>3. ASSUME NEW r \in Requests, ReadStep(r)
      PROVE  balance'[c] + Passed(c)' <= MostOwed(c)
    BY <1>3, ExposureRead
<1>4. ASSUME NEW r \in Requests, CommitRequest(r)
      PROVE  balance'[c] + Passed(c)' <= MostOwed(c)
    BY <1>4, ExposureCommit
<1>5. ASSUME NEW r \in Requests, AbortRequest(r)
      PROVE  balance'[c] + Passed(c)' <= MostOwed(c)
    <2>1. /\ inflight'[r] = Idle /\ \A s \in Requests : s # r => inflight'[s] = inflight[s]
          /\ UNCHANGED <<balance, unchecked>>
        BY <1>5 DEF AbortRequest, OverlapInv, vars
    <2>2. MayAdd(inflight'[r], c) = 0
        BY <2>1 DEF MayAdd, HeldToLimit, Idle
    <2>3. MayAdd(inflight[r], c) \in Nat
        BY MayAddType, Largest DEF OverlapInv
    <2> QED
        BY <1>0, <2>1, <2>2, <2>3, ExposureFalls
<1>6. CASE UNCHANGED allVars
    BY <1>0, <1>1, <1>6 DEF allVars, vars
<1> QED
    BY <1>2, <1>3, <1>4, <1>5, <1>6 DEF ConcurrentNext

\* "Block new sales if customer exceeds credit limit", however requests overlap, with no care
\* of the clients: customers whom nothing but sales held to the limit has put into debt exceed
\* it by at most a sale for each other request, however many rounds of sales there are.
THEOREM CreditExposureAlways == ConcurrentSpec => []CreditExposure
<1>1. ConcurrentInit => CreditExposure
    <2> SUFFICES ASSUME ConcurrentInit, NEW c \in Customers
                 PROVE  balance[c] + Passed(c) <= MostOwed(c)
        BY DEF CreditExposure, MostOwed
    <2>1. OverlapInv
        BY OverlapInit
    <2>2. balance[c] = 0
        BY DEF ConcurrentInit, Init
    <2>3. \A r \in Requests : MayAddOf(c)[r] \in 0 .. 0
        BY DEF ConcurrentInit, MayAddOf, MayAdd, HeldToLimit, Idle
    <2>4. SumOf(MayAddOf(c), Requests) \in Nat /\ SumOf(MayAddOf(c), Requests) <= Cardinality(Requests) * 0
        BY <2>3, SumAtMost, ConcurrentAssumption
    <2>5. Cardinality(Requests) * 0 = 0
        BY ConcurrentAssumption, FS_CardinalityType
    <2> QED
        BY <2>1, <2>2, <2>4, <2>5, PassedIs, MostOwedType
<1>2. OverlapInv /\ OverlapInv' /\ CreditExposure /\ [ConcurrentNext]_allVars => CreditExposure'
    BY ExposureNext
<1> QED
    BY <1>1, <1>2, OverlapInvariant, PTL DEF ConcurrentSpec
=============================================================================
