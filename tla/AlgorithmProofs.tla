-------------------------- MODULE AlgorithmProofs ---------------------------
(***************************************************************************)
(* Theorems about what the code computes without a state of its own: what  *)
(* it decides of an account before it asks the LLM, for a review period of *)
(* any length, any months, figures and settings; and what it makes of an   *)
(* answer of the LLM, for any text of any length.                          *)
(*                                                                         *)
(* The first part rests on one fact about sorted(): the positions of a     *)
(* finite set come out each once, in the order of their keys (OrderFacts). *)
(* It also gives the least and the greatest of a finite set, and so the    *)
(* inductions over the months of a file.                                   *)
(*                                                                         *)
(* The second part is about a decoder that reads one character after the   *)
(* other.  Its inductions are over the set of the places of a text that    *)
(* something holds of (Induction).  Three facts lead to its theorems: an   *)
(* object that is the whole text is repaired to nothing else               *)
(* (WholeTextIsItsObject), the members of an object may be written into    *)
(* any other and are read there as they were (DumpedIsWhole), and merging  *)
(* the objects at the start keeps the first of each key (MergedFacts).     *)
(***************************************************************************)
EXTENDS BurstGaps, CustomerProfile, JsonAnswer, FiniteSetTheorems, SequenceTheorems,
        WellFoundedInduction, TLAPS

-----------------------------------------------------------------------------
(* sorted() *)

\* No two positions have the same number of positions up to them, and the order of
\* these numbers is that of the keys.
LEMMA UpToFacts ==
  ASSUME NEW S \in SUBSET Int, IsFiniteSet(S), NEW key, \A i \in S : key[i] \in Int,
         NEW i \in S, NEW k \in S, key[i] < key[k] \/ (key[i] = key[k] /\ i < k)
  PROVE  Cardinality(UpTo(S, key, i)) < Cardinality(UpTo(S, key, k))
<1>1. UpTo(S, key, i) \in SUBSET UpTo(S, key, k) /\ UpTo(S, key, k) \in SUBSET S
  <2>1. ASSUME NEW m \in UpTo(S, key, i) PROVE m \in UpTo(S, key, k)
    <3>1. m \in S /\ m \in Int /\ i \in Int /\ k \in Int
      BY DEF UpTo
    <3>2. key[m] \in Int /\ key[i] \in Int /\ key[k] \in Int
      BY <3>1
    <3>3. key[m] < key[i] \/ (key[m] = key[i] /\ m <= i)
      BY DEF UpTo
    <3>4. key[m] < key[k] \/ (key[m] = key[k] /\ m <= k)
      BY <3>1, <3>2, <3>3
    <3>5. QED
      BY <3>1, <3>4 DEF UpTo
  <2>2. QED
    BY <2>1 DEF UpTo
<1>2. k \in UpTo(S, key, k) /\ k \notin UpTo(S, key, i)
  BY DEF UpTo
<1>3. IsFiniteSet(UpTo(S, key, k)) /\ IsFiniteSet(UpTo(S, key, i))
  BY <1>1, FS_Subset
<1>4. /\ Cardinality(UpTo(S, key, i)) \in Nat /\ Cardinality(UpTo(S, key, k)) \in Nat
      /\ Cardinality(UpTo(S, key, i)) <= Cardinality(UpTo(S, key, k))
      /\ Cardinality(UpTo(S, key, k)) = Cardinality(UpTo(S, key, i)) =>
           UpTo(S, key, k) = UpTo(S, key, i)
  BY <1>1, <1>3, FS_CardinalityType, FS_Subset
<1>5. QED
  BY <1>2, <1>4

\* The positions come out each once, in the order of their keys.
LEMMA OrderFacts ==
  ASSUME NEW S \in SUBSET Int, IsFiniteSet(S), NEW key, \A i \in S : key[i] \in Int
  PROVE  LET order == InOrder(S, key)
             size == Cardinality(S)
         IN  /\ size \in Nat
             /\ order \in [1..size -> S]
             /\ \A i, k \in 1..size : i < k => order[i] # order[k] /\ key[order[i]] <= key[order[k]]
             /\ \A s \in S : \E i \in 1..size : order[i] = s
<1> DEFINE order == InOrder(S, key)
           size == Cardinality(S)
           Rank(i) == Cardinality(UpTo(S, key, i))
           rank == [i \in S |-> Rank(i)]
<1>1. size \in Nat /\ IsFiniteSet(1..size) /\ Cardinality(1..size) = size
  BY FS_CardinalityType, FS_Interval
<1>2. ASSUME NEW i \in S PROVE Rank(i) \in 1..size
  <2>1. UpTo(S, key, i) \in SUBSET S /\ i \in UpTo(S, key, i)
    BY DEF UpTo
  <2>2. IsFiniteSet(UpTo(S, key, i)) /\ Rank(i) \in Nat /\ Rank(i) <= size
    BY <2>1, FS_Subset, FS_CardinalityType
  <2>3. Rank(i) # 0
    BY <2>1, <2>2, FS_EmptySet
  <2>4. QED
    BY <1>1, <2>2, <2>3
<1>3. \A i, k \in S : key[i] < key[k] \/ (key[i] = key[k] /\ i < k) => Rank(i) < Rank(k)
  BY UpToFacts
<1>4. \A i, k \in S : Rank(i) = Rank(k) => i = k
  <2> SUFFICES ASSUME NEW i \in S, NEW k \in S, i # k PROVE Rank(i) # Rank(k)
    OBVIOUS
  <2>1. key[i] < key[k] \/ key[k] < key[i] \/ (key[i] = key[k] /\ i < k) \/ (key[k] = key[i] /\ k < i)
    OBVIOUS
  <2>2. Rank(i) < Rank(k) \/ Rank(k) < Rank(i)
    BY <1>3, <2>1
  <2>3. Rank(i) \in Int /\ Rank(k) \in Int
    BY <1>2
  <2> HIDE DEF Rank
  <2>4. QED
    BY <2>2, <2>3
<1>5. rank \in Injection(S, 1..size)
  <2> HIDE DEF Rank, size
  <2>1. rank \in [S -> 1..size]
    BY <1>2
  <2>2. \A i, k \in S : rank[i] = rank[k] => i = k
    BY <1>4
  <2>3. QED
    BY <2>1, <2>2 DEF Injection, IsInjective
<1>6. \A n \in 1..size : \E i \in S : Rank(i) = n
  <2>1. rank \in Surjection(S, 1..size)
    BY <1>1, <1>5, FS_Injection
  <2> HIDE DEF Rank, size
  <2>2. QED
    BY <2>1 DEF Surjection
<1>7. order = [n \in 1..size |-> CHOOSE i \in S : Rank(i) = n]
  BY DEF InOrder
<1>8. ASSUME NEW n \in 1..size PROVE order[n] \in S /\ Rank(order[n]) = n
  <2> HIDE DEF Rank, size, order
  <2>1. order[n] = CHOOSE i \in S : Rank(i) = n
    BY <1>7
  <2>2. QED
    BY <1>6, <2>1
<1>9. order \in [1..size -> S]
  <2> HIDE DEF Rank, size, order
  <2>1. QED
    BY <1>7, <1>8
<1>10. ASSUME NEW i \in 1..size, NEW k \in 1..size, i < k
       PROVE  order[i] # order[k] /\ key[order[i]] <= key[order[k]]
  <2>1. order[i] \in S /\ order[k] \in S /\ Rank(order[i]) = i /\ Rank(order[k]) = k
    BY <1>8
  <2>2. ~(Rank(order[k]) < Rank(order[i])) /\ i \in Int /\ k \in Int
    BY <1>10, <2>1
  <2> HIDE DEF Rank, size, order
  <2>3. ~(key[order[k]] < key[order[i]])
    BY <1>3, <2>1, <2>2
  <2>4. key[order[i]] \in Int /\ key[order[k]] \in Int
    BY <2>1
  <2>5. order[i] # order[k]
    BY <1>10, <2>1, <2>2
  <2>6. QED
    BY <2>3, <2>4, <2>5
<1>11. ASSUME NEW s \in S PROVE \E i \in 1..size : order[i] = s
  <2>1. Rank(s) \in 1..size
    BY <1>2
  <2>2. order[Rank(s)] \in S /\ Rank(order[Rank(s)]) = Rank(s)
    BY <1>8, <2>1
  <2> HIDE DEF Rank, size, order
  <2>3. QED
    BY <1>4, <2>1, <2>2
<1>12. QED
  BY <1>1, <1>9, <1>10, <1>11

\* A finite set that is not empty has a least and a greatest element.
LEMMA EndsFacts ==
  ASSUME NEW S \in SUBSET Int, IsFiniteSet(S), S # {}
  PROVE  /\ Min(S) \in S /\ \A s \in S : Min(S) <= s
         /\ Max(S) \in S /\ \A s \in S : s <= Max(S)
<1> DEFINE key == [i \in S |-> i]
           order == InOrder(S, key)
           size == Cardinality(S)
<1>1. \A i \in S : key[i] \in Int
  OBVIOUS
<1>3. \A s \in S : key[s] = s
  OBVIOUS
<1>s. size # 0
  BY FS_EmptySet
<1> HIDE DEF key
<1>2. /\ size \in Nat /\ order \in [1..size -> S]
      /\ \A i, k \in 1..size : i < k => order[i] # order[k] /\ key[order[i]] <= key[order[k]]
      /\ \A s \in S : \E i \in 1..size : order[i] = s
  BY <1>1, OrderFacts
<1> HIDE DEF size, order
<1>4. 1 \in 1..size /\ size \in 1..size
  BY <1>2, <1>s
<1>o. ASSUME NEW i \in 1..size, NEW k \in 1..size, i < k
      PROVE  order[i] <= order[k]
  <2>1. order[i] \in S /\ order[k] \in S /\ key[order[i]] <= key[order[k]]
    BY <1>2, <1>o
  <2>2. QED
    BY <1>3, <2>1
<1>5. order[1] \in S /\ order[size] \in S
  BY <1>2, <1>4
<1>6. \A s \in S : order[1] <= s /\ s <= order[size]
  <2> SUFFICES ASSUME NEW s \in S PROVE order[1] <= s /\ s <= order[size]
    OBVIOUS
  <2>1. PICK i \in 1..size : order[i] = s
    BY <1>2
  <2>2. i = 1 \/ 1 < i
    OBVIOUS
  <2>3. i = size \/ i < size
    BY <1>2
  <2>4. order[1] <= s
    BY <1>o, <1>4, <1>5, <2>1, <2>2
  <2>5. s <= order[size]
    BY <1>o, <1>4, <1>5, <2>1, <2>3
  <2>6. QED
    BY <2>4, <2>5
<1>7. \A s \in S : s <= order[size] /\ order[size] >= s
  BY <1>5, <1>6
<1>8. Min(S) \in S /\ \A s \in S : Min(S) <= s
  BY <1>5, <1>6 DEF Min
<1>9. Max(S) \in S /\ \A s \in S : Max(S) >= s
  BY <1>5, <1>7 DEF Max
<1>10. QED
  BY <1>8, <1>9

-----------------------------------------------------------------------------
(* The rows of a file *)

Row == [month : Months, figures : Figures]

THEOREM TypeCorrect == Spec => []TypeOK
<1>1. Init => TypeOK
  BY DEF Init, TypeOK
<1>2. TypeOK /\ ReadRow => TypeOK'
  <2> SUFFICES ASSUME TypeOK, ReadRow PROVE TypeOK'
    OBVIOUS
  <2>1. PICK m \in Months, f \in Figures : file' = Append(file, [month |-> m, figures |-> f])
    BY DEF ReadRow
  <2>2. file \in Seq(Row) /\ [month |-> m, figures |-> f] \in Row
    BY DEF TypeOK, Row
  <2>3. file' \in Seq(Row)
    BY <2>1, <2>2, AppendProperties
  <2>4. QED
    BY <2>3 DEF TypeOK, Row
<1>u. TypeOK /\ UNCHANGED file => TypeOK'
  BY DEF TypeOK
<1>3. QED
  BY <1>1, <1>2, <1>u, PTL DEF Spec

\* The sorted rows are the rows of the file, each once, by month.
LEMMA SortedFacts ==
  ASSUME NEW rows \in Seq(Row)
  PROVE  /\ Len(rows) \in Nat
         /\ \A i \in 1..Len(rows) :
              /\ Sorted(rows)[i] \in Row /\ Sorted(rows)[i].month \in Nat
              /\ rows[i] \in Row /\ rows[i].month \in Nat
         /\ \A i, k \in 1..Len(rows) : i < k => Sorted(rows)[i].month <= Sorted(rows)[k].month
         /\ \E order \in [1..Len(rows) -> 1..Len(rows)] :
              /\ \A i \in 1..Len(rows) : Sorted(rows)[i] = rows[order[i]]
              /\ \A i, k \in 1..Len(rows) : i # k => order[i] # order[k]
              /\ \A k \in 1..Len(rows) : \E i \in 1..Len(rows) : order[i] = k
<1> DEFINE n == Len(rows)
           months == [i \in 1..n |-> rows[i].month]
           order == InOrder(1..n, months)
<1>n. n \in Nat
  OBVIOUS
<1>1. n \in Nat /\ 1..n \in SUBSET Int /\ IsFiniteSet(1..n) /\ Cardinality(1..n) = n
  <2> HIDE DEF n
  <2>1. QED
    BY <1>n, FS_Interval
<1>2. ASSUME NEW i \in 1..n
      PROVE  rows[i] \in Row /\ rows[i].month \in Nat /\ months[i] = rows[i].month
  <2>1. rows[i] \in Row /\ months[i] = rows[i].month
    OBVIOUS
  <2>2. rows[i].month \in Months
    BY <2>1 DEF Row
  <2>3. QED
    BY <2>1, <2>2, FactsAssumption
<1>3. \A i \in 1..n : months[i] \in Int
  BY <1>2
<1> HIDE DEF months
<1>4. /\ order \in [1..n -> 1..n]
      /\ \A i, k \in 1..n : i < k => order[i] # order[k] /\ months[order[i]] <= months[order[k]]
      /\ \A k \in 1..n : \E i \in 1..n : order[i] = k
  BY <1>1, <1>3, OrderFacts
<1>5. Sorted(rows) = [i \in 1..n |-> rows[order[i]]]
  BY DEF Sorted, months
<1> HIDE DEF order
<1>6. \A i \in 1..n : order[i] \in 1..n /\ Sorted(rows)[i] = rows[order[i]]
  BY <1>4, <1>5
<1>7. \A i, k \in 1..n : i < k => Sorted(rows)[i].month <= Sorted(rows)[k].month
  <2> SUFFICES ASSUME NEW i \in 1..n, NEW k \in 1..n, i < k
               PROVE  Sorted(rows)[i].month <= Sorted(rows)[k].month
    OBVIOUS
  <2>1. order[i] \in 1..n /\ order[k] \in 1..n /\ months[order[i]] <= months[order[k]]
    BY <1>4
  <2>2. QED
    BY <1>2, <1>6, <2>1
<1>8. \A i, k \in 1..n : i # k => order[i] # order[k]
  <2> SUFFICES ASSUME NEW i \in 1..n, NEW k \in 1..n, i # k PROVE order[i] # order[k]
    OBVIOUS
  <2>1. i < k \/ k < i
    OBVIOUS
  <2>2. QED
    BY <1>4, <2>1
<1>9. \A i \in 1..n : Sorted(rows)[i] \in Row /\ Sorted(rows)[i].month \in Nat
  BY <1>2, <1>6
<1>10. QED
  BY <1>1, <1>2, <1>4, <1>6, <1>7, <1>8, <1>9

\* The figures by month are those of the sorted rows.
LEMMA FiguredFacts ==
  ASSUME NEW rows \in Seq(Row)
  PROVE  /\ Figured(rows) \in Seq(Figures) /\ Len(Figured(rows)) = Len(rows)
         /\ \A i \in 1..Len(rows) :
              Figured(rows)[i] = Sorted(rows)[i].figures /\ Figured(rows)[i] \in Figures
<1>1. Len(rows) \in Nat /\ \A i \in 1..Len(rows) : Sorted(rows)[i] \in Row
  BY SortedFacts
<1>2. Figured(rows) = [i \in 1..Len(rows) |-> Sorted(rows)[i].figures]
  BY DEF Figured
<1>3. \A i \in 1..Len(rows) : Sorted(rows)[i].figures \in Figures
  BY <1>1 DEF Row
<1>4. QED
  BY <1>1, <1>2, <1>3

\* What a month is known to hold.
LEMMA FigureFacts ==
  ASSUME NEW months \in Seq(Figures)
  PROVE  \A i \in 1..Len(months) :
           /\ months[i] \in Figures
           /\ months[i].count \in Nat /\ months[i].largest \in Int /\ months[i].total \in Int
<1>1. \A f \in Figures : f.count \in Nat /\ f.largest \in Int /\ f.total \in Int
  BY FactsAssumption
<1>2. \A i \in 1..Len(months) : months[i] \in Figures
  OBVIOUS
<1>3. QED
  BY <1>1, <1>2

-----------------------------------------------------------------------------
(* Months *)

\* The next month is the one with the next ordinal, at the end of a year too, and
\* months are in the order of their ordinals.
LEMMA MonthFacts ==
  ASSUME NEW m \in Nat, IsMonth(m)
  PROVE  /\ Ordinal(m) \in Int
         /\ NextMonth(m) \in Nat /\ IsMonth(NextMonth(m)) /\ Ordinal(NextMonth(m)) = Ordinal(m) + 1
         /\ \A k \in Nat : IsMonth(k) =>
              /\ Ordinal(k) = Ordinal(m) + 1 => k = NextMonth(m)
              /\ m < k => Ordinal(m) < Ordinal(k)
<1>1. /\ m \div 100 \in Nat /\ m % 100 \in 1..12
      /\ m = 100 * (m \div 100) + (m % 100)
  BY DEF IsMonth
<1>2. CASE m % 100 = 12
  <2>1. NextMonth(m) = 100 * ((m \div 100) + 1) + 1
    BY <1>1, <1>2 DEF NextMonth
  <2>2. NextMonth(m) \div 100 = (m \div 100) + 1 /\ NextMonth(m) % 100 = 1
    BY <1>1, <2>1
  <2>3. /\ NextMonth(m) \in Nat /\ IsMonth(NextMonth(m)) /\ Ordinal(NextMonth(m)) = Ordinal(m) + 1
    BY <1>1, <1>2, <2>1, <2>2 DEF IsMonth, Ordinal
  <2>4. ASSUME NEW k \in Nat, IsMonth(k)
        PROVE  /\ Ordinal(k) = Ordinal(m) + 1 => k = NextMonth(m)
               /\ m < k => Ordinal(m) < Ordinal(k)
    <3>1. /\ k \div 100 \in Nat /\ k % 100 \in 1..12
          /\ k = 100 * (k \div 100) + (k % 100)
      BY <2>4 DEF IsMonth
    <3>2. QED
      BY <1>1, <1>2, <2>1, <3>1 DEF Ordinal
  <2>5. QED
    BY <1>1, <2>3, <2>4 DEF Ordinal
<1>3. CASE m % 100 # 12
  <2>1. NextMonth(m) = 100 * (m \div 100) + ((m % 100) + 1)
    BY <1>1, <1>3 DEF NextMonth
  <2>2. NextMonth(m) \div 100 = m \div 100 /\ NextMonth(m) % 100 = (m % 100) + 1
    BY <1>1, <1>3, <2>1
  <2>3. /\ NextMonth(m) \in Nat /\ IsMonth(NextMonth(m)) /\ Ordinal(NextMonth(m)) = Ordinal(m) + 1
    BY <1>1, <1>3, <2>1, <2>2 DEF IsMonth, Ordinal
  <2>4. ASSUME NEW k \in Nat, IsMonth(k)
        PROVE  /\ Ordinal(k) = Ordinal(m) + 1 => k = NextMonth(m)
               /\ m < k => Ordinal(m) < Ordinal(k)
    <3>1. /\ k \div 100 \in Nat /\ k % 100 \in 1..12
          /\ k = 100 * (k \div 100) + (k % 100)
      BY <2>4 DEF IsMonth
    <3>2. QED
      BY <1>1, <1>3, <2>1, <3>1 DEF Ordinal
  <2>5. QED
    BY <1>1, <2>3, <2>4 DEF Ordinal
<1>4. QED
  BY <1>2, <1>3

\* What grows by at least one from each place to the next grows by at least as much as
\* the place.
LEMMA GrowsWithPlace ==
  ASSUME NEW n \in Nat, NEW f, \A i \in 1..n : f[i] \in Int,
         \A i \in 1..(n - 1) : f[i] < f[i + 1],
         NEW i \in 1..n, NEW k \in i..n
  PROVE  f[k] - f[i] >= k - i
<1> DEFINE short == {j \in i..n : f[j] - f[i] < j - i}
<1>1. SUFFICES ASSUME short # {} PROVE FALSE
  <2>1. k \notin short /\ k \in i..n /\ k \in 1..n
    BY <1>1
  <2>2. QED
    BY <2>1
<1>2. short \in SUBSET Int /\ IsFiniteSet(short)
  <2>1. short \in SUBSET (i..n) /\ i \in Int /\ n \in Int
    OBVIOUS
  <2>2. IsFiniteSet(i..n)
    BY <2>1, FS_Interval
  <2>3. QED
    BY <2>1, <2>2, FS_Subset
<1>3. PICK j \in short : \A x \in short : j <= x
  BY <1>1, <1>2, EndsFacts
<1>4. j # i /\ j \in i..n /\ j - 1 \in i..n /\ j - 1 \in 1..(n - 1) /\ j - 1 \notin short
  BY <1>3
<1>5. f[j - 1] \in Int /\ f[j] \in Int /\ f[i] \in Int /\ f[j - 1] < f[(j - 1) + 1] /\ (j - 1) + 1 = j
  BY <1>4
<1>6. f[j - 1] - f[i] >= (j - 1) - i
  BY <1>4, <1>5
<1>7. QED
  BY <1>3, <1>4, <1>5, <1>6

-----------------------------------------------------------------------------
(* The loader *)

\* In a file that is accepted the n-th month is n - 1 months after the first.
LEMMA AcceptedInARow ==
  ASSUME TypeOK, Accepted(file), NEW i \in 1..Len(file)
  PROVE  LET first == Sorted(file)[1].month
             month == Sorted(file)[i].month
         IN  IsMonth(month) /\ Ordinal(month) = Ordinal(first) + (i - 1)
<1> DEFINE n == Len(file)
           M(j) == Sorted(file)[j].month
           Right(j) == IsMonth(M(j)) /\ Ordinal(M(j)) = Ordinal(M(1)) + (j - 1)
           wrong == {j \in 1..n : ~Right(j)}
<1>1. file \in Seq(Row)
  BY DEF TypeOK, Row
<1>2. n \in Nat /\ \A j \in 1..n : M(j) \in Nat
  BY <1>1, SortedFacts
<1>3. 1 \in 1..n /\ IsMonth(M(1)) /\ \A j \in 1..(n - 1) : M(j + 1) = NextMonth(M(j))
  BY <1>2 DEF Accepted
<1> HIDE DEF n, M
<1>4. Right(1)
  BY <1>2, <1>3, MonthFacts
<1>5. ASSUME NEW j \in 1..(n - 1), Right(j) PROVE Right(j + 1)
  <2>1. M(j) \in Nat /\ M(1) \in Nat /\ Ordinal(M(1)) \in Int
    BY <1>2, <1>3, MonthFacts
  <2>2. IsMonth(NextMonth(M(j))) /\ Ordinal(NextMonth(M(j))) = Ordinal(M(j)) + 1
    BY <1>5, <2>1, MonthFacts
  <2>3. IsMonth(M(j + 1)) /\ Ordinal(M(j + 1)) = Ordinal(M(j)) + 1
    BY <1>3, <2>2
  <2>4. j \in Int /\ Ordinal(M(j)) = Ordinal(M(1)) + (j - 1)
    BY <1>5
  <2>5. QED
    BY <2>1, <2>3, <2>4
<1>6. wrong = {}
  <2> SUFFICES ASSUME wrong # {} PROVE FALSE
    OBVIOUS
  <2>1. wrong \in SUBSET (1..n) /\ IsFiniteSet(1..n)
    BY <1>2, FS_Interval
  <2>2. wrong \in SUBSET Int /\ IsFiniteSet(wrong)
    <3>1. 1..n \in SUBSET Int
      BY <1>2
    <3> HIDE DEF wrong
    <3>2. QED
      BY <2>1, <3>1, FS_Subset
  <2>3. PICK j \in wrong : \A x \in wrong : j <= x
    BY <2>2, EndsFacts
  <2>4. j \in 1..n /\ ~Right(j) /\ j # 1
    BY <1>4, <2>3
  <2>5. j - 1 \in 1..(n - 1) /\ j - 1 \in 1..n /\ (j - 1) + 1 = j /\ j - 1 \notin wrong
    BY <1>2, <2>3, <2>4
  <2>6. Right(j - 1)
    BY <2>5
  <2>7. Right((j - 1) + 1)
    BY <1>5, <2>5, <2>6
  <2>8. QED
    BY <2>4, <2>5, <2>7
<1>7. i \in 1..n
  BY DEF n
<1>8. Right(i)
  BY <1>6, <1>7
<1>9. QED
  BY <1>8 DEF M

\* The months of a file that holds a whole period follow one another.
LEMMA WholeInARow ==
  ASSUME TypeOK, Len(file) = ReviewMonths,
         \A i, k \in 1..Len(file) : i # k => file[i].month # file[k].month,
         \A i \in 1..Len(file) : IsMonth(file[i].month),
         \A i, k \in 1..Len(file) : Ordinal(file[k].month) - Ordinal(file[i].month) < ReviewMonths
  PROVE  Accepted(file)
<1> DEFINE n == Len(file)
           M(j) == Sorted(file)[j].month
           ordinal == [j \in 1..n |-> Ordinal(M(j))]
<1>1. file \in Seq(Row)
  BY DEF TypeOK, Row
<1>2. n \in Nat /\ n # 0 /\ \A j \in 1..n : M(j) \in Nat
  BY <1>1, SortedFacts, FactsAssumption
<1>3. \A i, k \in 1..n : i < k => M(i) <= M(k)
  BY <1>1, SortedFacts
<1>4. PICK order \in [1..n -> 1..n] :
        /\ \A i \in 1..n : Sorted(file)[i] = file[order[i]]
        /\ \A i, k \in 1..n : i # k => order[i] # order[k]
  BY <1>1, SortedFacts
<1>5. \A i \in 1..n : order[i] \in 1..n /\ M(i) = file[order[i]].month
  BY <1>4
<1> HIDE DEF M
<1>6. \A i \in 1..n : IsMonth(M(i))
  BY <1>5
<1>7. \A i, k \in 1..n : Ordinal(M(k)) - Ordinal(M(i)) < n
  BY <1>5
<1>8. \A i, k \in 1..n : i # k => M(i) # M(k)
  BY <1>4, <1>5
<1> HIDE DEF n
<1>9. \A i \in 1..n : ordinal[i] = Ordinal(M(i)) /\ ordinal[i] \in Int
  <2> SUFFICES ASSUME NEW i \in 1..n PROVE ordinal[i] = Ordinal(M(i)) /\ ordinal[i] \in Int
    OBVIOUS
  <2>1. M(i) \in Nat /\ IsMonth(M(i))
    BY <1>2, <1>6
  <2>2. Ordinal(M(i)) \in Int
    BY <2>1, MonthFacts
  <2>3. QED
    BY <2>2
<1> HIDE DEF ordinal
<1>10. ASSUME NEW i \in 1..(n - 1) PROVE ordinal[i] < ordinal[i + 1]
  <2>1. i \in 1..n /\ i + 1 \in 1..n /\ i < i + 1
    BY <1>2
  <2>2. M(i) \in Nat /\ M(i + 1) \in Nat
    BY <1>2, <2>1
  <2>3. M(i) <= M(i + 1)
    BY <1>3, <2>1
  <2>4. M(i) # M(i + 1)
    BY <1>8, <2>1
  <2>5. M(i) < M(i + 1)
    BY <2>2, <2>3, <2>4
  <2>6. IsMonth(M(i)) /\ IsMonth(M(i + 1))
    BY <1>6, <2>1
  <2>7. Ordinal(M(i)) < Ordinal(M(i + 1))
    BY <2>2, <2>5, <2>6, MonthFacts
  <2>8. QED
    BY <1>9, <2>1, <2>7
<1>11. \A i \in 1..n : \A k \in i..n : ordinal[k] - ordinal[i] >= k - i
  BY <1>2, <1>9, <1>10, GrowsWithPlace
<1>12. ASSUME NEW i \in 1..(n - 1) PROVE M(i + 1) = NextMonth(M(i))
  <2>1. i \in 1..n /\ i + 1 \in 1..n /\ 1 \in 1..n /\ n \in 1..n /\ i \in 1..i /\ n \in (i + 1)..n
    BY <1>2
  <2>2. i \in 1..n /\ ordinal[i] - ordinal[1] >= i - 1
    BY <1>11, <2>1
  <2>i. i \in Int /\ n \in Int
    BY <1>2
  <2>3. ordinal[n] - ordinal[i + 1] >= n - (i + 1)
    BY <1>11, <2>1
  <2>4. ordinal[n] - ordinal[1] < n
    BY <1>7, <1>9, <2>1
  <2>5. /\ ordinal[i] < ordinal[i + 1]
        /\ ordinal[1] \in Int /\ ordinal[n] \in Int /\ ordinal[i] \in Int /\ ordinal[i + 1] \in Int
    BY <1>9, <1>10, <2>1
  <2>s. \A a, b, c, d \in Int :
          b - a >= i - 1 /\ d - c >= n - (i + 1) /\ d - a < n /\ b < c => c = b + 1
    BY <2>i
  <2>6. ordinal[i + 1] = ordinal[i] + 1
    BY <2>s, <2>2, <2>3, <2>4, <2>5
  <2>7. Ordinal(M(i + 1)) = Ordinal(M(i)) + 1
    BY <1>9, <2>1, <2>6
  <2>8. QED
    BY <1>2, <1>6, <2>1, <2>7, MonthFacts
<1>13. IsMonth(M(1))
  BY <1>2, <1>6
<1>14. QED
  BY <1>12, <1>13 DEF Accepted, M, n

\* The loader takes exactly the files that hold each month of a whole period once.
THEOREM WholePeriodsTaken == Spec => []LoaderTakesWholePeriods
<1> DEFINE n == Len(file)
           Whole == /\ n = ReviewMonths
                    /\ \A i, k \in 1..n : i # k => file[i].month # file[k].month
                    /\ \A i \in 1..n : IsMonth(file[i].month)
                    /\ \A i, k \in 1..n : Ordinal(file[k].month) - Ordinal(file[i].month) < ReviewMonths
<1>1. ASSUME TypeOK, Accepted(file) PROVE Whole
  <2> DEFINE M(j) == Sorted(file)[j].month
  <2>1. n = ReviewMonths /\ file \in Seq(Row)
    BY <1>1 DEF Accepted, TypeOK, Row
  <2>2. n \in Nat /\ n # 0 /\ \A j \in 1..n : M(j) \in Nat
    BY <2>1, SortedFacts, FactsAssumption
  <2>3. PICK order \in [1..n -> 1..n] :
          /\ \A i \in 1..n : Sorted(file)[i] = file[order[i]]
          /\ \A k \in 1..n : \E i \in 1..n : order[i] = k
    BY <2>1, SortedFacts
  <2>4. \A i \in 1..n : IsMonth(M(i)) /\ Ordinal(M(i)) = Ordinal(M(1)) + (i - 1)
    BY <1>1, AcceptedInARow
  <2>5. \A i \in 1..n : file[order[i]].month = M(i)
    BY <2>3
  <2> HIDE DEF n, M
  <2>6. Ordinal(M(1)) \in Int
    BY <2>2, <2>4, MonthFacts
  <2>7. ASSUME NEW i \in 1..n, NEW k \in 1..n
        PROVE  /\ IsMonth(file[i].month)
               /\ i # k => file[i].month # file[k].month
               /\ Ordinal(file[k].month) - Ordinal(file[i].month) < n
    <3>1. PICK a \in 1..n, b \in 1..n : order[a] = i /\ order[b] = k
      BY <2>3
    <3>2. file[i].month = M(a) /\ file[k].month = M(b)
      BY <2>5, <3>1
    <3>3. IsMonth(M(a)) /\ Ordinal(M(a)) = Ordinal(M(1)) + (a - 1) /\ Ordinal(M(b)) = Ordinal(M(1)) + (b - 1)
      BY <2>4
    <3>4. i # k => a # b
      BY <3>1
    <3>5. a \in Int /\ b \in Int /\ b - a < n
      BY <2>2
    <3>6. i # k => M(a) # M(b)
      BY <2>6, <3>3, <3>4, <3>5
    <3>7. Ordinal(M(b)) - Ordinal(M(a)) < n
      BY <2>2, <2>6, <3>3, <3>5
    <3>8. QED
      BY <3>2, <3>3, <3>6, <3>7
  <2>8. QED
    BY <2>1, <2>7
<1>2. TypeOK /\ Whole => Accepted(file)
  BY WholeInARow
<1>3. TypeOK => LoaderTakesWholePeriods
  BY <1>1, <1>2 DEF LoaderTakesWholePeriods
<1>4. QED
  BY <1>3, TypeCorrect, PTL

-----------------------------------------------------------------------------
(* The inactive period *)

\* Where the months without transactions before a month begin.
LEMMA ZeroStartFacts ==
  ASSUME NEW months \in Seq(Figures), NEW i \in 1..Len(months)
  PROVE  /\ ZeroStart(months, i) \in 1..i
         /\ \A k \in ZeroStart(months, i)..(i - 1) : months[k].count = 0
         /\ \A s \in 1..i : (\A k \in s..(i - 1) : months[k].count = 0) => ZeroStart(months, i) <= s
<1> DEFINE starts == {s \in 1..i : \A k \in s..(i - 1) : months[k].count = 0}
<1>1. i \in Int /\ 1..i \in SUBSET Int /\ IsFiniteSet(1..i)
  BY FS_Interval
<1>2. starts \in SUBSET (1..i) /\ i \in starts
  OBVIOUS
<1>3. ZeroStart(months, i) = Min(starts)
  BY DEF ZeroStart
<1>4. starts \in SUBSET Int /\ IsFiniteSet(starts) /\ starts # {}
  <2> HIDE DEF starts
  <2>1. QED
    BY <1>1, <1>2, FS_Subset
<1>5. Min(starts) \in starts /\ \A s \in starts : Min(starts) <= s
  <2> HIDE DEF starts
  <2>1. QED
    BY <1>4, EndsFacts
<1>6. QED
  BY <1>2, <1>3, <1>5

\* The search that goes back from the last month finds the latest inactive period, and
\* all of it; when it finds none there is none.
LEMMA RunFacts ==
  ASSUME NEW months \in Seq(Figures)
  PROVE  LET run == FindInactivityRun(months)
             Quiet(from, to) == \A k \in from..to : months[k].count = 0
             Ends(from, i) == i - from >= MinZeroMonths /\ Quiet(from, i - 1) /\ months[i].count > 0
         IN  IF run = NoRun
             THEN \A i \in 2..Len(months), from \in 1..Len(months) : from < i => ~Ends(from, i)
             ELSE /\ Ends(run.start, run.active)
                  /\ run.start = 1 \/ months[run.start - 1].count > 0
                  /\ \A i \in (run.active + 1)..Len(months), from \in 1..Len(months) :
                       from < i => ~Ends(from, i)
<1> DEFINE n == Len(months)
           run == FindInactivityRun(months)
           Quiet(from, to) == \A k \in from..to : months[k].count = 0
           Ends(from, i) == i - from >= MinZeroMonths /\ Quiet(from, i - 1) /\ months[i].count > 0
<1>1. n \in Nat /\ MinZeroMonths \in Nat /\ \A i \in 1..n : months[i].count \in Nat
  <2>1. n \in Nat /\ MinZeroMonths \in Nat
    BY FactsAssumption
  <2>2. \A i \in 1..n : months[i].count \in Nat
    BY FigureFacts
  <2>3. QED
    BY <2>1, <2>2
<1>2. ASSUME NEW i \in 2..n, NEW from \in 1..n, from < i, Ends(from, i)
      PROVE  i \in Resumes(months)
  <2>1. i \in 1..n /\ from \in 1..i /\ \A k \in from..(i - 1) : months[k].count = 0
    BY <1>1, <1>2
  <2>2. ZeroStart(months, i) \in 1..i /\ ZeroStart(months, i) <= from
    BY <2>1, ZeroStartFacts
  <2>3. i - ZeroStart(months, i) >= MinZeroMonths
    BY <1>1, <1>2, <2>2
  <2>4. QED
    BY <1>2, <2>3 DEF Resumes
<1>3. ASSUME NEW i \in Resumes(months)
      PROVE  /\ i \in 2..n /\ i \in 1..n
             /\ ZeroStart(months, i) \in 1..i /\ Ends(ZeroStart(months, i), i)
             /\ ZeroStart(months, i) = 1 \/ months[ZeroStart(months, i) - 1].count > 0
  <2>1. i \in 2..n /\ i \in 1..n /\ months[i].count > 0 /\ i - ZeroStart(months, i) >= MinZeroMonths
    BY <1>1 DEF Resumes
  <2>2. /\ ZeroStart(months, i) \in 1..i
        /\ \A k \in ZeroStart(months, i)..(i - 1) : months[k].count = 0
        /\ \A s \in 1..i : (\A k \in s..(i - 1) : months[k].count = 0) => ZeroStart(months, i) <= s
    BY <2>1, ZeroStartFacts
  <2>3. ASSUME ZeroStart(months, i) # 1 PROVE months[ZeroStart(months, i) - 1].count > 0
    <3> DEFINE z == ZeroStart(months, i)
    <3>1. z - 1 \in 1..i /\ z - 1 \in 1..n /\ z \in 1..i
      BY <1>1, <2>1, <2>2, <2>3
    <3> HIDE DEF z
    <3>2. ~(z <= z - 1)
      BY <3>1
    <3>3. PICK k \in (z - 1)..(i - 1) : months[k].count # 0
      BY <2>2, <3>1, <3>2 DEF z
    <3>4. k = z - 1
      BY <2>2, <3>1, <3>3 DEF z
    <3>5. QED
      BY <1>1, <3>1, <3>3, <3>4 DEF z
  <2>4. QED
    BY <2>1, <2>2, <2>3
<1>4. CASE Resumes(months) = {}
  <2>1. run = NoRun
    BY <1>4 DEF FindInactivityRun
  <2>2. \A i \in 2..n, from \in 1..n : from < i => ~Ends(from, i)
    BY <1>2, <1>4
  <2>3. QED
    BY <2>1, <2>2
<1>5. CASE Resumes(months) # {}
  <2> DEFINE last == Max(Resumes(months))
  <2>1. Resumes(months) \in SUBSET (1..n) /\ IsFiniteSet(1..n) /\ 1..n \in SUBSET Int
    BY <1>1, <1>3, FS_Interval
  <2>2. Resumes(months) \in SUBSET Int /\ IsFiniteSet(Resumes(months))
    BY <2>1, FS_Subset
  <2>3. last \in Resumes(months) /\ \A i \in Resumes(months) : i <= last
    BY <1>5, <2>2, EndsFacts
  <2>4. run = Run(months, last)
    BY <1>5 DEF FindInactivityRun
  <2>5. run.start = ZeroStart(months, last) /\ run.active = last
    BY <2>4 DEF Run
  <2>6. /\ last \in 2..n /\ ZeroStart(months, last) \in 1..last
        /\ Ends(ZeroStart(months, last), last)
        /\ ZeroStart(months, last) = 1 \/ months[ZeroStart(months, last) - 1].count > 0
    BY <1>3, <2>3
  <2>7. run # NoRun
    BY <2>5, <2>6 DEF NoRun
  <2>8. ASSUME NEW i \in (last + 1)..n, NEW from \in 1..n, from < i, Ends(from, i)
        PROVE  FALSE
    <3>1. i \in 2..n /\ ~(i <= last)
      BY <1>1, <2>6
    <3>2. i \in Resumes(months)
      BY <1>2, <2>8, <3>1
    <3>3. QED
      BY <2>3, <3>1, <3>2
  <2> HIDE DEF last, run, Ends
  <2>9. QED
    BY <2>5, <2>6, <2>7, <2>8 DEF run, Ends
<1>6. QED
  BY <1>4, <1>5

\* The inactive period that the LLM and the reader are told of is the latest one, and
\* none is told of when there is none.
THEOREM LatestInactivityFound == Spec => []InactivityIsLatest
<1>1. TypeOK => InactivityIsLatest
  <2> SUFFICES ASSUME TypeOK PROVE InactivityIsLatest
    OBVIOUS
  <2>1. Figured(file) \in Seq(Figures)
    BY FiguredFacts DEF TypeOK, Row
  <2>2. QED
    BY <2>1, RunFacts DEF InactivityIsLatest
<1>2. QED
  BY <1>1, TypeCorrect, PTL

-----------------------------------------------------------------------------
(* The usual level *)

\* The middle value is a value, or the mean of the two in the middle, rounded: the lower
\* half of the values is not above it.
LEMMA MedianFacts ==
  ASSUME NEW S \in SUBSET Int, IsFiniteSet(S), Cardinality(S) >= 2,
         NEW value, \A i \in S : value[i] \in Int
  PROVE  LET order == InOrder(S, value)
             size == Cardinality(S)
             half == size \div 2
         IN  /\ Median(S, value) \in Int
             /\ \A n \in 1..(size - half) : value[order[n]] <= Median(S, value)
<1> DEFINE order == InOrder(S, value)
           size == Cardinality(S)
           half == size \div 2
           values == [n \in DOMAIN order |-> value[order[n]]]
<1>1. /\ size \in Nat /\ order \in [1..size -> S]
      /\ \A i, k \in 1..size : i < k => value[order[i]] <= value[order[k]]
  BY OrderFacts
<1>2. half \in Nat /\ half >= 1 /\ (size = 2 * half \/ size = 2 * half + 1)
  BY <1>1
<1>m. size % 2 = (IF size = 2 * half THEN 0 ELSE 1)
  BY <1>1
<1>3. Median(S, value) = Middle(values)
  BY DEF Median
<1> HIDE DEF order, size
<1>4. /\ DOMAIN order = 1..size /\ values = [n \in 1..size |-> value[order[n]]]
      /\ \A n \in 1..size : order[n] \in S /\ value[order[n]] \in Int
  BY <1>1
<1>5. Len(values) = size /\ \A n \in 1..size : values[n] = value[order[n]] /\ values[n] \in Int
  BY <1>1, <1>4
<1>6. \A i, k \in 1..size : i <= k => values[i] <= values[k]
  <2> SUFFICES ASSUME NEW i \in 1..size, NEW k \in 1..size, i <= k PROVE values[i] <= values[k]
    OBVIOUS
  <2>1. i = k \/ i < k
    OBVIOUS
  <2>2. QED
    BY <1>1, <1>5, <2>1
<1> HIDE DEF values, half
<1>7. CASE size = 2 * half + 1
  <2>1. Middle(values) = values[half + 1] /\ half + 1 \in 1..size /\ size - half = half + 1
    <3>1. half + 1 \in 1..size /\ size - half = half + 1 /\ size % 2 = 1
      BY <1>2, <1>m, <1>7
    <3>2. QED
      BY <1>5, <3>1 DEF Middle, half
  <2>2. ASSUME NEW n \in 1..(size - half) PROVE values[n] <= Middle(values)
    <3>1. n \in 1..size /\ n <= half + 1
      BY <1>2, <1>7
    <3>2. QED
      BY <1>6, <2>1, <3>1
  <2>3. \A n \in 1..(size - half) : n \in 1..size
    BY <1>1, <1>2
  <2>4. QED
    BY <1>3, <1>5, <2>1, <2>2, <2>3 DEF half, order, size
<1>8. CASE size = 2 * half
  <2>1. /\ half \in 1..size /\ half + 1 \in 1..size /\ size - half = half
        /\ Middle(values) = Rounded(values[half] + values[half + 1], 2)
    <3>1. half \in 1..size /\ half + 1 \in 1..size /\ size - half = half /\ size % 2 = 0
      BY <1>2, <1>m, <1>8
    <3>2. QED
      BY <1>5, <3>1 DEF Middle, half
  <2>2. values[half] \in Int /\ values[half + 1] \in Int /\ values[half] <= values[half + 1]
    BY <1>5, <1>6, <1>2, <2>1
  <2>3. \A a, b \in Int : a <= b => Rounded(a + b, 2) \in Int /\ a <= Rounded(a + b, 2)
    BY DEF Rounded
  <2>4. Middle(values) \in Int /\ values[half] <= Middle(values)
    BY <2>1, <2>2, <2>3
  <2>5. ASSUME NEW n \in 1..(size - half) PROVE n \in 1..size /\ values[n] <= Middle(values)
    <3>1. n \in 1..size /\ n <= half
      BY <1>2, <1>8
    <3>2. values[n] <= values[half] /\ values[n] \in Int
      BY <1>5, <1>6, <2>1, <3>1
    <3>3. QED
      BY <2>2, <2>4, <3>1, <3>2
  <2>6. QED
    BY <1>3, <1>5, <2>4, <2>5 DEF half, order, size
<1>9. QED
  BY <1>2, <1>7, <1>8

\* The months with transactions, and what their figures are.
LEMMA ActiveFacts ==
  ASSUME NEW months \in Seq(Figures)
  PROVE  /\ Active(months) \in SUBSET (1..Len(months)) /\ Active(months) \in SUBSET Int
         /\ IsFiniteSet(Active(months)) /\ Cardinality(Active(months)) \in Nat
<1>1. Len(months) \in Nat
  OBVIOUS
<1>2. IsFiniteSet(1..Len(months)) /\ 1..Len(months) \in SUBSET Int
  BY <1>1, FS_Interval
<1>3. Active(months) \in SUBSET (1..Len(months))
  BY DEF Active
<1>4. QED
  BY <1>2, <1>3, FS_Subset, FS_CardinalityType

\* With enough history the usual level is the median, an amount; otherwise there is none.
LEMMA UsualFacts ==
  ASSUME NEW months \in Seq(Figures),
         NEW value, \A i \in 1..Len(months) : value[i] \in Int
  PROVE  LET S == Active(months) IN
         /\ Cardinality(S) >= MinHistoryMonths =>
              /\ Usual(S, value) = {Median(S, value)} /\ Median(S, value) \in Int
              /\ Cardinality(S) >= 2
         /\ ~(Cardinality(S) >= MinHistoryMonths) => Usual(S, value) = NotEnoughHistory
<1> DEFINE S == Active(months)
<1>1. /\ S \in SUBSET (1..Len(months)) /\ S \in SUBSET Int
      /\ IsFiniteSet(S) /\ Cardinality(S) \in Nat
  BY ActiveFacts
<1> HIDE DEF S
<1>2. \A i \in S : value[i] \in Int
  BY <1>1
<1>3. ASSUME Cardinality(S) >= MinHistoryMonths
      PROVE  /\ Usual(S, value) = {Median(S, value)} /\ Median(S, value) \in Int
             /\ Cardinality(S) >= 2
  <2>1. Cardinality(S) >= 2 /\ ~(Cardinality(S) < MinHistoryMonths)
    BY <1>1, <1>3 DEF MinHistoryMonths
  <2>2. Median(S, value) \in Int
    BY <1>1, <1>2, <2>1, MedianFacts
  <2>3. QED
    BY <2>1, <2>2 DEF Usual
<1>4. ~(Cardinality(S) >= MinHistoryMonths) => Usual(S, value) = NotEnoughHistory
  BY <1>1 DEF Usual, MinHistoryMonths
<1>5. QED
  BY <1>3, <1>4 DEF S

\* The reason is real where a month with transactions has the largest amount.
LEMMA ReasonFacts ==
  ASSUME NEW months \in Seq(Figures),
         NEW i \in Active(months), months[i].largest = Top(months)
  PROVE  RealReason(months)
<1> DEFINE largest == [k \in 1..Len(months) |-> months[k].largest]
           usual == UsualLargest(months)
<1>1. i \in 1..Len(months) /\ months[i].count > 0 /\ months[i].largest \in Int
  BY FigureFacts DEF Active
<1>2. usual = Usual(Active(months), largest)
  BY DEF UsualLargest
<1>3. \A k \in 1..Len(months) : largest[k] \in Int
  BY FigureFacts
<1> HIDE DEF largest
<1>4. usual = {} \/ \E u \in Int : usual = {u}
  BY <1>2, <1>3, UsualFacts DEF NotEnoughHistory
<1>5. MinAmount \in Int /\ TimesUsual \in Int
  BY FactsAssumption
<1> HIDE DEF usual
<1>6. ASSUME UnusualNote(months) \in {"error", "under so many times the usual"}
      PROVE  \E u \in Int : usual = {u} /\ 10 * Top(months) < TimesUsual * u
  <2>1. UnusualMonths(months) = {} /\ ~(Top(months) < MinAmount)
    BY <1>6 DEF UnusualNote
  <2>2. months[i].largest >= MinAmount
    BY <1>1, <1>5, <2>1
  <2>3. PICK u \in usual : ~(10 * months[i].largest >= TimesUsual * u)
    BY <1>1, <2>1, <2>2 DEF UnusualMonths, usual
  <2>4. u \in Int /\ usual = {u}
    BY <1>4
  <2>5. 10 * months[i].largest \in Int /\ TimesUsual * u \in Int
    BY <1>1, <1>5, <2>4
  <2>6. 10 * months[i].largest < TimesUsual * u
    BY <2>3, <2>5
  <2>7. QED
    BY <2>4, <2>6
<1>7. UnusualNote(months) = "error" => usual = {}
  BY DEF UnusualNote, NotEnoughHistory, usual
<1>8. UnusualNote(months) # "error"
  BY <1>6, <1>7
<1>9. UnusualNote(months) = "under so many times the usual" =>
        \A u \in usual : 10 * Top(months) < TimesUsual * u
  BY <1>6
<1>10. QED
  BY <1>8, <1>9 DEF RealReason, usual

\* What the note says of finding no unusual transaction is so, whatever the loader lets
\* pass, where a month with transactions has the largest amount.
THEOREM ReasonIsReal == Spec => []UnusualReasonHolds
<1>1. ASSUME TypeOK PROVE UnusualReasonHolds
  <2>1. Figured(file) \in Seq(Figures)
    BY <1>1, FiguredFacts DEF TypeOK, Row
  <2>2. QED
    BY <2>1, ReasonFacts DEF UnusualReasonHolds
<1>2. QED
  BY <1>1, TypeCorrect, PTL

-----------------------------------------------------------------------------
(* What stands out *)

\* At least so many tenths, more than ten, of an amount is above it.
LEMMA TimesFacts ==
  ASSUME NEW factor \in Nat, factor > 10, NEW a \in Int, a > 0, NEW b \in Int,
         10 * a >= factor * b
  PROVE  a > b
<1>1. SUFFICES ASSUME a <= b PROVE FALSE
  OBVIOUS
<1>2. PICK more \in Nat : factor = 11 + more
  <2>1. factor - 11 \in Nat /\ factor = 11 + (factor - 11)
    OBVIOUS
  <2>2. QED
    BY <2>1
<1>3. b \in Nat
  BY <1>1
<1>4. more * b \in Nat /\ factor * b = 11 * b + more * b
  BY <1>2, <1>3
<1>5. QED
  BY <1>1, <1>4

\* At most half of the values are above the middle one.
LEMMA FewAboveMedian ==
  ASSUME NEW S \in SUBSET Int, IsFiniteSet(S), Cardinality(S) >= 2,
         NEW value, \A i \in S : value[i] \in Int,
         NEW T \in SUBSET S, \A i \in T : value[i] > Median(S, value)
  PROVE  2 * Cardinality(T) <= Cardinality(S)
<1> DEFINE order == InOrder(S, value)
           size == Cardinality(S)
           half == size \div 2
           places == {n \in 1..size : order[n] \in T}
           at == [n \in places |-> order[n]]
<1>1. /\ size \in Nat /\ order \in [1..size -> S]
      /\ \A s \in S : \E i \in 1..size : order[i] = s
  BY OrderFacts
<1>2. Median(S, value) \in Int /\ \A n \in 1..(size - half) : value[order[n]] <= Median(S, value)
  BY MedianFacts
<1>3. half \in Nat /\ 2 * half <= size /\ half <= size
  BY <1>1
<1> HIDE DEF order, size, half
<1>4. ASSUME NEW n \in 1..(size - half) PROVE order[n] \notin T
  <2>1. n \in 1..size /\ order[n] \in S
    BY <1>1, <1>3
  <2>2. value[order[n]] \in Int /\ value[order[n]] <= Median(S, value)
    BY <1>2, <2>1
  <2>3. ~(value[order[n]] > Median(S, value))
    BY <1>2, <2>2
  <2>4. QED
    BY <2>3
<1>5. places \in SUBSET ((size - half + 1)..size)
  <2> SUFFICES ASSUME NEW n \in places PROVE n \in (size - half + 1)..size
    OBVIOUS
  <2>1. n \in 1..size /\ n \notin 1..(size - half)
    BY <1>4
  <2>2. QED
    BY <1>1, <1>3, <2>1
<1>6. /\ IsFiniteSet((size - half + 1)..size)
      /\ Cardinality((size - half + 1)..size) = half
  <2>1. size - half + 1 \in Int /\ size \in Int
    BY <1>1, <1>3
  <2>2. (size - half + 1 > size) <=> (half = 0)
    BY <1>1, <1>3
  <2>3. size - (size - half + 1) + 1 = half
    BY <1>1, <1>3
  <2>4. QED
    BY <2>1, <2>2, <2>3, FS_Interval
<1> HIDE DEF places
<1>7. IsFiniteSet(places) /\ Cardinality(places) <= half /\ Cardinality(places) \in Nat
  BY <1>5, <1>6, FS_Subset, FS_CardinalityType
<1>8. at \in Surjection(places, T)
  <2>1. \A n \in places : order[n] \in T
    BY DEF places
  <2>2. \A i \in T : \E n \in places : order[n] = i
    BY <1>1 DEF places
  <2>3. QED
    BY <2>1, <2>2 DEF Surjection
<1>9. IsFiniteSet(T) /\ Cardinality(T) <= Cardinality(places) /\ Cardinality(T) \in Nat
  BY <1>7, <1>8, FS_Surjection, FS_CardinalityType
<1>10. QED
  BY <1>1, <1>3, <1>7, <1>9 DEF size

\* What the screening finds of the months of one account.
LEMMA StandOutFacts ==
  ASSUME NEW months \in Seq(Figures), Cardinality(Active(months)) >= MinHistoryMonths
  PROVE  LET active == Active(months)
             largest == [i \in 1..Len(months) |-> months[i].largest]
             total == [i \in 1..Len(months) |-> months[i].total]
             unusual == Above(UnusualMonths(months), largest, UsualLargest(months))
             layering == Above(LayeringMonths(months), total, UsualMonth(months))
         IN  /\ 2 * Cardinality(unusual) <= Cardinality(active)
             /\ 2 * Cardinality(layering \cap active) <= Cardinality(active)
             /\ TimesUsual > 10 => unusual = UnusualMonths(months)
             /\ TimesUsualMonth > 10 => \A i \in LayeringMonths(months) \ layering : total[i] <= 0
<1> DEFINE S == Active(months)
           largest == [i \in 1..Len(months) |-> months[i].largest]
           total == [i \in 1..Len(months) |-> months[i].total]
           unusual == Above(UnusualMonths(months), largest, UsualLargest(months))
           layering == Above(LayeringMonths(months), total, UsualMonth(months))
<1>1. S \in SUBSET (1..Len(months)) /\ S \in SUBSET Int /\ IsFiniteSet(S)
  BY ActiveFacts
<1>2. \A i \in 1..Len(months) :
        /\ largest[i] = months[i].largest /\ largest[i] \in Int
        /\ total[i] = months[i].total /\ total[i] \in Int
  BY FigureFacts
<1>3. UsualLargest(months) = Usual(S, largest) /\ UsualMonth(months) = Usual(S, total)
  BY DEF UsualLargest, UsualMonth
<1>4. UnusualMonths(months) \in SUBSET S
  BY DEF UnusualMonths, Active
<1> HIDE DEF largest, total
<1>5. /\ UsualLargest(months) = {Median(S, largest)} /\ Median(S, largest) \in Int
      /\ UsualMonth(months) = {Median(S, total)} /\ Median(S, total) \in Int
      /\ Cardinality(S) >= 2
  BY <1>2, <1>3, UsualFacts
<1> HIDE DEF S
<1>6. unusual = {i \in UnusualMonths(months) : largest[i] > Median(S, largest)}
  BY <1>5 DEF Above
<1>7. layering = {i \in LayeringMonths(months) : total[i] > Median(S, total)}
  BY <1>5 DEF Above
<1>8. \A i \in S : largest[i] \in Int /\ total[i] \in Int
  BY <1>1, <1>2
<1> HIDE DEF unusual, layering
<1>9. 2 * Cardinality(unusual) <= Cardinality(S)
  <2>1. unusual \in SUBSET S /\ \A i \in unusual : largest[i] > Median(S, largest)
    BY <1>4, <1>6
  <2>2. QED
    BY <1>1, <1>5, <1>8, <2>1, FewAboveMedian
<1>10. 2 * Cardinality(layering \cap S) <= Cardinality(S)
  <2>1. layering \cap S \in SUBSET S /\ \A i \in layering \cap S : total[i] > Median(S, total)
    BY <1>7
  <2>2. QED
    BY <1>1, <1>5, <1>8, <2>1, FewAboveMedian
<1>11. ASSUME TimesUsual > 10 PROVE unusual = UnusualMonths(months)
  <2>1. SUFFICES ASSUME NEW i \in UnusualMonths(months) PROVE largest[i] > Median(S, largest)
    BY <1>6
  <2>2. /\ i \in 1..Len(months) /\ months[i].largest >= MinAmount
        /\ 10 * months[i].largest >= TimesUsual * Median(S, largest)
    BY <1>5 DEF UnusualMonths
  <2>3. MinAmount \in Nat /\ MinAmount # 0 /\ TimesUsual \in Nat
    BY FactsAssumption
  <2>4. largest[i] \in Int /\ largest[i] > 0 /\ 10 * largest[i] >= TimesUsual * Median(S, largest)
    BY <1>2, <2>2, <2>3
  <2>5. QED
    BY <1>5, <1>11, <2>3, <2>4, TimesFacts
<1>12. ASSUME TimesUsualMonth > 10, NEW i \in LayeringMonths(months) \ layering
       PROVE  total[i] <= 0
  <2>1. i \in 1..Len(months) /\ 10 * months[i].total >= TimesUsualMonth * Median(S, total)
    BY <1>5 DEF LayeringMonths, FarAboveUsual
  <2>2. total[i] \in Int /\ 10 * total[i] >= TimesUsualMonth * Median(S, total)
    BY <1>2, <2>1
  <2>3. ~(total[i] > Median(S, total))
    BY <1>7, <1>12
  <2>4. TimesUsualMonth \in Nat
    BY FactsAssumption
  <2>5. total[i] > 0 => total[i] > Median(S, total)
    BY <1>5, <1>12, <2>2, <2>4, TimesFacts
  <2>6. QED
    BY <2>2, <2>3, <2>5
<1>13. QED
  BY <1>9, <1>10, <1>11, <1>12 DEF S, largest, total, unusual, layering

\* Of an account with enough history at most half of its months with transactions stand
\* out, whatever the settings and the amounts; with factors above one that is all that
\* is found, but for layering months without a total.
THEOREM FewStandOut == Spec => []OnlySomeStandOut
<1>1. ASSUME TypeOK PROVE OnlySomeStandOut
  <2>1. Figured(file) \in Seq(Figures)
    BY <1>1, FiguredFacts DEF TypeOK, Row
  <2>2. QED
    BY <2>1, StandOutFacts DEF OnlySomeStandOut
<1>2. QED
  BY <1>1, TypeCorrect, PTL

-----------------------------------------------------------------------------
(* Bursts and gaps *)

\* The numbers the note lists may all be quoted.
LEMMA ListedAllowed ==
  ASSUME NEW rows \in Seq(Row)
  PROVE  ListedNumbers(rows) \subseteq AllowedNumbers(rows)
<1> DEFINE n == Len(rows)
           months == Figured(rows)
           month(i) == 100 * Sorted(rows)[i].month
<1>1. PICK order \in [1..n -> 1..n] : \A i \in 1..n : Sorted(rows)[i] = rows[order[i]]
  BY SortedFacts
<1>2. Len(months) = n /\ \A i \in 1..n : months[i] = Sorted(rows)[i].figures /\ months[i] \in Figures
  BY FiguredFacts
<1>3. \A i \in 1..n : months[i].gap \in Int
  <2>1. \A f \in Figures : f.gap \in Int
    BY FactsAssumption
  <2>2. QED
    BY <1>2, <2>1
<1>4. ASSUME NEW k \in 1..n, NEW x, x \in {100 * rows[k].month} \cup Roundings(rows[k].figures.share, 1)
                                        \cup Roundings(rows[k].figures.gap, 1)
      PROVE  x \in AllowedNumbers(rows)
  BY <1>4 DEF AllowedNumbers
<1> HIDE DEF n, months
<1>5. ASSUME NEW i \in 1..n
      PROVE  /\ month(i) \in AllowedNumbers(rows)
             /\ 10 * BurstShare(months[i]) \in AllowedNumbers(rows)
             /\ months[i].gap \in AllowedNumbers(rows)
  <2>1. /\ order[i] \in 1..n /\ month(i) = 100 * rows[order[i]].month
        /\ months[i] = rows[order[i]].figures
    BY <1>1, <1>2
  <2>2. 10 * BurstShare(months[i]) \in Roundings(months[i].share, 1)
    BY DEF BurstShare, Roundings
  <2>3. \A g \in Int : Rounded(g, 1) = g
    BY DEF Rounded
  <2>4. months[i].gap \in Roundings(months[i].gap, 1)
    BY <1>3, <2>3 DEF Roundings
  <2>5. QED
    BY <1>4, <2>1, <2>2, <2>4
<1>6. BurstMonths(months) \subseteq 1..n /\ LongGapMonths(months) \subseteq 1..n
  BY <1>2 DEF BurstMonths, LongGapMonths
<1>7. ListedNumbers(rows) =
        UNION ({{month(i), 10 * BurstShare(months[i])} : i \in BurstMonths(months)}
                 \cup {{month(i), months[i].gap} : i \in LongGapMonths(months)})
  BY DEF ListedNumbers, months
<1>8. QED
  BY <1>5, <1>6, <1>7

\* Nothing is found wrong with an answer about bursts and gaps that does what the note
\* tells it.
THEOREM ObedienceIsClean == Spec => []ObedientAnswerIsClean
<1>1. ASSUME TypeOK, NEW a \in Answers(Figured(file)), FollowsNote(Figured(file), a)
      PROVE  LET says == IF BurstMonths(Figured(file)) = {} THEN {"no burst"} ELSE {}
             IN  Issues(file, a, ListedNumbers(file), says) = {}
  <2> DEFINE months == Figured(file)
             says == IF BurstMonths(months) = {} THEN {"no burst"} ELSE {}
  <2>1. ListedNumbers(file) \subseteq AllowedNumbers(file)
    BY <1>1, ListedAllowed DEF TypeOK, Row
  <2>2. a.outcome = "pattern_found" => Fits(months, a)
    <3> SUFFICES ASSUME a.outcome = "pattern_found" PROVE Fits(months, a)
      OBVIOUS
    <3>1. a.months \subseteq 1..Len(months) /\ a.months # {}
      BY DEF Answers
    <3>2. \/ a.label = "burst" /\ \E i \in a.months : IsBurst(months[i])
          \/ a.label = "long_gap" /\ \E i \in a.months : IsLongGap(months[i])
      BY <1>1, <3>1 DEF FollowsNote
    <3>3. QED
      BY <3>1, <3>2 DEF Fits, BurstMonths, LongGapMonths
  <2>3. "even spacing" \notin says /\ ("no burst" \in says => BurstMonths(months) = {})
    OBVIOUS
  <2> HIDE DEF months, says
  <2>4. Issues(file, a, ListedNumbers(file), says) = {}
    BY <2>1, <2>2, <2>3 DEF Issues, months
  <2>5. QED
    BY <2>4 DEF months, says
<1>2. TypeOK => ObedientAnswerIsClean
  BY <1>1 DEF ObedientAnswerIsClean
<1>3. QED
  BY <1>2, TypeCorrect, PTL

-----------------------------------------------------------------------------
(* The versions of a profile *)

\* The versions are rows of customer_info.
VersionsOK == versions \in Seq(Version)

THEOREM ProfileTypeCorrect == ProfileSpec => []VersionsOK
<1>1. ProfileInit => VersionsOK
  BY DEF ProfileInit, VersionsOK
<1>2. VersionsOK /\ ReadVersion => VersionsOK'
  <2> SUFFICES ASSUME VersionsOK, ReadVersion PROVE VersionsOK'
    OBVIOUS
  <2>1. PICK v \in Version : versions' = Append(versions, v)
    BY DEF ReadVersion
  <2>2. QED
    BY <2>1, AppendProperties DEF VersionsOK
<1>u. VersionsOK /\ UNCHANGED versions => VersionsOK'
  BY DEF VersionsOK
<1>3. QED
  BY <1>1, <1>2, <1>u, PTL DEF ProfileSpec

\* The timeline holds the account's rows, and none is later than its last.
LEMMA TimelineFacts ==
  ASSUME NEW rows \in Seq(Version)
  PROVE  /\ Own(rows) = {} => Timeline(rows) = <<>>
         /\ Own(rows) # {} =>
              /\ Timeline(rows) # <<>>
              /\ \E last \in Own(rows) :
                   /\ Timeline(rows)[Len(Timeline(rows))] = rows[last]
                   /\ \A i \in Own(rows) : rows[i].from <= rows[last].from
<1> DEFINE S == Own(rows)
           key == [i \in S |-> rows[i].from]
           order == InOrder(S, key)
           size == Cardinality(S)
<1>1. /\ Len(rows) \in Nat /\ S \in SUBSET (1..Len(rows)) /\ S \in SUBSET Int
      /\ \A i \in S : rows[i].from \in Nat
  <2>1. Len(rows) \in Nat /\ S \in SUBSET (1..Len(rows)) /\ \A i \in S : rows[i].from # NoDate
    BY DEF Own
  <2>2. \A i \in S : rows[i] \in Version
    BY <2>1
  <2>3. \A v \in Version : v.from # NoDate => v.from \in Nat
    BY ProfileAssumption DEF Version
  <2> HIDE DEF S
  <2>4. QED
    BY <2>1, <2>2, <2>3
<1>2. IsFiniteSet(S)
  <2>1. IsFiniteSet(1..Len(rows))
    BY <1>1, FS_Interval
  <2>2. QED
    BY <1>1, <2>1, FS_Subset
<1>3. \A i \in S : key[i] = rows[i].from /\ key[i] \in Int
  BY <1>1
<1>4. Timeline(rows) = [n \in 1..size |-> rows[order[n]]]
  BY DEF Timeline
<1>5. size \in Nat /\ (size = 0 <=> S = {})
  BY <1>2, FS_CardinalityType, FS_EmptySet
<1> HIDE DEF key, S
<1>6. /\ order \in [1..size -> S]
      /\ \A i, k \in 1..size : i < k => order[i] # order[k] /\ key[order[i]] <= key[order[k]]
      /\ \A s \in S : \E i \in 1..size : order[i] = s
  BY <1>1, <1>2, <1>3, OrderFacts
<1> HIDE DEF order, size
<1>7. Len(Timeline(rows)) = size
  BY <1>4, <1>5
<1>8. CASE S = {}
  <2>1. Timeline(rows) = <<>>
    BY <1>4, <1>5, <1>8
  <2>2. QED
    BY <1>8, <2>1 DEF S
<1>9. CASE S # {}
  <2>1. size \in 1..size /\ Timeline(rows) # <<>>
    BY <1>5, <1>7, <1>9
  <2>2. Timeline(rows)[Len(Timeline(rows))] = rows[order[size]] /\ order[size] \in S
    BY <1>4, <1>6, <1>7, <2>1
  <2>3. ASSUME NEW i \in S PROVE rows[i].from <= rows[order[size]].from
    <3>1. PICK k \in 1..size : order[k] = i
      BY <1>6
    <3>2. k = size \/ k < size
      BY <1>5
    <3>3. key[i] <= key[order[size]]
      <4>1. CASE k = size
        BY <1>3, <2>2, <3>1, <4>1
      <4>2. CASE k < size
        BY <1>6, <2>1, <3>1, <4>2
      <4>3. QED
        BY <3>2, <4>1, <4>2
    <3>4. QED
      BY <1>3, <2>2, <3>3
  <2>4. QED
    BY <1>9, <2>1, <2>2, <2>3 DEF S
<1>10. QED
  BY <1>8, <1>9

\* The analysis reads one of the versions the folder page may filter by, however many
\* versions there are and in whatever order they stand, where one of the latest date spells
\* the account's number plainly.
THEOREM SameVersionRead == ProfileSpec => []SameVersion
<1>1. VersionsOK => SameVersion
  <2> SUFFICES ASSUME VersionsOK, Latest(versions) \cap Own(versions) # {}
               PROVE  Analysed(versions) # {} /\ Analysed(versions) \subseteq Filtered(versions)
    BY DEF SameVersion
  <2>1. versions \in Seq(Version)
    BY DEF VersionsOK
  <2>2. PICK top \in Latest(versions) \cap Own(versions) : TRUE
    OBVIOUS
  <2>3. PICK last \in Own(versions) :
          /\ Timeline(versions)[Len(Timeline(versions))] = versions[last]
          /\ \A i \in Own(versions) : versions[i].from <= versions[last].from
    BY <2>1, <2>2, TimelineFacts
  <2>4. Analysed(versions) = {versions[last].codes}
    BY <2>1, <2>2, <2>3, TimelineFacts DEF Analysed
  <2>5. last \in Latest(versions)
    <3> DEFINE cleaned == {i \in 1..Len(versions) : versions[i].acct # "other" /\ versions[i].from # NoDate}
    <3>1. last \in cleaned /\ top \in cleaned
      BY <2>2 DEF Own
    <3>2. \A i \in cleaned : versions[i].from \in Nat
      <4>1. \A i \in 1..Len(versions) : versions[i] \in Version
        BY <2>1
      <4>2. \A v \in Version : v.from # NoDate => v.from \in Nat
        BY ProfileAssumption DEF Version
      <4>3. QED
        BY <4>1, <4>2
    <3>3. \A k \in cleaned : versions[k].from <= versions[top].from
      BY <2>2 DEF Latest
    <3>4. versions[top].from <= versions[last].from
      BY <2>2, <2>3
    <3> HIDE DEF cleaned
    <3>5. \A k \in cleaned : versions[k].from <= versions[last].from
      BY <3>1, <3>2, <3>3, <3>4
    <3>6. QED
      BY <3>1, <3>5 DEF Latest, cleaned
  <2>6. QED
    BY <2>4, <2>5 DEF Filtered
<1>2. QED
  BY <1>1, ProfileTypeCorrect, PTL

-----------------------------------------------------------------------------
(* Induction *)

\* A set of numbers has a least one.
LEMMA Least ==
  ASSUME NEW S \in SUBSET Nat, S # {}
  PROVE  \E m \in S : \A k \in S : m <= k
<1> DEFINE less == {ss \in Nat \X Nat : ss[1] < ss[2]}
<1>1. OpToRel(<, Nat) = less
  BY DEF OpToRel
<1>2. IsWellFoundedOn(less, Nat)
  BY <1>1, NatLessThanWellFounded
<1>3. PICK m \in S : \A k \in S : <<k, m>> \notin less
  <2> HIDE DEF less
  <2>1. QED
    BY <1>2, WFMin
<1>4. \A k \in S : m <= k
  <2> SUFFICES ASSUME NEW k \in S PROVE m <= k
    OBVIOUS
  <2>1. <<k, m>> \in Nat \X Nat /\ ~(k < m)
    BY <1>3
  <2>2. QED
    BY <2>1
<1>5. QED
  BY <1>4

\* A set that holds 0, and of each number the next, holds them all.
LEMMA Induction ==
  ASSUME NEW n \in Nat, NEW S, 0 \in S, \A i \in 0..(n - 1) : i \in S => i + 1 \in S
  PROVE  \A i \in 0..n : i \in S
<1> DEFINE T == {i \in 0..n : i \notin S}
<1> SUFFICES ASSUME T # {} PROVE FALSE
  OBVIOUS
<1>1. PICK m \in T : \A k \in T : m <= k
  <2>1. T \in SUBSET Nat
    OBVIOUS
  <2> HIDE DEF T
  <2>2. QED
    BY <2>1, Least
<1>2. m \in 1..n /\ m - 1 \in 0..(n - 1) /\ m - 1 \notin T
  BY <1>1
<1>3. m - 1 \in S
  BY <1>2
<1>4. QED
  BY <1>1, <1>2, <1>3

\* What the decoder makes of a text is what it makes of each character in turn.
LEMMA ReadsFacts ==
  ASSUME NEW s \in Seq(Chars)
  PROVE  Reads(s) = [i \in 0..Len(s) |-> IF i = 0 THEN Begin ELSE Read(Reads(s)[i - 1], s[i])]
<1> DEFINE n == Len(s)
           FitsTo(f, m) == f = [i \in 0..m |-> IF i = 0 THEN Begin ELSE Read(f[i - 1], s[i])]
           S == {m \in 0..n : \E f : FitsTo(f, m)}
<1>1. n \in Nat
  OBVIOUS
<1>2. 0 \in S
  <2>1. FitsTo([i \in 0..0 |-> Begin], 0)
    OBVIOUS
  <2> HIDE DEF FitsTo
  <2>2. QED
    BY <1>1, <2>1
<1>3. \A m \in 0..(n - 1) : m \in S => m + 1 \in S
  <2> SUFFICES ASSUME NEW m \in 0..(n - 1), m \in S PROVE m + 1 \in S
    OBVIOUS
  <2>1. PICK f : FitsTo(f, m)
    OBVIOUS
  <2> DEFINE g == [i \in 0..(m + 1) |-> IF i <= m THEN f[i] ELSE Read(f[m], s[m + 1])]
  <2>2. FitsTo(g, m + 1)
    <3>1. ASSUME NEW i \in 0..(m + 1)
          PROVE g[i] = IF i = 0 THEN Begin ELSE Read(g[i - 1], s[i])
      BY <1>1, <2>1
    <3>2. QED
      BY <3>1
  <2> HIDE DEF FitsTo, g
  <2>3. QED
    BY <1>1, <2>2
<1>4. n \in S
  <2> HIDE DEF S, n
  <2>1. \A i \in 0..n : i \in S
    BY <1>1, <1>2, <1>3, Induction
  <2>2. QED
    BY <1>1, <2>1
<1>5. \E f : FitsTo(f, n)
  BY <1>4
<1>6. Reads(s) = CHOOSE f : FitsTo(f, n)
  BY DEF Reads
<1>7. FitsTo(Reads(s), n)
  <2> HIDE DEF FitsTo, n
  <2>1. QED
    BY <1>5, <1>6
<1>8. QED
  BY <1>7

-----------------------------------------------------------------------------
(* The decoder inside the object *)

Stands == {"value", "value or end", "key", "key or end", "in key", "key escaped", "colon",
           "string", "escaped", "number", "after"}

Openers == {"{", "["}

Braces == {"{"}

Words == Seq(Chars)

KeySets == SUBSET Words

Spans == Words \X Nat \X Nat

Records ==
  [at : Stands \cup {"end", "bad"}, open : Seq(Openers), keys : Seq(KeySets), word : Words, key : Words,
    from : Nat, members : Seq(Spans), pos : Nat]

\* What the decoder is while it reads the object that the text begins with.
Decoders ==
  {d \in Records :
     /\ d.at \in Stands
     /\ Len(d.open) \in Nat /\ Len(d.open) >= 1 /\ Len(d.keys) = Len(d.open)
     /\ d.open[1] \in Braces
     /\ d.at = "value or end" => Last(d.open) = "["
     /\ d.at \in {"key", "key or end", "in key", "key escaped", "colon"} => Last(d.open) = "{"
     /\ d.at \notin {"in key", "key escaped"} => d.word = <<>>}

Decoder(at, open, keys, word, key, from, members, pos) ==
  [at |-> at, open |-> open, keys |-> keys, word |-> word, key |-> key, from |-> from,
   members |-> members, pos |-> pos]

HasPlace(d) == "at" \in DOMAIN d

IsDecoder(d) == d = Decoder(d.at, d.open, d.keys, d.word, d.key, d.from, d.members, d.pos)

\* The parts that a decoder is made of.
LEMMA DecoderFields ==
  ASSUME NEW d, NEW at, NEW open, NEW keys, NEW word, NEW key, NEW from, NEW members, NEW pos,
         d = Decoder(at, open, keys, word, key, from, members, pos)
  PROVE  /\ IsDecoder(d) /\ HasPlace(d)
         /\ d.at = at /\ d.open = open /\ d.keys = keys /\ d.word = word /\ d.key = key
         /\ d.from = from /\ d.members = members /\ d.pos = pos
BY DEF IsDecoder, HasPlace, Decoder

\* The parts of a decoder that is built from another one.
LEMMA DecoderParts ==
  ASSUME NEW d, IsDecoder(d), NEW c, NEW at
  PROVE  /\ Moved(d) = Decoder(d.at, d.open, d.keys, d.word, d.key, d.from, d.members, d.pos + 1)
         /\ Goes(d, at) = Decoder(at, d.open, d.keys, d.word, d.key, d.from, d.members, d.pos)
         /\ Spells(d, at, c)
              = Decoder(at, d.open, d.keys, Append(d.word, c), d.key, d.from, d.members, d.pos)
         /\ Open(d, c)
              = Decoder(IF c = "{" THEN "key or end" ELSE "value or end", Append(d.open, c),
                        Append(d.keys, {}), d.word, d.key, d.from, d.members, d.pos)
         /\ Keep(d)
              = Decoder(d.at, d.open, d.keys, d.word, d.key, d.from,
                        IF Outermost(d) THEN Append(d.members, <<d.key, d.from, d.pos - 1>>) ELSE d.members,
                        d.pos)
         /\ Close(d)
              = Decoder(IF Outermost(d) THEN "end" ELSE "after", Front(d.open), Front(d.keys), d.word,
                        d.key, d.from, d.members, d.pos)
         /\ ValueBegins(d, at)
              = Decoder(at, d.open, d.keys, d.word, d.key, IF Outermost(d) THEN d.pos ELSE d.from,
                        d.members, d.pos)
         /\ KeyEnds(d)
              = Decoder(IF d.word \in Last(d.keys) THEN "bad" ELSE "colon", d.open,
                        Append(Front(d.keys), Last(d.keys) \cup {d.word}), <<>>,
                        IF Outermost(d) THEN d.word ELSE d.key, d.from, d.members, d.pos)
<1>1. d \in [at : {d.at}, open : {d.open}, keys : {d.keys}, word : {d.word}, key : {d.key},
            from : {d.from}, members : {d.members}, pos : {d.pos}]
  BY Zenon DEF IsDecoder, Decoder
<1>2. ASSUME NEW e, NEW xat, NEW xopen, NEW xkeys, NEW xword, NEW xkey, NEW xfrom, NEW xmembers, NEW xpos,
             e \in [at : {xat}, open : {xopen}, keys : {xkeys}, word : {xword}, key : {xkey},
                    from : {xfrom}, members : {xmembers}, pos : {xpos}]
      PROVE  e = Decoder(xat, xopen, xkeys, xword, xkey, xfrom, xmembers, xpos)
  BY <1>2, SMT DEF Decoder
<1>3. Moved(d) = Decoder(d.at, d.open, d.keys, d.word, d.key, d.from, d.members, d.pos + 1)
  <2>1. Moved(d) \in [at : {d.at}, open : {d.open}, keys : {d.keys}, word : {d.word}, key : {d.key},
                      from : {d.from}, members : {d.members}, pos : {d.pos + 1}]
    BY <1>1, Zenon DEF Moved
  <2>2. QED
    BY <1>2, <2>1
<1>4. Goes(d, at) = Decoder(at, d.open, d.keys, d.word, d.key, d.from, d.members, d.pos)
  <2>1. Goes(d, at) \in [at : {at}, open : {d.open}, keys : {d.keys}, word : {d.word}, key : {d.key},
                         from : {d.from}, members : {d.members}, pos : {d.pos}]
    BY <1>1, Zenon DEF Goes
  <2>2. QED
    BY <1>2, <2>1
<1>5. Spells(d, at, c) = Decoder(at, d.open, d.keys, Append(d.word, c), d.key, d.from, d.members, d.pos)
  <2> DEFINE word == Append(d.word, c)
  <2>1. Spells(d, at, c) \in [at : {at}, open : {d.open}, keys : {d.keys}, word : {word}, key : {d.key},
                              from : {d.from}, members : {d.members}, pos : {d.pos}]
    BY <1>1, Zenon DEF Spells
  <2> HIDE DEF word
  <2>2. Spells(d, at, c) = Decoder(at, d.open, d.keys, word, d.key, d.from, d.members, d.pos)
    BY <1>2, <2>1
  <2>3. QED
    BY <2>2 DEF word
<1>6. Open(d, c) = Decoder(IF c = "{" THEN "key or end" ELSE "value or end", Append(d.open, c),
                           Append(d.keys, {}), d.word, d.key, d.from, d.members, d.pos)
  <2> DEFINE stands == IF c = "{" THEN "key or end" ELSE "value or end"
             open == Append(d.open, c)
             keys == Append(d.keys, {})
  <2>1. Open(d, c) \in [at : {stands}, open : {open}, keys : {keys}, word : {d.word}, key : {d.key},
                        from : {d.from}, members : {d.members}, pos : {d.pos}]
    BY <1>1, Zenon DEF Open
  <2> HIDE DEF stands, open, keys
  <2>2. Open(d, c) = Decoder(stands, open, keys, d.word, d.key, d.from, d.members, d.pos)
    BY <1>2, <2>1
  <2>3. QED
    BY <2>2 DEF stands, open, keys
<1>7. Keep(d) = Decoder(d.at, d.open, d.keys, d.word, d.key, d.from,
                        IF Outermost(d) THEN Append(d.members, <<d.key, d.from, d.pos - 1>>) ELSE d.members,
                        d.pos)
  <2> DEFINE members == IF Outermost(d) THEN Append(d.members, <<d.key, d.from, d.pos - 1>>) ELSE d.members
  <2>1. Keep(d) \in [at : {d.at}, open : {d.open}, keys : {d.keys}, word : {d.word}, key : {d.key},
                     from : {d.from}, members : {members}, pos : {d.pos}]
    <3>1. CASE Outermost(d)
      BY <1>1, <3>1, Zenon DEF Keep
    <3>2. CASE ~Outermost(d)
      BY <1>1, <3>2, Zenon DEF Keep
    <3>3. QED
      BY <3>1, <3>2
  <2> HIDE DEF members
  <2>2. Keep(d) = Decoder(d.at, d.open, d.keys, d.word, d.key, d.from, members, d.pos)
    BY <1>2, <2>1
  <2>3. QED
    BY <2>2 DEF members
<1>8. Close(d) = Decoder(IF Outermost(d) THEN "end" ELSE "after", Front(d.open), Front(d.keys), d.word,
                         d.key, d.from, d.members, d.pos)
  <2>1. Close(d) \in [at : {IF Outermost(d) THEN "end" ELSE "after"}, open : {Front(d.open)},
                      keys : {Front(d.keys)}, word : {d.word}, key : {d.key}, from : {d.from},
                      members : {d.members}, pos : {d.pos}]
    BY <1>1, Zenon DEF Close
  <2>2. QED
    BY <1>2, <2>1
<1>9. ValueBegins(d, at) = Decoder(at, d.open, d.keys, d.word, d.key,
                                   IF Outermost(d) THEN d.pos ELSE d.from, d.members, d.pos)
  <2>1. ValueBegins(d, at) \in [at : {at}, open : {d.open}, keys : {d.keys}, word : {d.word}, key : {d.key},
                                from : {IF Outermost(d) THEN d.pos ELSE d.from}, members : {d.members},
                                pos : {d.pos}]
    BY <1>1, Zenon DEF ValueBegins
  <2>2. QED
    BY <1>2, <2>1
<1>10. KeyEnds(d) = Decoder(IF d.word \in Last(d.keys) THEN "bad" ELSE "colon", d.open,
                           Append(Front(d.keys), Last(d.keys) \cup {d.word}), <<>>,
                           IF Outermost(d) THEN d.word ELSE d.key, d.from, d.members, d.pos)
  <2> DEFINE stands == IF d.word \in Last(d.keys) THEN "bad" ELSE "colon"
             keys == Append(Front(d.keys), Last(d.keys) \cup {d.word})
             key == IF Outermost(d) THEN d.word ELSE d.key
  <2>1. KeyEnds(d) \in [at : {stands}, open : {d.open}, keys : {keys}, word : {<<>>}, key : {key},
                        from : {d.from}, members : {d.members}, pos : {d.pos}]
    BY <1>1, Zenon DEF KeyEnds
  <2> HIDE DEF stands, keys, key
  <2>2. KeyEnds(d) = Decoder(stands, d.open, keys, <<>>, key, d.from, d.members, d.pos)
    BY <1>2, <2>1
  <2>3. QED
    BY <2>2 DEF stands, keys, key
<1>11. QED
  BY <1>3, <1>4, <1>5, <1>6, <1>7, <1>8, <1>9, <1>10

\* The parts of a decoder in the object.
LEMMA DecoderType ==
  ASSUME NEW d \in Decoders
  PROVE  /\ IsDecoder(d) /\ HasPlace(d)
         /\ d.at \in Stands
         /\ d.open \in Seq(Openers) /\ Len(d.open) \in Nat /\ Len(d.open) >= 1 /\ d.open[1] \in Braces
         /\ d.keys \in Seq(KeySets) /\ Len(d.keys) = Len(d.open)
         /\ d.word \in Words /\ d.key \in Words
         /\ d.from \in Nat /\ d.pos \in Nat /\ d.members \in Seq(Spans)
         /\ d.at = "value or end" => Last(d.open) = "["
         /\ d.at \in {"key", "key or end", "in key", "key escaped", "colon"} => Last(d.open) = "{"
         /\ d.at \notin {"in key", "key escaped"} => d.word = <<>>
<1>1. d \in Records
  BY DEF Decoders
<1>2. IsDecoder(d)
  <2> DEFINE O == Seq(Openers)
             K == Seq(KeySets)
             W == Words
             M == Seq(Spans)
  <2>1. d \in [at : Stands \cup {"end", "bad"}, open : O, keys : K, word : W, key : W, from : Nat,
        members : M, pos : Nat]
    BY <1>1 DEF Records
  <2> HIDE DEF O, K, W, M
  <2>2. QED
    BY <2>1 DEF IsDecoder, Decoder
<1>3. /\ d.open \in Seq(Openers) /\ d.keys \in Seq(KeySets)
      /\ d.word \in Words /\ d.key \in Words
      /\ d.from \in Nat /\ d.pos \in Nat /\ d.members \in Seq(Spans)
  BY <1>1 DEF Records
<1>4. HasPlace(d)
  BY <1>2, DecoderFields DEF IsDecoder
<1>5. QED
  BY <1>2, <1>3, <1>4, Zenon DEF Decoders

\* A decoder in the object from its parts.
LEMMA MakeDecoder ==
  ASSUME NEW at \in Stands, NEW open \in Seq(Openers), NEW keys \in Seq(KeySets),
         NEW word \in Words, NEW key \in Words, NEW from \in Nat, NEW members \in Seq(Spans),
         NEW pos \in Nat,
         Len(open) \in Nat, Len(open) >= 1, open[1] \in Braces, Len(keys) = Len(open),
         at = "value or end" => Last(open) = "[",
         at \in {"key", "key or end", "in key", "key escaped", "colon"} => Last(open) = "{",
         at \notin {"in key", "key escaped"} => word = <<>>
  PROVE  Decoder(at, open, keys, word, key, from, members, pos) \in Decoders
<1> DEFINE d == Decoder(at, open, keys, word, key, from, members, pos)
<1>1. d \in Records
  BY Zenon DEF Records, Decoder
<1>2. d.at = at /\ d.open = open /\ d.keys = keys /\ d.word = word
  BY DEF Decoder
<1> HIDE DEF d
<1>3. d \in Decoders
  BY <1>1, <1>2, Zenon DEF Decoders
<1>4. QED
  BY <1>3 DEF d

\* The same, one character later.
Later(d, at) == Decoder(at, d.open, d.keys, d.word, d.key, d.from, d.members, d.pos + 1)

Kept(d) == IF Len(d.open) = 1 THEN Append(d.members, <<d.key, d.from, d.pos>>) ELSE d.members

\* What each character does where it may stand, and that it is an error elsewhere.
LEMMA ReadTable ==
  ASSUME NEW d \in Decoders, NEW c \in Chars
  PROVE  /\ d.at = "string" =>
                Read(d, c) =
                  Later(d, IF c = Quote THEN "after" ELSE IF c = Escape THEN "escaped" ELSE "string")
         /\ d.at = "escaped" =>
                Read(d, c) =
                  Later(d, IF c \in {Quote, Escape} THEN "string" ELSE "bad")
         /\ d.at = "in key" /\ c = Quote =>
                Read(d, c) =
                  Decoder(IF d.word \in Last(d.keys) THEN "bad" ELSE "colon", d.open,
                          Append(Front(d.keys), Last(d.keys) \cup {d.word}), <<>>,
                          IF Len(d.open) = 1 THEN d.word ELSE d.key, d.from, d.members, d.pos + 1)
         /\ d.at = "in key" /\ c # Quote =>
                Read(d, c) =
                  Decoder(IF c = Escape THEN "key escaped" ELSE "in key", d.open, d.keys, Append(d.word, c), d.key,
                          d.from, d.members, d.pos + 1)
         /\ d.at = "key escaped" =>
                Read(d, c) =
                  Decoder(IF c \in {Quote, Escape} THEN "in key" ELSE "bad", d.open, d.keys, Append(d.word, c), d.key,
                          d.from, d.members, d.pos + 1)
         /\ d.at = "colon" =>
                Read(d, c) =
                  Later(d, IF c = ":" THEN "value" ELSE "bad")
         /\ d.at \in {"value", "value or end"} /\ c = Quote =>
                Read(d, c) =
                  Decoder("string", d.open, d.keys, d.word, d.key, IF Len(d.open) = 1 THEN d.pos + 1 ELSE d.from,
                          d.members, d.pos + 1)
         /\ d.at \in {"value", "value or end"} /\ c \in Digits =>
                Read(d, c) =
                  Decoder("number", d.open, d.keys, d.word, d.key, IF Len(d.open) = 1 THEN d.pos + 1 ELSE d.from,
                          d.members, d.pos + 1)
         /\ d.at \in {"value", "value or end"} /\ c \in {"{", "["} =>
                Read(d, c) =
                  Decoder(IF c = "{" THEN "key or end" ELSE "value or end", Append(d.open, c),
                          Append(d.keys, {}), d.word, d.key, IF Len(d.open) = 1 THEN d.pos + 1 ELSE d.from,
                          d.members, d.pos + 1)
         /\ d.at = "value or end" /\ c = "]" =>
                Read(d, c) =
                  Decoder(IF Len(d.open) = 1 THEN "end" ELSE "after", Front(d.open), Front(d.keys), d.word,
                          d.key, d.from, d.members, d.pos + 1)
         /\ (d.at \in {"value", "value or end"} /\
            c \notin {Quote, "{", "["} \cup Digits /\ (d.at = "value or end" => c # "]")) =>
                Read(d, c) =
                  Later(d, "bad")
         /\ d.at \in {"key", "key or end"} /\ c = Quote =>
                Read(d, c) =
                  Later(d, "in key")
         /\ d.at = "key or end" /\ c = "}" =>
                Read(d, c) =
                  Decoder(IF Len(d.open) = 1 THEN "end" ELSE "after", Front(d.open), Front(d.keys), d.word,
                          d.key, d.from, d.members, d.pos + 1)
         /\ (d.at \in {"key", "key or end"} /\ c # Quote /\ (d.at = "key or end" => c # "}")) =>
                Read(d, c) =
                  Later(d, "bad")
         /\ d.at = "number" /\ c \in Digits =>
                Read(d, c) =
                  Later(d, "number")
         /\ d.at \in {"after", "number"} /\ c = "," =>
                Read(d, c) =
                  Decoder(IF Last(d.open) = "{" THEN "key" ELSE "value", d.open, d.keys, d.word, d.key, d.from,
                          Kept(d), d.pos + 1)
         /\ d.at \in {"after", "number"} /\ c = Closer[Last(d.open)] =>
                Read(d, c) =
                  Decoder(IF Len(d.open) = 1 THEN "end" ELSE "after", Front(d.open), Front(d.keys), d.word,
                          d.key, d.from, Kept(d), d.pos + 1)
         /\ (d.at \in {"after", "number"} /\ c \notin {",", Closer[Last(d.open)]} /\
            (d.at = "number" => c \notin Digits)) =>
                Read(d, c) =
                  Later(d, "bad")
<1> DEFINE m == Moved(d)
           p == d.pos + 1
<1>1. IsDecoder(d) /\ d.pos \in Nat
  BY DecoderType
<1>2. m = Later(d, d.at)
  BY <1>1, DecoderParts DEF Later
<1>3. /\ IsDecoder(m) /\ m.at = d.at /\ m.open = d.open /\ m.keys = d.keys /\ m.word = d.word
      /\ m.key = d.key /\ m.from = d.from /\ m.members = d.members /\ m.pos = p
  BY <1>2, DecoderFields DEF Later
<1>4. p - 1 = d.pos
  BY <1>1
<1> HIDE DEF m, p
<1>5. Last(d.open) \in Openers
  <2>1. d.open \in Seq(Openers) /\ Len(d.open) \in Nat /\ Len(d.open) >= 1
    BY DecoderType
  <2>2. d.open[Len(d.open)] \in Openers
    BY <2>1
  <2>3. QED
    BY <2>2 DEF Last
<1>6. Closer[Last(d.open)] \in {"}", "]"}
  BY <1>5 DEF Closer, Openers
<1>7. Keep(m) = Decoder(d.at, d.open, d.keys, d.word, d.key, d.from, Kept(d), p)
  <2>1. m.pos - 1 = d.pos
    BY <1>4, <1>3
  <2>2. Keep(m) = Decoder(m.at, m.open, m.keys, m.word, m.key, m.from,
                          IF Outermost(m) THEN Append(m.members, <<m.key, m.from, m.pos - 1>>) ELSE m.members,
                          m.pos)
    BY <1>3, DecoderParts
  <2>3. QED
    BY <1>3, <2>1, <2>2 DEF Outermost, Kept
<1>8. d.at = "string" =>
        Read(d, c) =
        Later(d, IF c = Quote THEN "after" ELSE IF c = Escape THEN "escaped" ELSE "string")
  <2> SUFFICES ASSUME d.at = "string"
               PROVE  Read(d, c) =
                      Later(d, IF c = Quote THEN "after" ELSE IF c = Escape THEN "escaped" ELSE "string")
    OBVIOUS
  <2>1. Read(d, c) = Goes(m, IF c = Quote THEN "after" ELSE IF c = Escape THEN "escaped" ELSE "string")
    BY DEF Read, m, Digits, Quote
  <2>2. QED
    BY <1>3, <2>1, DecoderParts DEF Later, p, Outermost
<1>9. d.at = "escaped" =>
        Read(d, c) =
        Later(d, IF c \in {Quote, Escape} THEN "string" ELSE "bad")
  <2> SUFFICES ASSUME d.at = "escaped"
               PROVE  Read(d, c) =
                      Later(d, IF c \in {Quote, Escape} THEN "string" ELSE "bad")
    OBVIOUS
  <2>1. Read(d, c) = Goes(m, IF c \in {Quote, Escape} THEN "string" ELSE "bad")
    BY DEF Read, m, Digits, Quote
  <2>2. QED
    BY <1>3, <2>1, DecoderParts DEF Later, p, Outermost
<1>10. d.at = "in key" /\ c = Quote =>
        Read(d, c) =
        Decoder(IF d.word \in Last(d.keys) THEN "bad" ELSE "colon", d.open,
                Append(Front(d.keys), Last(d.keys) \cup {d.word}), <<>>,
                IF Len(d.open) = 1 THEN d.word ELSE d.key, d.from, d.members, p)
  <2> SUFFICES ASSUME d.at = "in key" /\ c = Quote
               PROVE  Read(d, c) =
                      Decoder(IF d.word \in Last(d.keys) THEN "bad" ELSE "colon", d.open,
                Append(Front(d.keys), Last(d.keys) \cup {d.word}), <<>>,
                IF Len(d.open) = 1 THEN d.word ELSE d.key, d.from, d.members, p)
    OBVIOUS
  <2>1. Read(d, c) = KeyEnds(m)
    BY DEF Read, m, Digits, Quote
  <2>2. QED
    BY <1>3, <2>1, DecoderParts DEF Later, p, Outermost
<1>11. d.at = "in key" /\ c # Quote =>
        Read(d, c) =
        Decoder(IF c = Escape THEN "key escaped" ELSE "in key", d.open, d.keys, Append(d.word, c), d.key,
                d.from, d.members, p)
  <2> SUFFICES ASSUME d.at = "in key" /\ c # Quote
               PROVE  Read(d, c) =
                      Decoder(IF c = Escape THEN "key escaped" ELSE "in key", d.open, d.keys,
                        Append(d.word, c), d.key,
                d.from, d.members, p)
    OBVIOUS
  <2>1. Read(d, c) = Spells(m, IF c = Escape THEN "key escaped" ELSE "in key", c)
    BY DEF Read, m, Digits, Quote
  <2> DEFINE x == IF c = Escape THEN "key escaped" ELSE "in key"
  <2>2. Spells(m, x, c) = Decoder(x, m.open, m.keys, Append(m.word, c), m.key, m.from, m.members, m.pos)
    <3> HIDE DEF x
    <3>1. QED
      BY <1>3, DecoderParts
  <2>3. Spells(m, x, c) = Decoder(x, d.open, d.keys, Append(d.word, c), d.key, d.from, d.members, p)
    <3> HIDE DEF x
    <3>1. QED
      BY <1>3, <2>2
  <2>4. QED
    BY <2>1, <2>3, Zenon
<1>12. d.at = "key escaped" =>
        Read(d, c) =
        Decoder(IF c \in {Quote, Escape} THEN "in key" ELSE "bad", d.open, d.keys, Append(d.word, c), d.key,
                d.from, d.members, p)
  <2> SUFFICES ASSUME d.at = "key escaped"
               PROVE  Read(d, c) =
                      Decoder(IF c \in {Quote, Escape} THEN "in key" ELSE "bad", d.open, d.keys,
                        Append(d.word, c), d.key,
                d.from, d.members, p)
    OBVIOUS
  <2>1. Read(d, c) = Spells(m, IF c \in {Quote, Escape} THEN "in key" ELSE "bad", c)
    BY DEF Read, m, Digits, Quote
  <2> DEFINE x == IF c \in {Quote, Escape} THEN "in key" ELSE "bad"
  <2>2. Spells(m, x, c) = Decoder(x, m.open, m.keys, Append(m.word, c), m.key, m.from, m.members, m.pos)
    <3> HIDE DEF x
    <3>1. QED
      BY <1>3, DecoderParts
  <2>3. Spells(m, x, c) = Decoder(x, d.open, d.keys, Append(d.word, c), d.key, d.from, d.members, p)
    <3> HIDE DEF x
    <3>1. QED
      BY <1>3, <2>2
  <2>4. QED
    BY <2>1, <2>3, Zenon
<1>13. d.at = "colon" =>
        Read(d, c) =
        Later(d, IF c = ":" THEN "value" ELSE "bad")
  <2> SUFFICES ASSUME d.at = "colon"
               PROVE  Read(d, c) =
                      Later(d, IF c = ":" THEN "value" ELSE "bad")
    OBVIOUS
  <2>1. Read(d, c) = Goes(m, IF c = ":" THEN "value" ELSE "bad")
    BY DEF Read, m, Digits, Quote
  <2>2. QED
    BY <1>3, <2>1, DecoderParts DEF Later, p, Outermost
<1>14. d.at \in {"value", "value or end"} /\ c = Quote =>
        Read(d, c) =
        Decoder("string", d.open, d.keys, d.word, d.key, IF Len(d.open) = 1 THEN p ELSE d.from,
                d.members, p)
  <2> SUFFICES ASSUME d.at \in {"value", "value or end"} /\ c = Quote
               PROVE  Read(d, c) =
                      Decoder("string", d.open, d.keys, d.word, d.key, IF Len(d.open) = 1 THEN p ELSE d.from,
                d.members, p)
    OBVIOUS
  <2>1. Read(d, c) = ValueBegins(m, "string")
    BY DEF Read, m, Digits, Quote
  <2>2. QED
    BY <1>3, <2>1, DecoderParts DEF Later, p, Outermost
<1>15. d.at \in {"value", "value or end"} /\ c \in Digits =>
        Read(d, c) =
        Decoder("number", d.open, d.keys, d.word, d.key, IF Len(d.open) = 1 THEN p ELSE d.from,
                d.members, p)
  <2> SUFFICES ASSUME d.at \in {"value", "value or end"} /\ c \in Digits
               PROVE  Read(d, c) =
                      Decoder("number", d.open, d.keys, d.word, d.key, IF Len(d.open) = 1 THEN p ELSE d.from,
                d.members, p)
    OBVIOUS
  <2>1. Read(d, c) = ValueBegins(m, "number")
    BY DEF Read, m, Digits, Quote
  <2>2. QED
    BY <1>3, <2>1, DecoderParts DEF Later, p, Outermost
<1>16. d.at \in {"value", "value or end"} /\ c \in {"{", "["} =>
        Read(d, c) =
        Decoder(IF c = "{" THEN "key or end" ELSE "value or end", Append(d.open, c),
                Append(d.keys, {}), d.word, d.key, IF Len(d.open) = 1 THEN p ELSE d.from,
                d.members, p)
  <2> SUFFICES ASSUME d.at \in {"value", "value or end"} /\ c \in {"{", "["}
               PROVE  Read(d, c) =
                      Decoder(IF c = "{" THEN "key or end" ELSE "value or end", Append(d.open, c),
                Append(d.keys, {}), d.word, d.key, IF Len(d.open) = 1 THEN p ELSE d.from,
                d.members, p)
    OBVIOUS
  <2>1. Read(d, c) = Open(ValueBegins(m, "value"), c)
    BY DEF Read, m, Digits, Quote
  <2> DEFINE b == ValueBegins(m, "value")
             from == IF Len(d.open) = 1 THEN p ELSE d.from
  <2>2. b = Decoder("value", d.open, d.keys, d.word, d.key, from, d.members, p)
    BY <1>3, DecoderParts DEF Outermost
  <2> HIDE DEF b, from
  <2>3. /\ IsDecoder(b) /\ b.open = d.open /\ b.keys = d.keys /\ b.word = d.word /\ b.key = d.key
        /\ b.from = from /\ b.members = d.members /\ b.pos = p
    BY ONLY <2>2, DecoderFields
  <2>4. Open(b, c) = Decoder(IF c = "{" THEN "key or end" ELSE "value or end", Append(b.open, c),
                             Append(b.keys, {}), b.word, b.key, b.from, b.members, b.pos)
    BY <2>3, DecoderParts
  <2>5. QED
    BY <2>1, <2>3, <2>4 DEF b, from
<1>17. d.at = "value or end" /\ c = "]" =>
        Read(d, c) =
        Decoder(IF Len(d.open) = 1 THEN "end" ELSE "after", Front(d.open), Front(d.keys), d.word,
                d.key, d.from, d.members, p)
  <2> SUFFICES ASSUME d.at = "value or end" /\ c = "]"
               PROVE  Read(d, c) =
                      Decoder(IF Len(d.open) = 1 THEN "end" ELSE "after", Front(d.open), Front(d.keys), d.word,
                d.key, d.from, d.members, p)
    OBVIOUS
  <2>1. Read(d, c) = Close(m)
    BY DEF Read, m, Digits, Quote
  <2>2. QED
    BY <1>3, <2>1, DecoderParts DEF Later, p, Outermost
<1>18. (d.at \in {"value", "value or end"} /\
       c \notin {Quote, "{", "["} \cup Digits /\ (d.at = "value or end" => c # "]")) =>
        Read(d, c) =
        Later(d, "bad")
  <2> SUFFICES ASSUME d.at \in {"value", "value or end"} /\
      c \notin {Quote, "{", "["} \cup Digits /\ (d.at = "value or end" => c # "]")
               PROVE  Read(d, c) =
                      Later(d, "bad")
    OBVIOUS
  <2>1. Read(d, c) = Goes(m, "bad")
    BY DEF Read, m, Digits, Quote
  <2>2. QED
    BY <1>3, <2>1, DecoderParts DEF Later, p, Outermost
<1>19. d.at \in {"key", "key or end"} /\ c = Quote =>
        Read(d, c) =
        Later(d, "in key")
  <2> SUFFICES ASSUME d.at \in {"key", "key or end"} /\ c = Quote
               PROVE  Read(d, c) =
                      Later(d, "in key")
    OBVIOUS
  <2>1. Read(d, c) = Goes(m, "in key")
    BY DEF Read, m, Digits, Quote
  <2>2. QED
    BY <1>3, <2>1, DecoderParts DEF Later, p, Outermost
<1>20. d.at = "key or end" /\ c = "}" =>
        Read(d, c) =
        Decoder(IF Len(d.open) = 1 THEN "end" ELSE "after", Front(d.open), Front(d.keys), d.word,
                d.key, d.from, d.members, p)
  <2> SUFFICES ASSUME d.at = "key or end" /\ c = "}"
               PROVE  Read(d, c) =
                      Decoder(IF Len(d.open) = 1 THEN "end" ELSE "after", Front(d.open), Front(d.keys), d.word,
                d.key, d.from, d.members, p)
    OBVIOUS
  <2>1. Read(d, c) = Close(m)
    BY DEF Read, m, Digits, Quote
  <2>2. QED
    BY <1>3, <2>1, DecoderParts DEF Later, p, Outermost
<1>21. (d.at \in {"key", "key or end"} /\ c # Quote /\ (d.at = "key or end" => c # "}")) =>
        Read(d, c) =
        Later(d, "bad")
  <2> SUFFICES ASSUME d.at \in {"key", "key or end"} /\ c # Quote /\ (d.at = "key or end" => c # "}")
               PROVE  Read(d, c) =
                      Later(d, "bad")
    OBVIOUS
  <2>1. Read(d, c) = Goes(m, "bad")
    BY DEF Read, m, Digits, Quote
  <2>2. QED
    BY <1>3, <2>1, DecoderParts DEF Later, p, Outermost
<1>22. d.at = "number" /\ c \in Digits =>
        Read(d, c) =
        Later(d, "number")
  <2> SUFFICES ASSUME d.at = "number" /\ c \in Digits
               PROVE  Read(d, c) =
                      Later(d, "number")
    OBVIOUS
  <2>1. Read(d, c) = m
    BY <1>5, <1>6 DEF Read, m, Digits, Quote
  <2>2. QED
    BY <1>2, <1>3, <2>1, DecoderParts DEF Later, p, Outermost
<1>23. d.at \in {"after", "number"} /\ c = "," =>
        Read(d, c) =
        Decoder(IF Last(d.open) = "{" THEN "key" ELSE "value", d.open, d.keys, d.word, d.key, d.from,
                Kept(d), p)
  <2> SUFFICES ASSUME d.at \in {"after", "number"} /\ c = ","
               PROVE  Read(d, c) =
                      Decoder(IF Last(d.open) = "{" THEN "key" ELSE "value", d.open, d.keys, d.word, d.key, d.from,
                Kept(d), p)
    OBVIOUS
  <2>1. Read(d, c) = Goes(Keep(m), IF Last(d.open) = "{" THEN "key" ELSE "value")
    BY <1>5, <1>6 DEF Read, m, Digits, Quote
  <2> DEFINE k == Keep(m)
  <2>2. /\ IsDecoder(k) /\ k.open = d.open /\ k.keys = d.keys /\ k.word = d.word /\ k.key = d.key
        /\ k.from = d.from /\ k.members = Kept(d) /\ k.pos = p
    BY ONLY <1>7, DecoderFields DEF k
  <2> HIDE DEF k
  <2>3. QED
    BY <2>1, <2>2, DecoderParts DEF Outermost, k
<1>24. d.at \in {"after", "number"} /\ c = Closer[Last(d.open)] =>
        Read(d, c) =
        Decoder(IF Len(d.open) = 1 THEN "end" ELSE "after", Front(d.open), Front(d.keys), d.word,
                d.key, d.from, Kept(d), p)
  <2> SUFFICES ASSUME d.at \in {"after", "number"} /\ c = Closer[Last(d.open)]
               PROVE  Read(d, c) =
                      Decoder(IF Len(d.open) = 1 THEN "end" ELSE "after", Front(d.open), Front(d.keys), d.word,
                d.key, d.from, Kept(d), p)
    OBVIOUS
  <2>1. Read(d, c) = Close(Keep(m))
    BY <1>5, <1>6 DEF Read, m, Digits, Quote
  <2> DEFINE k == Keep(m)
  <2>2. /\ IsDecoder(k) /\ k.open = d.open /\ k.keys = d.keys /\ k.word = d.word /\ k.key = d.key
        /\ k.from = d.from /\ k.members = Kept(d) /\ k.pos = p
    BY ONLY <1>7, DecoderFields DEF k
  <2> HIDE DEF k
  <2>3. QED
    BY <2>1, <2>2, DecoderParts DEF Outermost, k
<1>25. (d.at \in {"after", "number"} /\ c \notin {",", Closer[Last(d.open)]} /\
       (d.at = "number" => c \notin Digits)) =>
        Read(d, c) =
        Later(d, "bad")
  <2> SUFFICES ASSUME d.at \in {"after", "number"} /\ c \notin {",", Closer[Last(d.open)]} /\
      (d.at = "number" => c \notin Digits)
               PROVE  Read(d, c) =
                      Later(d, "bad")
    OBVIOUS
  <2>1. Read(d, c) = Goes(m, "bad")
    BY <1>5, <1>6 DEF Read, m, Digits, Quote
  <2>2. QED
    BY <1>3, <2>1, DecoderParts DEF Later, p, Outermost
<1>26. QED
  BY <1>8, <1>9, <1>10, <1>11, <1>12, <1>13, <1>14, <1>15, <1>16, <1>17, <1>18, <1>19, <1>20, <1>21, <1>22,
     <1>23, <1>24, <1>25 DEF p

\* The character ends the object.
Ends(d, c) == Len(d.open) = 1 /\ c = "}" /\ d.at \in {"key or end", "after", "number"}

\* The last of a list, and the others.
LEMMA LastAndFront ==
  ASSUME NEW S, NEW s \in Seq(S), Len(s) >= 1
  PROVE  /\ Len(s) \in Nat
         /\ Last(s) \in S /\ Last(s) = s[Len(s)]
         /\ Front(s) \in Seq(S) /\ Len(Front(s)) = Len(s) - 1
         /\ \A i \in 1..(Len(s) - 1) : Front(s)[i] = s[i]
<1> DEFINE n == Len(s)
<1>1. n \in Nat /\ n >= 1
  BY LenProperties
<1>2. s[n] \in S
  BY <1>1, ElementOfSeq
<1>3. \A i \in 1..(n - 1) : s[i] \in S
  BY <1>1, ElementOfSeq
<1>4. /\ Front(s) \in Seq(S) /\ Len(Front(s)) = n - 1
      /\ \A i \in 1..(n - 1) : Front(s)[i] = s[i]
  <2>1. Front(s) = SubSeq(s, 1, n - 1)
    BY DEF Front
  <2> HIDE DEF n
  <2>2. n - 1 \in Int /\ 1 \in Int
    BY <1>1
  <2>3. /\ SubSeq(s, 1, n - 1) \in Seq(S)
        /\ Len(SubSeq(s, 1, n - 1)) = IF 1 <= n - 1 THEN n - 1 - 1 + 1 ELSE 0
        /\ \A i \in 1..(n - 1 - 1 + 1) : SubSeq(s, 1, n - 1)[i] = s[1 + i - 1]
    BY <1>3, <2>2, SubSeqProperties, SMT
  <2>4. n - 1 - 1 + 1 = n - 1 /\ (1 <= n - 1 \/ n - 1 = 0) /\ \A i \in 1..(n - 1) : 1 + i - 1 = i
    BY <1>1
  <2>5. QED
    BY <2>1, <2>3, <2>4
<1>5. QED
  BY <1>1, <1>2, <1>4 DEF Last

\* A list with one more element.
LEMMA Appended ==
  ASSUME NEW S, NEW s \in Seq(S), NEW e \in S
  PROVE  /\ Append(s, e) \in Seq(S)
         /\ Len(s) \in Nat /\ Len(Append(s, e)) = Len(s) + 1
         /\ Append(s, e)[Len(s) + 1] = e /\ Last(Append(s, e)) = e
         /\ \A i \in 1..Len(s) : Append(s, e)[i] = s[i]
         /\ Front(Append(s, e)) = s
<1>1. /\ Append(s, e) \in Seq(S)
      /\ Len(s) \in Nat /\ Len(Append(s, e)) = Len(s) + 1
      /\ Append(s, e)[Len(s) + 1] = e
      /\ \A i \in 1..Len(s) : Append(s, e)[i] = s[i]
  BY AppendProperties, LenProperties
<1>2. Last(Append(s, e)) = e
  BY <1>1 DEF Last
<1>3. Front(Append(s, e)) = s
  <2> DEFINE t == Append(s, e)
  <2>1. /\ Front(t) \in Seq(S) /\ Len(Front(t)) = Len(t) - 1
        /\ \A i \in 1..(Len(t) - 1) : Front(t)[i] = t[i]
    <3>1. t \in Seq(S) /\ Len(t) >= 1
      BY <1>1
    <3> HIDE DEF t
    <3>2. QED
      BY <3>1, LastAndFront
  <2>2. Len(t) - 1 = Len(s)
    BY <1>1
  <2>3. QED
    BY <1>1, <2>1, <2>2, SeqEqual
<1>4. QED
  BY <1>1, <1>2, <1>3

\* A word with one more character.
LEMMA WordGrows ==
  ASSUME NEW word \in Words, NEW c \in Chars
  PROVE  Append(word, c) \in Words
BY Appended DEF Words

\* The empty text is one.
LEMMA NoWord == <<>> \in Words
BY DEF Words

\* In the object the decoder goes on in it, finds an error, or comes to its end.
LEMMA ReadType ==
  ASSUME NEW d \in Decoders, NEW c \in Chars
  PROVE  \/ Read(d, c).at = "bad" /\ ~Ends(d, c)
         \/ Ends(d, c) /\ Read(d, c) = Decoder("end", <<>>, <<>>, <<>>, d.key, d.from,
                                               IF d.at = "key or end" THEN d.members ELSE Kept(d), d.pos + 1)
         \/ ~Ends(d, c) /\ Read(d, c) \in Decoders /\ Read(d, c).pos = d.pos + 1
<1> DEFINE p == d.pos + 1
<1>1. /\ d.open \in Seq(Openers) /\ Len(d.open) \in Nat /\ Len(d.open) >= 1 /\ d.open[1] \in Braces
      /\ d.keys \in Seq(KeySets) /\ Len(d.keys) = Len(d.open)
  BY DecoderType
<1>2. Len(d.open) = 1 \/ (Len(d.open) > 1 /\ Len(d.open) # 1)
  <2> DEFINE n == Len(d.open)
  <2>1. n \in Nat /\ n >= 1
    BY <1>1
  <2> HIDE DEF n
  <2>2. n = 1 \/ (n > 1 /\ n # 1)
    BY <2>1
  <2>3. QED
    BY <2>2 DEF n
<1>3. p \in Nat
  <2>1. d.pos \in Nat
    BY DecoderType
  <2>2. QED
    BY <2>1
<1> HIDE DEF p
<1>4. \A at : Later(d, at) = Decoder(at, d.open, d.keys, d.word, d.key, d.from, d.members, p)
  BY DEF Later, p
<1>5. \A at : Later(d, at).at = at /\ Later(d, at).pos = p
  BY <1>4 DEF Decoder
<1>6. ASSUME NEW at \in Stands,
             at = "value or end" => Last(d.open) = "[",
             at \in {"key", "key or end", "in key", "key escaped", "colon"} => Last(d.open) = "{",
             at \notin {"in key", "key escaped"} => d.word = <<>>
      PROVE  Later(d, at) \in Decoders /\ Later(d, at).pos = p
  <2>1. Decoder(at, d.open, d.keys, d.word, d.key, d.from, d.members, p) \in Decoders
    BY <1>3, <1>6, DecoderType, MakeDecoder
  <2>2. QED
    BY <1>4, <1>5, <2>1
<1>7. CASE d.at = "string"
  <2>1. Read(d, c) = Later(d, IF c = Quote THEN "after" ELSE IF c = Escape THEN "escaped" ELSE "string")
    BY <1>7, ReadTable
  <2>2. QED
    BY <1>6, <1>7, <2>1, DecoderType DEF Ends, Stands, p
<1>8. CASE d.at = "escaped"
  <2>1. Read(d, c) = Later(d, IF c \in {Quote, Escape} THEN "string" ELSE "bad")
    BY <1>8, ReadTable
  <2>2. CASE c \in {Quote, Escape}
    <3>1. Read(d, c) = Later(d, "string")
      BY <2>1, <2>2
    <3>2. QED
      BY <1>6, <1>8, <2>2, <3>1, DecoderType DEF Ends, Stands, p
  <2>3. CASE ~(c \in {Quote, Escape})
    <3>1. Read(d, c) = Later(d, "bad")
      BY <2>1, <2>3
    <3>2. QED
      BY <1>5, <1>8, <3>1 DEF Ends
  <2>4. QED
    BY <2>2, <2>3
<1>9. CASE d.at = "colon"
  <2>1. Read(d, c) = Later(d, IF c = ":" THEN "value" ELSE "bad")
    BY <1>9, ReadTable
  <2>2. CASE c = ":"
    <3>1. Read(d, c) = Later(d, "value")
      BY <2>1, <2>2
    <3>2. QED
      BY <1>6, <1>9, <2>2, <3>1, DecoderType DEF Ends, Stands, p
  <2>3. CASE ~(c = ":")
    <3>1. Read(d, c) = Later(d, "bad")
      BY <2>1, <2>3
    <3>2. QED
      BY <1>5, <1>9, <3>1 DEF Ends
  <2>4. QED
    BY <2>2, <2>3
<1>10. CASE d.at \in {"key", "key or end"} /\ ~(d.at = "key or end" /\ c = "}")
  <2>1. Read(d, c) = Later(d, IF c = Quote THEN "in key" ELSE "bad")
    BY <1>10, ReadTable
  <2>2. CASE c = Quote
    <3>1. Read(d, c) = Later(d, "in key")
      BY <2>1, <2>2
    <3>2. QED
      BY <1>6, <1>10, <2>2, <3>1, DecoderType DEF Ends, Stands, p, Quote
  <2>3. CASE ~(c = Quote)
    <3>1. Read(d, c) = Later(d, "bad")
      BY <2>1, <2>3
    <3>2. QED
      BY <1>5, <1>10, <3>1 DEF Ends, Quote
  <2>4. QED
    BY <2>2, <2>3
<1>11. CASE d.at = "number" /\ c \in Digits
  <2>1. Read(d, c) = Later(d, "number")
    BY <1>11, ReadTable
  <2>2. QED
    BY <1>5, <1>6, <1>11, <2>1, DecoderType DEF Ends, Stands, p, Digits
<1>12. CASE d.at \in {"value", "value or end"} /\
       c \notin {Quote, "{", "["} \cup Digits /\ (d.at = "value or end" => c # "]")
  <2>1. Read(d, c) = Later(d, "bad")
    BY <1>12, ReadTable
  <2>2. QED
    BY <1>5, <1>12, <2>1 DEF Ends
<1>13. CASE d.at \in {"after", "number"} /\ c \notin {",", Closer[Last(d.open)]} /\
       (d.at = "number" => c \notin Digits)
  <2>1. Read(d, c) = Later(d, "bad")
    BY <1>13, ReadTable
  <2>2. QED
    <3>1. ASSUME Len(d.open) = 1 PROVE c # "}"
      <4>1. Last(d.open) \in Braces
        BY <3>1, DecoderType DEF Last
      <4>2. Closer[Last(d.open)] = "}"
        BY <4>1 DEF Closer, Braces
      <4>3. QED
        BY <1>13, <4>2
    <3>2. QED
      BY <1>5, <2>1, <3>1 DEF Ends
<1>14. CASE d.at = "in key" /\ c # Quote
  <2> DEFINE at == IF c = Escape THEN "key escaped" ELSE "in key"
             word == Append(d.word, c)
  <2>1. Read(d, c) = Decoder(at, d.open, d.keys, word, d.key, d.from, d.members, p)
    BY <1>14, ReadTable DEF p
  <2>2. at \in {"in key", "key escaped"} /\ at \in Stands
    BY DEF Stands
  <2>3. word \in Words
    BY DecoderType, WordGrows
  <2> HIDE DEF at, word
  <2>4. Decoder(at, d.open, d.keys, word, d.key, d.from, d.members, p) \in Decoders
    BY <1>3, <1>14, <2>2, <2>3, DecoderType, MakeDecoder
  <2>5. Read(d, c).pos = p
    BY ONLY <2>1, DecoderFields
  <2>6. QED
    BY <1>14, <2>1, <2>4, <2>5 DEF Ends, p
<1>15. CASE d.at = "key escaped"
  <2> DEFINE word == Append(d.word, c)
  <2>1. Read(d, c) = Decoder(IF c \in {Quote, Escape} THEN "in key" ELSE "bad", d.open, d.keys, word,
                             d.key, d.from, d.members, p)
    BY <1>15, ReadTable DEF p
  <2>2. word \in Words
    BY DecoderType, WordGrows
  <2> HIDE DEF word
  <2>3. CASE c \in {Quote, Escape}
    <3>1. Read(d, c) = Decoder("in key", d.open, d.keys, word, d.key, d.from, d.members, p)
      BY <2>1, <2>3
    <3>2. Decoder("in key", d.open, d.keys, word, d.key, d.from, d.members, p) \in Decoders
      BY <1>3, <1>15, <2>2, DecoderType, MakeDecoder DEF Stands
    <3>3. Decoder("in key", d.open, d.keys, word, d.key, d.from, d.members, p).pos = p
      BY DEF Decoder
    <3>4. QED
      BY <1>15, <3>1, <3>2, <3>3 DEF Ends, p
  <2>4. CASE c \notin {Quote, Escape}
    <3>1. Read(d, c).at = "bad"
      BY <2>1, <2>4 DEF Decoder
    <3>2. QED
      BY <1>15, <3>1 DEF Ends
  <2>5. QED
    BY <2>3, <2>4
<1>16. CASE d.at = "in key" /\ c = Quote
  <2> DEFINE keys == Append(Front(d.keys), Last(d.keys) \cup {d.word})
             key == IF Len(d.open) = 1 THEN d.word ELSE d.key
  <2>1. Read(d, c) = Decoder(IF d.word \in Last(d.keys) THEN "bad" ELSE "colon", d.open, keys, <<>>, key,
                             d.from, d.members, p)
    BY <1>16, ReadTable DEF p
  <2>2. keys \in Seq(KeySets) /\ Len(keys) = Len(d.open)
    <3>1. d.keys \in Seq(KeySets) /\ Len(d.keys) >= 1 /\ d.word \in Words
      BY DecoderType
    <3>2. Last(d.keys) \in KeySets /\ Front(d.keys) \in Seq(KeySets) /\ Len(Front(d.keys)) = Len(d.keys) - 1
          /\ Len(d.keys) \in Nat
      BY <3>1, LastAndFront
    <3>3. Last(d.keys) \cup {d.word} \in KeySets
      BY <3>1, <3>2 DEF KeySets
    <3>4. Len(d.keys) = Len(d.open)
      BY DecoderType
    <3>5. QED
      BY <3>2, <3>3, <3>4, AppendProperties
  <2>3. key \in Words /\ <<>> \in Words
    BY DecoderType, NoWord
  <2> HIDE DEF keys, key
  <2>4. CASE d.word \notin Last(d.keys)
    <3>1. Read(d, c) = Decoder("colon", d.open, keys, <<>>, key, d.from, d.members, p)
      BY <2>1, <2>4
    <3>2. Decoder("colon", d.open, keys, <<>>, key, d.from, d.members, p) \in Decoders
      BY <1>3, <1>16, <2>2, <2>3, DecoderType, MakeDecoder DEF Stands
    <3>3. Read(d, c).pos = p
      BY ONLY <3>1, DecoderFields
    <3>4. QED
      BY <1>16, <3>1, <3>2, <3>3 DEF Ends, p
  <2>5. CASE d.word \in Last(d.keys)
    <3>1. Read(d, c).at = "bad"
      BY <2>1, <2>5 DEF Decoder
    <3>2. QED
      BY <1>16, <3>1 DEF Ends
  <2>6. QED
    BY <2>4, <2>5
<1>17. CASE d.at \in {"value", "value or end"} /\ c \in {Quote} \cup Digits
  <2> DEFINE from == IF Len(d.open) = 1 THEN p ELSE d.from
             at == IF c = Quote THEN "string" ELSE "number"
  <2>1. Read(d, c) = Decoder(at, d.open, d.keys, d.word, d.key, from, d.members, p)
    BY <1>17, ReadTable DEF p, Digits, Quote
  <2>2. at \in Stands /\ at \in {"string", "number"} /\ from \in Nat
    BY <1>3, DecoderType DEF Stands
  <2> HIDE DEF from, at
  <2>3. Decoder(at, d.open, d.keys, d.word, d.key, from, d.members, p) \in Decoders
    BY <1>3, <1>17, <2>2, DecoderType, MakeDecoder
  <2>4. Read(d, c).pos = p
    BY ONLY <2>1, DecoderFields
  <2>5. QED
    BY <1>17, <2>1, <2>3, <2>4 DEF Ends, p
<1>18. CASE d.at \in {"value", "value or end"} /\ c \in {"{", "["}
  <2> DEFINE from == IF Len(d.open) = 1 THEN p ELSE d.from
             at == IF c = "{" THEN "key or end" ELSE "value or end"
             open == Append(d.open, c)
             keys == Append(d.keys, {})
  <2>1. Read(d, c) = Decoder(at, open, keys, d.word, d.key, from, d.members, p)
    BY <1>18, ReadTable DEF p
  <2>2. /\ at \in {"value or end", "key or end"} /\ at \in Stands /\ from \in Nat
        /\ at = "value or end" => c = "["
        /\ at = "key or end" => c = "{"
    BY <1>3, <1>18, DecoderType DEF Stands
  <2>3. d.open \in Seq(Openers) /\ d.keys \in Seq(KeySets) /\ c \in Openers /\ {} \in KeySets
        /\ Len(d.open) \in Nat /\ Len(d.open) >= 1 /\ d.open[1] \in Braces /\ Len(d.keys) = Len(d.open)
    BY <1>18, DecoderType DEF Openers, KeySets
  <2>4. /\ open \in Seq(Openers) /\ Len(open) = Len(d.open) + 1 /\ Last(open) = c
        /\ \A i \in 1..Len(d.open) : open[i] = d.open[i]
    <3>1. d.open \in Seq(Openers) /\ c \in Openers
      BY <2>3
    <3>2. QED
      BY ONLY <3>1, Appended
  <2>5. open[1] \in Braces /\ Len(open) \in Nat /\ Len(open) >= 1
    <3> HIDE DEF open
    <3>1. 1 \in 1..Len(d.open)
      BY <2>3
    <3>2. open[1] = d.open[1]
      BY <2>4, <3>1
    <3>3. QED
      BY <2>3, <2>4, <3>2
  <2>6. keys \in Seq(KeySets) /\ Len(keys) = Len(open)
    <3>1. keys \in Seq(KeySets) /\ Len(keys) = Len(d.keys) + 1
      BY <2>3, Appended, Zenon
    <3> HIDE DEF open, keys
    <3>2. QED
      BY <2>3, <2>4, <3>1
  <2> HIDE DEF from, at, open, keys
  <2>7. Decoder(at, open, keys, d.word, d.key, from, d.members, p) \in Decoders
    BY <1>3, <1>18, <2>2, <2>4, <2>5, <2>6, DecoderType, MakeDecoder
  <2>8. Read(d, c).pos = p
    BY ONLY <2>1, DecoderFields
  <2>9. QED
    BY <1>18, <2>1, <2>7, <2>8 DEF Ends, p
<1>19. ASSUME NEW members \in Seq(Spans), ~Ends(d, c),
              Read(d, c) = Decoder(IF Len(d.open) = 1 THEN "end" ELSE "after", Front(d.open), Front(d.keys),
                                   d.word, d.key, d.from, members, p),
              Len(d.open) > 1, Len(d.open) # 1, d.word = <<>>
       PROVE  Read(d, c) \in Decoders /\ Read(d, c).pos = p
  <2> DEFINE open == Front(d.open)
             keys == Front(d.keys)
  <2>1. Read(d, c) = Decoder("after", open, keys, d.word, d.key, d.from, members, p)
    BY <1>19
  <2>2. /\ d.open \in Seq(Openers) /\ d.keys \in Seq(KeySets) /\ Len(d.open) \in Nat
        /\ Len(d.open) > 1 /\ Len(d.keys) = Len(d.open) /\ d.open[1] \in Braces
    BY ONLY <1>1, <1>19
  <2>3. /\ open \in Seq(Openers) /\ Len(open) = Len(d.open) - 1
        /\ \A i \in 1..(Len(d.open) - 1) : open[i] = d.open[i]
    <3>1. d.open \in Seq(Openers) /\ Len(d.open) >= 1
      BY <2>2
    <3>2. QED
      BY ONLY <3>1, LastAndFront
  <2>4. keys \in Seq(KeySets) /\ Len(keys) = Len(d.keys) - 1
    BY <2>2, LastAndFront
  <2> HIDE DEF open, keys
  <2>5. Len(open) \in Nat /\ Len(open) >= 1 /\ Len(keys) = Len(open) /\ open[1] \in Braces
    BY <2>2, <2>3, <2>4
  <2>6. Decoder("after", open, keys, d.word, d.key, d.from, members, p) \in Decoders
    BY <1>3, <1>19, <2>3, <2>4, <2>5, DecoderType, MakeDecoder DEF Stands
  <2>7. Read(d, c).pos = p
    BY ONLY <2>1, DecoderFields
  <2>8. QED
    BY <2>1, <2>6, <2>7
<1>20. Kept(d) \in Seq(Spans)
  <2>1. d.members \in Seq(Spans) /\ <<d.key, d.from, d.pos>> \in Spans
    BY DecoderType DEF Spans
  <2>2. QED
    BY <2>1, Appended DEF Kept
<1>21. CASE d.at \in {"after", "number"} /\ c = ","
  <2> DEFINE at == IF Last(d.open) = "{" THEN "key" ELSE "value"
             members == Kept(d)
  <2>1. Read(d, c) = Decoder(at, d.open, d.keys, d.word, d.key, d.from, members, p)
    BY <1>21, ReadTable DEF p
  <2>2. at \in Stands /\ at \in {"key", "value"} /\ (at = "key" => Last(d.open) = "{")
    BY DEF Stands
  <2>3. members \in Seq(Spans)
    BY <1>20
  <2> HIDE DEF at, members
  <2>4. Decoder(at, d.open, d.keys, d.word, d.key, d.from, members, p) \in Decoders
    BY <1>3, <1>21, <2>2, <2>3, DecoderType, MakeDecoder
  <2>5. Read(d, c).pos = p
    BY ONLY <2>1, DecoderFields
  <2>6. QED
    BY <1>21, <2>1, <2>4, <2>5 DEF Ends, p
<1>22. ASSUME Len(d.open) = 1
       PROVE  /\ Last(d.open) = "{" /\ Closer[Last(d.open)] = "}"
              /\ Front(d.open) = <<>> /\ Front(d.keys) = <<>>
  <2>1. Last(d.open) \in Braces
    BY <1>22, DecoderType DEF Last
  <2>2. Last(d.open) = "{" /\ Closer[Last(d.open)] = "}"
    BY <2>1 DEF Closer, Braces
  <2>3. Len(d.keys) = 1
    BY <1>1, <1>22
  <2>4. Front(d.open) = <<>> /\ Front(d.keys) = <<>>
    <3>1. Front(d.open) = SubSeq(d.open, 1, 0) /\ Front(d.keys) = SubSeq(d.keys, 1, 0)
      BY <1>22, <2>3 DEF Front
    <3>2. QED
      BY <3>1, SubSeqEmpty
  <2>5. QED
    BY <2>2, <2>4
<1>23. ASSUME NEW members \in Seq(Spans), Len(d.open) = 1, d.word = <<>>,
              Read(d, c) = Decoder(IF Len(d.open) = 1 THEN "end" ELSE "after", Front(d.open), Front(d.keys),
                                   d.word, d.key, d.from, members, p)
       PROVE  Read(d, c) = Decoder("end", <<>>, <<>>, <<>>, d.key, d.from, members, p)
  BY <1>22, <1>23
<1>24. CASE d.at \in {"after", "number"} /\ c = Closer[Last(d.open)]
  <2>1. Read(d, c) = Decoder(IF Len(d.open) = 1 THEN "end" ELSE "after", Front(d.open), Front(d.keys),
                             d.word, d.key, d.from, Kept(d), p)
    BY <1>24, ReadTable DEF p
  <2>2. d.word = <<>>
    BY <1>24, DecoderType
  <2>3. CASE Len(d.open) = 1
    <3>1. Ends(d, c)
      BY <1>22, <1>24, <2>3 DEF Ends
    <3>2. Read(d, c) = Decoder("end", <<>>, <<>>, <<>>, d.key, d.from, Kept(d), p)
      BY <1>20, <1>23, <2>1, <2>2, <2>3
    <3>3. d.at # "key or end"
      BY <1>24
    <3>4. QED
      BY <3>1, <3>2, <3>3 DEF p
  <2>4. CASE Len(d.open) > 1 /\ Len(d.open) # 1
    <3>1. ~Ends(d, c)
      BY <2>4 DEF Ends
    <3>2. QED
      BY <1>19, <1>20, <2>1, <2>2, <2>4, <3>1 DEF p
  <2>5. QED
    BY <1>2, <2>3, <2>4
<1>25. CASE (d.at = "key or end" /\ c = "}") \/ (d.at = "value or end" /\ c = "]")
  <2>1. Read(d, c) = Decoder(IF Len(d.open) = 1 THEN "end" ELSE "after", Front(d.open), Front(d.keys),
                             d.word, d.key, d.from, d.members, p)
    BY <1>25, ReadTable DEF p
  <2>2. d.word = <<>> /\ d.members \in Seq(Spans)
    BY <1>25, DecoderType
  <2>3. CASE Len(d.open) = 1
    <3>1. d.at = "key or end" /\ c = "}"
      BY <1>22, <1>25, <2>3, DecoderType
    <3>2. Ends(d, c)
      BY <2>3, <3>1 DEF Ends
    <3>3. Read(d, c) = Decoder("end", <<>>, <<>>, <<>>, d.key, d.from, d.members, p)
      BY <1>23, <2>1, <2>2, <2>3
    <3>4. QED
      BY <3>1, <3>2, <3>3 DEF p
  <2>4. CASE Len(d.open) > 1 /\ Len(d.open) # 1
    <3>1. ~Ends(d, c)
      BY <2>4 DEF Ends
    <3>2. QED
      BY <1>19, <2>1, <2>2, <2>4, <3>1 DEF p
  <2>5. QED
    BY <1>2, <2>3, <2>4
<1>26. d.at \in Stands
  BY DecoderType
<1>27. CASE d.at \in {"value", "value or end"}
  BY <1>12, <1>17, <1>18, <1>25, <1>27
<1>28. CASE d.at \in {"after", "number"}
  <2>1. CASE c = ","
    BY <1>21, <1>28, <2>1
  <2>2. CASE c = Closer[Last(d.open)]
    BY <1>24, <1>28, <2>2
  <2>3. CASE d.at = "number" /\ c \in Digits
    BY <1>11, <2>3
  <2>4. CASE c # "," /\ c # Closer[Last(d.open)] /\ (d.at = "number" => c \notin Digits)
    BY <1>13, <1>28, <2>4
  <2>5. QED
    BY <2>1, <2>2, <2>3, <2>4
<1>29. CASE d.at \in {"key", "key or end"}
  <2>1. CASE d.at = "key or end" /\ c = "}"
    BY <1>25, <2>1
  <2>2. CASE ~(d.at = "key or end" /\ c = "}")
    BY <1>10, <1>29, <2>2
  <2>3. QED
    BY <2>1, <2>2
<1>30. QED
  BY <1>7, <1>8, <1>9, <1>14, <1>15, <1>16, <1>26, <1>27, <1>28, <1>29 DEF Stands

\* What the decoder is after each character.
LEMMA ReadsStep ==
  ASSUME NEW s \in Seq(Chars)
  PROVE  /\ Reads(s)[0] = Begin
         /\ \A i \in 0..(Len(s) - 1) : Reads(s)[i + 1] = Read(Reads(s)[i], s[i + 1])
<1> DEFINE n == Len(s)
           F == [i \in 0..n |-> IF i = 0 THEN Begin ELSE Read(Reads(s)[i - 1], s[i])]
<1>1. Reads(s) = F
  BY ReadsFacts
<1>2. n \in Nat
  BY LenProperties
<1> HIDE DEF n
<1>3. F[0] = Begin /\ \A i \in 0..(n - 1) : F[i + 1] = Read(Reads(s)[i], s[i + 1])
  BY <1>2
<1>4. QED
  BY <1>1, <1>3 DEF n

\* After the brace that opens it.
Opened == Decoder("key or end", <<"{">>, <<{}>>, <<>>, <<>>, 0, <<>>, 1)

InObject(s, i) == Reads(s)[i] \in Decoders /\ Reads(s)[i].pos = i

\* The text begins with an object that ends at e.
Whole(s, e) ==
  /\ s \in Seq(Chars) /\ e \in 2..Len(s) /\ s[1] \in Braces
  /\ \A i \in 1..(e - 1) : InObject(s, i)
  /\ Ends(Reads(s)[e - 1], s[e])

\* The brace that opens the object is read as what opens it.
LEMMA Opening ==
  /\ Read(Begin, "{") = Opened
  /\ Opened \in Decoders /\ Opened.pos = 1
<1> DEFINE m == Moved(Begin)
           b == ValueBegins(m, "value")
<1>1. Begin = Decoder("value", <<>>, <<>>, <<>>, <<>>, 0, <<>>, 0)
  BY DEF Begin, Decoder
<1>2. /\ IsDecoder(Begin) /\ Begin.at = "value" /\ Begin.open = <<>> /\ Begin.keys = <<>>
      /\ Begin.word = <<>> /\ Begin.key = <<>> /\ Begin.from = 0 /\ Begin.members = <<>> /\ Begin.pos = 0
  BY ONLY <1>1, DecoderFields
<1>3. m = Decoder("value", <<>>, <<>>, <<>>, <<>>, 0, <<>>, 1)
  <2>1. m = Decoder(Begin.at, Begin.open, Begin.keys, Begin.word, Begin.key, Begin.from, Begin.members,
                    Begin.pos + 1)
    BY <1>2, DecoderParts
  <2>2. 0 + 1 = 1
    OBVIOUS
  <2>3. QED
    BY <1>2, <2>1, <2>2
<1> HIDE DEF m
<1>4. /\ IsDecoder(m) /\ m.at = "value" /\ m.open = <<>> /\ m.keys = <<>> /\ m.word = <<>>
      /\ m.key = <<>> /\ m.from = 0 /\ m.members = <<>> /\ m.pos = 1
  BY ONLY <1>3, DecoderFields
<1>5. ~Outermost(m)
  BY <1>4 DEF Outermost
<1>6. b = Decoder("value", <<>>, <<>>, <<>>, <<>>, 0, <<>>, 1)
  BY <1>4, <1>5, DecoderParts
<1> HIDE DEF b
<1>7. /\ IsDecoder(b) /\ b.at = "value" /\ b.open = <<>> /\ b.keys = <<>> /\ b.word = <<>>
      /\ b.key = <<>> /\ b.from = 0 /\ b.members = <<>> /\ b.pos = 1
  BY ONLY <1>6, DecoderFields
<1>8. Read(Begin, "{") = Open(b, "{")
  BY <1>2 DEF Read, Digits, Quote, b, m
<1>9. Open(b, "{") = Decoder("key or end", Append(<<>>, "{"), Append(<<>>, {}), <<>>, <<>>, 0, <<>>, 1)
  BY <1>7, DecoderParts
<1>10. Append(<<>>, "{") = <<"{">> /\ Append(<<>>, {}) = <<{}>>
  OBVIOUS
<1>11. Opened \in Decoders
  <2>1. <<"{">> \in Seq(Openers) /\ <<{}>> \in Seq(KeySets) /\ <<>> \in Words /\ <<>> \in Seq(Spans)
    BY DEF Openers, KeySets, Words
  <2>2. /\ Len(<<"{">>) \in Nat /\ Len(<<"{">>) >= 1 /\ Len(<<{}>>) = Len(<<"{">>)
        /\ <<"{">>[1] \in Braces /\ Last(<<"{">>) = "{"
    BY DEF Braces, Last
  <2>3. QED
    <3> DEFINE open == <<"{">>
               keys == <<{}>>
    <3> HIDE DEF open, keys
    <3>1. /\ open \in Seq(Openers) /\ keys \in Seq(KeySets)
          /\ Len(open) \in Nat /\ Len(open) >= 1 /\ Len(keys) = Len(open)
          /\ open[1] \in Braces /\ Last(open) = "{"
      BY <2>1, <2>2 DEF open, keys
    <3>2. 0 \in Nat /\ 1 \in Nat
      OBVIOUS
    <3>3. Decoder("key or end", open, keys, <<>>, <<>>, 0, <<>>, 1) \in Decoders
      BY <2>1, <3>1, <3>2, MakeDecoder DEF Stands
    <3>4. QED
      BY <3>3 DEF open, keys, Opened
<1>12. Opened.pos = 1
  BY DEF Opened, Decoder
<1>13. QED
  BY <1>8, <1>9, <1>10, <1>11, <1>12 DEF Opened

\* Once it has found an error, it stays there.
LEMMA StaysBad ==
  ASSUME NEW d, NEW c \in Chars, d.at = "bad", HasPlace(d)
  PROVE  Read(d, c).at = "bad" /\ HasPlace(Read(d, c))
<1> DEFINE m == Moved(d)
<1>1. Read(d, c) = Goes(m, "bad")
  BY DEF Read
<1>2. "at" \in DOMAIN m
  BY DEF Moved, HasPlace
<1> HIDE DEF m
<1>3. Goes(m, "bad").at = "bad" /\ "at" \in DOMAIN Goes(m, "bad")
  BY <1>2 DEF Goes
<1>4. QED
  BY <1>1, <1>3 DEF HasPlace

\* The decoder always stands somewhere.
LEMMA ReadDomain ==
  ASSUME NEW d \in Decoders, NEW c \in Chars
  PROVE  HasPlace(Read(d, c))
<1>1. \A f : DOMAIN Moved(f) = DOMAIN f
  BY DEF Moved
<1>2. \A f, at : DOMAIN Goes(f, at) = DOMAIN f
  BY DEF Goes
<1>3. \A f, at : DOMAIN Spells(f, at, c) = DOMAIN f
  BY DEF Spells
<1>4. \A f : DOMAIN Open(f, c) = DOMAIN f
  BY DEF Open
<1>5. \A f : DOMAIN Keep(f) = DOMAIN f
  BY DEF Keep
<1>6. \A f : DOMAIN Close(f) = DOMAIN f
  BY DEF Close
<1>7. \A f, at : DOMAIN ValueBegins(f, at) = DOMAIN f
  BY DEF ValueBegins
<1>8. \A f : DOMAIN KeyEnds(f) = DOMAIN f
  BY DEF KeyEnds
<1> DEFINE m == Moved(d)
<1>9. DOMAIN m = DOMAIN d
  BY <1>1
<1> HIDE DEF m
<1>10. \A at : DOMAIN Goes(m, at) = DOMAIN d /\ DOMAIN Spells(m, at, c) = DOMAIN d
                 /\ DOMAIN ValueBegins(m, at) = DOMAIN d /\ DOMAIN Goes(Keep(m), at) = DOMAIN d
  BY <1>2, <1>3, <1>5, <1>7, <1>9
<1>11. DOMAIN Open(ValueBegins(m, "value"), c) = DOMAIN d
  BY <1>4, <1>7, <1>9
<1>12. DOMAIN Close(m) = DOMAIN d /\ DOMAIN Close(Keep(m)) = DOMAIN d /\ DOMAIN KeyEnds(m) = DOMAIN d
  BY <1>5, <1>6, <1>8, <1>9
<1> DEFINE e == Read(d, c)
<1>13. \/ e = d \/ e = m
       \/ \E at : e = Goes(m, at)
       \/ \E at : e = Spells(m, at, c)
       \/ \E at : e = ValueBegins(m, at)
       \/ \E at : e = Goes(Keep(m), at)
       \/ e = Open(ValueBegins(m, "value"), c) \/ e = Close(m) \/ e = Close(Keep(m)) \/ e = KeyEnds(m)
  <2>1. CASE d.at \in {"end", "string", "escaped", "in key", "key escaped"}
    BY <2>1 DEF Read, m
  <2>2. CASE d.at = "colon"
    <3>1. CASE c = ":"
      BY <2>2, <3>1 DEF Read, m
    <3>2. CASE c # ":"
      BY <2>2, <3>2 DEF Read, m
    <3>3. QED
      BY <3>1, <3>2
  <2>3. CASE d.at \in {"key", "key or end"}
    <3>1. CASE c = Quote
      BY <2>3, <3>1 DEF Read, m, Quote
    <3>2. CASE c = "}"
      BY <2>3, <3>2 DEF Read, m, Quote
    <3>3. CASE c # Quote /\ c # "}"
      BY <2>3, <3>3 DEF Read, m
    <3>4. QED
      BY <3>1, <3>2, <3>3
  <2>4. CASE d.at \in {"value", "value or end"}
    <3>1. CASE c = Quote
      BY <2>4, <3>1 DEF Read, m, Quote, Digits
    <3>2. CASE c \in Digits
      BY <2>4, <3>2 DEF Read, m, Quote, Digits
    <3>3. CASE c \in {"{", "["}
      BY <2>4, <3>3 DEF Read, m, Quote, Digits
    <3>4. CASE c = "]"
      BY <2>4, <3>4 DEF Read, m, Quote, Digits
    <3>5. CASE c \notin {Quote, "{", "[", "]"} \cup Digits
      BY <2>4, <3>5 DEF Read, m
    <3>6. QED
      BY <3>1, <3>2, <3>3, <3>4, <3>5
  <2>5. CASE d.at \in {"after", "number"}
    <3>1. Closer[Last(d.open)] \in {"}", "]"}
      <4>1. Last(d.open) \in Openers
        BY DecoderType, LastAndFront
      <4>2. QED
        BY <4>1 DEF Closer, Openers
    <3>2. CASE c = ","
      BY <2>5, <3>1, <3>2 DEF Read, m, Digits
    <3>3. CASE c \in Digits
      BY <2>5, <3>1, <3>3 DEF Read, m, Digits
    <3>4. CASE c = Closer[Last(d.open)]
      BY <2>5, <3>1, <3>4 DEF Read, m, Digits
    <3>5. CASE c # "," /\ c \notin Digits /\ c # Closer[Last(d.open)]
      BY <2>5, <3>5 DEF Read, m
    <3>6. QED
      BY <3>2, <3>3, <3>4, <3>5
  <2>6. CASE d.at \notin {"end", "string", "escaped", "in key", "key escaped", "colon", "key", "key or end",
                          "value", "value or end", "after", "number"}
    BY <2>6 DEF Read, m
  <2>7. QED
    BY <2>1, <2>2, <2>3, <2>5, <2>6, <2>4
<1> HIDE DEF e
<1>14. DOMAIN e = DOMAIN d
  BY <1>9, <1>10, <1>11, <1>12, <1>13
<1>15. QED
  BY <1>14, DecoderType DEF e, HasPlace

\* At the end of the object.
LEMMA ReadEnd ==
  ASSUME NEW d \in Decoders, NEW c \in Chars, Ends(d, c)
  PROVE  /\ Read(d, c).at = "end" /\ Read(d, c).pos = d.pos + 1
         /\ Read(d, c).members = (IF d.at = "key or end" THEN d.members ELSE Kept(d))
<1> DEFINE members == IF d.at = "key or end" THEN d.members ELSE Kept(d)
           p == d.pos + 1
<1>1. Read(d, c) = Decoder("end", <<>>, <<>>, <<>>, d.key, d.from, members, p)
  <2>1. Read(d, c) \notin Decoders \/ Ends(d, c)
    OBVIOUS
  <2>2. QED
    BY ReadType DEF Decoders
<1> HIDE DEF members, p
<1>2. Read(d, c).at = "end" /\ Read(d, c).members = members /\ Read(d, c).pos = p
  BY ONLY <1>1, DecoderFields
<1>3. QED
  BY <1>2 DEF members, p

\* The object is read to its end, or there is an error, or it is not complete.
LEMMA Fate ==
  ASSUME NEW s \in Seq(Chars), Len(s) >= 1, s[1] \in Braces, NEW n \in 1..Len(s)
  PROVE  \/ Reads(s)[n].at = "bad"
         \/ \A i \in 1..n : InObject(s, i)
         \/ \E e \in 2..n : Whole(s, e) /\ Reads(s)[n] = Reads(s)[e]
<1> DEFINE R == Reads(s)
           Bad(i) == R[i].at = "bad" /\ HasPlace(R[i])
           In(i) == \A k \in 1..i : InObject(s, k)
           Done(i) == \E e \in 2..i : Whole(s, e) /\ R[i] = R[e] /\ R[i].at = "end"
           S == {i \in 0..Len(s) : i = 0 \/ Bad(i) \/ In(i) \/ Done(i)}
<1>1. Len(s) \in Nat
  BY LenProperties
<1>2. R[1] = Opened /\ InObject(s, 1)
  <2>1. 0 \in 0..(Len(s) - 1) /\ 0 + 1 = 1
    BY <1>1
  <2>2. R[0] = Begin /\ R[0 + 1] = Read(R[0], s[0 + 1])
    BY <2>1, ReadsStep
  <2>3. QED
    BY <2>1, <2>2, Opening DEF InObject, Braces
<1>3. 0 \in S
  BY <1>1
<1>4. \A i \in 0..(Len(s) - 1) : i \in S => i + 1 \in S
  <2> SUFFICES ASSUME NEW i \in 0..(Len(s) - 1), i \in S PROVE i + 1 \in S
    OBVIOUS
  <2>1. i + 1 \in 0..Len(s) /\ i \in Nat /\ s[i + 1] \in Chars
    BY <1>1, ElementOfSeq
  <2>2. R[i + 1] = Read(R[i], s[i + 1])
    BY ReadsStep
  <2>3. CASE i = 0
    <3>1. \A k \in 1..(i + 1) : k = 1
      BY <2>3
    <3>2. In(i + 1)
      BY <1>2, <3>1
    <3>3. QED
      BY <2>1, <3>2
  <2>4. CASE Bad(i)
    <3>1. Bad(i + 1)
      BY <2>1, <2>2, <2>4, StaysBad
    <3>2. QED
      BY <2>1, <3>1
  <2>5. CASE i # 0 /\ In(i)
    <3>1. InObject(s, i)
      BY <2>1, <2>5
    <3>2. CASE Read(R[i], s[i + 1]).at = "bad"
      <4>1. Bad(i + 1)
        BY <2>1, <2>2, <3>1, <3>2, ReadDomain DEF InObject
      <4>2. QED
        BY <2>1, <4>1
    <3>3. CASE Ends(R[i], s[i + 1])
      <4>1. Whole(s, i + 1)
        <5>1. i + 1 \in 2..Len(s) /\ (i + 1) - 1 = i
          BY <2>1, <2>5
        <5>2. QED
          BY <2>5, <3>3, <5>1 DEF Whole
      <4>2. R[i + 1].at = "end"
        <5>1. Read(R[i], s[i + 1]).at = "end"
          BY <2>1, <3>1, <3>3, ReadEnd DEF InObject
        <5>2. QED
          BY <2>2, <5>1
      <4>3. i + 1 \in 2..(i + 1)
        BY <2>1, <2>5
      <4>4. Done(i + 1)
        BY <4>1, <4>2, <4>3
      <4>5. QED
        BY <2>1, <4>4
    <3>4. CASE Read(R[i], s[i + 1]) \in Decoders /\ Read(R[i], s[i + 1]).pos = R[i].pos + 1
      <4>1. InObject(s, i + 1)
        BY <2>2, <3>1, <3>4 DEF InObject
      <4>2. \A k \in 1..(i + 1) : k \in 1..i \/ k = i + 1
        BY <2>1
      <4>3. In(i + 1)
        BY <2>5, <4>1, <4>2
      <4>4. QED
        BY <2>1, <4>3
    <3>5. QED
      BY <2>1, <3>1, <3>2, <3>3, <3>4, ReadType DEF InObject
  <2>6. CASE Done(i)
    <3>1. PICK e \in 2..i : Whole(s, e) /\ R[i] = R[e] /\ R[i].at = "end"
      BY <2>6
    <3>2. R[i + 1] = R[i]
      BY <2>2, <3>1 DEF Read
    <3>3. e \in 2..(i + 1)
      BY <2>1
    <3>4. Done(i + 1)
      BY <3>1, <3>2, <3>3
    <3>5. QED
      BY <2>1, <3>4
  <2>7. QED
    BY <2>3, <2>4, <2>5, <2>6
<1>5. n \in S /\ n # 0
  <2> HIDE DEF S
  <2>1. \A i \in 0..Len(s) : i \in S
    BY <1>1, <1>3, <1>4, Induction
  <2>2. n \in 0..Len(s) /\ n # 0
    BY <1>1
  <2>3. QED
    BY <2>1, <2>2
<1>6. QED
  BY <1>5

\* What the decoder is inside the object, and from its end on.
Inside(s, e) ==
  /\ \A i \in 1..(e - 1) : /\ Reads(s)[i] \in Decoders /\ Reads(s)[i].pos = i
                           /\ s[i + 1] \in Chars
                           /\ Reads(s)[i + 1] = Read(Reads(s)[i], s[i + 1])
  /\ \A i \in 1..(e - 2) : ~Ends(Reads(s)[i], s[i + 1])
  /\ Ends(Reads(s)[e - 1], s[e]) /\ s[e] = "}"

Outside(s, e) ==
  /\ \A i \in e..Len(s) : Reads(s)[i] = Reads(s)[e]
  /\ Reads(s)[e].at = "end" /\ Reads(s)[e].pos = e
  /\ Reads(s)[e].members = (IF Reads(s)[e - 1].at = "key or end" THEN Reads(s)[e - 1].members
                            ELSE Kept(Reads(s)[e - 1]))

\* What is known of a text that begins with an object.
LEMMA WholeFacts ==
  ASSUME NEW s, NEW e, Whole(s, e)
  PROVE  /\ s \in Seq(Chars) /\ Len(s) \in Nat /\ e \in 2..Len(s) /\ e \in Nat /\ e >= 2 /\ e <= Len(s)
         /\ Reads(s)[1] = Opened
         /\ Inside(s, e) /\ Outside(s, e)
<1> DEFINE R == Reads(s)
           n == Len(s)
<1>1. s \in Seq(Chars) /\ n \in Nat /\ e \in 2..n /\ e \in Nat /\ e >= 2 /\ e <= n /\ s[1] \in Braces
  <2>1. s \in Seq(Chars) /\ e \in 2..Len(s) /\ s[1] \in Braces
    BY DEF Whole
  <2>2. Len(s) \in Nat
    BY <2>1, LenProperties
  <2>3. QED
    BY <2>1, <2>2
<1>2. \A i \in 1..n : s[i] \in Chars
  BY <1>1, ElementOfSeq
<1>3. R[0] = Begin /\ \A i \in 0..(n - 1) : R[i + 1] = Read(R[i], s[i + 1])
  BY <1>1, ReadsStep
<1> HIDE DEF n
<1>4. R[1] = Opened
  <2>1. 0 \in 0..(n - 1) /\ 0 + 1 = 1
    BY <1>1
  <2>2. R[1] = Read(Begin, s[1])
    BY <1>3, <2>1
  <2>3. QED
    BY <1>1, <2>2, Opening DEF Braces
<1>5. \A i \in 1..(e - 1) : R[i] \in Decoders /\ R[i].pos = i /\ s[i + 1] \in Chars /\ R[i + 1] = Read(R[i], s[i + 1])
  <2> SUFFICES ASSUME NEW i \in 1..(e - 1)
               PROVE  R[i] \in Decoders /\ R[i].pos = i /\ s[i + 1] \in Chars /\ R[i + 1] = Read(R[i], s[i + 1])
    OBVIOUS
  <2>1. i \in 0..(n - 1) /\ i + 1 \in 1..n
    BY <1>1
  <2>2. InObject(s, i)
    BY DEF Whole
  <2>3. QED
    BY <1>2, <1>3, <2>1, <2>2 DEF InObject
<1>6. Ends(R[e - 1], s[e]) /\ s[e] = "}"
  BY DEF Whole, Ends
<1>7. e - 1 \in 1..(e - 1) /\ (e - 1) + 1 = e
  BY <1>1
<1>8. /\ R[e].at = "end" /\ R[e].pos = e
      /\ R[e].members = (IF R[e - 1].at = "key or end" THEN R[e - 1].members ELSE Kept(R[e - 1]))
  <2>1. R[e - 1] \in Decoders /\ R[e - 1].pos = e - 1 /\ s[e] \in Chars /\ R[e] = Read(R[e - 1], s[e])
    BY <1>5, <1>7
  <2> DEFINE d == R[e - 1]
             c == s[e]
  <2>2. d \in Decoders /\ c \in Chars /\ Ends(d, c) /\ d.pos + 1 = e
    BY <1>6, <1>7, <2>1
  <2>3. R[e] = Read(d, c)
    BY <2>1
  <2> HIDE DEF d, c
  <2>4. /\ Read(d, c).at = "end" /\ Read(d, c).pos = d.pos + 1
        /\ Read(d, c).members = (IF d.at = "key or end" THEN d.members ELSE Kept(d))
    BY <2>2, ReadEnd
  <2>5. QED
    BY <2>2, <2>3, <2>4 DEF d
<1>9. \A i \in 1..(e - 2) : ~Ends(R[i], s[i + 1])
  <2> SUFFICES ASSUME NEW i \in 1..(e - 2), Ends(R[i], s[i + 1]) PROVE FALSE
    OBVIOUS
  <2>1. i \in 1..(e - 1) /\ i + 1 \in 1..(e - 1)
    BY <1>1
  <2>2. R[i + 1].at = "end"
    <3>1. R[i] \in Decoders /\ s[i + 1] \in Chars /\ R[i + 1] = Read(R[i], s[i + 1])
      BY <1>5, <2>1
    <3>2. Read(R[i], s[i + 1]).at = "end"
      BY <3>1, ReadEnd
    <3>3. QED
      BY <3>1, <3>2
  <2>3. R[i + 1] \in Decoders
    BY <1>5, <2>1
  <2>4. R[i + 1].at \in Stands
    BY <2>3, DecoderType
  <2>5. QED
    BY <2>2, <2>4 DEF Stands
<1>10. \A i \in e..n : R[i] = R[e]
  <2> DEFINE S == {j \in 0..(n - e) : R[e + j] = R[e]}
  <2>1. n - e \in Nat /\ 0 \in S
    BY <1>1
  <2>2. \A j \in 0..(n - e - 1) : j \in S => j + 1 \in S
    <3> SUFFICES ASSUME NEW j \in 0..(n - e - 1), j \in S PROVE j + 1 \in S
      OBVIOUS
    <3>1. e + j \in 0..(n - 1) /\ j + 1 \in 0..(n - e) /\ (e + j) + 1 = e + (j + 1)
      BY <1>1
    <3>2. R[(e + j) + 1] = Read(R[e + j], s[(e + j) + 1])
      BY <1>3, <3>1
    <3>3. R[e + j] = R[e]
      OBVIOUS
    <3>4. R[e + (j + 1)] = R[e]
      BY <1>8, <3>1, <3>2, <3>3 DEF Read
    <3>5. QED
      BY <3>1, <3>4
  <2> HIDE DEF S
  <2>3. \A j \in 0..(n - e) : j \in S
    BY <2>1, <2>2, Induction
  <2>4. QED
    <3> SUFFICES ASSUME NEW i \in e..n PROVE R[i] = R[e]
      OBVIOUS
    <3>1. i - e \in 0..(n - e) /\ e + (i - e) = i
      BY <1>1
    <3>2. QED
      BY <2>3, <3>1 DEF S
<1>11. QED
  BY <1>1, <1>4, <1>5, <1>6, <1>8, <1>9, <1>10 DEF n, Inside, Outside

\* The members, with the texts of their values.
Values(s, spans) ==
  [i \in 1..Len(spans) |-> [key |-> spans[i][1], value |-> SubSeq(s, spans[i][2], spans[i][3])]]

\* An object that is whole is what the text begins with.
LEMMA ObjectOfWhole ==
  ASSUME NEW s, NEW e, Whole(s, e)
  PROVE  ObjectAt(s).end = e /\ ObjectAt(s).members = Values(s, Reads(s)[e].members)
<1> DEFINE R == Reads(s)
           n == Len(s)
           d == R[n]
<1>1. /\ s \in Seq(Chars) /\ n \in Nat /\ e \in 2..n /\ R[e].at = "end" /\ R[e].pos = e
      /\ \A i \in e..n : R[i] = R[e]
  <2>1. /\ s \in Seq(Chars) /\ Len(s) \in Nat /\ e \in 2..Len(s)
    BY WholeFacts
  <2>2. Outside(s, e)
    BY WholeFacts
  <2>3. R[e].at = "end" /\ R[e].pos = e /\ \A i \in e..n : R[i] = R[e]
    BY <2>2 DEF Outside
  <2>4. QED
    BY <2>1, <2>3
<1>2. d = R[e]
  <2>1. n \in e..n
    <3> HIDE DEF n
    <3>1. QED
      BY <1>1
  <2>2. QED
    BY <1>1, <2>1
<1>3. s # <<>> /\ Head(s) = "{"
  <2>1. s[1] \in Braces
    BY DEF Whole
  <2>2. s # <<>>
    BY <1>1
  <2>3. Head(s) = s[1]
    BY <1>1, <2>2
  <2>4. QED
    BY <2>1, <2>2, <2>3, Zenon DEF Braces
<1> HIDE DEF d
<1>4. ObjectAt(s) = [end |-> d.pos,
                     members |-> [i \in 1..Len(d.members) |->
                       [key |-> d.members[i][1], value |-> SubSeq(s, d.members[i][2], d.members[i][3])]]]
  <2>1. d.at = "end"
    BY <1>1, <1>2
  <2>2. QED
    BY <1>3, <2>1 DEF ObjectAt, d
<1>5. ObjectAt(s).end = d.pos /\ ObjectAt(s).members = Values(s, d.members)
  BY <1>4 DEF Values
<1>6. QED
  BY <1>1, <1>2, <1>5

\* What the text begins with is an object that is whole.
LEMMA WholeObject ==
  ASSUME NEW s \in Seq(Chars), ObjectAt(s).end # 0
  PROVE  Whole(s, ObjectAt(s).end)
<1> DEFINE R == Reads(s)
           n == Len(s)
           d == R[n]
<1>1. s # <<>> /\ Head(s) = "{" /\ d.at = "end"
  <2> SUFFICES ASSUME ~(s # <<>> /\ Head(s) = "{" /\ d.at = "end") PROVE FALSE
    OBVIOUS
  <2>1. ObjectAt(s) = NoObject
    BY DEF ObjectAt
  <2>2. NoObject.end = 0
    BY ONLY DEF NoObject
  <2>3. QED
    BY ONLY <2>1, <2>2, ObjectAt(s).end # 0
<1>2. n \in Nat /\ n >= 1 /\ s[1] \in Braces
  <2>1. n \in Nat /\ n >= 1 /\ Head(s) = s[1]
    <3>1. s # <<>>
      BY <1>1
    <3>2. QED
      BY <3>1
  <2>2. QED
    BY <1>1, <2>1 DEF Braces
<1>3. n \in 1..n
  <2> HIDE DEF n
  <2>1. QED
    BY <1>2
<1>4. \/ R[n].at = "bad"
      \/ \A i \in 1..n : InObject(s, i)
      \/ \E e \in 2..n : Whole(s, e) /\ R[n] = R[e]
  BY <1>2, <1>3, Fate
<1>5. ~InObject(s, n)
  <2> SUFFICES ASSUME InObject(s, n) PROVE FALSE
    OBVIOUS
  <2>1. d.at \in Stands
    BY DecoderType DEF InObject
  <2>2. QED
    BY <1>1, <2>1 DEF Stands
<1>6. PICK e \in 2..n : Whole(s, e)
  BY <1>1, <1>3, <1>4, <1>5
<1>7. QED
  BY <1>6, ObjectOfWhole

\* The object does not depend on what follows it.
LEMMA SameStart ==
  ASSUME NEW s, NEW e, Whole(s, e), NEW t \in Seq(Chars), Len(t) >= e, \A i \in 1..e : t[i] = s[i]
  PROVE  Whole(t, e) /\ \A i \in 1..e : Reads(t)[i] = Reads(s)[i]
<1> DEFINE n == Len(t)
<1>1. /\ s \in Seq(Chars) /\ Len(s) \in Nat /\ e \in 2..Len(s) /\ e \in Nat /\ e >= 2
      /\ Reads(s)[1] = Opened
  BY WholeFacts
<1>2. n \in Nat /\ e <= n
  BY LenProperties
<1>3. /\ Reads(s)[0] = Begin /\ \A i \in 0..(Len(s) - 1) : Reads(s)[i + 1] = Read(Reads(s)[i], s[i + 1])
      /\ Reads(t)[0] = Begin /\ \A i \in 0..(n - 1) : Reads(t)[i + 1] = Read(Reads(t)[i], t[i + 1])
  BY <1>1, ReadsStep
<1> HIDE DEF n
<1> DEFINE S == {i \in 0..e : Reads(t)[i] = Reads(s)[i]}
<1>4. 0 \in S
  BY <1>1, <1>3
<1>5. \A i \in 0..(e - 1) : i \in S => i + 1 \in S
  <2> SUFFICES ASSUME NEW i \in 0..(e - 1), i \in S PROVE i + 1 \in S
    OBVIOUS
  <2>1. i + 1 \in 1..e /\ i + 1 \in 0..e
    BY <1>1
  <2>2. i \in 0..(Len(s) - 1)
    <3> DEFINE m == Len(s)
    <3>1. m \in Nat /\ e <= m
      BY <1>1
    <3> HIDE DEF m
    <3>2. i \in 0..(m - 1)
      BY <1>1, <3>1
    <3>3. QED
      BY <3>2 DEF m
  <2>3. i \in 0..(n - 1)
    BY <1>1, <1>2
  <2>4. Reads(t)[i + 1] = Read(Reads(t)[i], t[i + 1]) /\ Reads(s)[i + 1] = Read(Reads(s)[i], s[i + 1])
    BY <1>3, <2>2, <2>3
  <2>5. t[i + 1] = s[i + 1]
    BY <2>1
  <2>6. QED
    BY <2>1, <2>4, <2>5
<1>6. \A i \in 0..e : Reads(t)[i] = Reads(s)[i]
  <2> HIDE DEF S
  <2>1. \A i \in 0..e : i \in S
    BY <1>1, <1>4, <1>5, Induction
  <2>2. QED
    BY <2>1 DEF S
<1>7. \A i \in 1..e : i \in 0..e
  BY <1>1
<1>8. Whole(t, e)
  <2>1. e \in 2..Len(t)
    BY <1>1, <1>2 DEF n
  <2>2. t[1] \in Braces
    <3>1. 1 \in 1..e
      BY <1>1
    <3>2. QED
      BY <3>1 DEF Whole
  <2>3. \A i \in 1..(e - 1) : InObject(t, i)
    <3> SUFFICES ASSUME NEW i \in 1..(e - 1) PROVE InObject(t, i)
      OBVIOUS
    <3>1. i \in 0..e
      BY <1>1
    <3>2. InObject(s, i)
      BY DEF Whole
    <3>3. QED
      BY <1>6, <3>1, <3>2 DEF InObject
  <2>4. Ends(Reads(t)[e - 1], t[e])
    <3>1. e - 1 \in 0..e /\ e \in 1..e
      BY <1>1
    <3>2. Ends(Reads(s)[e - 1], s[e])
      BY DEF Whole
    <3>3. QED
      BY <1>6, <3>1, <3>2
  <2>5. QED
    BY <2>1, <2>2, <2>3, <2>4 DEF Whole
<1>9. QED
  BY <1>6, <1>7, <1>8

-----------------------------------------------------------------------------
(* A whole text is not repaired *)

\* Whether the decoder is in a string, as the repairs see it.
InString(at) ==
  IF at \in {"string", "in key"} THEN "in" ELSE IF at \in {"escaped", "key escaped"} THEN "escaped" ELSE "out"

\* The place of each character is found from the one before it.
LEMMA PlacesFacts ==
  ASSUME NEW s \in Seq(Chars)
  PROVE  /\ Places(s)[0] = "out"
         /\ \A i \in 0..(Len(s) - 1) : Places(s)[i + 1] = AfterChar(Places(s)[i], s[i + 1])
<1> DEFINE n == Len(s)
           FitsTo(f, m) == f = [i \in 0..m |-> IF i = 0 THEN "out" ELSE AfterChar(f[i - 1], s[i])]
           S == {m \in 0..n : \E f : FitsTo(f, m)}
<1>1. n \in Nat
  OBVIOUS
<1>2. 0 \in S
  <2>1. FitsTo([i \in 0..0 |-> "out"], 0)
    OBVIOUS
  <2> HIDE DEF FitsTo
  <2>2. QED
    BY <1>1, <2>1
<1>3. \A m \in 0..(n - 1) : m \in S => m + 1 \in S
  <2> SUFFICES ASSUME NEW m \in 0..(n - 1), m \in S PROVE m + 1 \in S
    OBVIOUS
  <2>1. PICK f : FitsTo(f, m)
    OBVIOUS
  <2> DEFINE g == [i \in 0..(m + 1) |-> IF i <= m THEN f[i] ELSE AfterChar(f[m], s[m + 1])]
  <2>2. FitsTo(g, m + 1)
    <3>1. ASSUME NEW i \in 0..(m + 1)
          PROVE g[i] = IF i = 0 THEN "out" ELSE AfterChar(g[i - 1], s[i])
      BY <1>1, <2>1
    <3>2. QED
      BY <3>1
  <2> HIDE DEF FitsTo, g
  <2>3. QED
    BY <1>1, <2>2
<1>4. n \in S
  <2> HIDE DEF S, n
  <2>1. \A i \in 0..n : i \in S
    BY <1>1, <1>2, <1>3, Induction
  <2>2. QED
    BY <1>1, <2>1
<1>5. FitsTo(Places(s), n)
  <2>1. \E f : FitsTo(f, n)
    BY <1>4
  <2>2. Places(s) = CHOOSE f : FitsTo(f, n)
    BY DEF Places
  <2> HIDE DEF FitsTo, n
  <2>3. QED
    BY <2>1, <2>2
<1> DEFINE F == [i \in 0..n |-> IF i = 0 THEN "out" ELSE AfterChar(Places(s)[i - 1], s[i])]
<1>6. Places(s) = F
  BY <1>5
<1> HIDE DEF n
<1>7. F[0] = "out" /\ \A i \in 0..(n - 1) : F[i + 1] = AfterChar(Places(s)[i], s[i + 1])
  BY <1>1
<1>8. QED
  BY <1>6, <1>7 DEF n

\* What a character is where it stands out of strings, and what it does to the brackets.
Structures(d, c, e) ==
  /\ InString(e.at) = AfterChar(InString(d.at), c)
  /\ InString(d.at) # "out" \/ c = Quote => e.open = d.open
  /\ InString(d.at) = "out" /\ c # Quote =>
       /\ c \notin Letters
       /\ c \in Openers => e.open = Append(d.open, c)
       /\ c \in {"}", "]"} => c = Closer[Last(d.open)] /\ e.open = Front(d.open) /\ d.at \notin {"key", "value"}
       /\ c \notin Brackets => e.open = d.open
       /\ c = "," => e.at \in {"key", "value"}

\* In the object each character does to the brackets what it does to those that the repairs count.
LEMMA ReadStructure ==
  ASSUME NEW d \in Decoders, NEW c \in Chars, Read(d, c).at # "bad"
  PROVE  Structures(d, c, Read(d, c))
<1> DEFINE e == Read(d, c)
           p == d.pos + 1
           one == Len(d.open) = 1
           from == IF one THEN p ELSE d.from
           key == IF one THEN d.word ELSE d.key
           keys == Append(Front(d.keys), Last(d.keys) \cup {d.word})
           word == Append(d.word, c)
           more == Append(d.open, c)
           less == Front(d.open)
           last == Last(d.open)
           kept == Kept(d)
           close == IF one THEN "end" ELSE "after"
<1>1. d.at \in Stands
  BY DecoderType
<1>2. d.at = "value or end" => last = "["
  BY DecoderType
<1>3. d.at \in {"key", "key or end"} => last = "{"
  BY DecoderType
<1>4. last \in Openers
  BY DecoderType, LastAndFront
<1>5. close \in {"end", "after"}
  OBVIOUS
<1> HIDE DEF p, one, from, key, keys, word, more, less, last, kept, close
<1>6. e.at # "bad"
  OBVIOUS
<1>7. CASE d.at = "string"
  <2>1. e = Later(d, IF c = Quote THEN "after" ELSE IF c = Escape THEN "escaped" ELSE "string")
    BY <1>7, ReadTable
  <2> HIDE DEF e
  <2>2. e.at = (IF c = Quote THEN "after" ELSE IF c = Escape THEN "escaped" ELSE "string") /\ e.open = d.open
    BY ONLY <2>1, DecoderFields DEF Later
  <2>3. QED
    BY <1>1, <1>4, <1>6, <1>2, <1>3, <1>5, <1>7, <2>2
    DEF Structures, InString, AfterChar, Quote, Escape, Digits, Letters, Openers, Brackets, Closer, more,
        less, last, e
<1>8. CASE d.at = "escaped"
  <2>1. e = Later(d, IF c \in {Quote, Escape} THEN "string" ELSE "bad")
    BY <1>8, ReadTable
  <2> HIDE DEF e
  <2>2. e.at = (IF c \in {Quote, Escape} THEN "string" ELSE "bad") /\ e.open = d.open
    BY ONLY <2>1, DecoderFields DEF Later
  <2>3. QED
    BY <1>1, <1>4, <1>6, <1>2, <1>3, <1>5, <1>8, <2>2
    DEF Structures, InString, AfterChar, Quote, Escape, Digits, Letters, Openers, Brackets, Closer, more,
        less, last, e
<1>9. CASE d.at = "in key" /\ c = Quote
  <2>1. e = Decoder(IF d.word \in Last(d.keys) THEN "bad" ELSE "colon", d.open, keys, <<>>, key,
                 d.from, d.members, p)
    BY <1>9, ReadTable DEF keys, key, one, p
  <2> HIDE DEF e
  <2>2. e.at = (IF d.word \in Last(d.keys) THEN "bad" ELSE "colon") /\ e.open = d.open
    BY ONLY <2>1, DecoderFields DEF Later
  <2>3. QED
    BY <1>1, <1>4, <1>6, <1>2, <1>3, <1>5, <1>9, <2>2
    DEF Structures, InString, AfterChar, Quote, Escape, Digits, Letters, Openers, Brackets, Closer, more,
        less, last, e
<1>10. CASE d.at = "in key" /\ c # Quote
  <2> DEFINE at == IF c = Escape THEN "key escaped" ELSE "in key"
  <2>1. e = Decoder(at, d.open, d.keys, word, d.key,
                 d.from, d.members, p)
    BY <1>10, ReadTable DEF word, p
  <2> HIDE DEF e, at
  <2>2. e.at = at /\ e.open = d.open
    BY ONLY <2>1, DecoderFields DEF Later
  <2>3. QED
    BY <1>1, <1>4, <1>6, <1>2, <1>3, <1>5, <1>10, <2>2
    DEF Structures, InString, AfterChar, Quote, Escape, Digits, Letters, Openers, Brackets, Closer, more,
        less, last, e, at
<1>11. CASE d.at = "key escaped"
  <2> DEFINE at == IF c \in {Quote, Escape} THEN "in key" ELSE "bad"
  <2>1. e = Decoder(at, d.open, d.keys, word, d.key,
                 d.from, d.members, p)
    BY <1>11, ReadTable DEF word, p
  <2> HIDE DEF e, at
  <2>2. e.at = at /\ e.open = d.open
    BY ONLY <2>1, DecoderFields DEF Later
  <2>3. QED
    BY <1>1, <1>4, <1>6, <1>2, <1>3, <1>5, <1>11, <2>2
    DEF Structures, InString, AfterChar, Quote, Escape, Digits, Letters, Openers, Brackets, Closer, more,
        less, last, e, at
<1>12. CASE d.at = "colon"
  <2>1. e = Later(d, IF c = ":" THEN "value" ELSE "bad")
    BY <1>12, ReadTable
  <2> HIDE DEF e
  <2>2. e.at = (IF c = ":" THEN "value" ELSE "bad") /\ e.open = d.open
    BY ONLY <2>1, DecoderFields DEF Later
  <2>3. QED
    BY <1>1, <1>4, <1>6, <1>2, <1>3, <1>5, <1>12, <2>2
    DEF Structures, InString, AfterChar, Quote, Escape, Digits, Letters, Openers, Brackets, Closer, more,
        less, last, e
<1>13. CASE d.at \in {"value", "value or end"} /\ c = Quote
  <2>1. e = Decoder("string", d.open, d.keys, d.word, d.key, from, d.members, p)
    BY <1>13, ReadTable DEF from, one, p
  <2> HIDE DEF e
  <2>2. e.at = "string" /\ e.open = d.open
    BY ONLY <2>1, DecoderFields DEF Later
  <2>3. QED
    BY <1>1, <1>4, <1>6, <1>2, <1>3, <1>5, <1>13, <2>2
    DEF Structures, InString, AfterChar, Quote, Escape, Digits, Letters, Openers, Brackets, Closer, more,
        less, last, e
<1>14. CASE d.at \in {"value", "value or end"} /\ c \in Digits
  <2>1. e = Decoder("number", d.open, d.keys, d.word, d.key, from, d.members, p)
    BY <1>14, ReadTable DEF from, one, p
  <2> HIDE DEF e
  <2>2. e.at = "number" /\ e.open = d.open
    BY ONLY <2>1, DecoderFields DEF Later
  <2>3. QED
    BY <1>1, <1>4, <1>6, <1>2, <1>3, <1>5, <1>14, <2>2
    DEF Structures, InString, AfterChar, Quote, Escape, Digits, Letters, Openers, Brackets, Closer, more,
        less, last, e
<1>15. CASE d.at \in {"value", "value or end"} /\ c \in {"{", "["}
  <2> DEFINE at == IF c = "{" THEN "key or end" ELSE "value or end"
  <2>1. e = Decoder(at, more, Append(d.keys, {}), d.word,
                 d.key, from, d.members, p)
    BY <1>15, ReadTable DEF from, one, more, p
  <2> HIDE DEF e, at
  <2>2. e.at = at /\ e.open = more
    BY ONLY <2>1, DecoderFields DEF Later
  <2>3. QED
    BY <1>1, <1>4, <1>6, <1>2, <1>3, <1>5, <1>15, <2>2
    DEF Structures, InString, AfterChar, Quote, Escape, Digits, Letters, Openers, Brackets, Closer, more,
        less, last, e, at
<1>16. CASE d.at = "value or end" /\ c = "]"
  <2>1. e = Decoder(close, less, Front(d.keys), d.word, d.key, d.from, d.members, p)
    BY <1>16, ReadTable DEF close, one, less, p
  <2> HIDE DEF e
  <2>2. e.at = close /\ e.open = less
    BY ONLY <2>1, DecoderFields DEF Later
  <2>3. QED
    BY <1>1, <1>4, <1>6, <1>2, <1>3, <1>5, <1>16, <2>2
    DEF Structures, InString, AfterChar, Quote, Escape, Digits, Letters, Openers, Brackets, Closer, more,
        less, last, e
<1>17. CASE d.at \in {"key", "key or end"} /\ c = Quote
  <2> DEFINE at == "in key"
  <2>1. e = Later(d, at)
    BY <1>17, ReadTable
  <2> HIDE DEF e, at
  <2>2. e.at = at /\ e.open = d.open
    BY ONLY <2>1, DecoderFields DEF Later
  <2>3. QED
    BY <1>1, <1>4, <1>6, <1>2, <1>3, <1>5, <1>17, <2>2
    DEF Structures, InString, AfterChar, Quote, Escape, Digits, Letters, Openers, Brackets, Closer, more,
        less, last, e, at
<1>18. CASE d.at = "key or end" /\ c = "}"
  <2>1. e = Decoder(close, less, Front(d.keys), d.word, d.key, d.from, d.members, p)
    BY <1>18, ReadTable DEF close, one, less, p
  <2> HIDE DEF e
  <2>2. e.at = close /\ e.open = less
    BY ONLY <2>1, DecoderFields DEF Later
  <2>3. QED
    BY <1>1, <1>4, <1>6, <1>2, <1>3, <1>5, <1>18, <2>2
    DEF Structures, InString, AfterChar, Quote, Escape, Digits, Letters, Openers, Brackets, Closer, more,
        less, last, e
<1>19. CASE d.at = "number" /\ c \in Digits
  <2>1. e = Later(d, "number")
    BY <1>19, ReadTable
  <2> HIDE DEF e
  <2>2. e.at = "number" /\ e.open = d.open
    BY ONLY <2>1, DecoderFields DEF Later
  <2>3. QED
    BY <1>1, <1>4, <1>6, <1>2, <1>3, <1>5, <1>19, <2>2
    DEF Structures, InString, AfterChar, Quote, Escape, Digits, Letters, Openers, Brackets, Closer, more,
        less, last, e
<1>20. CASE d.at \in {"after", "number"} /\ c = ","
  <2> DEFINE at == IF last = "{" THEN "key" ELSE "value"
  <2>1. e = Decoder(at, d.open, d.keys, d.word, d.key, d.from,
                 kept, p)
    BY <1>20, ReadTable DEF last, kept, p
  <2> HIDE DEF e, at
  <2>2. e.at = at /\ e.open = d.open
    BY ONLY <2>1, DecoderFields DEF Later
  <2>3. QED
    BY <1>1, <1>4, <1>6, <1>2, <1>3, <1>5, <1>20, <2>2
    DEF Structures, InString, AfterChar, Quote, Escape, Digits, Letters, Openers, Brackets, Closer, more,
        less, last, e, at
<1>21. CASE d.at \in {"after", "number"} /\ c = Closer[last]
  <2>1. e = Decoder(close, less, Front(d.keys), d.word, d.key, d.from, kept, p)
    BY <1>21, ReadTable DEF close, one, less, kept, last, p
  <2> HIDE DEF e
  <2>2. e.at = close /\ e.open = less
    BY ONLY <2>1, DecoderFields DEF Later
  <2>3. QED
    BY <1>1, <1>4, <1>6, <1>2, <1>3, <1>5, <1>21, <2>2
    DEF Structures, InString, AfterChar, Quote, Escape, Digits, Letters, Openers, Brackets, Closer, more,
        less, last, e
<1>22. QED
  <2>1. ASSUME e = Later(d, "bad") PROVE FALSE
    <3> HIDE DEF e
    <3>1. e.at = "bad"
      BY ONLY <2>1, DecoderFields DEF Later
    <3>2. QED
      BY <1>6, <3>1
  <2>2. CASE d.at \in {"value", "value or end"}
    <3>1. c \in {Quote, "{", "["} \cup Digits \/ (d.at = "value or end" /\ c = "]")
      BY <2>1, <2>2, ReadTable
    <3>2. QED
      BY <1>13, <1>14, <1>15, <1>16, <2>2, <3>1
  <2>3. CASE d.at \in {"key", "key or end"}
    <3>1. c = Quote \/ (d.at = "key or end" /\ c = "}")
      BY <2>1, <2>3, ReadTable
    <3>2. QED
      BY <1>17, <1>18, <2>3, <3>1
  <2>4. CASE d.at \in {"after", "number"}
    <3>1. c \in {",", Closer[last]} \/ (d.at = "number" /\ c \in Digits)
      BY <2>1, <2>4, ReadTable DEF last
    <3>2. QED
      BY <1>19, <1>20, <1>21, <2>4, <3>1
  <2>5. QED
    BY <1>1, <1>7, <1>8, <1>9, <1>10, <1>11, <1>12, <2>2, <2>3, <2>4 DEF Stands

\* In the object, the places that the repairs see are where the decoder stands.
LEMMA WholeStructure ==
  ASSUME NEW s, NEW e, Whole(s, e)
  PROVE  /\ \A i \in 0..e : Places(s)[i] = InString(Reads(s)[i].at)
         /\ \A i \in 1..(e - 1) : Structures(Reads(s)[i], s[i + 1], Reads(s)[i + 1])
<1> DEFINE R == Reads(s)
           P == Places(s)
           n == Len(s)
<1>1. /\ s \in Seq(Chars) /\ n \in Nat /\ e \in 2..n /\ e \in Nat /\ e >= 2 /\ e <= n
      /\ R[1] = Opened /\ s[1] \in Braces
  BY WholeFacts DEF Whole
<1>2. Inside(s, e) /\ Outside(s, e)
  BY WholeFacts
<1>3. \A i \in 1..(e - 1) : R[i] \in Decoders /\ s[i + 1] \in Chars /\ R[i + 1] = Read(R[i], s[i + 1])
  BY <1>2 DEF Inside
<1>4. R[e].at = "end"
  BY <1>2 DEF Outside
<1>5. \A i \in 1..(e - 1) : R[i + 1].at # "bad"
  <2> SUFFICES ASSUME NEW i \in 1..(e - 1) PROVE R[i + 1].at # "bad"
    OBVIOUS
  <2>1. CASE i + 1 = e
    BY <1>4, <2>1
  <2>2. CASE i + 1 # e
    <3>1. i + 1 \in 1..(e - 1)
      BY <1>1, <2>2
    <3>2. R[i + 1].at \in Stands
      BY <1>3, <3>1, DecoderType
    <3>3. QED
      BY <3>2 DEF Stands
  <2>3. QED
    BY <2>1, <2>2
<1>6. \A i \in 1..(e - 1) : Structures(R[i], s[i + 1], R[i + 1])
  <2> SUFFICES ASSUME NEW i \in 1..(e - 1) PROVE Structures(R[i], s[i + 1], R[i + 1])
    OBVIOUS
  <2> DEFINE d == R[i]
             c == s[i + 1]
  <2>1. d \in Decoders /\ c \in Chars /\ R[i + 1] = Read(d, c) /\ Read(d, c).at # "bad"
    BY <1>3, <1>5
  <2> HIDE DEF d, c
  <2>2. Structures(d, c, Read(d, c))
    BY <2>1, ReadStructure
  <2>3. QED
    BY <2>1, <2>2 DEF d, c
<1> DEFINE S == {i \in 0..e : P[i] = InString(R[i].at)}
<1>7. P[0] = "out" /\ \A i \in 0..(n - 1) : P[i + 1] = AfterChar(P[i], s[i + 1])
  BY <1>1, PlacesFacts
<1>8. 0 \in S
  <2>1. R[0] = Begin
    BY <1>1, ReadsStep
  <2>2. R[0].at = "value"
    BY <2>1 DEF Begin
  <2>3. InString(R[0].at) = "out"
    BY <2>2 DEF InString
  <2>4. 0 \in 0..e /\ P[0] = "out"
    BY <1>1, <1>7
  <2>5. QED
    BY <2>3, <2>4
<1> HIDE DEF n
<1>9. \A i \in 0..(e - 1) : i \in S => i + 1 \in S
  <2> SUFFICES ASSUME NEW i \in 0..(e - 1), i \in S PROVE i + 1 \in S
    OBVIOUS
  <2>1. i + 1 \in 0..e /\ i \in 0..(n - 1)
    BY <1>1
  <2>2. P[i + 1] = AfterChar(P[i], s[i + 1]) /\ P[i] = InString(R[i].at)
    BY <1>7, <2>1
  <2>3. CASE i = 0
    <3>1. 0 + 1 = 1
      OBVIOUS
    <3>2. P[1] = AfterChar("out", s[1]) /\ s[1] \in Braces
      BY <1>1, <1>7, <2>2, <2>3, <3>1
    <3>3. R[1].at = "key or end"
      <4>1. Opened.at = "key or end"
        BY DEF Opened, Decoder
      <4>2. QED
        BY <1>1, <4>1
    <3>4. P[1] = InString(R[1].at)
      BY <3>2, <3>3 DEF InString, AfterChar, Quote, Escape, Braces
    <3>5. QED
      BY <2>1, <2>3, <3>1, <3>4
  <2>4. CASE i # 0
    <3>1. i \in 1..(e - 1)
      BY <1>1, <2>4
    <3>2. Structures(R[i], s[i + 1], R[i + 1])
      BY <1>6, <3>1
    <3>3. InString(R[i + 1].at) = AfterChar(InString(R[i].at), s[i + 1])
      BY <3>2 DEF Structures
    <3>4. QED
      BY <2>1, <2>2, <3>3
  <2>5. QED
    BY <2>3, <2>4
<1>10. \A i \in 0..e : P[i] = InString(R[i].at)
  <2> HIDE DEF S
  <2>1. \A i \in 0..e : i \in S
    BY <1>1, <1>8, <1>9, Induction
  <2>2. QED
    BY <2>1 DEF S
<1>11. QED
  BY <1>6, <1>10

\* How many elements of S there are up to i, counted one by one.
HowMany(S, i) == Cardinality({k \in S : k <= i})

\* One more place counts what stands there.
LEMMA CountStep ==
  ASSUME NEW n \in Nat, NEW S \in SUBSET (1..n), NEW i \in 0..(n - 1)
  PROVE  /\ HowMany(S, i) \in Nat
         /\ HowMany(S, i + 1) = IF i + 1 \in S THEN HowMany(S, i) + 1 ELSE HowMany(S, i)
<1> DEFINE U == {k \in S : k <= i}
           V == {k \in S : k <= i + 1}
<1>1. i \in Int /\ 1 \in Int /\ n \in Int /\ \A k \in S : k \in Int
  OBVIOUS
<1>2. IsFiniteSet(U) /\ Cardinality(U) \in Nat
  <2>1. IsFiniteSet(1..n)
    BY <1>1, FS_Interval
  <2>2. U \in SUBSET (1..n)
    BY ONLY S \in SUBSET (1..n)
  <2> HIDE DEF U
  <2>3. IsFiniteSet(U)
    BY <2>2, <2>1, FS_Subset
  <2>4. QED
    BY <2>3, FS_CardinalityType
<1>3. i + 1 \notin U
  OBVIOUS
<1>4. CASE i + 1 \in S
  <2>1. V = U \cup {i + 1}
    <3>1. \A k \in S : k <= i + 1 <=> (k <= i \/ k = i + 1)
      BY <1>1
    <3>2. QED
      BY ONLY <1>4, <3>1
  <2> HIDE DEF U, V, HowMany
  <2>2. Cardinality(V) = Cardinality(U) + 1
    BY <1>2, <1>3, <2>1, FS_AddElement
  <2>3. QED
    BY <1>2, <1>4, <2>2 DEF U, V, HowMany
<1>5. CASE i + 1 \notin S
  <2>1. V = U
    <3>1. \A k \in S : k <= i + 1 <=> (k <= i \/ k = i + 1)
      BY <1>1
    <3>2. QED
      BY ONLY <1>5, <3>1
  <2>2. QED
    BY <1>2, <1>5, <2>1 DEF HowMany
<1>6. QED
  BY <1>4, <1>5

\* The braces among the open brackets.
Depths(open) == Cardinality({k \in 1..Len(open) : open[k] \in Braces})

\* A bracket that opens is one deeper if it is a brace.
LEMMA DepthGrows ==
  ASSUME NEW open \in Seq(Openers), NEW c \in Openers
  PROVE  /\ Depths(open) \in Nat
         /\ Depths(Append(open, c)) = IF c \in Braces THEN Depths(open) + 1 ELSE Depths(open)
<1> DEFINE more == Append(open, c)
           n == Len(open)
           S == {k \in 1..(n + 1) : more[k] \in Braces}
<1>1. n \in Nat /\ Len(more) = n + 1 /\ more[n + 1] = c /\ \A i \in 1..n : more[i] = open[i]
  BY Appended
<1> HIDE DEF more, n
<1>2. n + 1 \in Nat /\ S \in SUBSET (1..(n + 1)) /\ n \in 0..((n + 1) - 1)
  BY <1>1
<1>3. {k \in S : k <= n} = {k \in 1..n : open[k] \in Braces} /\ {k \in S : k <= n + 1} = S
  BY <1>1
<1>4. n + 1 \in S <=> c \in Braces
  BY <1>1
<1> HIDE DEF S
<1>5. /\ HowMany(S, n) \in Nat
      /\ HowMany(S, n + 1) = IF n + 1 \in S THEN HowMany(S, n) + 1 ELSE HowMany(S, n)
  <2> DEFINE m == n + 1
  <2>1. m \in Nat /\ S \in SUBSET (1..m) /\ n \in 0..(m - 1)
    BY <1>2
  <2> HIDE DEF m
  <2>2. QED
    BY <2>1, CountStep
<1>6. Depths(open) = HowMany(S, n)
  BY <1>3 DEF Depths, HowMany, n
<1>7. Depths(more) = HowMany(S, n + 1)
  BY <1>1, <1>3 DEF Depths, HowMany, S
<1>8. QED
  BY <1>4, <1>5, <1>6, <1>7 DEF more

\* The last of the open brackets counts if it is a brace.
LEMMA DepthShrinks ==
  ASSUME NEW open \in Seq(Openers), Len(open) >= 1
  PROVE  Depths(open) = IF Last(open) \in Braces THEN Depths(Front(open)) + 1 ELSE Depths(Front(open))
<1> DEFINE less == Front(open)
           c == Last(open)
<1>1. less \in Seq(Openers) /\ c \in Openers
  BY LastAndFront
<1>2. open = Append(less, c)
  <2> DEFINE n == Len(open)
  <2>1. /\ n \in Nat /\ n >= 1 /\ c = open[n] /\ Len(less) = n - 1
        /\ \A i \in 1..(n - 1) : less[i] = open[i]
    BY LastAndFront
  <2>2. /\ Append(less, c) \in Seq(Openers) /\ Len(Append(less, c)) = Len(less) + 1
        /\ Append(less, c)[Len(less) + 1] = c /\ \A i \in 1..Len(less) : Append(less, c)[i] = less[i]
    BY <1>1, Appended
  <2> DEFINE more == Append(less, c)
  <2> HIDE DEF less, c, more
  <2>3. more \in Seq(Openers) /\ Len(more) = Len(open) /\ \A i \in 1..n : open[i] = more[i]
    <3> HIDE DEF n
    <3>1. (n - 1) + 1 = n /\ \A i \in 1..n : i = n \/ i \in 1..(n - 1)
      BY <2>1
    <3>2. more \in Seq(Openers) /\ Len(more) = n /\ more[n] = c /\ \A i \in 1..(n - 1) : more[i] = less[i]
      BY <2>1, <2>2, <3>1 DEF more
    <3>3. QED
      BY <2>1, <3>1, <3>2 DEF n
  <2>4. open = more
    BY <2>3, SeqEqual
  <2>5. QED
    BY <2>4 DEF more
<1> HIDE DEF less, c
<1>3. Depths(Append(less, c)) = IF c \in Braces THEN Depths(less) + 1 ELSE Depths(less)
  BY <1>1, DepthGrows
<1>4. QED
  BY <1>2, <1>3 DEF less, c

\* In the object at least its own brace is open.
LEMMA DepthInside ==
  ASSUME NEW open \in Seq(Openers), Len(open) >= 1, open[1] \in Braces
  PROVE  Depths(open) \in Nat /\ Depths(open) >= 1
<1> DEFINE S == {k \in 1..Len(open) : open[k] \in Braces}
<1>1. Len(open) \in Nat
  BY LenProperties
<1>2. IsFiniteSet(S)
  <2>1. IsFiniteSet(1..Len(open)) /\ S \in SUBSET (1..Len(open))
    <3>1. 1 \in Int /\ Len(open) \in Int
      BY <1>1
    <3>2. QED
      BY <3>1, FS_Interval
  <2> HIDE DEF S
  <2>2. QED
    BY <2>1, FS_Subset
<1>3. S # {}
  <2>1. 1 \in 1..Len(open)
    BY <1>1
  <2>2. QED
    BY <2>1 DEF Braces
<1> HIDE DEF S
<1>4. Cardinality(S) \in Nat /\ Cardinality(S) # 0
  BY <1>2, <1>3, FS_CardinalityType, FS_EmptySet
<1>5. Cardinality(S) >= 1
  BY <1>4
<1>6. QED
  BY <1>4, <1>5 DEF Depths, S

\* The braces of the text out of strings.
OpeningBraces(s) == {k \in Structural(s) : s[k] = "{"}

ClosingBraces(s) == {k \in Structural(s) : s[k] = "}"}

\* A character is out of strings where the decoder is out of them, and no quote.
LEMMA StructuralFacts ==
  ASSUME NEW s, NEW e, Whole(s, e)
  PROVE  /\ 1 \in Structural(s)
         /\ \A i \in 1..(e - 1) :
              i + 1 \in Structural(s) <=> InString(Reads(s)[i].at) = "out" /\ s[i + 1] # Quote
         /\ Structural(s) \in SUBSET (1..Len(s))
<1>1. Len(s) \in Nat /\ e \in Nat /\ e >= 2 /\ e <= Len(s)
  BY WholeFacts
<1>2. \A i \in 0..e : Places(s)[i] = InString(Reads(s)[i].at)
  BY WholeStructure
<1>3. s \in Seq(Chars) /\ s[1] \in Braces
  BY WholeFacts DEF Whole
<1>4. Places(s)[0] = "out"
  BY <1>3, PlacesFacts
<1> DEFINE n == Len(s)
           P == Places(s)
<1>5. Structural(s) = {i \in 1..n : P[i - 1] = "out" /\ s[i] # Quote}
  BY DEF Structural
<1> HIDE DEF n, P
<1>6. 1 \in Structural(s)
  <2>1. 1 \in 1..n /\ 1 - 1 = 0
    BY <1>1 DEF n
  <2>2. s[1] # Quote
    BY <1>3 DEF Braces, Quote
  <2>3. P[1 - 1] = "out"
    BY <1>4, <2>1 DEF P
  <2>4. QED
    BY <1>5, <2>1, <2>2, <2>3
<1>7. ASSUME NEW i \in 1..(e - 1)
      PROVE  i + 1 \in Structural(s) <=> InString(Reads(s)[i].at) = "out" /\ s[i + 1] # Quote
  <2>1. i + 1 \in 1..n /\ (i + 1) - 1 = i /\ i \in 0..e
    BY <1>1 DEF n
  <2>2. i + 1 \in Structural(s) <=> P[i] = "out" /\ s[i + 1] # Quote
    BY <1>5, <2>1
  <2>3. P[i] = InString(Reads(s)[i].at)
    BY <1>2, <2>1 DEF P
  <2>4. QED
    BY <2>2, <2>3
<1>8. QED
  BY <1>5, <1>6, <1>7 DEF n

\* What a text with one more character does to the depth.
LEMMA DepthStep ==
  ASSUME NEW d \in Decoders, NEW c, NEW e, Structures(d, c, e)
  PROVE  /\ Depths(d.open) \in Nat
         /\ InString(d.at) = "out" /\ c = "{" => Depths(e.open) = Depths(d.open) + 1
         /\ InString(d.at) = "out" /\ c = "}" => Depths(d.open) = Depths(e.open) + 1
         /\ ~(InString(d.at) = "out" /\ c \in {"{", "}"}) => Depths(e.open) = Depths(d.open)
<1>1. d.open \in Seq(Openers) /\ Len(d.open) \in Nat /\ Len(d.open) >= 1
  BY DecoderType
<1>2. Last(d.open) \in Openers
  BY <1>1, LastAndFront
<1>3. Depths(d.open) = (IF Last(d.open) \in Braces THEN Depths(Front(d.open)) + 1 ELSE Depths(Front(d.open)))
  BY <1>1, DepthShrinks
<1>4. \A x \in Openers : /\ Depths(d.open) \in Nat
                         /\ Depths(Append(d.open, x)) = IF x \in Braces THEN Depths(d.open) + 1 ELSE Depths(d.open)
  BY <1>1, DepthGrows
<1>5. "{" \in Openers /\ "[" \in Openers
  BY DEF Openers
<1>6. CASE InString(d.at) # "out" \/ c = Quote
  BY <1>4, <1>5, <1>6 DEF Structures, Quote
<1>7. CASE InString(d.at) = "out" /\ c # Quote
  <2>1. CASE c \in Openers
    <3>1. e.open = Append(d.open, c)
      BY <1>7, <2>1 DEF Structures
    <3>2. Depths(e.open) = IF c \in Braces THEN Depths(d.open) + 1 ELSE Depths(d.open)
      BY <1>4, <2>1, <3>1
    <3>3. c # "}" /\ (c \in Braces <=> c = "{")
      BY <2>1 DEF Openers, Braces
    <3>4. Depths(d.open) \in Nat
      BY <1>4, <2>1
    <3>5. QED
      BY ONLY <1>7, <3>2, <3>3, <3>4
  <2>2. CASE c \in {"}", "]"}
    <3>1. c = Closer[Last(d.open)] /\ e.open = Front(d.open)
      BY <1>7, <2>2 DEF Structures
    <3>2. c = "}" <=> Last(d.open) \in Braces
      BY <1>2, <3>1 DEF Closer, Openers, Braces
    <3>3. Depths(d.open) = (IF c = "}" THEN Depths(e.open) + 1 ELSE Depths(e.open))
      BY ONLY <1>3, <3>1, <3>2
    <3>4. Depths(d.open) \in Nat
      BY <1>4, <1>5
    <3>5. c # "{"
      BY <2>2
    <3>6. QED
      BY ONLY <1>7, <3>3, <3>4, <3>5
  <2>3. CASE c \notin Brackets
    <3>1. e.open = d.open
      BY <1>7, <2>3 DEF Structures
    <3>2. QED
      BY <1>4, <1>5, <2>3, <3>1 DEF Brackets
  <2>4. QED
    BY <2>1, <2>2, <2>3 DEF Openers, Brackets
<1>8. QED
  BY <1>6, <1>7

\* The depth of the braces, as the repairs count it, is that of the decoder.
LEMMA DepthOfText ==
  ASSUME NEW s, NEW e, Whole(s, e), NEW i \in 1..e
  PROVE  /\ HowMany(OpeningBraces(s), i) \in Nat /\ HowMany(ClosingBraces(s), i) \in Nat
         /\ Depths(Reads(s)[i].open) \in Nat
         /\ HowMany(OpeningBraces(s), i) = HowMany(ClosingBraces(s), i) + Depths(Reads(s)[i].open)
<1> DEFINE R == Reads(s)
           n == Len(s)
           O == OpeningBraces(s)
           C == ClosingBraces(s)
           FitsTo(k) == /\ HowMany(O, k) \in Nat /\ HowMany(C, k) \in Nat /\ Depths(R[k].open) \in Nat
                      /\ HowMany(O, k) = HowMany(C, k) + Depths(R[k].open)
           S == {k \in 0..e : k = 0 \/ FitsTo(k)}
<1>1. n \in Nat /\ e \in Nat /\ e >= 2 /\ e <= n /\ R[1] = Opened /\ s[1] \in Braces
  BY WholeFacts DEF Whole
<1>2. Inside(s, e)
  BY WholeFacts
<1>3. \A k \in 1..(e - 1) : Structures(R[k], s[k + 1], R[k + 1])
  BY WholeStructure
<1>4. /\ 1 \in Structural(s)
      /\ \A k \in 1..(e - 1) : k + 1 \in Structural(s) <=> InString(R[k].at) = "out" /\ s[k + 1] # Quote
      /\ Structural(s) \in SUBSET (1..n)
  BY StructuralFacts
<1>5. O \in SUBSET (1..n) /\ C \in SUBSET (1..n)
  BY <1>4 DEF OpeningBraces, ClosingBraces
<1>6. \A k : (k \in O <=> k \in Structural(s) /\ s[k] = "{") /\ (k \in C <=> k \in Structural(s) /\ s[k] = "}")
  BY DEF OpeningBraces, ClosingBraces
<1> HIDE DEF n, O, C
<1>7. ASSUME NEW T \in SUBSET (1..n), NEW k \in 0..(n - 1)
      PROVE  /\ HowMany(T, k) \in Nat
             /\ HowMany(T, k + 1) = IF k + 1 \in T THEN HowMany(T, k) + 1 ELSE HowMany(T, k)
  BY <1>1, CountStep
<1>8. FitsTo(1)
  <2>1. HowMany(O, 0) = 0 /\ HowMany(C, 0) = 0
    <3>1. {k \in O : k <= 0} = {} /\ {k \in C : k <= 0} = {}
      <4>1. \A k \in 1..n : ~(k <= 0)
        OBVIOUS
      <4>2. QED
        BY ONLY <1>5, <4>1
    <3>2. QED
      BY <3>1, FS_EmptySet DEF HowMany
  <2>2. 0 \in 0..(n - 1) /\ 0 + 1 = 1
    BY <1>1
  <2>3. 1 \in O /\ 1 \notin C
    BY <1>1, <1>4, <1>6 DEF Braces
  <2>4. HowMany(O, 1) = 1 /\ HowMany(C, 1) = 0
    <3>1. HowMany(O, 0 + 1) = HowMany(O, 0) + 1 /\ HowMany(C, 0 + 1) = HowMany(C, 0)
      BY <1>5, <1>7, <2>2, <2>3
    <3>2. QED
      BY <2>1, <3>1
  <2>5. Depths(R[1].open) = 1
    <3>1. Opened.open = Append(<<>>, "{")
      <4>1. Opened.open = <<"{">>
        BY DEF Opened, Decoder
      <4>2. Append(<<>>, "{") = <<"{">>
        OBVIOUS
      <4>3. QED
        BY <4>1, <4>2
    <3>2. <<>> \in Seq(Openers) /\ "{" \in Openers /\ "{" \in Braces
      BY DEF Openers, Braces
    <3>3. Depths(Append(<<>>, "{")) = Depths(<<>>) + 1
      BY <3>2, DepthGrows
    <3>4. Depths(<<>>) = 0
      <4> DEFINE none == <<>>
      <4>1. Len(none) = 0
        OBVIOUS
      <4> HIDE DEF none
      <4>2. {k \in 1..Len(none) : none[k] \in Braces} = {}
        BY <4>1
      <4>3. Depths(none) = 0
        BY <4>2, FS_EmptySet DEF Depths
      <4>4. QED
        BY <4>3 DEF none
    <3>5. R[1].open = Append(<<>>, "{")
      BY ONLY <1>1, <3>1
    <3>6. 0 + 1 = 1
      OBVIOUS
    <3>7. QED
      BY ONLY <3>3, <3>4, <3>5, <3>6
  <2>6. QED
    BY <2>4, <2>5
<1>9. ASSUME NEW k \in 1..(e - 1), FitsTo(k) PROVE FitsTo(k + 1)
  <2> DEFINE d == R[k]
             c == s[k + 1]
             x == R[k + 1]
             bare == InString(d.at) = "out"
  <2>1. d \in Decoders /\ Structures(d, c, x)
    BY <1>2, <1>3 DEF Inside
  <2>2. k \in 0..(n - 1)
    BY <1>1
  <2>3. /\ HowMany(O, k + 1) = IF k + 1 \in O THEN HowMany(O, k) + 1 ELSE HowMany(O, k)
        /\ HowMany(C, k + 1) = IF k + 1 \in C THEN HowMany(C, k) + 1 ELSE HowMany(C, k)
    BY <1>5, <1>7, <2>2
  <2>4. (k + 1 \in O <=> bare /\ c = "{") /\ (k + 1 \in C <=> bare /\ c = "}")
    BY <1>4, <1>6 DEF Quote
  <2> HIDE DEF d, c, x
  <2>5. /\ Depths(d.open) \in Nat
        /\ bare /\ c = "{" => Depths(x.open) = Depths(d.open) + 1
        /\ bare /\ c = "}" => Depths(d.open) = Depths(x.open) + 1
        /\ ~(bare /\ c \in {"{", "}"}) => Depths(x.open) = Depths(d.open)
    BY <2>1, DepthStep
  <2>6. Depths(d.open) \in Nat
    BY ONLY <2>5
  <2>7. HowMany(O, k) \in Nat /\ HowMany(C, k) \in Nat /\ HowMany(O, k) = HowMany(C, k) + Depths(d.open)
    BY <1>9 DEF d
  <2>8. Depths(x.open) \in Nat
    <3>1. CASE bare /\ c = "}"
      <4>1. x.open = Front(d.open) /\ d.open \in Seq(Openers) /\ Len(d.open) >= 1
        BY <2>1, <3>1, DecoderType DEF Structures, Quote
      <4>2. Front(d.open) \in Seq(Openers) /\ "{" \in Openers
        BY <4>1, LastAndFront DEF Openers
      <4>3. QED
        BY <4>1, <4>2, DepthGrows
    <3>2. CASE bare /\ c = "{"
      <4>1. Depths(x.open) = Depths(d.open) + 1
        BY ONLY <2>5, <3>2
      <4>2. QED
        BY ONLY <2>6, <4>1
    <3>3. CASE ~(bare /\ c \in {"{", "}"})
      BY ONLY <2>5, <3>3
    <3>4. QED
      BY <3>1, <3>2, <3>3
  <2> HIDE DEF bare
  <2>9. HowMany(O, k + 1) \in Nat /\ HowMany(C, k + 1) \in Nat
        /\ HowMany(O, k + 1) = HowMany(C, k + 1) + Depths(x.open)
    <3>1. CASE bare /\ c = "{"
      <4>1. k + 1 \in O /\ k + 1 \notin C
        BY ONLY <2>4, <3>1
      <4>2. Depths(x.open) = Depths(d.open) + 1
        BY ONLY <2>5, <3>1
      <4>3. QED
        BY ONLY <2>3, <2>7, <2>8, <2>6, <4>1, <4>2
    <3>2. CASE bare /\ c = "}"
      <4>1. k + 1 \notin O /\ k + 1 \in C
        BY ONLY <2>4, <3>2
      <4>2. Depths(d.open) = Depths(x.open) + 1
        BY ONLY <2>5, <3>2
      <4>3. QED
        BY ONLY <2>3, <2>7, <2>8, <2>6, <4>1, <4>2
    <3>3. CASE ~(bare /\ c \in {"{", "}"})
      BY ONLY <2>3, <2>4, <2>5, <2>7, <2>8, <3>3
    <3>4. QED
      BY <3>1, <3>2, <3>3
  <2>10. QED
    BY <2>8, <2>9 DEF x
<1>10. 0 \in S
  BY <1>1
<1> HIDE DEF FitsTo
<1>11. \A k \in 0..(e - 1) : k \in S => k + 1 \in S
  <2> SUFFICES ASSUME NEW k \in 0..(e - 1), k \in S PROVE k + 1 \in S
    OBVIOUS
  <2>1. k + 1 \in 0..e
    BY <1>1
  <2>2. CASE k = 0
    BY <1>8, <2>1, <2>2
  <2>3. CASE k # 0
    <3>1. k \in 1..(e - 1) /\ FitsTo(k)
      BY <1>1, <2>3
    <3>2. QED
      BY <1>9, <2>1, <3>1
  <2>4. QED
    BY <2>2, <2>3
<1>12. i \in S /\ i # 0
  <2> HIDE DEF S
  <2>1. \A k \in 0..e : k \in S
    BY <1>1, <1>10, <1>11, Induction
  <2>2. QED
    BY <1>1, <2>1
<1>13. QED
  BY <1>12 DEF FitsTo, O, C

\* The whole text is its first complete object.
LEMMA FirstIsAll ==
  ASSUME NEW s, Whole(s, Len(s))
  PROVE  FirstCompleteObject(s) = s
<1> DEFINE R == Reads(s)
           n == Len(s)
           Depth(i) == Cardinality({k \in Structural(s) : k <= i /\ s[k] = "{"})
                         - Cardinality({k \in Structural(s) : k <= i /\ s[k] = "}"})
           ends == {i \in 1..n : Depth(i) = 0}
<1>1. /\ s \in Seq(Chars) /\ n \in Nat /\ n >= 2 /\ s[1] \in Braces
  BY WholeFacts DEF Whole
<1>2. Inside(s, n) /\ Outside(s, n)
  BY WholeFacts
<1>3. s # <<>> /\ Head(s) \in Braces
  <2>1. s # <<>>
    BY <1>1
  <2>2. Head(s) = s[1]
    BY <1>1, <2>1
  <2>3. QED
    BY <1>1, <2>1, <2>2
<1>4. \A i \in 1..n : Depth(i) = Depths(R[i].open) /\ Depths(R[i].open) \in Nat
  <2> SUFFICES ASSUME NEW i \in 1..n PROVE Depth(i) = Depths(R[i].open) /\ Depths(R[i].open) \in Nat
    OBVIOUS
  <2>1. {k \in Structural(s) : k <= i /\ s[k] = "{"} = {k \in OpeningBraces(s) : k <= i}
    BY DEF OpeningBraces
  <2>2. {k \in Structural(s) : k <= i /\ s[k] = "}"} = {k \in ClosingBraces(s) : k <= i}
    BY DEF ClosingBraces
  <2>3. Depth(i) = HowMany(OpeningBraces(s), i) - HowMany(ClosingBraces(s), i)
    BY <2>1, <2>2 DEF HowMany
  <2>4. /\ HowMany(OpeningBraces(s), i) \in Nat /\ HowMany(ClosingBraces(s), i) \in Nat
        /\ Depths(R[i].open) \in Nat
        /\ HowMany(OpeningBraces(s), i) = HowMany(ClosingBraces(s), i) + Depths(R[i].open)
    BY DepthOfText
  <2> HIDE DEF Depth
  <2>5. QED
    BY <2>3, <2>4
<1> HIDE DEF Depth
<1>5. \A i \in 1..(n - 1) : Depths(R[i].open) >= 1
  <2> SUFFICES ASSUME NEW i \in 1..(n - 1) PROVE Depths(R[i].open) >= 1
    OBVIOUS
  <2>1. R[i] \in Decoders
    BY <1>2 DEF Inside
  <2>2. R[i].open \in Seq(Openers) /\ Len(R[i].open) >= 1 /\ R[i].open[1] \in Braces
    BY <2>1, DecoderType
  <2>3. QED
    BY <2>2, DepthInside
<1>6. Depths(R[n].open) = 0
  <2> DEFINE d == R[n - 1]
  <2>1. n - 1 \in 1..(n - 1) /\ (n - 1) + 1 = n
    BY <1>1
  <2>2. d \in Decoders /\ Ends(d, s[n]) /\ s[n] = "}"
    BY <1>2, <2>1 DEF Inside
  <2>3. Structures(d, s[n], R[n])
    BY <2>1, WholeStructure
  <2>4. InString(d.at) = "out"
    BY <2>2 DEF Ends, InString
  <2>5. R[n].open = Front(d.open)
    BY <2>2, <2>3, <2>4 DEF Structures, Quote
  <2> HIDE DEF d
  <2>6. Len(d.open) = 1
    BY <2>2 DEF Ends
  <2>7. Front(d.open) = <<>>
    <3>1. Front(d.open) = SubSeq(d.open, 1, 0)
      BY <2>6 DEF Front
    <3>2. QED
      BY <3>1, SubSeqEmpty
  <2>8. Depths(<<>>) = 0
    <3> DEFINE none == <<>>
    <3>1. Len(none) = 0
      OBVIOUS
    <3> HIDE DEF none
    <3>2. {k \in 1..Len(none) : none[k] \in Braces} = {}
      BY <3>1
    <3>3. Depths(none) = 0
      BY <3>2, FS_EmptySet DEF Depths
    <3>4. QED
      BY <3>3 DEF none
  <2>9. QED
    BY <2>5, <2>7, <2>8
<1> HIDE DEF R
<1>7. ends = {n}
  <2> HIDE DEF n
  <2>1. \A i \in 1..n : Depth(i) = 0 <=> i = n
    BY <1>1, <1>4, <1>5, <1>6
  <2>2. n \in 1..n
    BY <1>1
  <2>3. QED
    BY ONLY <2>1, <2>2
<1>8. Min({n}) = n
  BY <1>1 DEF Min
<1>9. FirstCompleteObject(s)
        = IF s = <<>> \/ Head(s) # "{" \/ ends = {} THEN <<>> ELSE SubSeq(s, 1, Min(ends))
  BY DEF FirstCompleteObject, Depth
<1> HIDE DEF n, ends
<1>10. ends # {} /\ Min(ends) = n
  BY <1>7, <1>8
<1>11. Head(s) = "{"
  BY <1>3 DEF Braces
<1>12. SubSeq(s, 1, n) = s
  BY <1>1, SubSeqFull DEF n
<1>13. QED
  BY ONLY <1>3, <1>9, <1>10, <1>11, <1>12

\* A prefix with the next element.
LEMMA PrefixGrows ==
  ASSUME NEW S, NEW s \in Seq(S), NEW i \in 0..(Len(s) - 1)
  PROVE  /\ SubSeq(s, 1, i + 1) = Append(SubSeq(s, 1, i), s[i + 1])
         /\ SubSeq(s, 1, i) \in Seq(S) /\ Len(SubSeq(s, 1, i)) = i
<1> DEFINE n == Len(s)
           a == SubSeq(s, 1, i)
           b == SubSeq(s, 1, i + 1)
           x == s[i + 1]
<1>1. n \in Nat /\ i \in Nat /\ i + 1 <= n
  <2>1. n \in Nat
    BY LenProperties
  <2>2. QED
    BY <2>1
<1>2. \A k \in 1..n : s[k] \in S
  BY <1>1, ElementOfSeq
<1>3. a \in Seq(S) /\ Len(a) = i /\ \A k \in 1..i : a[k] = s[k]
  <2>1. \A k \in 1..i : s[k] \in S
    BY <1>1, <1>2
  <2>2. 1 \in Int /\ i \in Int
    BY <1>1
  <2>3. /\ a \in Seq(S) /\ Len(a) = (IF 1 <= i THEN i - 1 + 1 ELSE 0)
        /\ \A k \in 1..(i - 1 + 1) : a[k] = s[1 + k - 1]
    BY <2>1, <2>2, SubSeqProperties
  <2> HIDE DEF a
  <2>4. QED
    BY <1>1, <2>3
<1>4. b \in Seq(S) /\ Len(b) = i + 1 /\ \A k \in 1..(i + 1) : b[k] = s[k]
  <2> DEFINE j == i + 1
  <2>1. \A k \in 1..j : s[k] \in S
    BY <1>1, <1>2
  <2>2. 1 \in Int /\ j \in Int /\ j >= 1
    BY <1>1
  <2> HIDE DEF j
  <2> DEFINE bb == SubSeq(s, 1, j)
  <2>3. /\ bb \in Seq(S) /\ Len(bb) = (IF 1 <= j THEN j - 1 + 1 ELSE 0)
        /\ \A k \in 1..(j - 1 + 1) : bb[k] = s[1 + k - 1]
    BY <2>1, <2>2, SubSeqProperties
  <2> HIDE DEF bb
  <2>4. bb \in Seq(S) /\ Len(bb) = j /\ \A k \in 1..j : bb[k] = s[k]
    BY <2>2, <2>3
  <2>5. QED
    BY <2>4 DEF bb, j
<1>5. x \in S
  BY <1>1, <1>2
<1> HIDE DEF a, b, x
<1>6. /\ Append(a, x) \in Seq(S) /\ Len(Append(a, x)) = Len(a) + 1 /\ Append(a, x)[Len(a) + 1] = x
      /\ \A k \in 1..Len(a) : Append(a, x)[k] = a[k]
  BY <1>3, <1>5, Appended
<1> DEFINE c == Append(a, x)
<1> HIDE DEF c
<1>7. c \in Seq(S) /\ Len(b) = Len(c) /\ \A k \in 1..Len(b) : b[k] = c[k]
  <2>1. c \in Seq(S) /\ Len(c) = i + 1 /\ c[i + 1] = x /\ \A k \in 1..i : c[k] = s[k]
    BY <1>3, <1>6 DEF c
  <2>2. \A k \in 1..(i + 1) : k = i + 1 \/ k \in 1..i
    BY <1>1
  <2>3. QED
    BY <1>4, <2>1, <2>2 DEF x
<1>8. b = c
  BY <1>4, <1>7, SeqEqual
<1>9. QED
  BY <1>3, <1>8 DEF a, b, c, x

\* The brackets are balanced one character after the other.
BalanceStep(s, b, i) ==
  IF i \in Structural(s) /\ s[i] \in Brackets THEN Balance(b, s[i]) ELSE [b EXCEPT !.out = Append(@, s[i])]

Unbalanced == [open |-> <<>>, out |-> <<>>, lost |-> FALSE]

\* What the repair makes of a text is what it makes of each character in turn.
LEMMA BalancedFacts ==
  ASSUME NEW s \in Seq(Chars)
  PROVE  /\ Balanced(s)[0] = Unbalanced
         /\ \A i \in 0..(Len(s) - 1) : Balanced(s)[i + 1] = BalanceStep(s, Balanced(s)[i], i + 1)
<1> DEFINE n == Len(s)
           FitsTo(f, m) == f = [i \in 0..m |-> IF i = 0 THEN Unbalanced ELSE BalanceStep(s, f[i - 1], i)]
           S == {m \in 0..n : \E f : FitsTo(f, m)}
<1>1. n \in Nat
  OBVIOUS
<1>2. 0 \in S
  <2>1. FitsTo([i \in 0..0 |-> Unbalanced], 0)
    OBVIOUS
  <2> HIDE DEF FitsTo
  <2>2. QED
    BY <1>1, <2>1
<1>3. \A m \in 0..(n - 1) : m \in S => m + 1 \in S
  <2> SUFFICES ASSUME NEW m \in 0..(n - 1), m \in S PROVE m + 1 \in S
    OBVIOUS
  <2>1. PICK f : FitsTo(f, m)
    OBVIOUS
  <2> DEFINE g == [i \in 0..(m + 1) |-> IF i <= m THEN f[i] ELSE BalanceStep(s, f[m], m + 1)]
  <2>2. FitsTo(g, m + 1)
    <3>1. ASSUME NEW i \in 0..(m + 1)
          PROVE g[i] = IF i = 0 THEN Unbalanced ELSE BalanceStep(s, g[i - 1], i)
      BY <1>1, <2>1
    <3>2. QED
      BY <3>1
  <2> HIDE DEF FitsTo, g
  <2>3. QED
    BY <1>1, <2>2
<1>4. n \in S
  <2> HIDE DEF S, n
  <2>1. \A i \in 0..n : i \in S
    BY <1>1, <1>2, <1>3, Induction
  <2>2. QED
    BY <1>1, <2>1
<1>5. FitsTo(Balanced(s), n)
  <2>1. \E f : FitsTo(f, n)
    BY <1>4
  <2>2. Balanced(s) = CHOOSE f : FitsTo(f, n)
    BY DEF Balanced, BalanceStep, Unbalanced
  <2> HIDE DEF FitsTo, n
  <2>3. QED
    BY <2>1, <2>2
<1> DEFINE F == [i \in 0..n |-> IF i = 0 THEN Unbalanced ELSE BalanceStep(s, Balanced(s)[i - 1], i)]
<1>6. Balanced(s) = F
  BY <1>5
<1> HIDE DEF n
<1>7. F[0] = Unbalanced /\ \A i \in 0..(n - 1) : F[i + 1] = BalanceStep(s, Balanced(s)[i], i + 1)
  BY <1>1
<1>8. QED
  BY <1>6, <1>7 DEF n

\* The text so far with brackets that are open and none that was lost.
Balancing(open, out) == [open |-> open, out |-> out, lost |-> FALSE]

\* Nothing closes what is not open.
LEMMA NoClosers == Closers(<<>>) = <<>>
<1> DEFINE none == <<>>
<1>1. Len(none) = 0
  OBVIOUS
<1>2. Closers(none) = [i \in 1..Len(none) |-> Closer[none[Len(none) + 1 - i]]]
  BY DEF Closers
<1> HIDE DEF none
<1>3. Closers(none) = [i \in {} |-> Closer[none[Len(none) + 1 - i]]]
  <2>1. 1..Len(none) = {}
    BY <1>1
  <2>2. QED
    BY <1>2, <2>1
<1>4. QED
  BY <1>3 DEF none

\* A bracket that fits, and any other character, is balanced as it stands.
LEMMA BalanceTable ==
  ASSUME NEW open \in Seq(Openers), NEW out \in Seq(Chars), NEW c \in Chars
  PROVE  /\ c \in Openers => Balance(Balancing(open, out), c) = Balancing(Append(open, c), Append(out, c))
         /\ Len(open) >= 1 /\ c \in {"}", "]"} /\ c = Closer[Last(open)] =>
              Balance(Balancing(open, out), c) = Balancing(Front(open), Append(out, c))
         /\ [Balancing(open, out) EXCEPT !.out = Append(@, c)] = Balancing(open, Append(out, c))
<1> DEFINE b == Balancing(open, out)
           n == Len(open)
<1>1. b.open = open /\ b.out = out
  BY DEF Balancing
<1>2. n \in Nat
  BY LenProperties
<1>3. ASSUME c \in Openers
      PROVE  Balance(b, c) = Balancing(Append(open, c), Append(out, c))
  <2>1. Balance(b, c) = [b EXCEPT !.open = Append(@, c), !.out = Append(@, c)]
    BY <1>3 DEF Balance, Openers
  <2>2. QED
    BY <2>1 DEF Balancing
<1>4. [b EXCEPT !.out = Append(@, c)] = Balancing(open, Append(out, c))
  <2> DEFINE more == Append(out, c)
  <2>1. b \in [open : {open}, out : {out}, lost : {FALSE}]
    BY Zenon DEF Balancing
  <2>2. [b EXCEPT !.out = Append(@, c)] = [b EXCEPT !.out = more]
    BY <1>1
  <2> HIDE DEF more
  <2>3. [b EXCEPT !.out = more] = Balancing(open, more)
    <3> DEFINE a == [b EXCEPT !.out = more]
    <3>1. a \in [open : {open}, out : {more}, lost : {FALSE}]
      BY <2>1, Zenon
    <3> HIDE DEF a
    <3>2. a = Balancing(open, more)
      BY ONLY <3>1 DEF Balancing
    <3>3. QED
      BY <3>2 DEF a
  <2>4. QED
    BY <2>2, <2>3 DEF more
<1>5. ASSUME n >= 1, c \in {"}", "]"}, c = Closer[Last(open)]
      PROVE  Balance(b, c) = Balancing(Front(open), Append(out, c))
  <2> DEFINE fits == {k \in 1..Len(b.open) : Closer[b.open[k]] = c}
             out2 == out \o Append(Closers(Rest(open, n + 1)), c)
  <2>1. fits = {k \in 1..n : Closer[open[k]] = c}
    BY <1>1
  <2>2. n \in fits /\ \A k \in fits : n >= k
    <3> HIDE DEF fits, n
    <3>1. Closer[open[n]] = c
      BY <1>5 DEF Last, n
    <3>2. QED
      <4>1. n \in Nat /\ n >= 1
        BY <1>2, <1>5
      <4>2. \A k \in 1..n : n >= k
        BY <4>1
      <4>3. n \in 1..n
        BY <4>1
      <4>4. QED
        BY ONLY <2>1, <3>1, <4>2, <4>3
  <2> HIDE DEF fits, n
  <2>3. Max(fits) = n
    <3>1. fits \in SUBSET Nat
      BY <1>2, <2>1
    <3>2. \A x \in fits : (\A k \in fits : x >= k) => x = n
      BY <1>2, <2>2, <3>1
    <3> DEFINE P(x) == \A k \in fits : x >= k
    <3>3. Max(fits) = CHOOSE x \in fits : P(x)
      BY DEF Max
    <3> HIDE DEF P
    <3>4. P(n)
      BY <2>2 DEF P
    <3>5. \A x \in fits : P(x) => x = n
      BY <3>2 DEF P
    <3>6. QED
      BY <2>2, <3>3, <3>4, <3>5
  <2>4. fits # {} /\ c \notin {"{", "["}
    BY <1>5, <2>2
  <2>5. Balance(b, c) = [b EXCEPT !.open = SubSeq(@, 1, Max(fits) - 1),
                                  !.out = @ \o Append(Closers(Rest(b.open, Max(fits) + 1)), c)]
    BY <2>4 DEF Balance, fits
  <2>6. Balance(b, c) = [b EXCEPT !.open = SubSeq(@, 1, n - 1), !.out = @ \o Append(Closers(Rest(open, n + 1)), c)]
    BY <1>1, <2>3, <2>5
  <2>7. Balance(b, c) = Balancing(SubSeq(open, 1, n - 1), out2)
    BY <2>6 DEF Balancing
  <2>8. SubSeq(open, 1, n - 1) = Front(open)
    BY DEF Front, n
  <2>9. out2 = Append(out, c)
    <3>1. Rest(open, n + 1) = <<>>
      <4>1. Rest(open, n + 1) = SubSeq(open, n + 1, n)
        BY DEF Rest, n
      <4>2. n + 1 \in Int /\ n \in Int /\ n < n + 1
        BY <1>2
      <4>3. QED
        BY <4>1, <4>2, SubSeqEmpty
    <3>2. Append(<<>>, c) = <<c>>
      OBVIOUS
    <3>3. Append(out, c) = out \o <<c>>
      BY AppendIsConcat
    <3>4. QED
      BY <3>1, <3>2, <3>3, NoClosers
  <2>10. QED
    BY <2>7, <2>8, <2>9
<1>6. QED
  BY <1>3, <1>4, <1>5 DEF n

\* A whole text is balanced as it is: each bracket closes the one that is open.
LEMMA WholeIsBalanced ==
  ASSUME NEW s, NEW e, Whole(s, e), NEW i \in 1..e
  PROVE  Balanced(s)[i] = Balancing(Reads(s)[i].open, SubSeq(s, 1, i))
<1> DEFINE R == Reads(s)
           n == Len(s)
           B == Balanced(s)
           Pre(k) == SubSeq(s, 1, k)
           FitsTo(k) == B[k] = Balancing(R[k].open, Pre(k))
           S == {k \in 0..e : k = 0 \/ FitsTo(k)}
<1>1. /\ s \in Seq(Chars) /\ n \in Nat /\ e \in Nat /\ e >= 2 /\ e <= n /\ R[1] = Opened /\ s[1] \in Braces
  BY WholeFacts DEF Whole
<1>2. Inside(s, e)
  BY WholeFacts
<1>3. \A k \in 1..(e - 1) : Structures(R[k], s[k + 1], R[k + 1])
  BY WholeStructure
<1>4. /\ 1 \in Structural(s)
      /\ \A k \in 1..(e - 1) : k + 1 \in Structural(s) <=> InString(R[k].at) = "out" /\ s[k + 1] # Quote
  BY StructuralFacts
<1>5. B[0] = Unbalanced /\ \A k \in 0..(n - 1) : B[k + 1] = BalanceStep(s, B[k], k + 1)
  BY <1>1, BalancedFacts
<1>6. \A k \in 0..(n - 1) : Pre(k + 1) = Append(Pre(k), s[k + 1]) /\ Pre(k) \in Seq(Chars)
  BY <1>1, PrefixGrows
<1>7. \A k \in 1..n : s[k] \in Chars
  BY <1>1, ElementOfSeq
<1> HIDE DEF n, R, B, Pre
<1>8. FitsTo(1)
  <2>1. 0 \in 0..(n - 1) /\ 0 + 1 = 1 /\ 1 \in 1..n
    BY <1>1
  <2>2. B[1] = BalanceStep(s, Unbalanced, 1)
    BY <1>5, <2>1
  <2>3. s[1] \in Openers /\ s[1] \in Brackets /\ s[1] \in Chars /\ s[1] = "{"
    BY <1>1, <1>7, <2>1 DEF Braces, Openers, Brackets
  <2>4. BalanceStep(s, Unbalanced, 1) = Balance(Unbalanced, s[1])
    BY <1>4, <2>3, Zenon DEF BalanceStep
  <2>5. Unbalanced = Balancing(<<>>, <<>>) /\ <<>> \in Seq(Openers) /\ <<>> \in Seq(Chars)
    BY DEF Unbalanced, Balancing
  <2>6. Balance(Unbalanced, s[1]) = Balancing(Append(<<>>, s[1]), Append(<<>>, s[1]))
    BY <2>3, <2>5, BalanceTable
  <2>7. R[1].open = Append(<<>>, s[1])
    <3>1. Opened.open = <<"{">>
      BY DEF Opened, Decoder
    <3>2. Append(<<>>, "{") = <<"{">>
      OBVIOUS
    <3>3. R[1].open = Opened.open /\ s[1] = "{"
      BY ONLY <1>1, <2>3
    <3>4. QED
      BY ONLY <3>1, <3>2, <3>3
  <2>8. Pre(1) = Append(<<>>, s[1])
    <3>1. Pre(0) = <<>>
      BY SubSeqEmpty DEF Pre
    <3>2. Pre(0 + 1) = Append(Pre(0), s[0 + 1])
      BY <1>6, <2>1
    <3>3. QED
      BY ONLY <2>1, <3>1, <3>2
  <2>9. QED
    BY ONLY <2>2, <2>4, <2>6, <2>7, <2>8 DEF FitsTo
<1>9. ASSUME NEW k \in 1..(e - 1), FitsTo(k) PROVE FitsTo(k + 1)
  <2> DEFINE d == R[k]
             c == s[k + 1]
             x == R[k + 1]
             out == Pre(k)
             bare == InString(d.at) = "out" /\ c # Quote
  <2>1. d \in Decoders /\ Structures(d, c, x)
    BY <1>2, <1>3 DEF Inside, R
  <2>2. k \in 0..(n - 1) /\ k + 1 \in 1..n
    BY <1>1
  <2>3. B[k + 1] = BalanceStep(s, B[k], k + 1) /\ Pre(k + 1) = Append(out, c) /\ out \in Seq(Chars) /\ c \in Chars
    BY <1>5, <1>6, <1>7, <2>2
  <2>4. B[k] = Balancing(d.open, out)
    BY <1>9
  <2>5. d.open \in Seq(Openers) /\ Len(d.open) >= 1
    BY <2>1, DecoderType
  <2>6. k + 1 \in Structural(s) <=> bare
    BY <1>4
  <2> DEFINE b == Balancing(d.open, out)
  <2>7. B[k + 1] = IF bare /\ c \in Brackets THEN Balance(b, c) ELSE [b EXCEPT !.out = Append(@, c)]
    BY <2>3, <2>4, <2>6 DEF BalanceStep
  <2>8. /\ c \in Openers => Balance(b, c) = Balancing(Append(d.open, c), Append(out, c))
        /\ Len(d.open) >= 1 /\ c \in {"}", "]"} /\ c = Closer[Last(d.open)] =>
             Balance(b, c) = Balancing(Front(d.open), Append(out, c))
        /\ [b EXCEPT !.out = Append(@, c)] = Balancing(d.open, Append(out, c))
    <3> HIDE DEF d, c, out
    <3>1. QED
      BY <2>3, <2>5, BalanceTable
  <2> HIDE DEF d, c, out, x, b
  <2>9. CASE ~bare
    <3>1. x.open = d.open
      BY <2>1, <2>9 DEF Structures
    <3>2. B[k + 1] = Balancing(x.open, Append(out, c))
      BY <2>7, <2>8, <2>9, <3>1
    <3>3. QED
      BY <2>3, <3>2 DEF x
  <2>10. CASE bare /\ c \in Openers
    <3>1. x.open = Append(d.open, c)
      BY <2>1, <2>10 DEF Structures
    <3>2. B[k + 1] = Balancing(x.open, Append(out, c))
      BY <2>7, <2>8, <2>10, <3>1 DEF Openers, Brackets
    <3>3. QED
      BY <2>3, <3>2 DEF x
  <2>11. CASE bare /\ c \in {"}", "]"}
    <3>1. c = Closer[Last(d.open)] /\ x.open = Front(d.open)
      BY <2>1, <2>11 DEF Structures
    <3>2. B[k + 1] = Balancing(x.open, Append(out, c))
      BY <2>5, <2>7, <2>8, <2>11, <3>1 DEF Brackets
    <3>3. QED
      BY <2>3, <3>2 DEF x
  <2>12. CASE bare /\ c \notin Brackets
    <3>1. x.open = d.open
      BY <2>1, <2>12 DEF Structures
    <3>2. B[k + 1] = Balancing(x.open, Append(out, c))
      BY <2>7, <2>8, <2>12, <3>1
    <3>3. QED
      BY <2>3, <3>2 DEF x
  <2>13. QED
    BY <2>9, <2>10, <2>11, <2>12 DEF Openers, Brackets
<1>10. 0 \in S
  BY <1>1
<1> HIDE DEF FitsTo
<1>11. \A k \in 0..(e - 1) : k \in S => k + 1 \in S
  <2> SUFFICES ASSUME NEW k \in 0..(e - 1), k \in S PROVE k + 1 \in S
    OBVIOUS
  <2>1. k + 1 \in 0..e
    BY <1>1
  <2>2. CASE k = 0
    BY <1>8, <2>1, <2>2
  <2>3. CASE k # 0
    <3>1. k \in 1..(e - 1) /\ FitsTo(k)
      BY <1>1, <2>3
    <3>2. QED
      BY <1>9, <2>1, <3>1
  <2>4. QED
    BY <2>2, <2>3
<1>12. i \in S /\ i # 0
  <2> HIDE DEF S
  <2>1. \A k \in 0..e : k \in S
    BY <1>1, <1>10, <1>11, Induction
  <2>2. QED
    BY <1>1, <2>1
<1>13. QED
  BY <1>12 DEF FitsTo, R, B, Pre

\* FlattenSeq puts the sequences together one after the other.
LEMMA FlattenFacts ==
  ASSUME NEW S, NEW seqs \in Seq(Seq(S))
  PROVE  \E f \in [0..Len(seqs) -> Seq(S)] :
           /\ f[0] = <<>>
           /\ \A i \in 0..(Len(seqs) - 1) : f[i + 1] = f[i] \o seqs[i + 1]
           /\ FlattenSeq(seqs) = f[Len(seqs)]
<1> DEFINE n == Len(seqs)
           T == Seq(S)
<1>1. n \in Nat /\ \A i \in 1..n : seqs[i] \in T
  BY LenProperties, ElementOfSeq
<1>2. <<>> \in T
  OBVIOUS
<1>3. CASE n = 0
  <2> DEFINE f == [i \in 0..0 |-> <<>>]
  <2>1. FlattenSeq(seqs) = seqs /\ seqs = <<>>
    BY <1>3 DEF FlattenSeq
  <2>2. f \in [0..n -> T]
    BY <1>2, <1>3
  <2>3. f[0] = <<>>
    OBVIOUS
  <2>4. 0..(n - 1) = {}
    BY <1>3
  <2> HIDE DEF f
  <2>5. QED
    BY <1>3, <2>1, <2>2, <2>3, <2>4
<1>4. CASE n >= 1
  <2> DEFINE FitsTo(f, m) == f = [i \in 1..m |-> IF i = 1 THEN seqs[i] ELSE f[i - 1] \o seqs[i]]
             W == {m \in 0..n : m = 0 \/ \E f : FitsTo(f, m)}
  <2>1. 0 \in W
    BY <1>1
  <2>2. \A m \in 0..(n - 1) : m \in W => m + 1 \in W
    <3> SUFFICES ASSUME NEW m \in 0..(n - 1), m \in W PROVE m + 1 \in W
      OBVIOUS
    <3>1. m + 1 \in 0..n
      BY <1>1
    <3>2. CASE m = 0
      <4> DEFINE g == [i \in 1..1 |-> seqs[1]]
      <4>1. FitsTo(g, 1)
        <5>1. ASSUME NEW i \in 1..1 PROVE g[i] = IF i = 1 THEN seqs[i] ELSE g[i - 1] \o seqs[i]
          OBVIOUS
        <5>2. QED
          BY <5>1
      <4> HIDE DEF FitsTo, g
      <4>2. QED
        BY <3>1, <3>2, <4>1
    <3>3. CASE m # 0
      <4>1. PICK f : FitsTo(f, m)
        BY <3>3
      <4> DEFINE g == [i \in 1..(m + 1) |-> IF i <= m THEN f[i] ELSE f[m] \o seqs[m + 1]]
      <4>2. FitsTo(g, m + 1)
        <5>1. ASSUME NEW i \in 1..(m + 1)
              PROVE g[i] = IF i = 1 THEN seqs[i] ELSE g[i - 1] \o seqs[i]
          <6>1. /\ i <= m => i \in 1..m
                /\ i # 1 => i - 1 \in 1..m /\ i - 1 \in 1..(m + 1) /\ i - 1 <= m
                /\ ~(i <= m) => i = m + 1 /\ i # 1 /\ i - 1 = m
                /\ m \in 1..m /\ m <= m /\ m \in 1..(m + 1)
            BY <1>1, <3>3
          <6>2. CASE i <= m
            <7>1. g[i] = f[i] /\ f[i] = IF i = 1 THEN seqs[i] ELSE f[i - 1] \o seqs[i]
              BY <4>1, <6>1, <6>2
            <7>2. i # 1 => g[i - 1] = f[i - 1]
              BY <6>1
            <7>3. QED
              BY <7>1, <7>2
          <6>3. CASE ~(i <= m)
            <7>1. g[i] = f[m] \o seqs[m + 1]
              BY <6>3
            <7>2. g[m] = f[m]
              BY <6>1
            <7>3. QED
              BY <6>1, <6>3, <7>1, <7>2
          <6>4. QED
            BY <6>2, <6>3
        <5>2. QED
          BY <5>1
      <4> HIDE DEF FitsTo, g
      <4>3. QED
        BY <3>1, <4>2
    <3>4. QED
      BY <3>2, <3>3
  <2>3. \E f : FitsTo(f, n)
    <3> HIDE DEF W, n, FitsTo
    <3>1. \A i \in 0..n : i \in W
      BY <1>1, <2>1, <2>2, Induction
    <3>2. n \in W /\ n # 0
      BY <1>1, <1>4, <3>1
    <3>3. QED
      BY <3>2 DEF W
  <2> DEFINE fl == CHOOSE f : FitsTo(f, n)
  <2>4. FlattenSeq(seqs) = fl[n]
    BY <1>4 DEF FlattenSeq
  <2>5. FitsTo(fl, n)
    <3> HIDE DEF FitsTo, n
    <3>1. QED
      BY <2>3
  <2> HIDE DEF fl
  <2> DEFINE F == [i \in 1..n |-> IF i = 1 THEN seqs[i] ELSE fl[i - 1] \o seqs[i]]
             f == [i \in 0..n |-> IF i = 0 THEN <<>> ELSE fl[i]]
  <2>6. fl = F
    BY <2>5
  <2> HIDE DEF n, T
  <2>7. fl[1] = seqs[1] /\ \A i \in 1..(n - 1) : fl[i + 1] = fl[i] \o seqs[i + 1]
    <3>1. F[1] = seqs[1] /\ \A i \in 1..(n - 1) : F[i + 1] = fl[i] \o seqs[i + 1]
      <4>1. 1 \in 1..n
        BY <1>1, <1>4
      <4>2. F[1] = seqs[1]
        BY <4>1
      <4>3. \A k \in 1..n : k # 1 => F[k] = fl[k - 1] \o seqs[k]
        OBVIOUS
      <4> HIDE DEF F
      <4>4. \A i \in 1..(n - 1) : i + 1 \in 1..n /\ i + 1 # 1 /\ (i + 1) - 1 = i
        BY <1>1
      <4>5. ASSUME NEW i \in 1..(n - 1) PROVE F[i + 1] = fl[i] \o seqs[i + 1]
        <5>1. F[i + 1] = fl[(i + 1) - 1] \o seqs[i + 1]
          BY <4>3, <4>4
        <5>2. QED
          BY <4>4, <5>1
      <4>6. QED
        BY <4>2, <4>5, Zenon
    <3>2. QED
      BY <2>6, <3>1
  <2>8. f[0] = <<>> /\ f[n] = fl[n]
    BY <1>1, <1>4
  <2>9. \A i \in 0..(n - 1) : f[i + 1] = f[i] \o seqs[i + 1]
    <3> SUFFICES ASSUME NEW i \in 0..(n - 1) PROVE f[i + 1] = f[i] \o seqs[i + 1]
      OBVIOUS
    <3>1. f[i + 1] = fl[i + 1] /\ f[i] = (IF i = 0 THEN <<>> ELSE fl[i])
      BY <1>1
    <3> HIDE DEF f
    <3>2. CASE i = 0
      <4>1. seqs[1] \in Seq(S) /\ 0 + 1 = 1
        BY <1>1, <1>4 DEF T
      <4>2. <<>> \o seqs[1] = seqs[1]
        BY <4>1, ConcatEmptySeq
      <4>3. QED
        BY <2>7, <3>1, <3>2, <4>1, <4>2
    <3>3. CASE i # 0
      <4>1. i \in 1..(n - 1)
        BY <1>1, <3>3
      <4>2. QED
        BY <2>7, <3>1, <3>3, <4>1
    <3>4. QED
      BY <3>2, <3>3
  <2>10. f \in [0..n -> T]
    <3> DEFINE V == {i \in 0..n : f[i] \in T}
    <3>1. DOMAIN f = 0..n
      OBVIOUS
    <3> HIDE DEF f
    <3>2. 0 \in V
      BY <1>1, <1>2, <2>8
    <3>3. \A i \in 0..(n - 1) : i \in V => i + 1 \in V
      <4> SUFFICES ASSUME NEW i \in 0..(n - 1), i \in V PROVE i + 1 \in V
        OBVIOUS
      <4>1. i + 1 \in 1..n /\ i + 1 \in 0..n
        BY <1>1
      <4>2. f[i] \in Seq(S) /\ seqs[i + 1] \in Seq(S)
        BY <1>1, <4>1 DEF T
      <4>3. f[i] \o seqs[i + 1] \in Seq(S)
        BY <4>2, ConcatProperties
      <4>4. QED
        BY <2>9, <4>1, <4>3 DEF T
    <3> HIDE DEF V
    <3>4. \A i \in 0..n : i \in V
      BY <1>1, <3>2, <3>3, Induction
    <3>5. \A i \in 0..n : f[i] \in T
      BY <3>4 DEF V
    <3>6. f = [i \in 0..n |-> f[i]]
      BY DEF f
    <3>7. QED
      BY <3>5, <3>6
  <2> HIDE DEF f
  <2>11. QED
    BY <2>4, <2>8, <2>9, <2>10 DEF n, T
<1>5. n = 0 \/ n >= 1
  <2> HIDE DEF n
  <2>1. QED
    BY <1>1
<1>6. QED
  BY <1>3, <1>4, <1>5

\* Sequences put together step by step are what FlattenSeq makes of them.
LEMMA FlattenIs ==
  ASSUME NEW S, NEW seqs \in Seq(Seq(S)), NEW g,
         g[0] = <<>>, \A i \in 0..(Len(seqs) - 1) : g[i + 1] = g[i] \o seqs[i + 1]
  PROVE  FlattenSeq(seqs) = g[Len(seqs)]
<1> DEFINE n == Len(seqs)
<1>1. n \in Nat
  BY LenProperties
<1>2. PICK f : /\ f[0] = <<>>
               /\ \A i \in 0..(n - 1) : f[i + 1] = f[i] \o seqs[i + 1]
               /\ FlattenSeq(seqs) = f[n]
  BY FlattenFacts
<1> DEFINE W == {i \in 0..n : f[i] = g[i]}
<1>3. 0 \in W
  BY <1>1, <1>2
<1>4. \A i \in 0..(n - 1) : i \in W => i + 1 \in W
  <2> SUFFICES ASSUME NEW i \in 0..(n - 1), i \in W PROVE i + 1 \in W
    OBVIOUS
  <2>1. i + 1 \in 0..n
    BY <1>1
  <2>2. f[i + 1] = g[i + 1]
    BY <1>2
  <2>3. QED
    BY <2>1, <2>2
<1> HIDE DEF W
<1>5. \A i \in 0..n : i \in W
  <2> HIDE DEF n
  <2>1. QED
    BY <1>1, <1>3, <1>4, Induction
<1>6. n \in W
  BY <1>1, <1>5
<1>7. QED
  BY <1>2, <1>6 DEF W

\* A text of which no character is changed stays as it is.
LEMMA FlattenOnes ==
  ASSUME NEW S, NEW s \in Seq(S)
  PROVE  FlattenSeq([i \in 1..Len(s) |-> <<s[i]>>]) = s
<1> DEFINE n == Len(s)
           ones == [i \in 1..n |-> <<s[i]>>]
           g == [i \in 0..n |-> SubSeq(s, 1, i)]
<1>1. n \in Nat /\ \A i \in 1..n : s[i] \in S
  BY LenProperties, ElementOfSeq
<1>2. ones \in Seq(Seq(S)) /\ Len(ones) = n
  <2>1. \A i \in 1..n : <<s[i]>> \in Seq(S)
    BY <1>1
  <2>2. ones \in [1..n -> Seq(S)]
    BY <2>1
  <2> HIDE DEF n
  <2>3. ones \in Seq(Seq(S))
    BY <1>1, <2>1, IsASeq
  <2> HIDE DEF ones
  <2>4. QED
    BY <1>1, <2>2, <2>3, LenProperties
<1>3. g[0] = <<>>
  <2>1. SubSeq(s, 1, 0) = <<>>
    BY SubSeqEmpty
  <2>2. QED
    BY <1>1, <2>1
<1>4. \A i \in 0..(n - 1) : g[i + 1] = g[i] \o ones[i + 1]
  <2> SUFFICES ASSUME NEW i \in 0..(n - 1) PROVE g[i + 1] = g[i] \o ones[i + 1]
    OBVIOUS
  <2>1. i + 1 \in 1..n /\ i + 1 \in 0..n /\ i \in 0..n
    BY <1>1
  <2>2. g[i] = SubSeq(s, 1, i) /\ g[i + 1] = SubSeq(s, 1, i + 1) /\ ones[i + 1] = <<s[i + 1]>>
    BY <2>1
  <2>3. /\ SubSeq(s, 1, i + 1) = Append(SubSeq(s, 1, i), s[i + 1])
        /\ SubSeq(s, 1, i) \in Seq(S)
    BY PrefixGrows
  <2>4. s[i + 1] \in S
    BY <1>1, <2>1
  <2>5. Append(SubSeq(s, 1, i), s[i + 1]) = SubSeq(s, 1, i) \o <<s[i + 1]>>
    BY <2>3, <2>4, AppendIsConcat
  <2> HIDE DEF g, ones, n
  <2>6. QED
    BY ONLY <2>2, <2>3, <2>5
<1>5. g[n] = s
  <2>1. SubSeq(s, 1, n) = s
    BY <1>1, SubSeqFull
  <2>2. QED
    BY <1>1, <2>1
<1> HIDE DEF ones, g, n
<1>6. FlattenSeq(ones) = g[Len(ones)]
  BY <1>2, <1>3, <1>4, FlattenIs
<1>7. QED
  BY <1>2, <1>5, <1>6 DEF ones, n

\* No comma of a whole text stands before a bracket that closes.
LEMMA NoTrailingCommas ==
  ASSUME NEW s, Whole(s, Len(s))
  PROVE  RemoveTrailingCommas(s) = s
<1> DEFINE R == Reads(s)
           n == Len(s)
           Dropped(i) == i < n /\ i \in Structural(s) /\ s[i] = "," /\ s[i + 1] \in {"}", "]"}
<1>1. /\ s \in Seq(Chars) /\ n \in Nat /\ n >= 2 /\ s[1] \in Braces
  BY WholeFacts DEF Whole
<1>2. \A i \in 1..n : ~Dropped(i)
  <2> SUFFICES ASSUME NEW i \in 1..n, Dropped(i) PROVE FALSE
    OBVIOUS
  <2>1. s[i] = "," /\ s[i + 1] \in {"}", "]"} /\ i \in Structural(s)
    OBVIOUS
  <2>2. i < n
    OBVIOUS
  <2>3. i # 1
    BY <1>1, <2>1 DEF Braces
  <2> HIDE DEF Dropped
  <2> DEFINE j == i - 1
  <2>4. j \in 1..(n - 1) /\ j + 1 = i /\ i \in 1..(n - 1)
    BY <1>1, <2>2, <2>3
  <2> HIDE DEF j, n
  <2>5. Structures(R[j], s[j + 1], R[j + 1]) /\ Structures(R[i], s[i + 1], R[i + 1])
    BY <2>4, WholeStructure DEF n
  <2>6. InString(R[j].at) = "out" /\ s[j + 1] # Quote
    BY <2>1, <2>4, StructuralFacts DEF n
  <2> HIDE DEF R
  <2>7. Structures(R[j], s[i], R[i])
    BY <2>4, <2>5
  <2>8. s[i] # Quote
    BY <2>4, <2>6
  <2>9. R[i].at \in {"key", "value"}
    BY ONLY <2>1, <2>6, <2>7, <2>8, Zenon DEF Structures
  <2>10. InString(R[i].at) = "out"
    BY ONLY <2>9 DEF InString
  <2>11. s[i + 1] # Quote
    BY ONLY <2>1 DEF Quote
  <2>12. R[i].at \notin {"key", "value"}
    BY ONLY <2>1, <2>5, <2>10, <2>11, Zenon DEF Structures
  <2>13. QED
    BY <2>9, <2>12
<1>3. RemoveTrailingCommas(s) = FlattenSeq([i \in 1..n |-> IF Dropped(i) THEN <<>> ELSE <<s[i]>>])
  BY DEF RemoveTrailingCommas, Rewritten
<1> HIDE DEF Dropped
<1>4. [i \in 1..n |-> IF Dropped(i) THEN <<>> ELSE <<s[i]>>] = [i \in 1..n |-> <<s[i]>>]
  BY <1>2
<1>5. FlattenSeq([i \in 1..n |-> <<s[i]>>]) = s
  BY <1>1, FlattenOnes
<1>6. QED
  BY <1>3, <1>4, <1>5

\* No word of a whole text is a key without quotes.
LEMMA NoBareKeys ==
  ASSUME NEW s, Whole(s, Len(s))
  PROVE  QuoteBareKeys(s) = s
<1> DEFINE R == Reads(s)
           n == Len(s)
           structural == Structural(s)
           Expected(i) == LET before == {k \in structural : k < i}
                          IN  before # {} /\ s[Max(before)] \in {"{", ","}
           Colon(i) == WordEnd(s, i) < Len(s) /\ s[WordEnd(s, i) + 1] = ":"
           begins == {i \in structural : s[i] \in Letters /\ Expected(i) /\ Colon(i)}
           ends == {WordEnd(s, i) : i \in begins}
<1>1. /\ s \in Seq(Chars) /\ n \in Nat /\ n >= 2 /\ s[1] \in Braces
  BY WholeFacts DEF Whole
<1>2. \A i \in structural : s[i] \notin Letters
  <2> SUFFICES ASSUME NEW i \in structural PROVE s[i] \notin Letters
    OBVIOUS
  <2>1. i \in 1..n
    BY StructuralFacts
  <2>2. CASE i = 1
    BY <1>1, <2>2 DEF Braces, Letters
  <2>3. CASE i # 1
    <3> DEFINE j == i - 1
    <3>1. j \in 1..(n - 1) /\ j + 1 = i
      BY <1>1, <2>1, <2>3
    <3> HIDE DEF j, n
    <3>2. Structures(R[j], s[j + 1], R[j + 1])
      BY <3>1, WholeStructure DEF n
    <3>3. InString(R[j].at) = "out" /\ s[j + 1] # Quote
      BY <3>1, StructuralFacts DEF n
    <3> HIDE DEF R
    <3>4. s[j + 1] \notin Letters
      BY ONLY <3>2, <3>3, Zenon DEF Structures
    <3>5. QED
      BY <3>1, <3>4
  <2>4. QED
    BY <2>2, <2>3
<1> HIDE DEF Expected, Colon
<1>3. begins = {}
  BY <1>2
<1>4. ends = {}
  BY <1>3
<1>5. QuoteBareKeys(s)
        = FlattenSeq([i \in 1..n |-> (IF i \in begins THEN <<Quote>> ELSE <<>>) \o <<s[i]>>
                                       \o (IF i \in ends THEN <<Quote>> ELSE <<>>)])
  BY Zenon DEF QuoteBareKeys, Rewritten, Expected, Colon
<1> HIDE DEF begins, ends
<1>6. \A i \in 1..n : (IF i \in begins THEN <<Quote>> ELSE <<>>) \o <<s[i]>>
                         \o (IF i \in ends THEN <<Quote>> ELSE <<>>) = <<s[i]>>
  <2> SUFFICES ASSUME NEW i \in 1..n PROVE (<<>> \o <<s[i]>>) \o <<>> = <<s[i]>>
    BY <1>3, <1>4
  <2> DEFINE one == <<s[i]>>
  <2>1. one \in Seq({s[i]})
    OBVIOUS
  <2> HIDE DEF one
  <2>2. <<>> \o one = one /\ one \o <<>> = one
    BY <2>1, ConcatEmptySeq
  <2>3. QED
    BY <2>2 DEF one
<1>7. FlattenSeq([i \in 1..n |-> <<s[i]>>]) = s
  BY <1>1, FlattenOnes
<1>8. QED
  BY <1>5, <1>6, <1>7

\* A whole text is not mended: nothing in it is open, and no comma is dropped.
LEMMA WholeIsRecovered ==
  ASSUME NEW s, Whole(s, Len(s))
  PROVE  Recovered(s) = s
<1> DEFINE R == Reads(s)
           n == Len(s)
           openings == {i \in 1..n : s[i] = "{"}
           fragment == Rest(s, Min(openings))
           body == IF Last(fragment) = Fence THEN Front(fragment) ELSE fragment
           all == Balanced(body)[Len(body)]
           quote == IF Places(body)[Len(body)] = "out" THEN <<>> ELSE <<Quote>>
<1>1. /\ s \in Seq(Chars) /\ n \in Nat /\ n >= 2 /\ s[1] \in Braces
  BY WholeFacts DEF Whole
<1>2. n \in Nat /\ n >= 2
  BY <1>1
<1>3. Inside(s, n) /\ Outside(s, n)
  BY WholeFacts
<1>4. Recovered(s) = IF ~Contains(s, "{") \/ all.lost THEN <<>>
                     ELSE RemoveTrailingCommas(all.out \o quote \o Closers(all.open))
  BY DEF Recovered
<1>5. Contains(s, "{")
  <2>1. 1 \in 1..n
    BY <1>2
  <2>2. s[1] = "{"
    BY <1>1 DEF Braces
  <2>3. QED
    BY <2>1, <2>2, Zenon DEF Contains
<1>6. Min(openings) = 1
  <2>1. \A i \in 1..n : i \in Int /\ 1 <= i
    BY <1>2
  <2>2. 1 \in openings
    <3>1. 1 \in 1..n
      BY <1>2
    <3>2. s[1] = "{"
      BY <1>1 DEF Braces
    <3>3. QED
      BY <3>1, <3>2
  <2>3. \A i \in openings : i \in Int /\ 1 <= i
    BY <2>1, Zenon
  <2> HIDE DEF openings
  <2>4. \E x \in openings : \A y \in openings : x <= y
    BY <2>2, <2>3
  <2>5. Min(openings) \in openings /\ \A y \in openings : Min(openings) <= y
    BY <2>4 DEF Min
  <2>6. QED
    BY <2>2, <2>3, <2>5
<1>7. fragment = s
  <2>1. SubSeq(s, 1, n) = s
    BY <1>1, SubSeqFull
  <2> HIDE DEF openings
  <2>2. QED
    BY <1>6, <2>1 DEF Rest
<1> HIDE DEF openings, fragment
<1>8. body = s
  <2>1. n - 1 \in 1..(n - 1) /\ (n - 1) + 1 = n
    BY <1>1
  <2>2. s[n] = "}"
    BY <1>3 DEF Inside
  <2>3. Last(s) # Fence
    BY <2>2 DEF Last, Fence
  <2>4. QED
    BY <1>7, <2>3
<1> HIDE DEF body
<1>9. R[n].open = <<>>
  <2> DEFINE d == R[n - 1]
  <2>1. n - 1 \in 1..(n - 1) /\ (n - 1) + 1 = n
    BY <1>1
  <2>2. d \in Decoders /\ Ends(d, s[n]) /\ s[n] = "}"
    BY <1>3, <2>1 DEF Inside
  <2>3. Structures(d, s[n], R[n])
    BY <2>1, WholeStructure
  <2>4. InString(d.at) = "out"
    BY <2>2 DEF Ends, InString
  <2>5. R[n].open = Front(d.open)
    BY <2>2, <2>3, <2>4 DEF Structures, Quote
  <2> HIDE DEF d
  <2>6. Len(d.open) = 1
    BY <2>2 DEF Ends
  <2>7. Front(d.open) = SubSeq(d.open, 1, 0)
    BY <2>6 DEF Front
  <2>8. QED
    BY <2>5, <2>7, SubSeqEmpty
<1>10. all = Balancing(<<>>, s)
  <2>1. n \in 1..n
    BY <1>1
  <2>2. Balanced(s)[n] = Balancing(R[n].open, SubSeq(s, 1, n))
    BY <2>1, WholeIsBalanced
  <2>3. SubSeq(s, 1, n) = s
    BY <1>1, SubSeqFull
  <2> HIDE DEF R
  <2>4. QED
    BY <1>8, <1>9, <2>2, <2>3
<1>11. quote = <<>>
  <2>1. R[n].at = "end"
    BY <1>3 DEF Outside
  <2>2. Places(s)[n] = InString(R[n].at)
    BY <1>1, WholeStructure
  <2>3. Places(s)[n] = "out"
    BY ONLY <2>1, <2>2 DEF InString
  <2>4. QED
    BY <1>8, <2>3
<1> HIDE DEF all, quote
<1>12. ~all.lost /\ all.open = <<>> /\ all.out = s
  BY <1>10 DEF Balancing
<1>13. s \o <<>> \o <<>> = s
  BY <1>1, ConcatEmptySeq
<1>14. Recovered(s) = RemoveTrailingCommas(s \o <<>> \o <<>>)
  BY <1>4, <1>5, <1>11, <1>12, NoClosers
<1>15. QED
  BY <1>13, <1>14, NoTrailingCommas

\* No repair makes anything else of a whole text: it is read as the object it is.
THEOREM WholeTextIsItsObject ==
  ASSUME NEW s \in Seq(Chars), ObjectAt(s).end = Len(s), s # <<>>, NEW repair \in BOOLEAN, NEW finish
  PROVE  Parsed(s, repair, finish) = Outcome(finish, "object", ObjectAt(s).members)
<1> DEFINE plain == <<s, Fenced(s)>> \o IF repair THEN <<FirstCompleteObject(s), Recovered(s)>> ELSE <<>>
           c == Candidates(s, repair)
           good == {i \in 1..Len(c) :
                      /\ c[i] # <<>> /\ ObjectAt(c[i]).end = Len(c[i])
                      /\ \A k \in 1..(i - 1) : c[k] # c[i]}
           X == {s, <<>>}
<1>1. Whole(s, Len(s))
  <2>1. Len(s) # 0
    BY EmptySeq
  <2>2. QED
    BY <2>1, WholeObject
<1>2. Fenced(s) = <<>>
  <2>1. Head(s) \in Braces
    BY <1>1, WholeFacts DEF Whole
  <2>2. Head(s) # Fence
    BY <2>1 DEF Braces, Fence
  <2>3. QED
    BY <2>2 DEF Fenced
<1>3. FirstCompleteObject(s) = s /\ Recovered(s) = s /\ QuoteBareKeys(s) = s
  BY <1>1, FirstIsAll, WholeIsRecovered, NoBareKeys
<1>4. QuoteBareKeys(<<>>) = <<>>
  BY DEF QuoteBareKeys, Rewritten, FlattenSeq
<1>5. plain \in Seq(X) /\ plain[1] = s /\ Len(plain) >= 1 /\ Len(plain) \in Nat
  <2> DEFINE a == <<s, <<>>>>
             b == IF repair THEN <<s, s>> ELSE <<>>
  <2>1. a \in Seq(X) /\ b \in Seq(X) /\ a[1] = s /\ Len(a) = 2
    <3> DEFINE none == <<>>
    <3>1. s \in X /\ none \in X
      OBVIOUS
    <3> HIDE DEF X, none
    <3>2. <<s, none>> \in Seq(X) /\ <<s, none>>[1] = s /\ Len(<<s, none>>) = 2
      BY <3>1
    <3>3. <<s, s>> \in Seq(X) /\ <<>> \in Seq(X)
      BY <3>1
    <3>4. QED
      BY <3>2, <3>3 DEF none
  <2>2. plain = a \o b
    BY <1>2, <1>3
  <2> HIDE DEF a, b, X, plain
  <2>3. a \o b \in Seq(X) /\ Len(a \o b) = Len(a) + Len(b) /\ \A i \in 1..Len(a) : (a \o b)[i] = a[i]
    <3>1. a \in Seq(X) /\ b \in Seq(X)
      BY <2>1
    <3>2. QED
      BY ONLY <3>1, ConcatProperties
  <2>4. Len(b) \in Nat
    BY <2>1, LenProperties
  <2>5. QED
    BY <2>1, <2>2, <2>3, <2>4
<1>6. c \in Seq(X) /\ c[1] = s /\ Len(c) >= 1 /\ Len(c) \in Nat
  <2> DEFINE quoted == [i \in 1..Len(plain) |-> QuoteBareKeys(plain[i])]
             b == IF repair THEN quoted ELSE <<>>
  <2>1. c = plain \o b
    BY DEF Candidates
  <2>2. \A x \in X : QuoteBareKeys(x) \in X
    BY <1>3, <1>4
  <2> HIDE DEF plain, X, c
  <2>3. quoted \in Seq(X)
    <3>1. \A i \in 1..Len(plain) : QuoteBareKeys(plain[i]) \in X
      BY <1>5, <2>2, ElementOfSeq
    <3>2. QED
      BY <1>5, <3>1, IsASeq
  <2> HIDE DEF quoted
  <2>4. b \in Seq(X)
    BY <2>3
  <2> HIDE DEF b
  <2>5. plain \o b \in Seq(X) /\ Len(plain \o b) = Len(plain) + Len(b)
        /\ \A i \in 1..Len(plain) : (plain \o b)[i] = plain[i]
    BY <1>5, <2>4, ConcatProperties
  <2>6. Len(b) \in Nat
    BY <2>4, LenProperties
  <2>7. QED
    BY <1>5, <2>1, <2>5, <2>6
<1>7. Parsed(s, repair, finish)
        = IF good = {} THEN Outcome(finish, "format error", <<>>)
          ELSE Outcome(finish, "object", ObjectAt(c[Max(good)]).members)
  BY DEF Parsed
<1> HIDE DEF c
<1>8. \A i \in 1..Len(c) : c[i] = s \/ c[i] = <<>>
  <2>1. \A i \in 1..Len(c) : c[i] \in X
    BY <1>6, ElementOfSeq
  <2>2. QED
    BY <2>1
<1>9. 1 \in good
  BY <1>6
<1>10. \A i \in good : i = 1
  <2> SUFFICES ASSUME NEW i \in good, i # 1 PROVE FALSE
    OBVIOUS
  <2>1. c[i] = s /\ i \in 1..Len(c)
    BY <1>8
  <2>2. 1 \in 1..(i - 1)
    BY <1>6, <2>1
  <2>3. QED
    BY <1>6, <2>1, <2>2
<1> HIDE DEF good
<1>11. good = {1}
  BY <1>9, <1>10
<1>12. Max({1}) = 1
  BY DEF Max
<1>13. QED
  BY <1>6, <1>7, <1>11, <1>12

-----------------------------------------------------------------------------
(* A value and a key are read alike in every object *)

\* The keys of the outermost object replaced by others.
Rebased(keys, K) == [keys EXCEPT ![1] = K]

\* The keys of the inner objects stay.
LEMMA RebasedFacts ==
  ASSUME NEW keys \in Seq(KeySets), Len(keys) >= 1, NEW K \in KeySets
  PROVE  /\ Rebased(keys, K) \in Seq(KeySets) /\ Len(Rebased(keys, K)) = Len(keys)
         /\ Rebased(keys, K)[1] = K
         /\ \A i \in 2..Len(keys) : Rebased(keys, K)[i] = keys[i]
<1>1. Len(keys) \in Nat /\ 1 \in 1..Len(keys)
  <2>1. Len(keys) \in Nat
    BY LenProperties
  <2>2. QED
    BY <2>1
<1>2. /\ Rebased(keys, K) \in Seq(KeySets) /\ Len(Rebased(keys, K)) = Len(keys)
      /\ \A j \in 1..Len(keys) : Rebased(keys, K)[j] = IF j = 1 THEN K ELSE keys[j]
  BY <1>1, ExceptSeq DEF Rebased
<1>3. QED
  BY <1>1, <1>2

\* What the replaced keys are.
LEMMA RebasedIs ==
  ASSUME NEW a \in Seq(KeySets), Len(a) >= 1, NEW b \in Seq(KeySets), Len(a) = Len(b), NEW K \in KeySets,
         b[1] = K, \A i \in 2..Len(a) : b[i] = a[i]
  PROVE  b = Rebased(a, K)
<1>1. /\ Rebased(a, K) \in Seq(KeySets) /\ Len(Rebased(a, K)) = Len(a) /\ Rebased(a, K)[1] = K
      /\ \A i \in 2..Len(a) : Rebased(a, K)[i] = a[i]
  BY RebasedFacts
<1>2. Len(a) \in Nat
  BY LenProperties
<1>3. \A i \in 1..Len(a) : i = 1 \/ i \in 2..Len(a)
  BY <1>2
<1>4. \A i \in 1..Len(b) : b[i] = Rebased(a, K)[i]
  BY <1>1, <1>3
<1>5. QED
  BY <1>1, <1>4, SeqEqual

\* An inner bracket leaves them alone when it opens.
LEMMA RebasedGrows ==
  ASSUME NEW keys \in Seq(KeySets), Len(keys) >= 1, NEW K \in KeySets, NEW k \in KeySets
  PROVE  Append(Rebased(keys, K), k) = Rebased(Append(keys, k), K) /\ Append(keys, k)[1] = keys[1]
<1> DEFINE n == Len(keys)
           r == Rebased(keys, K)
           a == Append(keys, k)
           b == Append(r, k)
<1>1. n \in Nat /\ n >= 1
  BY LenProperties
<1>2. r \in Seq(KeySets) /\ Len(r) = n /\ r[1] = K /\ \A i \in 2..n : r[i] = keys[i]
  BY RebasedFacts
<1> HIDE DEF r
<1>3. /\ b \in Seq(KeySets) /\ Len(b) = Len(r) + 1 /\ b[Len(r) + 1] = k
      /\ \A i \in 1..Len(r) : b[i] = r[i]
  BY <1>2, Appended, Zenon
<1>4. /\ a \in Seq(KeySets) /\ Len(a) = n + 1 /\ a[n + 1] = k
      /\ \A i \in 1..n : a[i] = keys[i]
  BY Appended, Zenon
<1> HIDE DEF a, b, n
<1>5. b[n + 1] = k /\ Len(b) = n + 1 /\ \A i \in 1..n : b[i] = r[i]
  BY <1>2, <1>3
<1>6. 1 \in 1..n /\ Len(a) >= 1 /\ \A i \in 2..(n + 1) : i = n + 1 \/ (i \in 2..n /\ i \in 1..n)
  BY <1>1, <1>4
<1>7. a[1] = keys[1] /\ b[1] = K
  BY <1>2, <1>4, <1>5, <1>6
<1>8. \A i \in 2..(n + 1) : b[i] = a[i]
  BY <1>2, <1>4, <1>5, <1>6
<1>9. b = Rebased(a, K)
  BY <1>3, <1>4, <1>5, <1>6, <1>7, <1>8, RebasedIs
<1>10. QED
  BY <1>7, <1>9 DEF a, b, r

\* Brackets that open and close within, and the keys within, leave those alone.
LEMMA RebasedWithin ==
  ASSUME NEW keys \in Seq(KeySets), Len(keys) >= 2, NEW K \in KeySets, NEW k \in KeySets
  PROVE  /\ Last(Rebased(keys, K)) = Last(keys)
         /\ Append(Rebased(keys, K), k) = Rebased(Append(keys, k), K) /\ Append(keys, k)[1] = keys[1]
         /\ Front(Rebased(keys, K)) = Rebased(Front(keys), K) /\ Front(keys)[1] = keys[1]
         /\ Append(Front(Rebased(keys, K)), k) = Rebased(Append(Front(keys), k), K)
         /\ Append(Front(keys), k)[1] = keys[1]
<1> DEFINE n == Len(keys)
           r == Rebased(keys, K)
<1>1. n \in Nat /\ n >= 2 /\ n >= 1 /\ n - 1 \in Nat /\ n - 1 >= 1
  <2>1. n \in Nat
    BY LenProperties
  <2>2. QED
    BY <2>1
<1>2. r \in Seq(KeySets) /\ Len(r) = n /\ r[1] = K /\ \A i \in 2..n : r[i] = keys[i]
  <2>1. n >= 1
    BY <1>1
  <2>2. QED
    BY <2>1, RebasedFacts
<1> HIDE DEF r, n
<1>3. Last(r) = Last(keys)
  <2>1. n \in 2..n
    BY <1>1
  <2>2. QED
    BY <1>2, <2>1 DEF Last, n
<1>4. /\ Front(r) \in Seq(KeySets) /\ Len(Front(r)) = n - 1 /\ \A i \in 1..(n - 1) : Front(r)[i] = r[i]
  <2>1. Len(r) >= 1
    BY <1>1, <1>2
  <2>2. QED
    BY <1>2, <2>1, LastAndFront
<1>5. /\ Front(keys) \in Seq(KeySets) /\ Len(Front(keys)) = n - 1 /\ \A i \in 1..(n - 1) : Front(keys)[i] = keys[i]
  <2>1. Len(keys) >= 1
    BY <1>1 DEF n
  <2>2. QED
    BY <2>1, LastAndFront DEF n
<1>6. Append(r, k) = Rebased(Append(keys, k), K) /\ Append(keys, k)[1] = keys[1]
  <2>1. n >= 1
    BY <1>1
  <2>2. QED
    BY <2>1, RebasedGrows DEF r, n
<1>7. Front(r) = Rebased(Front(keys), K) /\ Front(keys)[1] = keys[1]
  <2> DEFINE a == Front(keys)
             b == Front(r)
  <2>1. 1 \in 1..(n - 1) /\ Len(a) >= 1 /\ \A i \in 2..(n - 1) : i \in 2..n /\ i \in 1..(n - 1)
    BY <1>1, <1>5
  <2>2. a[1] = keys[1] /\ b[1] = K
    BY <1>2, <1>4, <1>5, <2>1
  <2>3. \A i \in 2..(n - 1) : b[i] = a[i]
    BY <1>2, <1>4, <1>5, <2>1
  <2> HIDE DEF a, b
  <2>4. a \in Seq(KeySets) /\ b \in Seq(KeySets) /\ Len(a) = n - 1 /\ Len(b) = n - 1
    BY <1>4, <1>5 DEF a, b
  <2>5. b = Rebased(a, K)
    BY RebasedIs, <2>1, <2>2, <2>3, <2>4
  <2>6. QED
    BY <2>2, <2>5 DEF a, b
<1>8. Append(Front(r), k) = Rebased(Append(Front(keys), k), K) /\ Append(Front(keys), k)[1] = keys[1]
  <2> DEFINE f == Front(keys)
             g == Front(r)
             a == Append(f, k)
             b == Append(g, k)
             m == n - 1
  <2>1. /\ f \in Seq(KeySets) /\ Len(f) = m /\ g \in Seq(KeySets) /\ Len(g) = m
        /\ f[1] = keys[1] /\ g[1] = K /\ \A i \in 2..m : g[i] = f[i]
    <3>1. 1 \in 1..m /\ \A i \in 2..m : i \in 2..n /\ i \in 1..m
      BY <1>1
    <3>2. QED
      BY <1>2, <1>4, <1>5, <3>1
  <2>2. m \in Nat /\ m >= 1
    BY <1>1
  <2> HIDE DEF f, g, m
  <2>3. /\ a \in Seq(KeySets) /\ Len(a) = m + 1 /\ a[m + 1] = k
        /\ \A i \in 1..m : a[i] = f[i]
    <3>1. /\ a \in Seq(KeySets) /\ Len(a) = Len(f) + 1 /\ a[Len(f) + 1] = k
          /\ \A i \in 1..Len(f) : a[i] = f[i]
      <4>1. f \in Seq(KeySets)
        BY <2>1
      <4>2. QED
        BY ONLY <4>1, k \in KeySets, Appended
    <3> HIDE DEF a
    <3>2. QED
      BY <2>1, <3>1
  <2>4. /\ b \in Seq(KeySets) /\ Len(b) = m + 1 /\ b[m + 1] = k
        /\ \A i \in 1..m : b[i] = g[i]
    <3>1. /\ b \in Seq(KeySets) /\ Len(b) = Len(g) + 1 /\ b[Len(g) + 1] = k
          /\ \A i \in 1..Len(g) : b[i] = g[i]
      <4>1. g \in Seq(KeySets)
        BY <2>1
      <4>2. QED
        BY ONLY <4>1, k \in KeySets, Appended
    <3> HIDE DEF b
    <3>2. QED
      BY <2>1, <3>1
  <2> HIDE DEF a, b
  <2>5. 1 \in 1..m /\ Len(a) >= 1 /\ \A i \in 2..(m + 1) : i = m + 1 \/ (i \in 2..m /\ i \in 1..m)
    BY <2>2, <2>3
  <2>6. a[1] = keys[1] /\ b[1] = K
    BY <2>1, <2>3, <2>4, <2>5
  <2>7. \A i \in 2..(m + 1) : b[i] = a[i]
    BY <2>1, <2>3, <2>4, <2>5
  <2>8. b = Rebased(a, K)
    BY RebasedIs, <2>3, <2>4, <2>5, <2>6, <2>7
  <2>9. QED
    BY <2>6, <2>8 DEF a, b, f, g
<1>9. QED
  BY <1>3, <1>6, <1>7, <1>8 DEF r

\* Inside the value of a member of the outermost object.
Valuing(d) == Len(d.open) >= 2 \/ d.at \in {"string", "escaped", "number", "after"}

\* What belongs to the outermost object is as it was.
SameFrame(d, e) ==
  e.key = d.key /\ e.from = d.from /\ e.members = d.members /\ e.pos = d.pos + 1 /\ e.keys[1] = d.keys[1]

\* The same place within a member of another object.
Other(d, K, key, from, members, pos) ==
  Decoder(d.at, d.open, Rebased(d.keys, K), d.word, key, from, members, pos)

Within(d, at, open, keys, word) == Decoder(at, open, keys, word, d.key, d.from, d.members, d.pos + 1)

\* What follows an inner bracket that opens or closes, or stays where it is.
Stays(at, open) == Len(open) >= 2 \/ at = "after"

\* What the same place within another member is, part by part.
LEMMA OtherFacts ==
  ASSUME NEW d \in Decoders, NEW K \in KeySets, NEW key \in Words, NEW from \in Nat,
         NEW members \in Seq(Spans), NEW pos \in Nat,
         NEW x, x = Other(d, K, key, from, members, pos)
  PROVE  /\ x \in Decoders
         /\ x.at = d.at /\ x.open = d.open /\ x.keys = Rebased(d.keys, K) /\ x.word = d.word
         /\ x.key = key /\ x.from = from /\ x.members = members /\ x.pos = pos
<1> DEFINE keys == Rebased(d.keys, K)
<1>1. keys \in Seq(KeySets) /\ Len(keys) = Len(d.keys)
  <2>1. d.keys \in Seq(KeySets) /\ Len(d.keys) >= 1
    BY DecoderType
  <2>2. QED
    BY <2>1, RebasedFacts
<1>2. x = Decoder(d.at, d.open, keys, d.word, key, from, members, pos)
  BY DEF Other
<1> HIDE DEF keys
<1>3. x \in Decoders
  <2>1. Len(keys) = Len(d.open)
    BY <1>1, DecoderType
  <2>2. QED
    <3>1. /\ d.at \in Stands /\ d.open \in Seq(Openers) /\ d.word \in Words
          /\ Len(d.open) \in Nat /\ Len(d.open) >= 1 /\ d.open[1] \in Braces
          /\ d.at = "value or end" => Last(d.open) = "["
          /\ d.at \in {"key", "key or end", "in key", "key escaped", "colon"} => Last(d.open) = "{"
          /\ d.at \notin {"in key", "key escaped"} => d.word = <<>>
      BY DecoderType
    <3>2. Decoder(d.at, d.open, keys, d.word, key, from, members, pos) \in Decoders
      BY ONLY <1>1, <2>1, <3>1, MakeDecoder, key \in Words, from \in Nat, members \in Seq(Spans), pos \in Nat
    <3>3. QED
      BY <1>2, <3>2
<1>4. /\ x.at = d.at /\ x.open = d.open /\ x.keys = keys /\ x.word = d.word
      /\ x.key = key /\ x.from = from /\ x.members = members /\ x.pos = pos
  BY ONLY <1>2, DecoderFields
<1>5. QED
  BY <1>3, <1>4 DEF keys

\* What each character does within an inner bracket.
LEMMA WithinTable ==
  ASSUME NEW d \in Decoders, ~Outermost(d), NEW c \in Chars
  PROVE  /\ d.at = "string" =>
              Read(d, c) = Within(d, IF c = Quote THEN "after" ELSE IF c = Escape THEN "escaped" ELSE "string", d.open, d.keys, d.word)
         /\ d.at = "escaped" =>
              Read(d, c) = Within(d, IF c \in {Quote, Escape} THEN "string" ELSE "bad", d.open, d.keys, d.word)
         /\ d.at = "in key" /\ c = Quote =>
              Read(d, c) = Within(d, IF d.word \in Last(d.keys) THEN "bad" ELSE "colon", d.open,
                Append(Front(d.keys), Last(d.keys) \cup {d.word}), <<>>)
         /\ d.at = "in key" /\ c # Quote =>
              Read(d, c) = Within(d, IF c = Escape THEN "key escaped" ELSE "in key", d.open, d.keys,
                Append(d.word, c))
         /\ d.at = "key escaped" =>
              Read(d, c) = Within(d, IF c \in {Quote, Escape} THEN "in key" ELSE "bad", d.open, d.keys,
                Append(d.word, c))
         /\ d.at = "colon" =>
              Read(d, c) = Within(d, IF c = ":" THEN "value" ELSE "bad", d.open, d.keys, d.word)
         /\ d.at \in {"value", "value or end"} /\ c = Quote =>
              Read(d, c) = Within(d, "string", d.open, d.keys, d.word)
         /\ d.at \in {"value", "value or end"} /\ c \in Digits =>
              Read(d, c) = Within(d, "number", d.open, d.keys, d.word)
         /\ d.at \in {"value", "value or end"} /\ c \in {"{", "["} =>
              Read(d, c) = Within(d, IF c = "{" THEN "key or end" ELSE "value or end", Append(d.open, c),
                Append(d.keys, {}), d.word)
         /\ d.at = "value or end" /\ c = "]" =>
              Read(d, c) = Within(d, "after", Front(d.open), Front(d.keys), d.word)
         /\ d.at \in {"key", "key or end"} /\ c = Quote =>
              Read(d, c) = Within(d, "in key", d.open, d.keys, d.word)
         /\ d.at = "key or end" /\ c = "}" =>
              Read(d, c) = Within(d, "after", Front(d.open), Front(d.keys), d.word)
         /\ d.at = "number" /\ c \in Digits =>
              Read(d, c) = Within(d, "number", d.open, d.keys, d.word)
         /\ d.at \in {"after", "number"} /\ c = "," =>
              Read(d, c) = Within(d, IF Last(d.open) = "{" THEN "key" ELSE "value", d.open, d.keys, d.word)
         /\ d.at \in {"after", "number"} /\ c = Closer[Last(d.open)] =>
              Read(d, c) = Within(d, "after", Front(d.open), Front(d.keys), d.word)
<1>1. ~(Len(d.open) = 1) /\ Kept(d) = d.members
  BY DEF Outermost, Kept
<1>2. ASSUME d.at = "string"
      PROVE  Read(d, c) = Within(d, IF c = Quote THEN "after" ELSE IF c = Escape THEN "escaped" ELSE "string", d.open, d.keys, d.word)
  BY <1>1, <1>2, ReadTable DEF Within, Later
<1>3. ASSUME d.at = "escaped"
      PROVE  Read(d, c) = Within(d, IF c \in {Quote, Escape} THEN "string" ELSE "bad", d.open, d.keys, d.word)
  BY <1>1, <1>3, ReadTable DEF Within, Later
<1>4. ASSUME d.at = "in key" /\ c = Quote
      PROVE  Read(d, c) = Within(d, IF d.word \in Last(d.keys) THEN "bad" ELSE "colon", d.open,
             Append(Front(d.keys), Last(d.keys) \cup {d.word}), <<>>)
  BY <1>1, <1>4, ReadTable DEF Within, Later
<1>5. ASSUME d.at = "in key" /\ c # Quote
      PROVE  Read(d, c) = Within(d, IF c = Escape THEN "key escaped" ELSE "in key", d.open, d.keys, Append(d.word, c))
  BY <1>1, <1>5, ReadTable DEF Within, Later
<1>6. ASSUME d.at = "key escaped"
      PROVE  Read(d, c) = Within(d, IF c \in {Quote, Escape} THEN "in key" ELSE "bad", d.open, d.keys,
             Append(d.word, c))
  BY <1>1, <1>6, ReadTable DEF Within, Later
<1>7. ASSUME d.at = "colon"
      PROVE  Read(d, c) = Within(d, IF c = ":" THEN "value" ELSE "bad", d.open, d.keys, d.word)
  BY <1>1, <1>7, ReadTable DEF Within, Later
<1>8. ASSUME d.at \in {"value", "value or end"} /\ c = Quote
      PROVE  Read(d, c) = Within(d, "string", d.open, d.keys, d.word)
  BY <1>1, <1>8, ReadTable DEF Within, Later
<1>9. ASSUME d.at \in {"value", "value or end"} /\ c \in Digits
      PROVE  Read(d, c) = Within(d, "number", d.open, d.keys, d.word)
  BY <1>1, <1>9, ReadTable DEF Within, Later
<1>10. ASSUME d.at \in {"value", "value or end"} /\ c \in {"{", "["}
      PROVE  Read(d, c) = Within(d, IF c = "{" THEN "key or end" ELSE "value or end", Append(d.open, c),
             Append(d.keys, {}), d.word)
  BY <1>1, <1>10, ReadTable DEF Within, Later
<1>11. ASSUME d.at = "value or end" /\ c = "]"
      PROVE  Read(d, c) = Within(d, "after", Front(d.open), Front(d.keys), d.word)
  BY <1>1, <1>11, ReadTable DEF Within, Later
<1>12. ASSUME d.at \in {"key", "key or end"} /\ c = Quote
      PROVE  Read(d, c) = Within(d, "in key", d.open, d.keys, d.word)
  BY <1>1, <1>12, ReadTable DEF Within, Later
<1>13. ASSUME d.at = "key or end" /\ c = "}"
      PROVE  Read(d, c) = Within(d, "after", Front(d.open), Front(d.keys), d.word)
  BY <1>1, <1>13, ReadTable DEF Within, Later
<1>14. ASSUME d.at = "number" /\ c \in Digits
      PROVE  Read(d, c) = Within(d, "number", d.open, d.keys, d.word)
  BY <1>1, <1>14, ReadTable DEF Within, Later
<1>15. ASSUME d.at \in {"after", "number"} /\ c = ","
      PROVE  Read(d, c) = Within(d, IF Last(d.open) = "{" THEN "key" ELSE "value", d.open, d.keys, d.word)
  <2>1. Read(d, c) = Decoder(IF Last(d.open) = "{" THEN "key" ELSE "value", d.open, d.keys, d.word,
                           d.key, d.from, Kept(d), d.pos + 1)
    BY <1>15, ReadTable
  <2>2. QED
    BY <1>1, <2>1 DEF Within
<1>16. ASSUME d.at \in {"after", "number"} /\ c = Closer[Last(d.open)]
      PROVE  Read(d, c) = Within(d, "after", Front(d.open), Front(d.keys), d.word)
  <2>1. Read(d, c) = Decoder(IF Len(d.open) = 1 THEN "end" ELSE "after", Front(d.open), Front(d.keys), d.word,
                           d.key, d.from, Kept(d), d.pos + 1)
    BY <1>16, ReadTable
  <2>2. QED
    BY <1>1, <2>1 DEF Within
<1>17. QED
  BY <1>2, <1>3, <1>4, <1>5, <1>6, <1>7, <1>8, <1>9, <1>10, <1>11, <1>12, <1>13, <1>14, <1>15, <1>16

\* Two decoders in different objects, in the same place within a member, after the same step.
LEMMA ReadAlike ==
  ASSUME NEW d, NEW e, NEW x, NEW y, NEW K, NEW pos, NEW at, NEW open, NEW keys, NEW word,
         x.pos = pos, keys[1] = d.keys[1],
         e = Within(d, at, open, keys, word), y = Within(x, at, open, Rebased(keys, K), word)
  PROVE  /\ e.at = at /\ e.open = open /\ SameFrame(d, e)
         /\ y = Other(e, K, x.key, x.from, x.members, pos + 1)
<1>1. /\ e.at = at /\ e.open = open /\ e.keys = keys /\ e.word = word
      /\ e.key = d.key /\ e.from = d.from /\ e.members = d.members /\ e.pos = d.pos + 1
  BY DecoderFields DEF Within
<1>2. SameFrame(d, e)
  BY <1>1 DEF SameFrame
<1>3. y = Decoder(at, open, Rebased(keys, K), word, x.key, x.from, x.members, pos + 1)
  BY DEF Within
<1>4. Other(e, K, x.key, x.from, x.members, pos + 1)
        = Decoder(at, open, Rebased(keys, K), word, x.key, x.from, x.members, pos + 1)
  BY <1>1 DEF Other
<1>5. QED
  BY <1>1, <1>2, <1>3, <1>4

\* Within an inner bracket the decoder reads alike in every member of every object.
LEMMA ReadWithin ==
  ASSUME NEW d \in Decoders, Len(d.open) >= 2, NEW c \in Chars, Read(d, c).at # "bad",
         NEW K \in KeySets, NEW key \in Words, NEW from \in Nat, NEW members \in Seq(Spans), NEW pos \in Nat
  PROVE  /\ SameFrame(d, Read(d, c)) /\ Valuing(Read(d, c))
         /\ Read(Other(d, K, key, from, members, pos), c) = Other(Read(d, c), K, key, from, members, pos + 1)
<1> DEFINE e == Read(d, c)
           x == Other(d, K, key, from, members, pos)
           y == Read(x, c)
           n == Len(d.open)
           spelt == Append(Front(d.keys), Last(d.keys) \cup {d.word})
           more == Append(d.keys, {})
           less == Front(d.keys)
           R(k) == Rebased(k, K)
<1>1. x \in Decoders
  BY OtherFacts
<1>2. /\ x.at = d.at /\ x.open = d.open /\ x.keys = R(d.keys) /\ x.word = d.word
      /\ x.key = key /\ x.from = from /\ x.members = members /\ x.pos = pos
  BY OtherFacts
<1>3. n \in Nat /\ n >= 2
  BY DecoderType
<1> DEFINE one == n = 1
<1>4. ~one
  <2> HIDE DEF n
  <2>1. QED
    BY <1>3
<1>5. ~Outermost(d) /\ ~Outermost(x)
  BY <1>2, <1>4 DEF Outermost
<1>6. /\ Last(R(d.keys)) = Last(d.keys)
      /\ Append(Front(R(d.keys)), Last(d.keys) \cup {d.word}) = R(spelt) /\ spelt[1] = d.keys[1]
      /\ Append(R(d.keys), {}) = R(more) /\ more[1] = d.keys[1]
      /\ Front(R(d.keys)) = R(less) /\ less[1] = d.keys[1]
  <2>1. d.keys \in Seq(KeySets) /\ Len(d.keys) = n /\ d.word \in Words
    BY DecoderType
  <2>2. Len(d.keys) >= 2
    BY <1>3, <2>1
  <2>3. {} \in KeySets /\ Last(d.keys) \cup {d.word} \in KeySets
    <3>1. Len(d.keys) >= 1
      BY <1>3, <2>1
    <3>2. Last(d.keys) \in KeySets
      BY <2>1, <3>1, LastAndFront
    <3>3. QED
      BY <2>1, <3>2 DEF KeySets
  <2> HIDE DEF n
  <2>4. QED
    BY <2>1, <2>2, <2>3, RebasedWithin
<1>7. Kept(d) = d.members /\ Kept(x) = x.members
  BY <1>2, <1>4 DEF Kept
<1>8. Len(Append(d.open, c)) >= 2
  <2>1. d.open \in Seq(Openers)
    BY DecoderType
  <2>2. Len(Append(d.open, c)) = n + 1
    BY <2>1
  <2> HIDE DEF n
  <2>3. QED
    BY <1>3, <2>2
<1>9. ASSUME NEW at, NEW open, NEW keys, NEW word,
             e = Within(d, at, open, keys, word), y = Within(x, at, open, R(keys), word),
             keys[1] = d.keys[1], Stays(at, open)
      PROVE  SameFrame(d, e) /\ Valuing(e) /\ y = Other(e, K, key, from, members, pos + 1)
  <2> HIDE DEF e, x, y
  <2>1. /\ e.at = at /\ e.open = open /\ SameFrame(d, e) /\ y = Other(e, K, key, from, members, pos + 1)
    BY <1>2, <1>9, ReadAlike
  <2>2. QED
    BY <1>9, <2>1 DEF Valuing, Stays
<1> DEFINE Goal == SameFrame(d, e) /\ Valuing(e) /\ y = Other(e, K, key, from, members, pos + 1)
<1> SUFFICES Goal
  OBVIOUS
<1> HIDE DEF x, one, Goal
<1>10. CASE d.at = "string"
  <2> DEFINE at == IF c = Quote THEN "after" ELSE IF c = Escape THEN "escaped" ELSE "string"
  <2>1. e = Within(d, at, d.open, d.keys, d.word)
    BY <1>5, <1>10, WithinTable
  <2>2. y = Within(x, IF c = Quote THEN "after" ELSE IF c = Escape THEN "escaped" ELSE "string", x.open,
        x.keys, x.word)
    <3>1. x.at = "string"
      BY <1>2, <1>10
    <3>2. QED
      BY <1>1, <1>5, <3>1, WithinTable, Zenon
  <2>3. y = Within(x, at, d.open, R(d.keys), d.word)
    BY <1>2, <1>6, <2>2
  <2>4. (d.keys)[1] = d.keys[1] /\ Stays(at, d.open)
    BY <1>3, <1>6, <1>8 DEF Stays
  <2> HIDE DEF at, e, y, n, spelt, more, less, R
  <2>5. QED
    BY <1>9, <2>1, <2>3, <2>4, Zenon DEF Goal
<1>11. CASE d.at = "escaped"
  <2> DEFINE at == IF c \in {Quote, Escape} THEN "string" ELSE "bad"
  <2>1. e = Within(d, at, d.open, d.keys, d.word)
    BY <1>5, <1>11, WithinTable
  <2>2. y = Within(x, IF c \in {Quote, Escape} THEN "string" ELSE "bad", x.open, x.keys, x.word)
    <3>1. x.at = "escaped"
      BY <1>2, <1>11
    <3>2. QED
      BY <1>1, <1>5, <3>1, WithinTable, Zenon
  <2>3. y = Within(x, at, d.open, R(d.keys), d.word)
    BY <1>2, <1>6, <2>2
  <2>4. (d.keys)[1] = d.keys[1] /\ Stays(at, d.open)
    BY <1>3, <1>6, <1>8 DEF Stays
  <2> HIDE DEF at, e, y, n, spelt, more, less, R
  <2>5. QED
    BY <1>9, <2>1, <2>3, <2>4, Zenon DEF Goal
<1>12. CASE d.at = "in key" /\ c = Quote
  <2> DEFINE at == IF d.word \in Last(d.keys) THEN "bad" ELSE "colon"
  <2>1. e = Within(d, at, d.open, spelt, <<>>)
    BY <1>5, <1>12, WithinTable
  <2>2. y = Within(x, IF x.word \in Last(x.keys) THEN "bad" ELSE "colon", x.open,
        Append(Front(x.keys), Last(x.keys) \cup {x.word}), <<>>)
    <3>1. x.at = "in key" /\ c = Quote
      BY <1>2, <1>12
    <3>2. QED
      BY <1>1, <1>5, <3>1, WithinTable, Zenon
  <2>3. y = Within(x, at, d.open, R(spelt), <<>>)
    BY <1>2, <1>6, <2>2
  <2>4. (spelt)[1] = d.keys[1] /\ Stays(at, d.open)
    BY <1>3, <1>6, <1>8 DEF Stays
  <2> HIDE DEF at, e, y, n, spelt, more, less, R
  <2>5. QED
    BY <1>9, <2>1, <2>3, <2>4, Zenon DEF Goal
<1>13. CASE d.at = "in key" /\ c # Quote
  <2> DEFINE at == IF c = Escape THEN "key escaped" ELSE "in key"
  <2>1. e = Within(d, at, d.open, d.keys, Append(d.word, c))
    BY <1>5, <1>13, WithinTable
  <2>2. y = Within(x, IF c = Escape THEN "key escaped" ELSE "in key", x.open, x.keys, Append(x.word, c))
    <3>1. x.at = "in key" /\ c # Quote
      BY <1>2, <1>13
    <3>2. QED
      BY <1>1, <1>5, <3>1, WithinTable, Zenon
  <2>3. y = Within(x, at, d.open, R(d.keys), Append(d.word, c))
    BY <1>2, <1>6, <2>2
  <2>4. (d.keys)[1] = d.keys[1] /\ Stays(at, d.open)
    BY <1>3, <1>6, <1>8 DEF Stays
  <2> HIDE DEF at, e, y, n, spelt, more, less, R
  <2>5. QED
    BY <1>9, <2>1, <2>3, <2>4, Zenon DEF Goal
<1>14. CASE d.at = "key escaped"
  <2> DEFINE at == IF c \in {Quote, Escape} THEN "in key" ELSE "bad"
  <2>1. e = Within(d, at, d.open, d.keys, Append(d.word, c))
    BY <1>5, <1>14, WithinTable
  <2>2. y = Within(x, IF c \in {Quote, Escape} THEN "in key" ELSE "bad", x.open, x.keys, Append(x.word, c))
    <3>1. x.at = "key escaped"
      BY <1>2, <1>14
    <3>2. QED
      BY <1>1, <1>5, <3>1, WithinTable, Zenon
  <2>3. y = Within(x, at, d.open, R(d.keys), Append(d.word, c))
    BY <1>2, <1>6, <2>2
  <2>4. (d.keys)[1] = d.keys[1] /\ Stays(at, d.open)
    BY <1>3, <1>6, <1>8 DEF Stays
  <2> HIDE DEF at, e, y, n, spelt, more, less, R
  <2>5. QED
    BY <1>9, <2>1, <2>3, <2>4, Zenon DEF Goal
<1>15. CASE d.at = "colon"
  <2> DEFINE at == IF c = ":" THEN "value" ELSE "bad"
  <2>1. e = Within(d, at, d.open, d.keys, d.word)
    BY <1>5, <1>15, WithinTable
  <2>2. y = Within(x, IF c = ":" THEN "value" ELSE "bad", x.open, x.keys, x.word)
    <3>1. x.at = "colon"
      BY <1>2, <1>15
    <3>2. QED
      BY <1>1, <1>5, <3>1, WithinTable, Zenon
  <2>3. y = Within(x, at, d.open, R(d.keys), d.word)
    BY <1>2, <1>6, <2>2
  <2>4. (d.keys)[1] = d.keys[1] /\ Stays(at, d.open)
    BY <1>3, <1>6, <1>8 DEF Stays
  <2> HIDE DEF at, e, y, n, spelt, more, less, R
  <2>5. QED
    BY <1>9, <2>1, <2>3, <2>4, Zenon DEF Goal
<1>16. CASE d.at \in {"value", "value or end"} /\ c = Quote
  <2> DEFINE at == "string"
  <2>1. e = Within(d, at, d.open, d.keys, d.word)
    BY <1>5, <1>16, WithinTable
  <2>2. y = Within(x, "string", x.open, x.keys, x.word)
    <3>1. x.at \in {"value", "value or end"} /\ c = Quote
      BY <1>2, <1>16
    <3>2. QED
      BY <1>1, <1>5, <3>1, WithinTable, Zenon
  <2>3. y = Within(x, at, d.open, R(d.keys), d.word)
    BY <1>2, <1>6, <2>2
  <2>4. (d.keys)[1] = d.keys[1] /\ Stays(at, d.open)
    BY <1>3, <1>6, <1>8 DEF Stays
  <2> HIDE DEF at, e, y, n, spelt, more, less, R
  <2>5. QED
    BY <1>9, <2>1, <2>3, <2>4, Zenon DEF Goal
<1>17. CASE d.at \in {"value", "value or end"} /\ c \in Digits
  <2> DEFINE at == "number"
  <2>1. e = Within(d, at, d.open, d.keys, d.word)
    BY <1>5, <1>17, WithinTable
  <2>2. y = Within(x, "number", x.open, x.keys, x.word)
    <3>1. x.at \in {"value", "value or end"} /\ c \in Digits
      BY <1>2, <1>17
    <3>2. QED
      BY <1>1, <1>5, <3>1, WithinTable, Zenon
  <2>3. y = Within(x, at, d.open, R(d.keys), d.word)
    BY <1>2, <1>6, <2>2
  <2>4. (d.keys)[1] = d.keys[1] /\ Stays(at, d.open)
    BY <1>3, <1>6, <1>8 DEF Stays
  <2> HIDE DEF at, e, y, n, spelt, more, less, R
  <2>5. QED
    BY <1>9, <2>1, <2>3, <2>4, Zenon DEF Goal
<1>18. CASE d.at \in {"value", "value or end"} /\ c \in {"{", "["}
  <2> DEFINE at == IF c = "{" THEN "key or end" ELSE "value or end"
  <2>1. e = Within(d, at, Append(d.open, c), more, d.word)
    BY <1>5, <1>18, WithinTable
  <2>2. y = Within(x, IF c = "{" THEN "key or end" ELSE "value or end", Append(x.open, c), Append(x.keys, {}), x.word)
    <3>1. x.at \in {"value", "value or end"} /\ c \in {"{", "["}
      BY <1>2, <1>18
    <3>2. QED
      BY <1>1, <1>5, <3>1, WithinTable, Zenon
  <2>3. y = Within(x, at, Append(d.open, c), R(more), d.word)
    BY <1>2, <1>6, <2>2
  <2>4. (more)[1] = d.keys[1] /\ Stays(at, Append(d.open, c))
    BY <1>3, <1>6, <1>8 DEF Stays
  <2> HIDE DEF at, e, y, n, spelt, more, less, R
  <2>5. QED
    BY <1>9, <2>1, <2>3, <2>4, Zenon DEF Goal
<1>19. CASE d.at = "value or end" /\ c = "]"
  <2> DEFINE at == "after"
  <2>1. e = Within(d, at, Front(d.open), less, d.word)
    BY <1>5, <1>19, WithinTable
  <2>2. y = Within(x, "after", Front(x.open), Front(x.keys), x.word)
    <3>1. x.at = "value or end" /\ c = "]"
      BY <1>2, <1>19
    <3>2. QED
      BY <1>1, <1>5, <3>1, WithinTable, Zenon
  <2>3. y = Within(x, at, Front(d.open), R(less), d.word)
    BY <1>2, <1>6, <2>2
  <2>4. (less)[1] = d.keys[1] /\ Stays(at, Front(d.open))
    BY <1>3, <1>6, <1>8 DEF Stays
  <2> HIDE DEF at, e, y, n, spelt, more, less, R
  <2>5. QED
    BY <1>9, <2>1, <2>3, <2>4, Zenon DEF Goal
<1>20. CASE d.at \in {"key", "key or end"} /\ c = Quote
  <2> DEFINE at == "in key"
  <2>1. e = Within(d, at, d.open, d.keys, d.word)
    BY <1>5, <1>20, WithinTable
  <2>2. y = Within(x, "in key", x.open, x.keys, x.word)
    <3>1. x.at \in {"key", "key or end"} /\ c = Quote
      BY <1>2, <1>20
    <3>2. QED
      BY <1>1, <1>5, <3>1, WithinTable, Zenon
  <2>3. y = Within(x, at, d.open, R(d.keys), d.word)
    BY <1>2, <1>6, <2>2
  <2>4. (d.keys)[1] = d.keys[1] /\ Stays(at, d.open)
    BY <1>3, <1>6, <1>8 DEF Stays
  <2> HIDE DEF at, e, y, n, spelt, more, less, R
  <2>5. QED
    BY <1>9, <2>1, <2>3, <2>4, Zenon DEF Goal
<1>21. CASE d.at = "key or end" /\ c = "}"
  <2> DEFINE at == "after"
  <2>1. e = Within(d, at, Front(d.open), less, d.word)
    BY <1>5, <1>21, WithinTable
  <2>2. y = Within(x, "after", Front(x.open), Front(x.keys), x.word)
    <3>1. x.at = "key or end" /\ c = "}"
      BY <1>2, <1>21
    <3>2. QED
      BY <1>1, <1>5, <3>1, WithinTable, Zenon
  <2>3. y = Within(x, at, Front(d.open), R(less), d.word)
    BY <1>2, <1>6, <2>2
  <2>4. (less)[1] = d.keys[1] /\ Stays(at, Front(d.open))
    BY <1>3, <1>6, <1>8 DEF Stays
  <2> HIDE DEF at, e, y, n, spelt, more, less, R
  <2>5. QED
    BY <1>9, <2>1, <2>3, <2>4, Zenon DEF Goal
<1>22. CASE d.at = "number" /\ c \in Digits
  <2> DEFINE at == "number"
  <2>1. e = Within(d, at, d.open, d.keys, d.word)
    BY <1>5, <1>22, WithinTable
  <2>2. y = Within(x, "number", x.open, x.keys, x.word)
    <3>1. x.at = "number" /\ c \in Digits
      BY <1>2, <1>22
    <3>2. QED
      BY <1>1, <1>5, <3>1, WithinTable, Zenon
  <2>3. y = Within(x, at, d.open, R(d.keys), d.word)
    BY <1>2, <1>6, <2>2
  <2>4. (d.keys)[1] = d.keys[1] /\ Stays(at, d.open)
    BY <1>3, <1>6, <1>8 DEF Stays
  <2> HIDE DEF at, e, y, n, spelt, more, less, R
  <2>5. QED
    BY <1>9, <2>1, <2>3, <2>4, Zenon DEF Goal
<1>23. CASE d.at \in {"after", "number"} /\ c = ","
  <2> DEFINE at == IF Last(d.open) = "{" THEN "key" ELSE "value"
  <2>1. e = Within(d, at, d.open, d.keys, d.word)
    BY <1>5, <1>23, WithinTable
  <2>2. y = Within(x, IF Last(x.open) = "{" THEN "key" ELSE "value", x.open, x.keys, x.word)
    <3>1. x.at \in {"after", "number"} /\ c = ","
      BY <1>2, <1>23
    <3>2. QED
      BY <1>1, <1>5, <3>1, WithinTable, Zenon
  <2>3. y = Within(x, at, d.open, R(d.keys), d.word)
    BY <1>2, <1>6, <2>2
  <2>4. (d.keys)[1] = d.keys[1] /\ Stays(at, d.open)
    BY <1>3, <1>6, <1>8 DEF Stays
  <2> HIDE DEF at, e, y, n, spelt, more, less, R
  <2>5. QED
    BY <1>9, <2>1, <2>3, <2>4, Zenon DEF Goal
<1>24. CASE d.at \in {"after", "number"} /\ c = Closer[Last(d.open)]
  <2> DEFINE at == "after"
  <2>1. e = Within(d, at, Front(d.open), less, d.word)
    BY <1>5, <1>24, WithinTable
  <2>2. y = Within(x, "after", Front(x.open), Front(x.keys), x.word)
    <3>1. x.at \in {"after", "number"} /\ c = Closer[Last(x.open)]
      BY <1>2, <1>24
    <3>2. QED
      BY <1>1, <1>5, <3>1, WithinTable, Zenon
  <2>3. y = Within(x, at, Front(d.open), R(less), d.word)
    BY <1>2, <1>6, <2>2
  <2>4. (less)[1] = d.keys[1] /\ Stays(at, Front(d.open))
    BY <1>3, <1>6, <1>8 DEF Stays
  <2> HIDE DEF at, e, y, n, spelt, more, less, R
  <2>5. QED
    BY <1>9, <2>1, <2>3, <2>4, Zenon DEF Goal
<1>25. d.at \in Stands
  BY DecoderType
<1>26. e.at # "bad"
  OBVIOUS
<1> HIDE DEF e, y, spelt, more, less, R, n
<1>27. e # Later(d, "bad")
  <2>1. ASSUME e = Later(d, "bad") PROVE FALSE
    <3>1. e.at = "bad"
      BY ONLY <2>1, DecoderFields DEF Later
    <3>2. QED
      BY <1>26, <3>1
  <2>2. QED
    BY <2>1
<1>28. CASE d.at \in {"value", "value or end"}
  <2>1. CASE c \in {Quote, "{", "["} \cup Digits
    BY <1>16, <1>17, <1>18, <1>28, <2>1
  <2>2. CASE d.at = "value or end" /\ c = "]"
    BY <1>19, <2>2
  <2>3. CASE c \notin {Quote, "{", "["} \cup Digits /\ (d.at = "value or end" => c # "]")
    BY <1>27, <1>28, <2>3, ReadTable DEF e
  <2>4. QED
    BY <2>1, <2>2, <2>3
<1>29. CASE d.at \in {"key", "key or end"}
  <2>1. CASE c = Quote
    BY <1>20, <1>29, <2>1
  <2>2. CASE d.at = "key or end" /\ c = "}"
    BY <1>21, <2>2
  <2>3. CASE c # Quote /\ (d.at = "key or end" => c # "}")
    BY <1>27, <1>29, <2>3, ReadTable DEF e
  <2>4. QED
    BY <2>1, <2>2, <2>3
<1>30. CASE d.at \in {"after", "number"}
  <2>1. CASE c = ","
    BY <1>23, <1>30, <2>1
  <2>2. CASE c = Closer[Last(d.open)]
    BY <1>24, <1>30, <2>2
  <2>3. CASE d.at = "number" /\ c \in Digits
    BY <1>22, <2>3
  <2>4. CASE c \notin {",", Closer[Last(d.open)]} /\ (d.at = "number" => c \notin Digits)
    BY <1>27, <1>30, <2>4, ReadTable DEF e
  <2>5. QED
    BY <2>1, <2>2, <2>3, <2>4
<1>31. QED
  BY <1>10, <1>11, <1>12, <1>13, <1>14, <1>15, <1>25, <1>28, <1>29, <1>30 DEF Stands

\* The value goes on with the next character, whatever it is.
Going(d) == Len(d.open) >= 2 \/ d.at \in {"string", "escaped", "number"}

\* Within a value the decoder reads alike in every member of every object.
LEMMA ReadGoing ==
  ASSUME NEW d \in Decoders, Going(d), NEW c \in Chars, Read(d, c) \in Decoders, Valuing(Read(d, c)),
         NEW K \in KeySets, NEW key \in Words, NEW from \in Nat, NEW members \in Seq(Spans), NEW pos \in Nat
  PROVE  /\ SameFrame(d, Read(d, c))
         /\ Read(Other(d, K, key, from, members, pos), c) = Other(Read(d, c), K, key, from, members, pos + 1)
<1> DEFINE e == Read(d, c)
           x == Other(d, K, key, from, members, pos)
           y == Read(x, c)
           n == Len(d.open)
<1>1. e.at \in Stands /\ e.at # "bad"
  BY DecoderType DEF Stands
<1>2. CASE Len(d.open) >= 2
  BY <1>1, <1>2, ReadWithin
<1>3. CASE ~(Len(d.open) >= 2)
  <2>1. d.at \in {"string", "escaped", "number"}
    BY <1>3 DEF Going
  <2>2. n \in Nat /\ n >= 1 /\ n = 1
    <3>1. n \in Nat /\ n >= 1
      BY DecoderType
    <3>2. ~(n >= 2)
      BY <1>3
    <3> HIDE DEF n
    <3>3. QED
      BY <3>1, <3>2
  <2>3. /\ x \in Decoders
        /\ x.at = d.at /\ x.open = d.open /\ x.keys = Rebased(d.keys, K) /\ x.word = d.word
        /\ x.key = key /\ x.from = from /\ x.members = members /\ x.pos = pos
    BY OtherFacts
  <2>4. \E at : e = Later(d, at) /\ y = Later(x, at)
    <3> HIDE DEF x
    <3>1. CASE d.at = "string"
      <4> DEFINE at == IF c = Quote THEN "after" ELSE IF c = Escape THEN "escaped" ELSE "string"
      <4>1. x \in Decoders /\ x.at = "string"
        BY <2>3, <3>1
      <4>2. e = Later(d, at) /\ y = Later(x, at)
        BY <3>1, <4>1, ReadTable, Zenon
      <4>3. QED
        BY <4>2
    <3>2. CASE d.at = "escaped"
      <4> DEFINE at == IF c \in {Quote, Escape} THEN "string" ELSE "bad"
      <4>1. x \in Decoders /\ x.at = "escaped"
        BY <2>3, <3>2
      <4>2. e = Later(d, at) /\ y = Later(x, at)
        BY <3>2, <4>1, ReadTable, Zenon
      <4>3. QED
        BY <4>2
    <3>3. CASE d.at = "number" /\ c \in Digits
      <4>1. x \in Decoders /\ x.at = "number"
        BY <2>3, <3>3
      <4>2. e = Later(d, "number") /\ y = Later(x, "number")
        BY <3>3, <4>1, ReadTable, Zenon
      <4>3. QED
        BY <4>2
    <3>4. CASE d.at = "number" /\ c \notin Digits
      <4>1. CASE c = ","
        <5> DEFINE at == IF Last(d.open) = "{" THEN "key" ELSE "value"
        <5>1. e = Decoder(at, d.open, d.keys, d.word, d.key, d.from, Kept(d), d.pos + 1)
          BY <3>4, <4>1, ReadTable
        <5>2. at \in {"key", "value"}
          OBVIOUS
        <5> HIDE DEF at, e
        <5>3. e.at = at /\ e.open = d.open
          BY ONLY <5>1, DecoderFields
        <5>4. ~(Len(e.open) >= 2)
          BY <1>3, <5>3
        <5>5. Valuing(e)
          BY DEF e
        <5>6. QED
          BY <5>2, <5>3, <5>4, <5>5 DEF Valuing
      <4>2. CASE c = Closer[Last(d.open)]
        <5>1. e = Decoder(IF Len(d.open) = 1 THEN "end" ELSE "after", Front(d.open), Front(d.keys), d.word,
                          d.key, d.from, Kept(d), d.pos + 1)
          BY <3>4, <4>2, ReadTable
        <5>2. e = Decoder("end", Front(d.open), Front(d.keys), d.word, d.key, d.from, Kept(d), d.pos + 1)
          BY <2>2, <5>1
        <5> HIDE DEF e
        <5>3. e.at = "end"
          BY ONLY <5>2, DecoderFields
        <5>4. QED
          BY <1>1, <5>3 DEF Stands
      <4>3. CASE c # "," /\ c # Closer[Last(d.open)]
        <5>1. e = Later(d, "bad")
          BY <3>4, <4>3, ReadTable
        <5> HIDE DEF e
        <5>2. e.at = "bad"
          BY ONLY <5>1, DecoderFields DEF Later
        <5>3. QED
          BY <1>1, <5>2
      <4>4. QED
        BY <4>1, <4>2, <4>3
    <3>5. QED
      BY <2>1, <3>1, <3>2, <3>3, <3>4
  <2>5. PICK at : e = Later(d, at) /\ y = Later(x, at)
    BY <2>4
  <2> HIDE DEF e, x, y
  <2>6. e = Within(d, at, d.open, d.keys, d.word) /\ y = Within(x, at, d.open, Rebased(d.keys, K), d.word)
    BY <2>3, <2>5 DEF Later, Within
  <2>7. SameFrame(d, e) /\ y = Other(e, K, x.key, x.from, x.members, pos + 1)
    BY <2>3, <2>6, ReadAlike
  <2>8. QED
    BY <2>3, <2>7 DEF e, x, y
<1>4. QED
  BY <1>2, <1>3

\* With its first character the value begins, in whatever member.
LEMMA ReadFirst ==
  ASSUME NEW d \in Decoders, Outermost(d), d.at = "value", NEW c \in Chars, Read(d, c).at # "bad",
         NEW K \in KeySets, NEW key \in Words, NEW from \in Nat, NEW members \in Seq(Spans), NEW pos \in Nat
  PROVE  /\ Valuing(Read(d, c))
         /\ Read(d, c).key = d.key /\ Read(d, c).from = d.pos + 1 /\ Read(d, c).members = d.members
         /\ Read(d, c).pos = d.pos + 1 /\ Read(d, c).keys[1] = d.keys[1]
         /\ Read(Other(d, K, key, from, members, pos), c) = Other(Read(d, c), K, key, pos + 1, members, pos + 1)
<1> DEFINE e == Read(d, c)
           x == Other(d, K, key, from, members, pos)
           y == Read(x, c)
           more == Append(d.open, c)
           kin == Append(d.keys, {})
           Begun(b, at, open, keys) == Decoder(at, open, keys, b.word, b.key, b.pos + 1, b.members, b.pos + 1)
           Opens == IF c = "{" THEN "key or end" ELSE "value or end"
<1>1. /\ x \in Decoders
      /\ x.at = d.at /\ x.open = d.open /\ x.keys = Rebased(d.keys, K) /\ x.word = d.word
      /\ x.key = key /\ x.from = from /\ x.members = members /\ x.pos = pos
  BY OtherFacts
<1> SUFFICES /\ Valuing(e)
             /\ e.key = d.key /\ e.from = d.pos + 1 /\ e.members = d.members
             /\ e.pos = d.pos + 1 /\ e.keys[1] = d.keys[1]
             /\ y = Other(e, K, key, pos + 1, members, pos + 1)
  OBVIOUS
<1> HIDE DEF x
<1>2. Len(d.open) = 1 /\ Len(x.open) = 1
  BY <1>1 DEF Outermost
<1>3. ASSUME NEW at, NEW open, NEW keys,
             e = Begun(d, at, open, keys), y = Begun(x, at, open, Rebased(keys, K)), keys[1] = d.keys[1],
             Len(open) >= 2 \/ at \in {"string", "number"}
      PROVE  /\ Valuing(e)
             /\ e.key = d.key /\ e.from = d.pos + 1 /\ e.members = d.members
             /\ e.pos = d.pos + 1 /\ e.keys[1] = d.keys[1]
             /\ y = Other(e, K, key, pos + 1, members, pos + 1)
  <2> HIDE DEF e, y
  <2>1. /\ e.at = at /\ e.open = open /\ e.keys = keys /\ e.word = d.word
        /\ e.key = d.key /\ e.from = d.pos + 1 /\ e.members = d.members /\ e.pos = d.pos + 1
    BY ONLY <1>3, DecoderFields DEF Begun
  <2>2. y = Decoder(at, open, Rebased(keys, K), d.word, key, pos + 1, members, pos + 1)
    BY <1>1, <1>3
  <2>3. Other(e, K, key, pos + 1, members, pos + 1)
          = Decoder(at, open, Rebased(keys, K), d.word, key, pos + 1, members, pos + 1)
    BY <2>1 DEF Other
  <2>4. Valuing(e)
    BY <1>3, <2>1 DEF Valuing
  <2>5. QED
    BY <1>3, <2>1, <2>2, <2>3, <2>4
<1>4. CASE c = Quote
  <2>1. e = Begun(d, "string", d.open, d.keys)
    BY <1>2, <1>4, ReadTable
  <2>2. y = Begun(x, "string", x.open, x.keys)
    BY <1>1, <1>2, <1>4, ReadTable
  <2>3. y = Begun(x, "string", d.open, Rebased(d.keys, K))
    BY <1>1, <2>2
  <2> HIDE DEF e, y, Begun
  <2>4. QED
    BY <1>3, <2>1, <2>3
<1>5. CASE c \in Digits
  <2>1. e = Begun(d, "number", d.open, d.keys)
    BY <1>2, <1>5, ReadTable
  <2>2. y = Begun(x, "number", x.open, x.keys)
    <3>1. x.at \in {"value", "value or end"}
      BY <1>1
    <3>2. y = Decoder("number", x.open, x.keys, x.word, x.key, IF Len(x.open) = 1 THEN x.pos + 1 ELSE x.from,
                      x.members, x.pos + 1)
      BY <1>1, <1>5, <3>1, ReadTable, Zenon
    <3>3. QED
      BY <1>2, <3>2
  <2>3. y = Begun(x, "number", d.open, Rebased(d.keys, K))
    BY <1>1, <2>2
  <2> HIDE DEF e, y, Begun
  <2>4. QED
    BY <1>3, <2>1, <2>3
<1>6. CASE c \in {"{", "["}
  <2>1. /\ d.open \in Seq(Openers) /\ Len(d.open) \in Nat /\ Len(d.open) >= 1
        /\ d.keys \in Seq(KeySets) /\ Len(d.keys) = Len(d.open)
    BY DecoderType
  <2>2. e = Begun(d, Opens, more, kin)
    BY <1>2, <1>6, ReadTable
  <2>3. y = Begun(x, Opens, Append(x.open, c), Append(x.keys, {}))
    <3>1. x.at \in {"value", "value or end"}
      BY <1>1
    <3>2. y = Decoder(Opens, Append(x.open, c), Append(x.keys, {}), x.word, x.key,
                      IF Len(x.open) = 1 THEN x.pos + 1 ELSE x.from, x.members, x.pos + 1)
      BY <1>1, <1>6, <3>1, ReadTable, Zenon
    <3>3. QED
      BY <1>2, <3>2
  <2>4. Append(Rebased(d.keys, K), {}) = Rebased(kin, K) /\ kin[1] = d.keys[1]
    <3>1. Len(d.keys) >= 1 /\ {} \in KeySets
      BY <2>1 DEF KeySets
    <3>2. QED
      BY <2>1, <3>1, RebasedGrows
  <2> HIDE DEF kin
  <2>5. y = Begun(x, Opens, more, Rebased(kin, K))
    BY <1>1, <2>3, <2>4
  <2>6. Len(more) >= 2
    <3>1. Len(more) = Len(d.open) + 1
      BY <2>1
    <3> HIDE DEF more
    <3>2. QED
      BY <1>2, <3>1
  <2> HIDE DEF e, y, Begun, Opens, more
  <2>7. QED
    BY <1>3, <2>2, <2>4, <2>5, <2>6
<1>7. CASE c \notin {Quote, "{", "["} \cup Digits
  <2>1. e = Later(d, "bad")
    BY <1>7, ReadTable
  <2>2. e.at # "bad"
    OBVIOUS
  <2> HIDE DEF e
  <2>3. e.at = "bad"
    BY ONLY <2>1, DecoderFields DEF Later
  <2>4. QED
    BY <2>2, <2>3
<1>8. QED
  BY <1>4, <1>5, <1>6, <1>7

\* The value of a member is about to begin; it is complete, or could be.
Begins(d) == Outermost(d) /\ d.at = "value"

Finishes(d) == Outermost(d) /\ d.at \in {"after", "number"}

\* Where the decoder stands as it reads v as a value, one character after the other.
Trace(tr, v) ==
  /\ tr \in [0..Len(v) -> Decoders] /\ Begins(tr[0])
  /\ \A j \in 0..(Len(v) - 1) : tr[j + 1] = Read(tr[j], v[j + 1]) /\ Valuing(tr[j + 1])
  /\ \A j \in 1..(Len(v) - 1) : Going(tr[j])

\* A text that is the value of a member of an object.
ValidValue(v) == v \in Words /\ Len(v) >= 1 /\ \E tr : Trace(tr, v) /\ Finishes(tr[Len(v)])

\* Before a value all decoders are alike.
LEMMA SameBegin ==
  ASSUME NEW d \in Decoders, NEW b \in Decoders, Begins(d), Begins(b)
  PROVE  d = Other(b, d.keys[1], d.key, d.from, d.members, d.pos) /\ d.keys[1] \in KeySets
<1>1. /\ d.open \in Seq(Openers) /\ d.open[1] \in Braces /\ b.open \in Seq(Openers) /\ b.open[1] \in Braces
      /\ d.keys \in Seq(KeySets) /\ Len(d.keys) = Len(d.open) /\ b.keys \in Seq(KeySets) /\ Len(b.keys) = Len(b.open)
      /\ IsDecoder(d)
  BY DecoderType
<1>2. Len(d.open) = 1 /\ Len(b.open) = 1
  BY DEF Begins, Outermost
<1>3. d.word = <<>> /\ b.word = <<>>
  BY DecoderType DEF Begins
<1>4. d.open = b.open
  <2>1. d.open[1] = b.open[1]
    BY <1>1 DEF Braces
  <2>2. \A i \in 1..Len(d.open) : d.open[i] = b.open[i]
    BY <1>2, <2>1
  <2>3. QED
    BY <1>1, <1>2, <2>2, SeqEqual
<1>5. d.keys[1] \in KeySets
  <2>1. 1 \in 1..Len(d.keys)
    BY <1>1, <1>2
  <2>2. QED
    BY <1>1, <2>1, ElementOfSeq
<1>6. d.keys = Rebased(b.keys, d.keys[1])
  <2>1. Len(b.keys) = 1 /\ Len(d.keys) = 1
    BY <1>1, <1>2
  <2>2. \A i \in 2..Len(b.keys) : d.keys[i] = b.keys[i]
    BY <2>1
  <2>3. Len(b.keys) >= 1 /\ Len(b.keys) = Len(d.keys)
    BY <2>1
  <2>4. QED
    BY <1>1, <1>5, <2>2, <2>3, RebasedIs
<1>7. d = Decoder(d.at, d.open, d.keys, d.word, d.key, d.from, d.members, d.pos)
  BY <1>1 DEF IsDecoder
<1>8. d.at = b.at
  BY DEF Begins
<1>9. Other(b, d.keys[1], d.key, d.from, d.members, d.pos)
        = Decoder(b.at, b.open, Rebased(b.keys, d.keys[1]), b.word, d.key, d.from, d.members, d.pos)
  BY DEF Other
<1>10. QED
  BY <1>3, <1>4, <1>5, <1>6, <1>7, <1>8, <1>9

\* What is a value in one object is read as a value in every other.
LEMMA ReadValue ==
  ASSUME NEW s \in Seq(Chars), NEW v, ValidValue(v), NEW a \in Nat, a + Len(v) <= Len(s),
         \A j \in 1..Len(v) : s[a + j] = v[j],
         InObject(s, a), Begins(Reads(s)[a]), NEW x, x = Reads(s)[a + Len(v)]
  PROVE  /\ \A j \in 1..Len(v) : InObject(s, a + j)
         /\ x \in Decoders /\ Finishes(x)
         /\ x.key = Reads(s)[a].key /\ x.from = a + 1 /\ x.members = Reads(s)[a].members
         /\ x.keys[1] = Reads(s)[a].keys[1] /\ x.pos = a + Len(v)
<1> DEFINE d == Reads(s)[a]
           n == Len(v)
           K == d.keys[1]
<1>1. d \in Decoders /\ d.pos = a /\ Begins(d)
  BY DEF InObject
<1>2. PICK tr : Trace(tr, v) /\ Finishes(tr[n])
  BY DEF ValidValue
<1>3. n \in Nat /\ n >= 1 /\ v \in Seq(Chars)
  <2>1. v \in Seq(Chars) /\ n >= 1
    BY DEF ValidValue, Words
  <2>2. n \in Nat
    BY <2>1, LenProperties
  <2>3. QED
    BY <2>1, <2>2
<1>4. \A j \in 1..n : v[j] \in Chars
  BY <1>3, ElementOfSeq
<1>5. /\ \A j \in 0..n : tr[j] \in Decoders
      /\ Begins(tr[0])
      /\ \A j \in 0..(n - 1) : tr[j + 1] = Read(tr[j], v[j + 1]) /\ Valuing(tr[j + 1])
      /\ \A j \in 1..(n - 1) : Going(tr[j])
  BY <1>2 DEF Trace
<1>6. /\ K \in KeySets /\ d.key \in Words /\ d.from \in Nat /\ d.members \in Seq(Spans)
      /\ d = Other(tr[0], K, d.key, d.from, d.members, a)
  <2>1. tr[0] \in Decoders
    BY <1>3, <1>5
  <2>2. d.key \in Words /\ d.from \in Nat /\ d.members \in Seq(Spans)
    BY <1>1, DecoderType
  <2> HIDE DEF d
  <2>3. d = Other(tr[0], K, d.key, d.from, d.members, d.pos) /\ K \in KeySets
    BY <1>1, <1>5, <2>1, SameBegin
  <2>4. QED
    BY <1>1, <2>2, <2>3
<1>7. \A i \in 0..(Len(s) - 1) : Reads(s)[i + 1] = Read(Reads(s)[i], s[i + 1])
  BY ReadsStep
<1>8. Len(s) \in Nat
  BY LenProperties
<1> HIDE DEF d, n, K
<1> DEFINE At(j) == Other(tr[j], K, d.key, a + 1, d.members, a + j)
           W == {j \in 0..n : j = 0 \/ Reads(s)[a + j] = At(j)}
<1>9. Reads(s)[a + 1] = At(1)
  <2>1. a + 1 \in Nat /\ a \in 0..(Len(s) - 1) /\ 1 \in 1..n /\ 0 \in 0..n /\ 0 \in 0..(n - 1) /\
        0 + 1 = 1 /\ 1 \in 0..n
    BY <1>3, <1>8 DEF n
  <2>2. s[a + 1] = v[1] /\ v[1] \in Chars
    BY <1>4, <2>1 DEF n
  <2>3. Reads(s)[a + 1] = Read(d, v[1])
    BY <1>7, <2>1, <2>2 DEF d
  <2> DEFINE t == tr[0]
             e == Read(t, v[1])
  <2>4. t \in Decoders /\ Begins(t)
    BY <1>5, <2>1
  <2>5. tr[1] = e
    BY <1>5, <2>1
  <2>6. e.at # "bad"
    <3>1. e \in Decoders
      BY <1>5, <2>1, <2>5
    <3>2. e.at \in Stands
      BY <3>1, DecoderType
    <3>3. QED
      BY <3>2 DEF Stands
  <2> HIDE DEF t
  <2>7. Read(Other(t, K, d.key, d.from, d.members, a), v[1]) = Other(e, K, d.key, a + 1, d.members, a + 1)
    BY <1>6, <2>2, <2>4, <2>6, ReadFirst DEF Begins
  <2> HIDE DEF e
  <2>8. QED
    BY <1>6, <2>3, <2>5, <2>7 DEF t
<1>10. \A j \in 0..(n - 1) : j \in W => j + 1 \in W
  <2> SUFFICES ASSUME NEW j \in 0..(n - 1), j \in W PROVE j + 1 \in W
    OBVIOUS
  <2>1. j + 1 \in 0..n
    BY <1>3
  <2>2. CASE j = 0
    BY <1>3, <1>9, <2>1, <2>2
  <2>3. CASE j # 0
    <3> DEFINE k == j + 1
               i == a + j
               t == tr[j]
               e == Read(t, v[k])
    <3>1. /\ j \in 1..(n - 1) /\ j \in 0..n /\ k \in 1..n /\ k \in 0..n /\ i \in Nat /\ i \in 0..(Len(s) - 1)
          /\ a + k = i + 1 /\ a + 1 \in Nat
      BY <1>3, <1>8, <2>3 DEF n
    <3>2. Reads(s)[i] = At(j)
      BY <2>3
    <3>3. s[i + 1] = v[k] /\ v[k] \in Chars
      BY <1>4, <3>1 DEF n
    <3>4. t \in Decoders /\ Going(t) /\ tr[k] = e /\ Valuing(tr[k]) /\ tr[k] \in Decoders
      BY <1>5, <3>1
    <3>5. Reads(s)[i + 1] = Read(Reads(s)[i], v[k])
      BY <1>7, <3>1, <3>3
    <3> HIDE DEF k, i, t
    <3>6. Read(Other(t, K, d.key, a + 1, d.members, i), v[k]) = Other(e, K, d.key, a + 1, d.members, i + 1)
      <4> DEFINE f == a + 1
                 c == v[k]
                 y == Read(t, c)
                 L == K
                 key == d.key
                 members == d.members
      <4>1. f \in Nat /\ i \in Nat /\ c \in Chars
        BY <3>1, <3>3
      <4>2. t \in Decoders /\ Going(t) /\ y \in Decoders /\ Valuing(y)
        BY <3>4
      <4>3. L \in KeySets /\ key \in Words /\ members \in Seq(Spans)
        BY <1>6
      <4> HIDE DEF f, c, L, key, members
      <4>4. Read(Other(t, L, key, f, members, i), c) = Other(y, L, key, f, members, i + 1)
        BY ONLY <4>1, <4>2, <4>3, ReadGoing
      <4>5. QED
        BY <4>4 DEF f, c, L, key, members
    <3> HIDE DEF e
    <3>7. Reads(s)[i] = Other(t, K, d.key, a + 1, d.members, i)
      BY <3>2 DEF i, t
    <3>8. Reads(s)[a + k] = Other(tr[k], K, d.key, a + 1, d.members, a + k)
      BY <3>1, <3>4, <3>5, <3>6, <3>7
    <3>9. QED
      BY <2>1, <3>8 DEF k
  <2>4. QED
    BY <2>2, <2>3
<1>11. \A j \in 1..n : Reads(s)[a + j] = At(j)
  <2>1. 0 \in W
    BY <1>3
  <2> HIDE DEF W
  <2>2. \A j \in 0..n : j \in W
    BY <1>3, <1>10, <2>1, Induction
  <2>3. \A j \in 1..n : j \in 0..n /\ j # 0
    BY <1>3
  <2> HIDE DEF At
  <2>4. QED
    BY <2>2, <2>3 DEF W
<1>12. ASSUME NEW j \in 1..n
       PROVE  /\ Reads(s)[a + j] \in Decoders
              /\ Reads(s)[a + j].at = tr[j].at /\ Reads(s)[a + j].open = tr[j].open
              /\ Reads(s)[a + j].keys = Rebased(tr[j].keys, K)
              /\ Reads(s)[a + j].key = d.key /\ Reads(s)[a + j].from = a + 1
              /\ Reads(s)[a + j].members = d.members /\ Reads(s)[a + j].pos = a + j
  <2>1. tr[j] \in Decoders /\ a + j \in Nat /\ a + 1 \in Nat
    BY <1>3, <1>5
  <2> DEFINE r == Reads(s)[a + j]
             t == tr[j]
             p == a + j
             f == a + 1
  <2>2. r = Other(t, K, d.key, f, d.members, p)
    BY <1>11
  <2> HIDE DEF r, t, p, f
  <2>3. t \in Decoders /\ p \in Nat /\ f \in Nat
    BY <2>1 DEF t, p, f
  <2>4. /\ r \in Decoders
        /\ r.at = t.at /\ r.open = t.open /\ r.keys = Rebased(t.keys, K) /\ r.word = t.word
        /\ r.key = d.key /\ r.from = f /\ r.members = d.members /\ r.pos = p
    BY <1>6, <2>2, <2>3, OtherFacts
  <2>5. QED
    BY <2>4 DEF r, t, p, f
<1>13. \A j \in 1..n : InObject(s, a + j)
  BY <1>12 DEF InObject
<1>14. n \in 1..n /\ n \in 0..n
  BY <1>3
<1>15. /\ x \in Decoders /\ x.at = tr[n].at /\ x.open = tr[n].open /\ x.keys = Rebased(tr[n].keys, K)
       /\ x.key = d.key /\ x.from = a + 1 /\ x.members = d.members /\ x.pos = a + n
  BY <1>12, <1>14 DEF n
<1>16. x.keys[1] = K
  <2> DEFINE t == tr[n]
  <2>1. t \in Decoders
    BY <1>5, <1>14
  <2> HIDE DEF t
  <2>2. t.keys \in Seq(KeySets) /\ Len(t.keys) >= 1
    BY <2>1, DecoderType
  <2>3. Rebased(t.keys, K)[1] = K
    BY <1>6, <2>2, RebasedFacts
  <2>4. QED
    BY <1>15, <2>3 DEF t
<1>17. Finishes(x)
  BY <1>2, <1>15 DEF Finishes, Outermost
<1>18. QED
  BY <1>13, <1>15, <1>16, <1>17 DEF n, d, K

\* A character of a key, out of an escape and in one.
Plain(c) == c # Quote

Escapes(c) == c = Escape

Escapable(c) == c \in {Quote, Escape}

\* E are the places of w that come after a backslash which escapes what follows.
Spelling(w, E) ==
  /\ E \in SUBSET (1..Len(w))
  /\ \A j \in 0..(Len(w) - 1) :
       /\ j \in E => Escapable(w[j + 1]) /\ j + 1 \notin E
       /\ j \notin E => Plain(w[j + 1]) /\ (j + 1 \in E <=> Escapes(w[j + 1]))

\* A text that may stand between the quotes of a key.
ValidKey(w) == w \in Words /\ \E E : Spelling(w, E) /\ Len(w) \notin E

\* A decoder in a key, with the part of it that was read.
InKey(d, at, word, pos) == Decoder(at, d.open, d.keys, word, d.key, d.from, d.members, pos)

KeyAts == {"in key", "key escaped"}

SpellsKey(d) == d.at = "in key"

KeyBegins(d) == SpellsKey(d) /\ d.word = <<>>

\* A decoder in a key, part by part.
LEMMA InKeyFacts ==
  ASSUME NEW d \in Decoders, SpellsKey(d), NEW at \in KeyAts, NEW word \in Words, NEW pos \in Nat,
         NEW r, r = InKey(d, at, word, pos)
  PROVE  /\ r \in Decoders
         /\ r.at = at /\ r.open = d.open /\ r.keys = d.keys /\ r.word = word
         /\ r.key = d.key /\ r.from = d.from /\ r.members = d.members /\ r.pos = pos
<1>1. /\ d.open \in Seq(Openers) /\ Len(d.open) \in Nat /\ Len(d.open) >= 1 /\ d.open[1] \in Braces
      /\ d.keys \in Seq(KeySets) /\ Len(d.keys) = Len(d.open)
      /\ d.key \in Words /\ d.from \in Nat /\ d.members \in Seq(Spans)
      /\ Last(d.open) = "{"
  BY DecoderType DEF SpellsKey
<1>2. at \in Stands /\ at \in {"in key", "key escaped"} /\ at # "value or end"
  BY DEF Stands, KeyAts
<1>3. r \in Decoders
  BY <1>1, <1>2, MakeDecoder DEF InKey
<1>4. /\ r.at = at /\ r.open = d.open /\ r.keys = d.keys /\ r.word = word
      /\ r.key = d.key /\ r.from = d.from /\ r.members = d.members /\ r.pos = pos
  <2>1. r = Decoder(at, d.open, d.keys, word, d.key, d.from, d.members, pos)
    BY DEF InKey
  <2>2. QED
    BY ONLY <2>1, DecoderFields
<1>5. QED
  BY <1>3, <1>4

\* One more character of a key.
LEMMA KeyStep ==
  ASSUME NEW d \in Decoders, SpellsKey(d), NEW at \in KeyAts, NEW word \in Words, NEW pos \in Nat,
         NEW c \in Chars
  PROVE  /\ at = "in key" /\ Plain(c) /\ Escapes(c) =>
              Read(InKey(d, at, word, pos), c) = InKey(d, "key escaped", Append(word, c), pos + 1)
         /\ at = "in key" /\ Plain(c) /\ ~Escapes(c) =>
              Read(InKey(d, at, word, pos), c) = InKey(d, "in key", Append(word, c), pos + 1)
         /\ at = "key escaped" /\ Escapable(c) =>
              Read(InKey(d, at, word, pos), c) = InKey(d, "in key", Append(word, c), pos + 1)
<1> DEFINE r == InKey(d, at, word, pos)
<1>1. /\ r \in Decoders
      /\ r.at = at /\ r.open = d.open /\ r.keys = d.keys /\ r.word = word
      /\ r.key = d.key /\ r.from = d.from /\ r.members = d.members /\ r.pos = pos
  BY InKeyFacts
<1> HIDE DEF r
<1>2. ASSUME at = "in key", Plain(c)
      PROVE  Read(r, c) = InKey(d, IF Escapes(c) THEN "key escaped" ELSE "in key", Append(word, c), pos + 1)
  <2>1. r.at = "in key" /\ c # Quote
    BY <1>1, <1>2 DEF Plain
  <2>2. Read(r, c) = Decoder(IF c = Escape THEN "key escaped" ELSE "in key", r.open, r.keys, Append(r.word, c), r.key,
                             r.from, r.members, r.pos + 1)
    BY <1>1, <2>1, ReadTable, Zenon
  <2>3. QED
    BY <1>1, <2>2 DEF InKey, Escapes
<1>3. ASSUME at = "key escaped", Escapable(c)
      PROVE  Read(r, c) = InKey(d, "in key", Append(word, c), pos + 1)
  <2>1. r.at = "key escaped" /\ c \in {Quote, Escape}
    BY <1>1, <1>3 DEF Escapable
  <2>2. Read(r, c) = Decoder(IF c \in {Quote, Escape} THEN "in key" ELSE "bad", r.open, r.keys,
        Append(r.word, c), r.key,
                             r.from, r.members, r.pos + 1)
    BY <1>1, <2>1, ReadTable, Zenon
  <2>3. Read(r, c) = Decoder("in key", r.open, r.keys, Append(r.word, c), r.key, r.from, r.members, r.pos + 1)
    BY <2>1, <2>2
  <2>4. QED
    BY <1>1, <2>3 DEF InKey
<1>4. QED
  BY <1>2, <1>3 DEF r

\* What is a key in one object is read as one in every other.
LEMMA ReadKey ==
  ASSUME NEW s \in Seq(Chars), NEW k, ValidKey(k), NEW a \in Nat, a + Len(k) <= Len(s),
         \A j \in 1..Len(k) : s[a + j] = k[j],
         InObject(s, a), KeyBegins(Reads(s)[a])
  PROVE  /\ \A j \in 0..Len(k) : InObject(s, a + j)
         /\ Reads(s)[a + Len(k)] = InKey(Reads(s)[a], "in key", k, a + Len(k))
<1> DEFINE d == Reads(s)[a]
           n == Len(k)
           Pre(j) == SubSeq(k, 1, j)
<1>1. d \in Decoders /\ d.pos = a /\ SpellsKey(d)
  BY DEF InObject, KeyBegins
<1>2. PICK E : Spelling(k, E) /\ n \notin E
  BY DEF ValidKey
<1>3. n \in Nat /\ k \in Seq(Chars) /\ k \in Words
  <2>1. k \in Seq(Chars) /\ k \in Words
    BY DEF ValidKey, Words
  <2>2. n \in Nat
    BY <2>1, LenProperties
  <2>3. QED
    BY <2>1, <2>2
<1>4. \A j \in 1..n : k[j] \in Chars
  BY <1>3, ElementOfSeq
<1>5. /\ 0 \notin E
      /\ \A j \in 0..(n - 1) :
           /\ j \in E => Escapable(k[j + 1]) /\ j + 1 \notin E
           /\ j \notin E => Plain(k[j + 1]) /\ (j + 1 \in E <=> Escapes(k[j + 1]))
  <2>1. 0 \notin 1..n
    BY <1>3
  <2>2. QED
    BY <1>2, <2>1, Zenon DEF Spelling
<1>6. \A i \in 0..(Len(s) - 1) : Reads(s)[i + 1] = Read(Reads(s)[i], s[i + 1])
  BY ReadsStep
<1>7. Len(s) \in Nat
  BY LenProperties
<1>8. \A j \in 0..(n - 1) : Pre(j + 1) = Append(Pre(j), k[j + 1]) /\ Pre(j) \in Words
  BY <1>3, PrefixGrows DEF Words
<1>9. Pre(0) = <<>> /\ Pre(n) = k
  BY <1>3, SubSeqEmpty, SubSeqFull
<1>10. d = InKey(d, "in key", <<>>, a)
  <2>1. IsDecoder(d) /\ d.at = "in key" /\ d.word = <<>>
    BY <1>1, DecoderType DEF KeyBegins, SpellsKey
  <2> HIDE DEF d
  <2>2. QED
    BY <1>1, <2>1 DEF IsDecoder, InKey
<1>11. /\ a + n <= Len(s)
       /\ \A j \in 1..n : s[a + j] = k[j]
  OBVIOUS
<1> HIDE DEF d, n, Pre
<1>12. ASSUME NEW j \in 0..(n - 1)
       PROVE  /\ j + 1 \in 0..n /\ j + 1 \in 1..n /\ a + j \in Nat /\ a + j \in 0..(Len(s) - 1)
              /\ a + (j + 1) = (a + j) + 1
  BY <1>3, <1>7, <1>11
<1> DEFINE At(j) == IF j \in E THEN "key escaped" ELSE "in key"
           W == {j \in 0..n : Reads(s)[a + j] = InKey(d, At(j), Pre(j), a + j)}
<1>13. 0 \in W
  <2>1. 0 \in 0..n /\ a + 0 = a
    BY <1>3
  <2>2. At(0) = "in key"
    BY <1>5
  <2> HIDE DEF At
  <2>3. Reads(s)[a + 0] = InKey(d, At(0), Pre(0), a + 0)
    BY <1>9, <1>10, <2>1, <2>2 DEF d
  <2>4. QED
    BY <2>1, <2>3
<1>14. \A j \in 0..(n - 1) : j \in W => j + 1 \in W
  <2> SUFFICES ASSUME NEW j \in 0..(n - 1), j \in W PROVE j + 1 \in W
    OBVIOUS
  <2> DEFINE m == j + 1
             i == a + j
             c == k[m]
             w == Pre(j)
  <2>1. m \in 0..n /\ m \in 1..n /\ i \in Nat /\ i \in 0..(Len(s) - 1) /\ a + m = i + 1
    BY <1>12
  <2>2. Reads(s)[i] = InKey(d, At(j), w, i) /\ w \in Words
    BY <1>8
  <2>3. s[i + 1] = c /\ c \in Chars
    <3>1. s[a + m] = k[m] /\ k[m] \in Chars
      <4> HIDE DEF m
      <4>1. QED
        BY <1>4, <1>11, <2>1
    <3>2. QED
      BY <2>1, <3>1
  <2>4. Reads(s)[i + 1] = Read(Reads(s)[i], c)
    BY <1>6, <2>1, <2>3
  <2>5. Pre(m) = Append(w, c)
    BY <1>8
  <2>6. /\ j \in E => Escapable(c) /\ m \notin E
        /\ j \notin E => Plain(c) /\ (m \in E <=> Escapes(c))
    BY <1>5
  <2>7. At(j) \in KeyAts /\ (j \in E => At(j) = "key escaped") /\ (j \notin E => At(j) = "in key")
        /\ (m \in E => At(m) = "key escaped") /\ (m \notin E => At(m) = "in key")
    BY DEF KeyAts
  <2> HIDE DEF At, m, i, c, w
  <2>8. Read(InKey(d, At(j), w, i), c) = InKey(d, At(m), Append(w, c), i + 1)
    <3>1. /\ At(j) = "in key" /\ Plain(c) /\ Escapes(c) =>
               Read(InKey(d, At(j), w, i), c) = InKey(d, "key escaped", Append(w, c), i + 1)
          /\ At(j) = "in key" /\ Plain(c) /\ ~Escapes(c) =>
               Read(InKey(d, At(j), w, i), c) = InKey(d, "in key", Append(w, c), i + 1)
          /\ At(j) = "key escaped" /\ Escapable(c) =>
               Read(InKey(d, At(j), w, i), c) = InKey(d, "in key", Append(w, c), i + 1)
      BY <1>1, <2>1, <2>2, <2>3, <2>7, KeyStep
    <3>2. QED
      BY <2>6, <2>7, <3>1, Zenon
  <2>9. Reads(s)[a + m] = InKey(d, At(m), Pre(m), a + m)
    BY <2>1, <2>2, <2>4, <2>5, <2>8
  <2>10. QED
    BY <2>1, <2>9 DEF m
<1>15. \A j \in 0..n : Reads(s)[a + j] = InKey(d, At(j), Pre(j), a + j)
  <2> HIDE DEF W
  <2>1. \A j \in 0..n : j \in W
    BY <1>3, <1>13, <1>14, Induction
  <2> HIDE DEF At
  <2>2. QED
    BY <2>1 DEF W
<1>16. ASSUME NEW j \in 0..n PROVE InObject(s, a + j)
  <2> DEFINE r == Reads(s)[a + j]
             i == a + j
             at == At(j)
             w == Pre(j)
  <2>1. r = InKey(d, at, w, i)
    BY <1>15
  <2>2. i \in Nat
    BY <1>3
  <2>3. at \in KeyAts
    BY DEF KeyAts
  <2>4. w \in Words
    <3>1. j = n \/ j \in 0..(n - 1)
      BY <1>3
    <3>2. QED
      BY <1>3, <1>8, <1>9, <3>1
  <2> HIDE DEF r, i, at, w
  <2>5. r \in Decoders /\ r.pos = i
    BY <1>1, <2>1, <2>2, <2>3, <2>4, InKeyFacts
  <2>6. QED
    BY <2>5 DEF InObject, r, i
<1>17. n \in 0..n /\ At(n) = "in key"
  BY <1>2, <1>3
<1> HIDE DEF At
<1>18. Reads(s)[a + n] = InKey(d, "in key", k, a + n)
  BY <1>9, <1>15, <1>17
<1>19. QED
  BY <1>16, <1>18 DEF n, d

\* A decoder that neither failed nor ended is in the object.
LEMMA StillInObject ==
  ASSUME NEW d \in Decoders, NEW c \in Chars, Read(d, c).at \in Stands
  PROVE  Read(d, c) \in Decoders /\ Read(d, c).pos = d.pos + 1 /\ ~Ends(d, c)
<1> DEFINE e == Read(d, c)
           members == IF d.at = "key or end" THEN d.members ELSE Kept(d)
<1>1. CASE e.at = "bad"
  BY <1>1 DEF Stands
<1>2. CASE e = Decoder("end", <<>>, <<>>, <<>>, d.key, d.from, members, d.pos + 1)
  <2> SUFFICES e.at = "end"
    BY DEF Stands
  <2> HIDE DEF e, members
  <2>1. QED
    BY ONLY <1>2, DecoderFields
<1>3. CASE ~Ends(d, c) /\ e \in Decoders /\ e.pos = d.pos + 1
  BY <1>3
<1>4. QED
  BY <1>1, <1>2, <1>3, ReadType

\* What changes when the decoder only goes on.
LEMMA LaterFacts ==
  ASSUME NEW d, NEW at, NEW e, e = Later(d, at)
  PROVE  /\ e.at = at /\ e.open = d.open /\ e.keys = d.keys /\ e.word = d.word /\ e.key = d.key
         /\ e.from = d.from /\ e.members = d.members /\ e.pos = d.pos + 1
<1> DEFINE pos == d.pos + 1
<1>1. e = Decoder(at, d.open, d.keys, d.word, d.key, d.from, d.members, pos)
  BY DEF Later
<1> HIDE DEF pos
<1>2. /\ e.at = at /\ e.open = d.open /\ e.keys = d.keys /\ e.word = d.word /\ e.key = d.key
      /\ e.from = d.from /\ e.members = d.members /\ e.pos = pos
  BY ONLY <1>1, DecoderFields
<1>3. QED
  BY <1>2 DEF pos

\* A key of the outermost object may begin.
KeyFits(d) == Outermost(d) /\ d.at \in {"key", "key or end"}

\* A quote begins the key.
LEMMA KeyOpens ==
  ASSUME NEW d \in Decoders, KeyFits(d), NEW e, e = Read(d, Quote)
  PROVE  /\ e \in Decoders /\ KeyBegins(e) /\ Outermost(e) /\ e.pos = d.pos + 1
         /\ e.open = d.open /\ e.keys = d.keys /\ e.members = d.members
<1>1. Quote \in Chars
  BY DEF Chars
<1>2. e = Later(d, "in key")
  <2> DEFINE c == Quote
  <2>1. d.at \in {"key", "key or end"} /\ c = Quote /\ c \in Chars
    BY <1>1 DEF KeyFits
  <2>2. e = Read(d, c)
    OBVIOUS
  <2> HIDE DEF c
  <2>3. QED
    BY <2>1, <2>2, ReadTable, Zenon
<1>3. e.at = "in key" /\ e.open = d.open /\ e.keys = d.keys /\ e.word = d.word /\ e.members = d.members
  <2> DEFINE at == "in key"
  <2>1. e = Later(d, at)
    BY <1>2
  <2> HIDE DEF at
  <2>2. e.at = at /\ e.open = d.open /\ e.keys = d.keys /\ e.word = d.word /\ e.members = d.members
    BY ONLY <2>1, LaterFacts
  <2>3. QED
    BY <2>2 DEF at
<1>4. e.at \in Stands
  BY <1>3 DEF Stands
<1>5. e \in Decoders /\ e.pos = d.pos + 1
  BY <1>1, <1>4, StillInObject
<1>6. d.word = <<>>
  BY DecoderType DEF KeyFits
<1>7. QED
  BY <1>3, <1>5, <1>6 DEF KeyBegins, SpellsKey, Outermost, KeyFits

\* The key ends, and is not one that the object has already.
Colons(d) == d.at = "colon"

\* A quote ends the key when it is not one that the object has already.
LEMMA KeyCloses ==
  ASSUME NEW d \in Decoders, SpellsKey(d), Outermost(d), d.word \notin d.keys[1], NEW e, e = Read(d, Quote)
  PROVE  /\ e \in Decoders /\ Colons(e) /\ Outermost(e) /\ e.pos = d.pos + 1
         /\ e.key = d.word /\ e.keys[1] = d.keys[1] \cup {d.word} /\ e.members = d.members
<1>1. Quote \in Chars
  BY DEF Chars
<1>2. Len(d.open) = 1 /\ d.keys \in Seq(KeySets) /\ Len(d.keys) = 1
  <2>1. d.keys \in Seq(KeySets) /\ Len(d.keys) = Len(d.open)
    BY DecoderType
  <2>2. QED
    BY <2>1 DEF Outermost
<1>3. Last(d.keys) = d.keys[1] /\ Front(d.keys) = <<>>
  <2>1. Front(d.keys) = SubSeq(d.keys, 1, 0)
    BY <1>2 DEF Front
  <2>2. QED
    BY <1>2, <2>1, SubSeqEmpty DEF Last
<1> DEFINE more == d.keys[1] \cup {d.word}
           keys == Append(<<>>, more)
<1>4. e = Decoder("colon", d.open, keys, <<>>, d.word, d.from, d.members, d.pos + 1)
  <2>1. e = Decoder(IF d.word \in Last(d.keys) THEN "bad" ELSE "colon", d.open,
                    Append(Front(d.keys), Last(d.keys) \cup {d.word}), <<>>,
                    IF Len(d.open) = 1 THEN d.word ELSE d.key, d.from, d.members, d.pos + 1)
    BY <1>1, ReadTable DEF SpellsKey
  <2>2. QED
    BY <1>2, <1>3, <2>1
<1>5. keys[1] = more
  <2> HIDE DEF more
  <2>1. QED
    OBVIOUS
<1> HIDE DEF keys, more
<1>6. e.at = "colon" /\ e.open = d.open /\ e.keys = keys /\ e.key = d.word /\ e.members = d.members
  <2> DEFINE at == "colon"
             pos == d.pos + 1
             word == d.word
  <2>1. e = Decoder(at, d.open, keys, <<>>, word, d.from, d.members, pos)
    BY <1>4
  <2> HIDE DEF at, pos, word
  <2>2. e.at = at /\ e.open = d.open /\ e.keys = keys /\ e.key = word /\ e.members = d.members
    BY ONLY <2>1, DecoderFields
  <2>3. QED
    BY <2>2 DEF at, word
<1>7. e.at \in Stands
  BY <1>6 DEF Stands
<1>8. e \in Decoders /\ e.pos = d.pos + 1
  BY <1>1, <1>7, StillInObject
<1>9. QED
  BY <1>5, <1>6, <1>8 DEF Colons, Outermost, more

\* After the colon comes the value.
LEMMA ColonRead ==
  ASSUME NEW d \in Decoders, Colons(d), Outermost(d), NEW e, e = Read(d, ":")
  PROVE  /\ e \in Decoders /\ Begins(e) /\ e.pos = d.pos + 1
         /\ e.key = d.key /\ e.keys = d.keys /\ e.members = d.members
<1>1. ":" \in Chars
  BY DEF Chars
<1>2. e = Later(d, "value")
  BY <1>1, ReadTable DEF Colons
<1>3. e.at = "value" /\ e.open = d.open /\ e.keys = d.keys /\ e.key = d.key /\ e.members = d.members
  <2> DEFINE at == "value"
  <2>1. e = Later(d, at)
    BY <1>2
  <2> HIDE DEF at
  <2>2. e.at = at /\ e.open = d.open /\ e.keys = d.keys /\ e.key = d.key /\ e.members = d.members
    BY ONLY <2>1, LaterFacts
  <2>3. QED
    BY <2>2 DEF at
<1>4. e.at \in Stands
  BY <1>3 DEF Stands
<1>5. e \in Decoders /\ e.pos = d.pos + 1
  BY <1>1, <1>4, StillInObject
<1>6. QED
  BY <1>3, <1>5 DEF Begins, Outermost

\* The characters of a member stand in s from p on, its value from after r on.
MemberAt(s, p, q, r, k, v) ==
  /\ q = p + Len(k) /\ r = q + 2 /\ r + Len(v) <= Len(s)
  /\ s[p] = Quote /\ s[q + 1] = Quote /\ s[r] = ":"
  /\ \A j \in 1..Len(k) : s[p + j] = k[j]
  /\ \A j \in 1..Len(v) : s[r + j] = v[j]

\* A member is read as what it is, whatever stands before and after it.
LEMMA ReadMember ==
  ASSUME NEW s \in Seq(Chars), NEW k, ValidKey(k), NEW v, ValidValue(v),
         NEW a \in Nat, NEW q \in Nat, NEW r \in Nat, MemberAt(s, a + 1, q, r, k, v),
         InObject(s, a), KeyFits(Reads(s)[a]), k \notin Reads(s)[a].keys[1],
         NEW x, x = Reads(s)[r + Len(v)]
  PROVE  /\ \A i \in a..(r + Len(v)) : InObject(s, i)
         /\ x \in Decoders /\ Finishes(x) /\ x.pos = r + Len(v)
         /\ x.key = k /\ x.from = r + 1 /\ x.members = Reads(s)[a].members
         /\ x.keys[1] = Reads(s)[a].keys[1] \cup {k}
<1> DEFINE R == Reads(s)
           p == a + 1
           n == Len(v)
           m == Len(k)
           d == R[a]
<1>1. p \in Nat /\ n \in Nat /\ m \in Nat /\ k \in Words
  <2>1. v \in Seq(Chars) /\ k \in Seq(Chars)
    BY DEF ValidValue, ValidKey, Words
  <2>2. n \in Nat /\ m \in Nat
    BY <2>1, LenProperties
  <2>3. QED
    BY <2>1, <2>2 DEF Words
<1>2. /\ q = p + m /\ r = q + 2 /\ r + n <= Len(s)
      /\ s[p] = Quote /\ s[q + 1] = Quote /\ s[r] = ":"
      /\ \A j \in 1..m : s[p + j] = k[j]
      /\ \A j \in 1..n : s[r + j] = v[j]
  BY DEF MemberAt
<1>3. Len(s) \in Nat
  BY LenProperties
<1>4. \A i \in 0..(Len(s) - 1) : R[i + 1] = Read(R[i], s[i + 1])
  BY ReadsStep
<1> HIDE DEF p, n, m, R, d
<1>5. q = p + m /\ r = q + 2 /\ r + n <= Len(s)
  BY <1>2
<1>6. /\ a \in 0..(Len(s) - 1) /\ q \in 0..(Len(s) - 1) /\ q + 1 \in 0..(Len(s) - 1) /\ p + m <= Len(s)
      /\ (q + 1) + 1 = r /\ q + 1 \in Nat
  BY <1>1, <1>3, <1>5 DEF p
<1>7. /\ R[p] \in Decoders /\ R[p].pos = p /\ KeyBegins(R[p]) /\ Outermost(R[p])
      /\ R[p].keys = d.keys /\ R[p].members = d.members
  <2>1. d \in Decoders /\ d.pos = a /\ KeyFits(d)
    BY DEF InObject, R, d
  <2>2. R[p] = Read(d, Quote)
    BY <1>2, <1>4, <1>6 DEF d, p
  <2>3. QED
    BY <2>1, <2>2, KeyOpens DEF p
<1>8. /\ \A j \in 0..m : InObject(s, p + j)
      /\ R[q] = InKey(R[p], "in key", k, q)
  <2>1. InObject(s, p) /\ KeyBegins(Reads(s)[p])
    BY <1>7 DEF InObject, R
  <2>2. p + Len(k) <= Len(s) /\ \A j \in 1..Len(k) : s[p + j] = k[j]
    BY <1>2, <1>6 DEF m
  <2>3. /\ \A j \in 0..Len(k) : InObject(s, p + j)
        /\ Reads(s)[p + Len(k)] = InKey(Reads(s)[p], "in key", k, p + Len(k))
    BY <1>1, <2>1, <2>2, ReadKey
  <2>4. QED
    BY <1>5, <2>3 DEF m, R
<1>9. /\ R[q] \in Decoders /\ SpellsKey(R[q]) /\ Outermost(R[q]) /\ R[q].word = k
      /\ R[q].keys = d.keys /\ R[q].members = d.members /\ R[q].pos = q
  <2>1. SpellsKey(R[p]) /\ "in key" \in KeyAts
    BY <1>7 DEF KeyBegins, KeyAts
  <2>2. /\ R[q] \in Decoders
        /\ R[q].at = "in key" /\ R[q].open = R[p].open /\ R[q].keys = R[p].keys /\ R[q].word = k
        /\ R[q].members = R[p].members /\ R[q].pos = q
    <3> DEFINE b == R[p]
               e == R[q]
               at == "in key"
    <3>1. b \in Decoders /\ SpellsKey(b) /\ at \in KeyAts /\ k \in Words /\ q \in Nat /\ e = InKey(b, at, k, q)
      BY <1>1, <1>7, <1>8, <2>1
    <3> HIDE DEF b, e, at
    <3>2. /\ e \in Decoders
          /\ e.at = at /\ e.open = b.open /\ e.keys = b.keys /\ e.word = k
          /\ e.members = b.members /\ e.pos = q
      BY ONLY <3>1, InKeyFacts
    <3>3. QED
      BY <3>2 DEF b, e, at
  <2>3. QED
    BY <1>7, <2>2 DEF SpellsKey, Outermost
<1>10. /\ R[q + 1] \in Decoders /\ Colons(R[q + 1]) /\ Outermost(R[q + 1]) /\ R[q + 1].pos = q + 1
       /\ R[q + 1].key = k /\ R[q + 1].keys[1] = d.keys[1] \cup {k} /\ R[q + 1].members = d.members
  <2> DEFINE e == R[q + 1]
  <2>1. e = Read(R[q], Quote)
    BY <1>2, <1>4, <1>6
  <2>2. R[q].word \notin R[q].keys[1]
    BY <1>9 DEF d, R
  <2> HIDE DEF e
  <2>3. /\ e \in Decoders /\ Colons(e) /\ Outermost(e) /\ e.pos = R[q].pos + 1
        /\ e.key = R[q].word /\ e.keys[1] = R[q].keys[1] \cup {R[q].word} /\ e.members = R[q].members
    BY <1>9, <2>1, <2>2, KeyCloses
  <2>4. QED
    BY <1>9, <2>3 DEF e
<1>11. /\ R[r] \in Decoders /\ Begins(R[r]) /\ R[r].pos = r
       /\ R[r].key = k /\ R[r].keys[1] = d.keys[1] \cup {k} /\ R[r].members = d.members
  <2> DEFINE e == R[q + 1]
  <2>1. R[r] = Read(e, ":")
    <3>1. R[(q + 1) + 1] = Read(R[q + 1], s[(q + 1) + 1])
      BY <1>4, <1>6
    <3>2. QED
      BY <1>2, <1>6, <3>1
  <2>2. /\ e \in Decoders /\ Colons(e) /\ Outermost(e) /\ e.pos + 1 = r
        /\ e.key = k /\ e.keys[1] = d.keys[1] \cup {k} /\ e.members = d.members
    BY <1>6, <1>10
  <2> HIDE DEF e
  <2>3. /\ R[r] \in Decoders /\ Begins(R[r]) /\ R[r].pos = e.pos + 1
        /\ R[r].key = e.key /\ R[r].keys = e.keys /\ R[r].members = e.members
    BY <2>1, <2>2, ColonRead
  <2>4. QED
    BY <2>2, <2>3
<1>12. /\ \A j \in 1..n : InObject(s, r + j)
       /\ x \in Decoders /\ Finishes(x) /\ x.pos = r + n
       /\ x.key = R[r].key /\ x.from = r + 1 /\ x.members = R[r].members /\ x.keys[1] = R[r].keys[1]
  <2>1. InObject(s, r) /\ Begins(Reads(s)[r])
    BY <1>11 DEF InObject, R
  <2>2. r + Len(v) <= Len(s) /\ \A j \in 1..Len(v) : s[r + j] = v[j]
    BY <1>2, <1>5 DEF n
  <2>3. /\ \A j \in 1..Len(v) : InObject(s, r + j)
        /\ x \in Decoders /\ Finishes(x)
        /\ x.key = Reads(s)[r].key /\ x.from = r + 1 /\ x.members = Reads(s)[r].members
        /\ x.keys[1] = Reads(s)[r].keys[1] /\ x.pos = r + Len(v)
    BY <2>1, <2>2, ReadValue
  <2>4. QED
    BY <2>3 DEF n, R
<1>13. ASSUME NEW i \in a..(r + n) PROVE InObject(s, i)
  <2>1. \/ i = a
        \/ \E j \in 0..m : i = p + j
        \/ i = q + 1 \/ i = r
        \/ \E j \in 1..n : i = r + j
    <3>1. p \in Nat /\ m \in Nat /\ n \in Nat
      BY <1>1
    <3>2. i \in Nat /\ (i = a \/ i \in p..q \/ i = q + 1 \/ i = r \/ i \in (r + 1)..(r + n))
      BY ONLY a \in Nat, q \in Nat, r \in Nat, i \in a..(r + n), <1>5, <3>1 DEF p
    <3>3. i \in p..q => i - p \in 0..m /\ i = p + (i - p)
      BY ONLY q \in Nat, <1>5, <3>1
    <3>4. i \in (r + 1)..(r + n) => i - r \in 1..n /\ i = r + (i - r)
      BY ONLY r \in Nat, <3>1
    <3>5. QED
      BY <3>2, <3>3, <3>4
  <2>2. InObject(s, q + 1) /\ InObject(s, r)
    BY <1>10, <1>11 DEF InObject, R
  <2>3. QED
    BY <1>8, <1>12, <2>1, <2>2
<1>14. QED
  BY <1>11, <1>12, <1>13 DEF n, d, R

-----------------------------------------------------------------------------
(* The members of an object are valid *)

\* A comma ends the value, and the member is complete.
LEMMA CommaRead ==
  ASSUME NEW d \in Decoders, Finishes(d), NEW e, e = Read(d, ",")
  PROVE  /\ e \in Decoders /\ KeyFits(e) /\ e.pos = d.pos + 1 /\ e.keys = d.keys
         /\ e.members = Append(d.members, <<d.key, d.from, d.pos>>)
<1>1. "," \in Chars
  BY DEF Chars
<1>2. Len(d.open) = 1 /\ d.open[1] \in Braces /\ d.at \in {"after", "number"}
  BY DecoderType DEF Finishes, Outermost
<1>3. Last(d.open) = "{"
  BY <1>2 DEF Last, Braces
<1>4. Kept(d) = Append(d.members, <<d.key, d.from, d.pos>>)
  BY <1>2 DEF Kept
<1>5. e = Decoder("key", d.open, d.keys, d.word, d.key, d.from, Kept(d), d.pos + 1)
  <2> DEFINE c == ","
  <2>1. e = Read(d, c) /\ c = "," /\ c \in Chars
    BY <1>1
  <2> HIDE DEF c
  <2>2. e = Decoder(IF Last(d.open) = "{" THEN "key" ELSE "value", d.open, d.keys, d.word, d.key, d.from,
                    Kept(d), d.pos + 1)
    BY <1>2, <2>1, ReadTable, Zenon
  <2>3. QED
    BY <1>3, <2>2
<1>6. e.at = "key" /\ e.open = d.open /\ e.keys = d.keys /\ e.members = Kept(d)
  <2> DEFINE at == "key"
             pos == d.pos + 1
             members == Kept(d)
  <2>1. e = Decoder(at, d.open, d.keys, d.word, d.key, d.from, members, pos)
    BY <1>5
  <2> HIDE DEF at, pos, members
  <2>2. e.at = at /\ e.open = d.open /\ e.keys = d.keys /\ e.members = members
    BY ONLY <2>1, DecoderFields
  <2>3. QED
    BY <2>2 DEF at, members
<1>7. e.at \in Stands
  BY <1>6 DEF Stands
<1>8. e \in Decoders /\ e.pos = d.pos + 1
  BY <1>1, <1>7, StillInObject
<1>9. QED
  BY <1>2, <1>4, <1>6, <1>8 DEF KeyFits, Outermost

\* What follows a character within a value is within it too, unless a comma ends it.
LEMMA ValueStep ==
  ASSUME NEW d \in Decoders, Valuing(d), NEW c \in Chars, NEW e, e = Read(d, c), e \in Decoders
  PROVE  \/ Going(d) /\ Valuing(e)
         \/ Finishes(d) /\ c = ","
<1>1. e.at \in Stands /\ e.at # "bad" /\ e.at # "end"
  <2>1. e.at \in Stands
    BY DecoderType
  <2>2. QED
    BY <2>1 DEF Stands
<1>2. CASE Len(d.open) >= 2
  <2>1. {} \in KeySets /\ <<>> \in Words /\ 0 \in Nat /\ <<>> \in Seq(Spans)
    BY NoWord DEF KeySets
  <2>2. Valuing(Read(d, c))
    BY <1>1, <1>2, <2>1, ReadWithin
  <2>3. QED
    BY <1>2, <2>2, Zenon DEF Going
<1>3. CASE ~(Len(d.open) >= 2)
  <2>1. Outermost(d) /\ d.open[1] \in Braces
    <3>1. Len(d.open) \in Nat /\ Len(d.open) >= 1 /\ d.open[1] \in Braces
      BY DecoderType
    <3>2. Len(d.open) = 1
      <4> DEFINE n == Len(d.open)
      <4>1. n \in Nat /\ n >= 1 /\ ~(n >= 2)
        BY <1>3, <3>1
      <4> HIDE DEF n
      <4>2. n = 1
        BY ONLY <4>1
      <4>3. QED
        BY <4>2 DEF n
    <3>3. QED
      BY <3>1, <3>2 DEF Outermost
  <2>2. Last(d.open) = "{" /\ Closer[Last(d.open)] = "}"
    BY <2>1 DEF Outermost, Last, Braces, Closer
  <2>3. d.at \in {"string", "escaped", "number", "after"}
    BY <1>3 DEF Valuing
  <2>4. CASE d.at = "string"
    <3> DEFINE at == IF c = Quote THEN "after" ELSE IF c = Escape THEN "escaped" ELSE "string"
    <3>1. e = Later(d, at)
      BY <2>4, ReadTable, Zenon
    <3>2. at \in {"after", "escaped", "string"}
      OBVIOUS
    <3> HIDE DEF at
    <3>3. e.at = at
      BY ONLY <3>1, LaterFacts
    <3>4. QED
      BY <2>4, <3>2, <3>3, Zenon DEF Going, Valuing
  <2>5. CASE d.at = "escaped"
    <3> DEFINE at == IF c \in {Quote, Escape} THEN "string" ELSE "bad"
    <3>1. e = Later(d, at)
      BY <2>5, ReadTable, Zenon
    <3>2. at \in {"string", "bad"}
      OBVIOUS
    <3> HIDE DEF at
    <3>3. e.at = at
      BY ONLY <3>1, LaterFacts
    <3>4. e.at = "string"
      BY <1>1, <3>2, <3>3
    <3>5. QED
      BY <2>5, <3>4, Zenon DEF Going, Valuing
  <2>6. CASE d.at \in {"number", "after"}
    <3>1. Finishes(d)
      BY <2>1, <2>6 DEF Finishes
    <3>2. CASE c = ","
      BY <3>1, <3>2
    <3>3. CASE d.at = "number" /\ c \in Digits
      <4> DEFINE at == "number"
      <4>1. e = Later(d, at)
        BY <3>3, ReadTable, Zenon
      <4>2. at = "number"
        OBVIOUS
      <4> HIDE DEF at
      <4>3. e.at = at
        BY ONLY <4>1, LaterFacts
      <4>4. QED
        BY <3>3, <4>2, <4>3, Zenon DEF Going, Valuing
    <3>4. CASE c = "}"
      <4>1. Ends(d, c)
        BY <2>1, <2>6, <3>4 DEF Ends, Outermost
      <4>2. QED
        BY <1>1, <4>1, ReadEnd
    <3>5. CASE c # "," /\ c # "}" /\ (d.at = "number" => c \notin Digits)
      <4>1. d.at \in {"after", "number"} /\ c \notin {",", Closer[Last(d.open)]} /\
            (d.at = "number" => c \notin Digits)
        BY <2>2, <2>6, <3>5
      <4>2. e = Later(d, "bad")
        BY <4>1, ReadTable, Zenon
      <4> DEFINE at == "bad"
      <4>3. e = Later(d, at)
        BY <4>2
      <4>4. at = "bad"
        OBVIOUS
      <4> HIDE DEF at
      <4>5. e.at = at
        BY ONLY <4>3, LaterFacts
      <4>6. QED
        BY <1>1, <4>4, <4>5
    <3>6. QED
      BY <3>2, <3>3, <3>4, <3>5
  <2>7. QED
    BY <2>3, <2>4, <2>5, <2>6
<1>4. QED
  BY <1>2, <1>3

\* A key may only be followed by a colon, and only a quote begins one.
LEMMA KeyFollows ==
  ASSUME NEW d \in Decoders, NEW c \in Chars, NEW e, e = Read(d, c), e \in Decoders
  PROVE  /\ KeyFits(d) => c = Quote
         /\ Colons(d) => c = ":"
<1>1. e.at # "bad" /\ e.at # "end"
  <2>1. e.at \in Stands
    BY DecoderType
  <2>2. QED
    BY <2>1 DEF Stands
<1>2. e # Later(d, "bad")
  <2> DEFINE at == "bad"
  <2> SUFFICES ASSUME e = Later(d, at) PROVE FALSE
    OBVIOUS
  <2>1. at = "bad"
    OBVIOUS
  <2> HIDE DEF at
  <2>2. e.at = at
    BY ONLY e = Later(d, at), LaterFacts
  <2>3. QED
    BY <1>1, <2>1, <2>2
<1>3. ASSUME KeyFits(d), c # Quote PROVE FALSE
  <2>1. d.at \in {"key", "key or end"} /\ Len(d.open) = 1
    BY <1>3 DEF KeyFits, Outermost
  <2>2. CASE d.at = "key or end" /\ c = "}"
    <3>1. Ends(d, c)
      BY <2>1, <2>2 DEF Ends
    <3>2. QED
      BY <1>1, <3>1, ReadEnd
  <2>3. CASE d.at = "key or end" => c # "}"
    <3>1. e = Later(d, "bad")
      BY <1>3, <2>1, <2>3, ReadTable, Zenon
    <3>2. QED
      BY <1>2, <3>1
  <2>4. QED
    BY <2>2, <2>3
<1>4. ASSUME Colons(d), c # ":" PROVE FALSE
  <2>1. e = Later(d, IF c = ":" THEN "value" ELSE "bad")
    BY <1>4, ReadTable, Zenon DEF Colons
  <2>2. QED
    BY <1>2, <1>4, <2>1
<1>5. QED
  BY <1>3, <1>4

\* A decoder in a key of the outermost object, and one that has the key of a member.
InMemberKey(d) == Outermost(d) /\ d.at \in KeyAts

Keyed(d) ==
  \/ Outermost(d) /\ Colons(d)
  \/ Begins(d)
  \/ Valuing(d)

\* Where the decoder stands in the outermost object.
LEMMA Stages ==
  ASSUME NEW d \in Decoders
  PROVE  KeyFits(d) \/ InMemberKey(d) \/ Keyed(d)
<1>1. CASE Len(d.open) >= 2
  BY <1>1, Zenon DEF Keyed, Valuing
<1>2. CASE ~(Len(d.open) >= 2)
  <2>1. Len(d.open) = 1
    <3> DEFINE n == Len(d.open)
    <3>1. n \in Nat /\ n >= 1 /\ ~(n >= 2)
      BY <1>2, DecoderType
    <3> HIDE DEF n
    <3>2. n = 1
      BY ONLY <3>1
    <3>3. QED
      BY <3>2 DEF n
  <2>2. d.at # "value or end"
    <3>1. d.open[1] \in Braces /\ (d.at = "value or end" => Last(d.open) = "[")
      BY DecoderType
    <3>2. Last(d.open) = d.open[1]
      BY <2>1 DEF Last
    <3>3. QED
      BY <3>1, <3>2 DEF Braces
  <2>3. d.at \in Stands
    BY DecoderType
  <2>4. \/ d.at \in {"key", "key or end"} \/ d.at \in {"in key", "key escaped"} \/ d.at = "colon"
        \/ d.at = "value" \/ d.at \in {"string", "escaped", "number", "after"}
    BY <2>2, <2>3 DEF Stands
  <2>5. Outermost(d)
    BY <2>1 DEF Outermost
  <2>6. QED
    BY <2>4, <2>5, Zenon DEF KeyFits, InMemberKey, KeyAts, Keyed, Colons, Begins, Valuing
<1>3. QED
  BY <1>1, <1>2

\* It stands in one place at a time.
LEMMA StagesApart ==
  ASSUME NEW d \in Decoders
  PROVE  /\ KeyFits(d) => ~InMemberKey(d) /\ ~Keyed(d) /\ ~Valuing(d)
         /\ InMemberKey(d) => ~Keyed(d) /\ ~Valuing(d)
         /\ Outermost(d) /\ Colons(d) => Keyed(d) /\ ~InMemberKey(d) /\ ~Valuing(d)
         /\ Begins(d) => Keyed(d) /\ ~InMemberKey(d) /\ ~Valuing(d)
         /\ Valuing(d) => Keyed(d) /\ ~InMemberKey(d)
<1>1. Outermost(d) => ~(Len(d.open) >= 2)
  BY DEF Outermost
<1>2. KeyFits(d) => ~InMemberKey(d) /\ ~Valuing(d) /\ ~Colons(d) /\ ~Begins(d)
  BY <1>1 DEF KeyFits, InMemberKey, KeyAts, Colons, Begins, Valuing
<1>3. InMemberKey(d) => ~Valuing(d) /\ ~Colons(d) /\ ~Begins(d)
  BY <1>1 DEF InMemberKey, KeyAts, Colons, Begins, Valuing
<1>4. Outermost(d) /\ Colons(d) => ~InMemberKey(d) /\ ~Valuing(d)
  BY <1>1 DEF InMemberKey, KeyAts, Colons, Valuing
<1>5. Begins(d) => ~InMemberKey(d) /\ ~Valuing(d)
  BY <1>1 DEF InMemberKey, KeyAts, Begins, Valuing
<1>6. Keyed(d) <=> ((Outermost(d) /\ Colons(d)) \/ Begins(d) \/ Valuing(d))
  BY DEF Keyed
<1>7. QED
  BY <1>2, <1>3, <1>4, <1>5, <1>6, Zenon

\* One more character of a key that may be spelled as it is.
SpelledOn(E, c, n, u) ==
  /\ n \notin E /\ Plain(c) /\ Escapes(c) => Spelling(u, E \cup {n + 1})
  /\ n \notin E /\ Plain(c) /\ ~Escapes(c) => Spelling(u, E)
  /\ n \in E /\ Escapable(c) => Spelling(u, E)
  /\ u \in Words /\ Len(u) = n + 1 /\ n + 1 \notin E

\* A key that may be spelled may be spelled with one more character.
LEMMA SpellingGrows ==
  ASSUME NEW w \in Words, NEW E, Spelling(w, E), NEW c \in Chars
  PROVE  SpelledOn(E, c, Len(w), Append(w, c))
<1> DEFINE n == Len(w)
           u == Append(w, c)
<1>1. w \in Seq(Chars)
  BY DEF Words
<1>2. /\ u \in Seq(Chars) /\ Len(u) = n + 1 /\ n \in Nat /\ u[n + 1] = c
      /\ \A i \in 1..n : u[i] = w[i]
  BY <1>1, Appended
<1>3. /\ E \in SUBSET (1..n)
      /\ \A j \in 0..(n - 1) : /\ j \in E => Escapable(w[j + 1]) /\ j + 1 \notin E
                               /\ j \notin E => Plain(w[j + 1]) /\ (j + 1 \in E <=> Escapes(w[j + 1]))
  BY DEF Spelling
<1>4. n + 1 \notin E
  BY <1>2, <1>3
<1>5. ASSUME NEW F, F = E \/ F = E \cup {n + 1},
             n \in E => Escapable(c) /\ n + 1 \notin F,
             n \notin E => Plain(c) /\ (n + 1 \in F <=> Escapes(c))
      PROVE  Spelling(u, F)
  <2>1. F \in SUBSET (1..(n + 1))
    <3>1. \A x \in 1..n : x \in 1..(n + 1)
      BY <1>2
    <3>2. n + 1 \in 1..(n + 1)
      BY <1>2
    <3>3. E \in SUBSET (1..n)
      BY <1>3
    <3>4. QED
      BY ONLY <1>5, <3>1, <3>2, <3>3, Zenon
  <2>2. ASSUME NEW j \in 0..((n + 1) - 1)
        PROVE  /\ j \in F => Escapable(u[j + 1]) /\ j + 1 \notin F
               /\ j \notin F => Plain(u[j + 1]) /\ (j + 1 \in F <=> Escapes(u[j + 1]))
    <3>1. CASE j = n
      <4>1. u[j + 1] = c /\ (j \in F <=> n \in E) /\ (j + 1 \in F <=> n + 1 \in F)
        BY <1>2, <1>5, <3>1
      <4>2. QED
        BY <1>5, <3>1, <4>1
    <3>2. CASE j # n
      <4>1. j \in 0..(n - 1) /\ j + 1 \in 1..n /\ j + 1 # n + 1 /\ j # n + 1
        BY <1>2, <3>2
      <4>2. u[j + 1] = w[j + 1] /\ (j \in F <=> j \in E) /\ (j + 1 \in F <=> j + 1 \in E)
        BY <1>2, <1>5, <4>1
      <4>3. QED
        BY <1>3, <4>1, <4>2
    <3>3. QED
      BY <3>1, <3>2
  <2>3. QED
    BY <1>2, <2>1, <2>2 DEF Spelling
<1>6. ASSUME n \notin E, Plain(c), Escapes(c) PROVE Spelling(u, E \cup {n + 1})
  BY <1>5, <1>6
<1>7. ASSUME n \notin E, Plain(c), ~Escapes(c) PROVE Spelling(u, E)
  BY <1>4, <1>5, <1>7
<1>8. ASSUME n \in E, Escapable(c) PROVE Spelling(u, E)
  BY <1>4, <1>5, <1>8
<1>9. QED
  BY <1>2, <1>4, <1>6, <1>7, <1>8 DEF Words, SpelledOn

\* The characters from one on are the value that is being read.
Valued(s, from, i) ==
  /\ from \in 1..i /\ InObject(s, from - 1) /\ Begins(Reads(s)[from - 1])
  /\ \A j \in from..i : InObject(s, j) /\ Valuing(Reads(s)[j])
  /\ \A j \in from..(i - 1) : Going(Reads(s)[j])

\* A value that stands at a place of a text, and may stand in every object.
ValueAt(s, a, b) == 1 <= a /\ a <= b /\ b <= Len(s) /\ ValidValue(SubSeq(s, a, b))

\* A value that is complete is one that may stand in every object.
LEMMA ValuedIsValid ==
  ASSUME NEW s \in Seq(Chars), NEW from \in Nat, NEW i \in Nat, i <= Len(s), Valued(s, from, i), Finishes(Reads(s)[i])
  PROVE  ValueAt(s, from, i)
<1> DEFINE R == Reads(s)
           v == SubSeq(s, from, i)
           n == i - from + 1
           a == from - 1
           tr == [j \in 0..n |-> R[a + j]]
<1>1. Len(s) \in Nat
  BY LenProperties
<1>2. from >= 1 /\ from <= i /\ n \in Nat /\ n >= 1 /\ a \in Nat /\ a + n = i /\ a + 1 = from
  <2>1. from \in 1..i
    BY DEF Valued
  <2>2. QED
    BY ONLY <2>1, from \in Nat, i \in Nat
<1>3. v \in Seq(Chars) /\ Len(v) = n /\ \A j \in 1..n : v[j] = s[a + j]
  <2>1. from \in 1..(Len(s) + 1) /\ i \in (from - 1)..Len(s)
    BY <1>1, <1>2
  <2>2. v \in Seq(Chars) /\ Len(v) = n /\ \A j \in 1..(i - from + 1) : v[j] = s[from + j - 1]
    BY <2>1, SubSeqProperties
  <2>3. \A j \in 1..n : from + j - 1 = a + j
    BY <1>2
  <2>4. QED
    BY <2>2, <2>3
<1>4. \A j \in 0..(Len(s) - 1) : R[j + 1] = Read(R[j], s[j + 1])
  BY ReadsStep
<1>5. /\ R[a] \in Decoders /\ Begins(R[a])
      /\ \A j \in from..i : R[j] \in Decoders /\ Valuing(R[j])
      /\ \A j \in from..(i - 1) : Going(R[j])
  BY DEF Valued, InObject
<1> HIDE DEF R, v, n, a
<1>6. \A j \in 0..n : tr[j] = R[a + j]
  OBVIOUS
<1>7. 0 \in 0..n /\ n \in 0..n /\ a + 0 = a
  BY <1>2
<1>8. ASSUME NEW j \in 1..n
      PROVE  a + j \in from..i /\ j \in 0..n /\ (j # n => a + j \in from..(i - 1))
  BY <1>2
<1>9. tr \in [0..n -> Decoders]
  <2> SUFFICES ASSUME NEW j \in 0..n PROVE R[a + j] \in Decoders
    OBVIOUS
  <2>1. j = 0 \/ j \in 1..n
    BY <1>2
  <2>2. QED
    BY <1>5, <1>7, <1>8, <2>1
<1> HIDE DEF tr
<1>10. Begins(tr[0])
  BY <1>5, <1>6, <1>7
<1>11. ASSUME NEW j \in 0..(n - 1)
       PROVE  tr[j + 1] = Read(tr[j], v[j + 1]) /\ Valuing(tr[j + 1])
  <2>1. j \in 0..n /\ j + 1 \in 0..n /\ j + 1 \in 1..n /\ a + j \in 0..(Len(s) - 1) /\ a + (j + 1) = (a + j) + 1
    BY <1>1, <1>2
  <2>2. R[(a + j) + 1] = Read(R[a + j], s[(a + j) + 1])
    BY <1>4, <2>1
  <2>3. v[j + 1] = s[a + (j + 1)]
    BY <1>3, <2>1
  <2>4. Valuing(R[a + (j + 1)])
    BY <1>5, <1>8, <2>1
  <2>5. QED
    BY <1>6, <2>1, <2>2, <2>3, <2>4
<1>12. ASSUME NEW j \in 1..(n - 1) PROVE Going(tr[j])
  <2>1. j \in 1..n /\ j # n
    BY <1>2
  <2>2. QED
    BY <1>5, <1>6, <1>8, <2>1
<1>13. Trace(tr, v)
  BY <1>3, <1>9, <1>10, <1>11, <1>12 DEF Trace
<1>14. Finishes(tr[n])
  BY <1>2, <1>6, <1>7 DEF R
<1>15. ValidValue(v)
  BY <1>2, <1>3, <1>13, <1>14 DEF ValidValue, Words
<1>16. QED
  BY <1>2, <1>15 DEF ValueAt, v

\* The members that were read have keys of their own, and keys and values that may
\* stand in every object.
KnownMember(s, m) == ValidKey(m[1]) /\ ValueAt(s, m[2], m[3])

KnownMembers(s, members, K) ==
  /\ \A j \in 1..Len(members) : KnownMember(s, members[j]) /\ members[j][1] \in K
  /\ \A j, k \in 1..Len(members) : members[j][1] = members[k][1] => j = k

\* The key of the member that is being read is a new one.
FreshKey(key, K, members) ==
  ValidKey(key) /\ key \in K /\ \A j \in 1..Len(members) : members[j][1] # key

\* The key that is being read may stand in every object as far as it goes.
KeyPart(d) == \E E : Spelling(d.word, E) /\ (SpellsKey(d) <=> Len(d.word) \notin E)

Known(s, i) ==
  /\ KnownMembers(s, Reads(s)[i].members, Reads(s)[i].keys[1])
  /\ Keyed(Reads(s)[i]) => FreshKey(Reads(s)[i].key, Reads(s)[i].keys[1], Reads(s)[i].members)
  /\ Valuing(Reads(s)[i]) => Valued(s, Reads(s)[i].from, i)
  /\ InMemberKey(Reads(s)[i]) => KeyPart(Reads(s)[i])

\* A new key, and a member more.
LEMMA MoreKeys ==
  ASSUME NEW s, NEW members \in Seq(Spans), NEW K, KnownMembers(s, members, K), NEW key, ValidKey(key), key \notin K
  PROVE  KnownMembers(s, members, K \cup {key}) /\ FreshKey(key, K \cup {key}, members)
BY DEF KnownMembers, FreshKey

\* A member with a new key and a valid value is known like the others.
LEMMA MoreMembers ==
  ASSUME NEW s, NEW members \in Seq(Spans), NEW K, KnownMembers(s, members, K),
         NEW m \in Spans, FreshKey(m[1], K, members), ValueAt(s, m[2], m[3])
  PROVE  KnownMembers(s, Append(members, m), K)
<1> DEFINE more == Append(members, m)
           n == Len(members)
<1>1. n \in Nat /\ Len(more) = n + 1 /\ more[n + 1] = m /\ \A j \in 1..n : more[j] = members[j]
  BY Appended
<1>2. KnownMember(s, m) /\ m[1] \in K /\ \A j \in 1..n : members[j][1] # m[1]
  BY DEF FreshKey, KnownMember
<1>3. /\ \A j \in 1..n : KnownMember(s, members[j]) /\ members[j][1] \in K
      /\ \A j, k \in 1..n : members[j][1] = members[k][1] => j = k
  BY DEF KnownMembers
<1> HIDE DEF more, n
<1>4. \A j \in 1..(n + 1) : j \in 1..n \/ j = n + 1
  BY <1>1
<1>5. \A j \in 1..(n + 1) : KnownMember(s, more[j]) /\ more[j][1] \in K
  BY <1>1, <1>2, <1>3, <1>4
<1>6. ASSUME NEW j \in 1..(n + 1), NEW k \in 1..(n + 1), more[j][1] = more[k][1] PROVE j = k
  BY <1>1, <1>2, <1>3, <1>4, <1>6
<1>7. QED
  BY <1>1, <1>5, <1>6 DEF KnownMembers, more

\* One more character of a key of the outermost object, or the quote after it.
LEMMA KeyGoesOn ==
  ASSUME NEW d \in Decoders, InMemberKey(d), KeyPart(d), NEW c \in Chars, NEW e, e = Read(d, c), e \in Decoders
  PROVE  \/ InMemberKey(e) /\ KeyPart(e) /\ e.keys = d.keys /\ e.members = d.members
         \/ SpellsKey(d) /\ c = Quote /\ ValidKey(d.word) /\ d.word \notin d.keys[1]
<1>1. e.at # "bad"
  <2>1. e.at \in Stands
    BY DecoderType
  <2>2. QED
    BY <2>1 DEF Stands
<1>2. Len(d.open) = 1 /\ d.at \in {"in key", "key escaped"} /\ d.word \in Words
  BY DecoderType DEF InMemberKey, KeyAts, Outermost
<1>3. PICK E : Spelling(d.word, E) /\ (SpellsKey(d) <=> Len(d.word) \notin E)
  BY DEF KeyPart
<1> DEFINE w == d.word
           u == Append(w, c)
           n == Len(w)
<1>4. /\ n \notin E /\ Plain(c) /\ Escapes(c) => Spelling(u, E \cup {n + 1})
      /\ n \notin E /\ Plain(c) /\ ~Escapes(c) => Spelling(u, E)
      /\ n \in E /\ Escapable(c) => Spelling(u, E)
      /\ u \in Words /\ Len(u) = n + 1 /\ n + 1 \notin E
  <2>1. SpelledOn(E, c, n, u)
    BY <1>2, <1>3, SpellingGrows
  <2> HIDE DEF w, u, n
  <2>2. QED
    BY ONLY <2>1 DEF SpelledOn
<1>5. ASSUME NEW at, at \in KeyAts, e = Decoder(at, d.open, d.keys, u, d.key, d.from, d.members, d.pos + 1),
             NEW F, Spelling(u, F), at = "in key" <=> n + 1 \notin F
      PROVE  InMemberKey(e) /\ KeyPart(e) /\ e.keys = d.keys /\ e.members = d.members
  <2> DEFINE pos == d.pos + 1
  <2>1. e = Decoder(at, d.open, d.keys, u, d.key, d.from, d.members, pos)
    BY <1>5
  <2> HIDE DEF u, pos
  <2>2. e.at = at /\ e.open = d.open /\ e.keys = d.keys /\ e.word = u /\ e.members = d.members
    BY ONLY <2>1, DecoderFields
  <2>3. InMemberKey(e)
    BY <1>2, <1>5, <2>2 DEF InMemberKey, Outermost
  <2>4. SpellsKey(e) <=> at = "in key"
    BY <2>2 DEF SpellsKey
  <2>5. Len(e.word) = n + 1
    BY <1>4, <2>2
  <2> HIDE DEF n
  <2>6. KeyPart(e)
    BY <1>5, <2>2, <2>4, <2>5, Zenon DEF KeyPart
  <2>7. QED
    BY <2>2, <2>3, <2>6
<1>6. CASE d.at = "in key" /\ c = Quote
  <2>1. SpellsKey(d) /\ ValidKey(d.word)
    BY <1>2, <1>3, <1>6 DEF SpellsKey, ValidKey
  <2>2. Last(d.keys) = d.keys[1]
    <3>1. d.keys \in Seq(KeySets) /\ Len(d.keys) = Len(d.open)
      BY DecoderType
    <3>2. QED
      BY <1>2, <3>1 DEF Last
  <2>3. e = Decoder(IF d.word \in Last(d.keys) THEN "bad" ELSE "colon", d.open,
                    Append(Front(d.keys), Last(d.keys) \cup {d.word}), <<>>,
                    IF Len(d.open) = 1 THEN d.word ELSE d.key, d.from, d.members, d.pos + 1)
    BY <1>6, ReadTable, Zenon
  <2>4. d.word \notin d.keys[1]
    <3> SUFFICES ASSUME d.word \in Last(d.keys) PROVE FALSE
      BY <2>2
    <3> DEFINE at == "bad"
               keys == Append(Front(d.keys), Last(d.keys) \cup {d.word})
               key == IF Len(d.open) = 1 THEN d.word ELSE d.key
               pos == d.pos + 1
    <3>1. e = Decoder(at, d.open, keys, <<>>, key, d.from, d.members, pos)
      BY <2>3
    <3>2. at = "bad"
      OBVIOUS
    <3> HIDE DEF at, keys, key, pos
    <3>3. e.at = at
      BY ONLY <3>1, DecoderFields
    <3>4. QED
      BY <1>1, <3>2, <3>3
  <2>5. QED
    BY <1>6, <2>1, <2>4
<1>7. CASE d.at = "in key" /\ c # Quote
  <2>1. e = Decoder(IF c = Escape THEN "key escaped" ELSE "in key", d.open, d.keys, u, d.key,
                    d.from, d.members, d.pos + 1)
    BY <1>7, ReadTable, Zenon
  <2>2. Plain(c) /\ n \notin E
    BY <1>3, <1>7 DEF Plain, SpellsKey
  <2>3. CASE c = Escape
    <3>1. Spelling(u, E \cup {n + 1})
      BY <1>4, <2>2, <2>3 DEF Escapes
    <3>2. e = Decoder("key escaped", d.open, d.keys, u, d.key, d.from, d.members, d.pos + 1)
      BY <2>1, <2>3
    <3>3. "key escaped" \in KeyAts /\ ("key escaped" = "in key" <=> n + 1 \notin E \cup {n + 1})
      BY DEF KeyAts
    <3> HIDE DEF u, n
    <3>4. QED
      BY <1>5, <3>1, <3>2, <3>3
  <2>4. CASE c # Escape
    <3>1. Spelling(u, E)
      BY <1>4, <2>2, <2>4 DEF Escapes
    <3>2. e = Decoder("in key", d.open, d.keys, u, d.key, d.from, d.members, d.pos + 1)
      BY <2>1, <2>4
    <3>3. "in key" \in KeyAts /\ ("in key" = "in key" <=> n + 1 \notin E)
      BY <1>4 DEF KeyAts
    <3> HIDE DEF u, n
    <3>4. QED
      BY <1>5, <3>1, <3>2, <3>3
  <2>5. QED
    BY <2>3, <2>4
<1>8. CASE d.at = "key escaped"
  <2>1. e = Decoder(IF c \in {Quote, Escape} THEN "in key" ELSE "bad", d.open, d.keys, u, d.key,
                    d.from, d.members, d.pos + 1)
    BY <1>8, ReadTable, Zenon
  <2>2. c \in {Quote, Escape}
    <3> SUFFICES ASSUME c \notin {Quote, Escape} PROVE FALSE
      OBVIOUS
    <3> DEFINE at == "bad"
               pos == d.pos + 1
    <3>1. e = Decoder(at, d.open, d.keys, u, d.key, d.from, d.members, pos)
      BY <2>1
    <3>2. at = "bad"
      OBVIOUS
    <3> HIDE DEF at, pos, u
    <3>3. e.at = at
      BY ONLY <3>1, DecoderFields
    <3>4. QED
      BY <1>1, <3>2, <3>3
  <2>3. n \in E /\ Escapable(c)
    BY <1>3, <1>8, <2>2 DEF SpellsKey, Escapable
  <2>4. Spelling(u, E)
    BY <1>4, <2>3
  <2>5. e = Decoder("in key", d.open, d.keys, u, d.key, d.from, d.members, d.pos + 1)
    BY <2>1, <2>2
  <2>6. "in key" \in KeyAts /\ ("in key" = "in key" <=> n + 1 \notin E)
    BY <1>4 DEF KeyAts
  <2> HIDE DEF u, n
  <2>7. QED
    BY <1>5, <2>4, <2>5, <2>6
<1>9. QED
  BY <1>2, <1>6, <1>7, <1>8

\* What is known of the object is known after one more character.
LEMMA KnownStep ==
  ASSUME NEW s \in Seq(Chars), NEW i \in Nat, NEW m, m = i + 1, m <= Len(s), InObject(s, i),
         InObject(s, m), Known(s, i)
  PROVE  Known(s, m)
<1> DEFINE d == Reads(s)[i]
           e == Reads(s)[m]
           c == s[m]
           K == d.keys[1]
<1>1. Len(s) \in Nat
  BY LenProperties
<1>2. d \in Decoders /\ d.pos = i /\ e \in Decoders /\ e.pos = m
  BY DEF InObject
<1>3. m \in Nat /\ m = i + 1 /\ m <= Len(s) /\ i \in 0..(Len(s) - 1) /\ m \in 1..Len(s)
  BY <1>1
<1>4. e = Read(d, c)
  <2>1. Reads(s)[i + 1] = Read(Reads(s)[i], s[i + 1])
    BY <1>3, ReadsStep
  <2>2. QED
    BY <1>3, <2>1
<1>5. c \in Chars
  BY <1>3, ElementOfSeq
<1>6. /\ d.members \in Seq(Spans) /\ d.key \in Words /\ d.from \in Nat
      /\ KnownMembers(s, d.members, K)
      /\ Keyed(d) => FreshKey(d.key, K, d.members)
      /\ Valuing(d) => Valued(s, d.from, i)
      /\ InMemberKey(d) => KeyPart(d)
  BY <1>2, DecoderType DEF Known
<1> HIDE DEF d, e, c, K
<1> SUFFICES /\ KnownMembers(s, e.members, e.keys[1])
             /\ Keyed(e) => FreshKey(e.key, e.keys[1], e.members)
             /\ Valuing(e) => Valued(s, e.from, m)
             /\ InMemberKey(e) => KeyPart(e)
  BY DEF Known, e
<1>7. CASE KeyFits(d)
  <2>1. c = Quote
    BY <1>2, <1>4, <1>5, <1>7, KeyFollows
  <2>2. KeyBegins(e) /\ Outermost(e) /\ e.keys = d.keys /\ e.members = d.members
    BY <1>2, <1>4, <1>7, <2>1, KeyOpens
  <2>3. InMemberKey(e)
    BY <2>2 DEF InMemberKey, KeyBegins, SpellsKey, KeyAts
  <2>4. KeyPart(e)
    <3>1. e.word = <<>> /\ SpellsKey(e)
      BY <2>2 DEF KeyBegins
    <3>2. Spelling(<<>>, {}) /\ Len(<<>>) \notin {}
      BY DEF Spelling
    <3> DEFINE none == {}
    <3>3. Spelling(e.word, none) /\ (SpellsKey(e) <=> Len(e.word) \notin none)
      BY <3>1, <3>2
    <3> HIDE DEF none
    <3>4. QED
      BY ONLY <3>3 DEF KeyPart
  <2>5. ~Keyed(e) /\ ~Valuing(e)
    BY <1>2, <2>3, StagesApart
  <2>6. QED
    BY <1>6, <2>2, <2>4, <2>5 DEF K
<1>8. CASE InMemberKey(d)
  <2>1. CASE InMemberKey(e) /\ KeyPart(e) /\ e.keys = d.keys /\ e.members = d.members
    <3>1. ~Keyed(e) /\ ~Valuing(e)
      BY <1>2, <2>1, StagesApart
    <3>2. QED
      BY <1>6, <2>1, <3>1 DEF K
  <2>2. CASE SpellsKey(d) /\ c = Quote /\ ValidKey(d.word) /\ d.word \notin d.keys[1]
    <3>1. Outermost(d)
      BY <1>8 DEF InMemberKey
    <3>2. /\ Colons(e) /\ Outermost(e) /\ e.key = d.word /\ e.keys[1] = K \cup {d.word} /\ e.members = d.members
      BY <1>2, <1>4, <2>2, <3>1, KeyCloses DEF K
    <3>3. KnownMembers(s, d.members, K \cup {d.word}) /\ FreshKey(d.word, K \cup {d.word}, d.members)
      BY <1>6, <2>2, MoreKeys DEF K
    <3>4. ~InMemberKey(e) /\ ~Valuing(e)
      BY <1>2, <3>2, StagesApart
    <3>5. QED
      BY <3>2, <3>3, <3>4
  <2>3. QED
    BY <1>2, <1>4, <1>5, <1>6, <1>8, <2>1, <2>2, KeyGoesOn
<1>9. CASE Outermost(d) /\ Colons(d)
  <2>1. c = ":"
    BY <1>2, <1>4, <1>5, <1>9, KeyFollows
  <2>2. Begins(e) /\ e.key = d.key /\ e.keys = d.keys /\ e.members = d.members
    BY <1>2, <1>4, <1>9, <2>1, ColonRead
  <2>3. Keyed(d)
    BY <1>2, <1>9, StagesApart
  <2>4. ~InMemberKey(e) /\ ~Valuing(e)
    BY <1>2, <2>2, StagesApart
  <2>5. QED
    BY <1>6, <2>2, <2>3, <2>4 DEF K
<1>10. CASE Begins(d)
  <2>1. Outermost(d) /\ d.at = "value"
    BY <1>10 DEF Begins
  <2>2. e.at # "bad"
    <3>1. e.at \in Stands
      BY <1>2, DecoderType
    <3>2. QED
      BY <3>1 DEF Stands
  <2>3. {} \in KeySets /\ <<>> \in Words /\ 0 \in Nat /\ <<>> \in Seq(Spans)
    BY NoWord DEF KeySets
  <2>4. /\ Valuing(e)
        /\ e.key = d.key /\ e.from = d.pos + 1 /\ e.members = d.members /\ e.keys[1] = K
    BY <1>2, <1>4, <1>5, <2>1, <2>2, <2>3, ReadFirst DEF K
  <2>5. Keyed(d) /\ ~InMemberKey(e)
    BY <1>2, <1>10, <2>4, StagesApart
  <2>6. Valued(s, e.from, m)
    <3>1. e.from = m
      BY <1>2, <1>3, <2>4
    <3>2. m \in 1..m /\ m - 1 = i /\ (\A j \in m..m : j = m) /\ m..(m - 1) = {}
      BY <1>3
    <3>3. Valuing(Reads(s)[m]) /\ Begins(Reads(s)[i])
      BY <1>10, <2>4 DEF d, e
    <3>4. QED
      BY <3>1, <3>2, <3>3 DEF Valued
  <2>7. QED
    BY <1>6, <2>4, <2>5, <2>6
<1>11. CASE Valuing(d)
  <2>1. Keyed(d)
    BY <1>2, <1>11, StagesApart
  <2>2. CASE Going(d) /\ Valuing(e)
    <3>1. {} \in KeySets /\ <<>> \in Words /\ 0 \in Nat /\ <<>> \in Seq(Spans)
      BY NoWord DEF KeySets
    <3>2. SameFrame(d, e)
      BY <1>2, <1>4, <1>5, <2>2, <3>1, ReadGoing
    <3>3. e.key = d.key /\ e.from = d.from /\ e.members = d.members /\ e.keys[1] = K
      BY <3>2 DEF SameFrame, K
    <3>4. ~InMemberKey(e)
      BY <1>2, <2>2, StagesApart
    <3>5. Valued(s, e.from, m)
      <4>1. /\ d.from \in 1..i /\ InObject(s, d.from - 1) /\ Begins(Reads(s)[d.from - 1])
            /\ \A j \in (d.from)..i : InObject(s, j) /\ Valuing(Reads(s)[j])
            /\ \A j \in (d.from)..(i - 1) : Going(Reads(s)[j])
        BY <1>6, <1>11 DEF Valued
      <4> DEFINE from == d.from
      <4>2. from \in Nat /\ from \in 1..i
        BY <1>6, <4>1
      <4> HIDE DEF from
      <4>3. /\ from \in 1..m
            /\ \A j \in from..m : j = m \/ j \in from..i
            /\ \A j \in from..(m - 1) : j = i \/ j \in from..(i - 1)
        BY ONLY <1>3, <4>2, i \in Nat
      <4>4. Going(Reads(s)[i]) /\ Valuing(Reads(s)[m]) /\ InObject(s, m)
        BY <2>2 DEF d, e
      <4>5. e.from = from
        BY <3>3 DEF from
      <4>6. /\ InObject(s, from - 1) /\ Begins(Reads(s)[from - 1])
            /\ \A j \in from..i : InObject(s, j) /\ Valuing(Reads(s)[j])
            /\ \A j \in from..(i - 1) : Going(Reads(s)[j])
        BY <4>1 DEF from
      <4>7. QED
        BY ONLY <4>3, <4>4, <4>5, <4>6 DEF Valued
    <3>6. QED
      BY <1>6, <2>1, <3>3, <3>4, <3>5
  <2>3. CASE Finishes(d) /\ c = ","
    <3>1. /\ KeyFits(e) /\ e.keys = d.keys
          /\ e.members = Append(d.members, <<d.key, d.from, i>>)
      BY <1>2, <1>4, <2>3, CommaRead
    <3> DEFINE span == <<d.key, d.from, i>>
    <3>2. span \in Spans /\ span[1] = d.key /\ span[2] = d.from /\ span[3] = i
      BY <1>6 DEF Spans
    <3>3. ValueAt(s, d.from, i)
      <4>1. Valued(s, d.from, i) /\ Finishes(Reads(s)[i])
        BY <1>6, <1>11, <2>3 DEF d
      <4> DEFINE from == d.from
      <4>2. from \in Nat /\ i <= Len(s)
        BY <1>1, <1>3, <1>6
      <4> HIDE DEF from
      <4>3. QED
        BY <4>1, <4>2, ValuedIsValid DEF from
    <3> HIDE DEF span
    <3>4. KnownMembers(s, Append(d.members, span), K)
      BY <1>6, <2>1, <3>2, <3>3, MoreMembers
    <3>5. ~InMemberKey(e) /\ ~Keyed(e) /\ ~Valuing(e)
      BY <1>2, <3>1, StagesApart
    <3>6. QED
      BY <3>1, <3>4, <3>5 DEF span, K
  <2>4. QED
    BY <1>2, <1>4, <1>5, <1>11, <2>2, <2>3, ValueStep
<1>12. QED
  BY <1>2, <1>7, <1>8, <1>9, <1>10, <1>11, Stages DEF Keyed

\* Members that may stand in an object, each key once.
MemberRecords == [key : Words, value : Words]

ValidMember(m) == ValidKey(m.key) /\ ValidValue(m.value)

ValidMembers(M) ==
  /\ M \in Seq(MemberRecords)
  /\ \A j \in 1..Len(M) : ValidMember(M[j])
  /\ \A j, k \in 1..Len(M) : M[j].key = M[k].key => j = k

\* What the members are with their texts.
LEMMA ValuesFacts ==
  ASSUME NEW s, NEW spans \in Seq(Spans)
  PROVE  /\ Len(Values(s, spans)) = Len(spans)
         /\ \A j \in 1..Len(spans) :
              /\ Values(s, spans)[j] = [key |-> spans[j][1], value |-> SubSeq(s, spans[j][2], spans[j][3])]
              /\ Values(s, spans)[j].key = spans[j][1]
              /\ Values(s, spans)[j].value = SubSeq(s, spans[j][2], spans[j][3])
         /\ Values(s, spans) = [j \in 1..Len(spans) |-> Values(s, spans)[j]]
<1> DEFINE k == Len(spans)
           g(j) == [key |-> spans[j][1], value |-> SubSeq(s, spans[j][2], spans[j][3])]
           V == Values(s, spans)
<1>1. k \in Nat
  BY LenProperties
<1>2. V = [j \in 1..k |-> g(j)]
  BY DEF Values
<1>3. \A j \in 1..k : g(j).key = spans[j][1] /\ g(j).value = SubSeq(s, spans[j][2], spans[j][3])
  OBVIOUS
<1> HIDE DEF k, g, V
<1>4. Len(V) = k /\ (\A j \in 1..k : V[j] = g(j)) /\ V = [j \in 1..k |-> V[j]]
  BY <1>1, <1>2
<1>5. QED
  BY <1>3, <1>4 DEF k, g, V

\* What is known holds after the opening brace.
LEMMA KnownFirst ==
  ASSUME NEW s \in Seq(Chars), Reads(s)[1] = Opened
  PROVE  Known(s, 1)
<1> DEFINE d == Reads(s)[1]
<1>1. d \in Decoders
  BY Opening
<1>2. d.at = "key or end" /\ d.open = <<"{">> /\ d.members = <<>>
  <2> DEFINE at == "key or end"
             open == <<"{">>
             keys == <<{}>>
  <2>1. d = Decoder(at, open, keys, <<>>, <<>>, 0, <<>>, 1)
    BY DEF Opened
  <2> HIDE DEF at, open, keys, d
  <2>2. d.at = at /\ d.open = open /\ d.members = <<>>
    BY ONLY <2>1, DecoderFields
  <2>3. QED
    BY <2>2 DEF at, open, d
<1>3. KeyFits(d)
  <2>1. Len(<<"{">>) = 1
    OBVIOUS
  <2>2. QED
    BY <1>2, <2>1 DEF KeyFits, Outermost
<1> HIDE DEF d
<1>4. ~InMemberKey(d) /\ ~Keyed(d) /\ ~Valuing(d)
  BY <1>1, <1>3, StagesApart
<1>5. KnownMembers(s, d.members, d.keys[1])
  <2>1. \A j \in 1..Len(<<>>) : FALSE
    OBVIOUS
  <2>2. \A j \in 1..Len(d.members) : FALSE
    BY <1>2, <2>1
  <2>3. QED
    BY <2>2, Zenon DEF KnownMembers
<1>6. QED
  BY <1>4, <1>5 DEF Known, d

\* The values of the members stand within a text.
Placed(s, spans) ==
  \A j \in 1..Len(spans) : 1 <= spans[j][2] /\ spans[j][2] <= spans[j][3] /\ spans[j][3] <= Len(s)

\* The members of an object are valid, and stand within the text.
LEMMA WholeMembers ==
  ASSUME NEW s, NEW e, Whole(s, e)
  PROVE  /\ ValidMembers(Values(s, Reads(s)[e].members))
         /\ Reads(s)[e].members \in Seq(Spans) /\ Placed(s, Reads(s)[e].members)
<1>1. /\ s \in Seq(Chars) /\ Len(s) \in Nat /\ e \in Nat /\ e >= 2 /\ e <= Len(s)
      /\ Reads(s)[1] = Opened
      /\ Inside(s, e) /\ Outside(s, e)
  BY WholeFacts
<1>2. \A i \in 1..(e - 1) : InObject(s, i)
  BY DEF Whole
<1> DEFINE n == e - 2
           S == {j \in 0..n : Known(s, j + 1)}
<1>3. n \in Nat /\ e = n + 2
  BY <1>1
<1>4. 0 \in S
  BY <1>1, <1>3, KnownFirst
<1>5. \A j \in 0..(n - 1) : j \in S => j + 1 \in S
  <2> SUFFICES ASSUME NEW j \in 0..(n - 1), j \in S PROVE j + 1 \in S
    OBVIOUS
  <2> DEFINE i == j + 1
             m == i + 1
  <2>1. i \in Nat /\ i \in 0..n /\ i \in 1..(e - 1) /\ m \in 1..(e - 1) /\ m <= Len(s)
    BY <1>1, <1>3
  <2>2. InObject(s, i) /\ InObject(s, m) /\ Known(s, i)
    BY <1>2, <2>1
  <2> HIDE DEF i
  <2>3. Known(s, m)
    BY <1>1, <2>1, <2>2, KnownStep
  <2>4. QED
    BY <2>1, <2>3 DEF i
<1>6. Known(s, e - 1)
  <2> HIDE DEF S, n
  <2>1. \A j \in 0..n : j \in S
    BY <1>3, <1>4, <1>5, Induction
  <2>2. n \in 0..n /\ n + 1 = e - 1
    BY <1>3
  <2>3. n \in S
    BY <2>1, <2>2
  <2>4. QED
    BY <2>2, <2>3 DEF S
<1> DEFINE d == Reads(s)[e - 1]
           F == Reads(s)[e].members
           K == d.keys[1]
           i == e - 1
<1>7. d \in Decoders /\ d.pos = i /\ i \in Nat /\ i <= Len(s)
  <2>1. i \in 1..(e - 1) /\ i \in Nat /\ i <= Len(s)
    BY <1>1
  <2>2. QED
    BY <1>2, <2>1 DEF InObject
<1>8. d.members \in Seq(Spans) /\ d.key \in Words /\ d.from \in Nat
  BY <1>7, DecoderType
<1>9. Outermost(d) /\ d.at \in {"key or end", "after", "number"}
  BY <1>1 DEF Inside, Ends, Outermost
<1>10. F \in Seq(Spans) /\ KnownMembers(s, F, K)
  <2>1. F = (IF d.at = "key or end" THEN d.members ELSE Kept(d))
    BY <1>1 DEF Outside
  <2>2. KnownMembers(s, d.members, K)
    BY <1>6 DEF Known
  <2>3. CASE d.at = "key or end"
    BY <1>8, <2>1, <2>2, <2>3
  <2>4. CASE d.at # "key or end"
    <3>1. Finishes(d)
      BY <1>9, <2>4 DEF Finishes
    <3>2. Valuing(d)
      BY <1>9, <2>4, Zenon DEF Valuing
    <3>3. Keyed(d)
      BY <1>7, <3>2, StagesApart
    <3>4. Valued(s, d.from, i) /\ FreshKey(d.key, K, d.members)
      BY <1>6, <3>2, <3>3 DEF Known
    <3> DEFINE from == d.from
               span == <<d.key, from, i>>
    <3>5. ValueAt(s, from, i)
      <4>1. from \in Nat /\ Valued(s, from, i) /\ Finishes(Reads(s)[i])
        BY <1>8, <3>1, <3>4
      <4> HIDE DEF from, i
      <4>2. QED
        BY <1>1, <1>7, <4>1, ValuedIsValid
    <3>6. span \in Spans /\ span[1] = d.key /\ span[2] = from /\ span[3] = i
      BY <1>7, <1>8 DEF Spans
    <3>7. F = Append(d.members, span)
      BY <1>7, <1>9, <2>1, <2>4 DEF Kept, Outermost
    <3> HIDE DEF span, from, i, F, K
    <3>8. KnownMembers(s, Append(d.members, span), K)
      BY <1>8, <2>2, <3>4, <3>5, <3>6, MoreMembers
    <3>9. Append(d.members, span) \in Seq(Spans)
      BY <1>8, <3>6, Appended
    <3>10. QED
      BY <3>7, <3>8, <3>9
  <2>5. QED
    BY <2>3, <2>4
<1> DEFINE M == Values(s, F)
           k == Len(F)
<1> HIDE DEF d, F, K
<1>11. k \in Nat
  BY <1>10, LenProperties
<1>12. \A j \in 1..k : F[j][1] \in Words /\ ValidKey(F[j][1]) /\ ValueAt(s, F[j][2], F[j][3])
  <2>1. \A j \in 1..k : F[j] \in Spans
    BY <1>10, ElementOfSeq
  <2>2. \A j \in 1..k : KnownMember(s, F[j])
    BY <1>10 DEF KnownMembers
  <2> HIDE DEF k
  <2>3. QED
    BY <2>1, <2>2 DEF KnownMember, Spans
<1>13. /\ Len(M) = k /\ M = [j \in 1..k |-> M[j]]
       /\ \A j \in 1..k : /\ M[j] = [key |-> F[j][1], value |-> SubSeq(s, F[j][2], F[j][3])]
                         /\ M[j].key = F[j][1] /\ M[j].value = SubSeq(s, F[j][2], F[j][3])
  BY <1>10, ValuesFacts
<1> HIDE DEF M, k
<1>14. \A j \in 1..k : M[j] \in MemberRecords
  <2> SUFFICES ASSUME NEW j \in 1..k PROVE M[j] \in MemberRecords
    OBVIOUS
  <2> DEFINE key == F[j][1]
             value == SubSeq(s, F[j][2], F[j][3])
  <2>1. key \in Words /\ value \in Words
    BY <1>12 DEF ValueAt, ValidValue
  <2>2. M[j] = [key |-> key, value |-> value]
    BY <1>13
  <2> HIDE DEF key, value
  <2>3. QED
    BY <2>1, <2>2 DEF MemberRecords
<1>15. M \in Seq(MemberRecords)
  BY <1>11, <1>13, <1>14, IsASeq
<1>16. \A j, l \in 1..k : F[j][1] = F[l][1] => j = l
  BY <1>10 DEF KnownMembers, k
<1>17. ValidMembers(M)
  <2>1. \A j \in 1..k : ValidMember(M[j])
    BY <1>12, <1>13 DEF ValidMember, ValueAt
  <2>2. \A j, l \in 1..k : M[j].key = M[l].key => j = l
    BY <1>13, <1>16
  <2>3. QED
    BY <1>13, <1>15, <2>1, <2>2 DEF ValidMembers
<1>18. Placed(s, F)
  BY <1>12 DEF Placed, ValueAt, k
<1>19. QED
  BY <1>10, <1>17, <1>18 DEF M, F

\* The members of the object that a text begins with are valid.
LEMMA ObjectIsValid ==
  ASSUME NEW s \in Seq(Chars), ObjectAt(s).end # 0
  PROVE  ValidMembers(ObjectAt(s).members)
<1>1. Whole(s, ObjectAt(s).end)
  BY WholeObject
<1>2. QED
  BY <1>1, ObjectOfWhole, WholeMembers

-----------------------------------------------------------------------------
(* What is written as an object is read as it *)

\* The decoder stands where it would in every other text that begins alike.
LEMMA SameReads ==
  ASSUME NEW s \in Seq(Chars), NEW t \in Seq(Chars), NEW e \in Nat, e <= Len(s), e <= Len(t),
         \A i \in 1..e : t[i] = s[i]
  PROVE  \A i \in 0..e : Reads(t)[i] = Reads(s)[i]
<1> DEFINE n == Len(t)
           m == Len(s)
<1>1. n \in Nat /\ m \in Nat /\ e <= n /\ e <= m
  BY LenProperties
<1>2. /\ Reads(s)[0] = Begin /\ \A i \in 0..(m - 1) : Reads(s)[i + 1] = Read(Reads(s)[i], s[i + 1])
      /\ Reads(t)[0] = Begin /\ \A i \in 0..(n - 1) : Reads(t)[i + 1] = Read(Reads(t)[i], t[i + 1])
  BY ReadsStep
<1> HIDE DEF n, m
<1> DEFINE S == {i \in 0..e : Reads(t)[i] = Reads(s)[i]}
<1>3. 0 \in S
  BY <1>2
<1>4. \A i \in 0..(e - 1) : i \in S => i + 1 \in S
  <2> SUFFICES ASSUME NEW i \in 0..(e - 1), i \in S PROVE i + 1 \in S
    OBVIOUS
  <2>1. i + 1 \in 1..e /\ i + 1 \in 0..e /\ i \in 0..(m - 1) /\ i \in 0..(n - 1)
    BY <1>1
  <2>2. Reads(t)[i + 1] = Read(Reads(t)[i], t[i + 1]) /\ Reads(s)[i + 1] = Read(Reads(s)[i], s[i + 1])
    BY <1>2, <2>1
  <2>3. t[i + 1] = s[i + 1]
    BY <2>1
  <2>4. QED
    BY <2>1, <2>2, <2>3
<1>5. QED
  <2> HIDE DEF S
  <2>1. \A i \in 0..e : i \in S
    BY <1>3, <1>4, Induction
  <2>2. QED
    BY <2>1 DEF S

\* So is every part of it.
LEMMA SamePart ==
  ASSUME NEW s \in Words, NEW t \in Words, NEW e \in Nat, e <= Len(s), e <= Len(t),
         \A i \in 1..e : t[i] = s[i],
         NEW a \in Nat, NEW b \in Nat, 1 <= a, a <= b, b <= e
  PROVE  SubSeq(t, a, b) = SubSeq(s, a, b)
<1>1. s \in Seq(Chars) /\ t \in Seq(Chars) /\ Len(s) \in Nat /\ Len(t) \in Nat
  BY LenProperties DEF Words
<1> DEFINE n == b - a + 1
<1>2. n \in Nat /\ a \in 1..(Len(s) + 1) /\ a \in 1..(Len(t) + 1) /\ b \in (a - 1)..Len(s) /\ b \in (a - 1)..Len(t)
  BY <1>1
<1>3. /\ SubSeq(s, a, b) \in Seq(Chars) /\ Len(SubSeq(s, a, b)) = n
      /\ \A i \in 1..n : SubSeq(s, a, b)[i] = s[a + i - 1]
  BY <1>1, <1>2, SubSeqProperties
<1>4. /\ SubSeq(t, a, b) \in Seq(Chars) /\ Len(SubSeq(t, a, b)) = n
      /\ \A i \in 1..n : SubSeq(t, a, b)[i] = t[a + i - 1]
  BY <1>1, <1>2, SubSeqProperties
<1>5. \A i \in 1..n : a + i - 1 \in 1..e
  OBVIOUS
<1>6. \A i \in 1..n : SubSeq(t, a, b)[i] = SubSeq(s, a, b)[i]
  BY <1>3, <1>4, <1>5
<1>7. QED
  BY <1>3, <1>4, <1>6, SeqEqual

\* The text of a member of an object, without the comma.
Spelt(k, v) == <<Quote>> \o k \o <<Quote, ":">> \o v

\* Where its characters stand.
SpeltAt(W, k, v, m, n) ==
  /\ m \in Nat /\ n \in Nat
  /\ W \in Seq(Chars) /\ Len(W) = m + 3 + n
  /\ W[1] = Quote /\ W[m + 2] = Quote /\ W[m + 3] = ":"
  /\ \A j \in 1..m : W[j + 1] = k[j]
  /\ \A j \in 1..n : W[(m + 3) + j] = v[j]

\* The text of a member has its quotes, its colon, its key and its value at their places.
LEMMA SpeltFacts ==
  ASSUME NEW k \in Words, NEW v \in Words
  PROVE  SpeltAt(Spelt(k, v), k, v, Len(k), Len(v))
<1> DEFINE m == Len(k)
           n == Len(v)
           W == Spelt(k, v)
<1> DEFINE one == <<Quote>>
           two == <<Quote, ":">>
           A == one \o k
           B == A \o two
           C == B \o v
<1>1. k \in Seq(Chars) /\ v \in Seq(Chars) /\ m \in Nat /\ n \in Nat
  BY LenProperties DEF Words
<1>2. one \in Seq(Chars) /\ Len(one) = 1 /\ one[1] = Quote
  BY DEF Chars
<1>3. two \in Seq(Chars) /\ Len(two) = 2 /\ two[1] = Quote /\ two[2] = ":"
  BY DEF Chars
<1> HIDE DEF one, two, A, B, C
<1>4. A \in Seq(Chars) /\ Len(A) = 1 + m /\ A[1] = Quote /\ \A j \in 1..m : A[j + 1] = k[j]
  <2>1. /\ A \in Seq(Chars) /\ Len(A) = Len(one) + Len(k)
        /\ \A i \in 1..(Len(one) + Len(k)) : A[i] = IF i <= Len(one) THEN one[i] ELSE k[i - Len(one)]
    <3>1. one \in Seq(Chars) /\ k \in Seq(Chars) /\ A = one \o k
      BY <1>1, <1>2 DEF A
    <3>2. QED
      BY ONLY <3>1, ConcatProperties
  <2>2. \A i \in 1..(1 + m) : A[i] = IF i <= 1 THEN one[i] ELSE k[i - 1]
    BY <1>2, <2>1
  <2>3. A[1] = one[1] /\ \A j \in 1..m : A[j + 1] = k[j]
    BY ONLY <1>1, <2>2
  <2>4. QED
    BY <1>2, <2>1, <2>3
<1>5. /\ B \in Seq(Chars) /\ Len(B) = m + 3 /\ \A j \in 1..(1 + m) : B[j] = A[j]
      /\ B[m + 2] = Quote /\ B[m + 3] = ":"
  <2>1. /\ B \in Seq(Chars) /\ Len(B) = Len(A) + Len(two)
        /\ \A i \in 1..(Len(A) + Len(two)) : B[i] = IF i <= Len(A) THEN A[i] ELSE two[i - Len(A)]
    <3>1. A \in Seq(Chars) /\ two \in Seq(Chars) /\ B = A \o two
      BY <1>3, <1>4 DEF B
    <3>2. QED
      BY ONLY <3>1, ConcatProperties
  <2>2. Len(B) = m + 3 /\ \A i \in 1..(m + 3) : B[i] = IF i <= m + 1 THEN A[i] ELSE two[i - (m + 1)]
    BY <1>1, <1>3, <1>4, <2>1
  <2>3. (\A j \in 1..(1 + m) : B[j] = A[j]) /\ B[m + 2] = two[1] /\ B[m + 3] = two[2]
    BY ONLY <1>1, <2>2
  <2>4. QED
    BY <1>3, <2>1, <2>2, <2>3
<1>6. /\ C \in Seq(Chars) /\ Len(C) = m + 3 + n /\ \A j \in 1..(m + 3) : C[j] = B[j]
      /\ \A j \in 1..n : C[(m + 3) + j] = v[j]
  <2>1. /\ C \in Seq(Chars) /\ Len(C) = Len(B) + Len(v)
        /\ \A i \in 1..(Len(B) + Len(v)) : C[i] = IF i <= Len(B) THEN B[i] ELSE v[i - Len(B)]
    <3>1. B \in Seq(Chars) /\ v \in Seq(Chars) /\ C = B \o v
      BY <1>1, <1>5 DEF C
    <3>2. QED
      BY ONLY <3>1, ConcatProperties
  <2>2. Len(C) = m + 3 + n /\ \A i \in 1..(m + 3 + n) : C[i] = IF i <= m + 3 THEN B[i] ELSE v[i - (m + 3)]
    BY <1>5, <2>1
  <2>3. (\A j \in 1..(m + 3) : C[j] = B[j]) /\ \A j \in 1..n : C[(m + 3) + j] = v[j]
    BY ONLY <1>1, <2>2
  <2>4. QED
    BY <2>1, <2>2, <2>3
<1>7. W = C
  BY DEF Spelt, A, B, C, one, two
<1>8. /\ 1 \in 1..(m + 3) /\ 1 \in 1..(1 + m) /\ m + 2 \in 1..(m + 3) /\ m + 3 \in 1..(m + 3)
      /\ \A j \in 1..m : j + 1 \in 1..(1 + m) /\ j + 1 \in 1..(m + 3)
  BY ONLY <1>1
<1>9. QED
  <2> SUFFICES SpeltAt(W, k, v, m, n)
    OBVIOUS
  <2> HIDE DEF W, m, n
  <2>1. QED
    BY ONLY <1>1, <1>4, <1>5, <1>6, <1>7, <1>8 DEF SpeltAt

\* One text begins with another.
Extends(T, U) ==
  /\ T \in Words /\ U \in Words /\ Len(T) \in Nat /\ Len(U) \in Nat /\ Len(T) <= Len(U)
  /\ \A j \in 1..Len(T) : U[j] = T[j]

\* A text with another after it begins with the first, and the other follows.
LEMMA ExtendsFacts ==
  ASSUME NEW T \in Words, NEW W \in Words, NEW U, U = T \o W
  PROVE  /\ Extends(T, U) /\ Len(T) \in Nat /\ Len(W) \in Nat /\ Len(U) = Len(T) + Len(W)
         /\ \A j \in 1..Len(W) : U[Len(T) + j] = W[j]
<1> DEFINE a == Len(T)
           b == Len(W)
<1>1. T \in Seq(Chars) /\ W \in Seq(Chars) /\ a \in Nat /\ b \in Nat
  BY LenProperties DEF Words
<1>2. /\ U \in Seq(Chars) /\ Len(U) = a + b
      /\ \A i \in 1..(a + b) : U[i] = IF i <= a THEN T[i] ELSE W[i - a]
  <2>1. T \in Seq(Chars) /\ W \in Seq(Chars) /\ U = T \o W
    BY <1>1
  <2>2. QED
    BY ONLY <2>1, ConcatProperties
<1> HIDE DEF a, b
<1>3. (\A j \in 1..a : U[j] = T[j]) /\ (\A j \in 1..b : U[a + j] = W[j]) /\ a <= a + b /\ a + b \in Nat
  BY ONLY <1>1, <1>2
<1>4. QED
  BY <1>1, <1>2, <1>3 DEF Extends, Words, a, b

\* The first members of M are what was read, where they stand in T.
Holds(T, members, M, i) ==
  /\ Len(members) = i
  /\ \A j \in 1..i : /\ members[j][1] = M[j].key
                     /\ 1 <= members[j][2] /\ members[j][2] <= members[j][3] /\ members[j][3] <= Len(T)
                     /\ SubSeq(T, members[j][2], members[j][3]) = M[j].value

\* The members stand in every longer text too.
LEMMA HoldsLonger ==
  ASSUME NEW T, NEW U, Extends(T, U), NEW members \in Seq(Spans), NEW M, NEW i \in Nat, Holds(T, members, M, i)
  PROVE  Holds(U, members, M, i)
<1>1. /\ T \in Words /\ U \in Words /\ Len(T) \in Nat /\ Len(U) \in Nat /\ Len(T) <= Len(U)
      /\ \A j \in 1..Len(T) : U[j] = T[j]
  BY DEF Extends
<1>2. Len(members) = i
  BY DEF Holds
<1>3. ASSUME NEW j \in 1..i
      PROVE  /\ members[j][1] = M[j].key
             /\ 1 <= members[j][2] /\ members[j][2] <= members[j][3] /\ members[j][3] <= Len(U)
             /\ SubSeq(U, members[j][2], members[j][3]) = M[j].value
  <2> DEFINE a == members[j][2]
             b == members[j][3]
  <2>1. a \in Nat /\ b \in Nat
    <3>1. members[j] \in Spans
      BY <1>2, ElementOfSeq
    <3>2. QED
      BY <3>1 DEF Spans
  <2>2. members[j][1] = M[j].key /\ 1 <= a /\ a <= b /\ b <= Len(T) /\ SubSeq(T, a, b) = M[j].value
    BY DEF Holds
  <2> HIDE DEF a, b
  <2>3. b <= Len(U)
    BY <1>1, <2>1, <2>2
  <2>4. SubSeq(U, a, b) = SubSeq(T, a, b)
    BY <1>1, <2>1, <2>2, SamePart
  <2>5. QED
    BY <2>2, <2>3, <2>4 DEF a, b
<1>4. QED
  BY <1>2, <1>3 DEF Holds

\* One more member, whose key and value are those of M, stands in it too.
LEMMA HoldsMore ==
  ASSUME NEW T, NEW members \in Seq(Spans), NEW M, NEW i \in Nat, Holds(T, members, M, i), NEW m, m = i + 1,
         NEW span \in Spans, span[1] = M[m].key, 1 <= span[2], span[2] <= span[3], span[3] <= Len(T),
         SubSeq(T, span[2], span[3]) = M[m].value
  PROVE  Holds(T, Append(members, span), M, m)
<1> DEFINE more == Append(members, span)
<1>1. Len(members) = i /\ Len(more) = m /\ more[m] = span /\ \A j \in 1..i : more[j] = members[j]
  <2>1. Len(members) = i
    BY DEF Holds
  <2>2. /\ Len(more) = Len(members) + 1 /\ more[Len(members) + 1] = span
        /\ \A j \in 1..Len(members) : more[j] = members[j]
    BY Appended
  <2> HIDE DEF more
  <2>3. QED
    BY <2>1, <2>2
<1>2. \A j \in 1..m : j \in 1..i \/ j = m
  OBVIOUS
<1> HIDE DEF more
<1>3. ASSUME NEW j \in 1..m
      PROVE  /\ more[j][1] = M[j].key
             /\ 1 <= more[j][2] /\ more[j][2] <= more[j][3] /\ more[j][3] <= Len(T)
             /\ SubSeq(T, more[j][2], more[j][3]) = M[j].value
  <2>1. CASE j = m
    BY <1>1, <2>1
  <2>2. CASE j \in 1..i
    BY <1>1, <2>2 DEF Holds
  <2>3. QED
    BY <1>2, <2>1, <2>2
<1>4. QED
  BY <1>1, <1>3 DEF Holds, more

\* T is the beginning of an object.
Unclosed(T) ==
  T \in Words /\ Len(T) >= 1 /\ T[1] \in Braces /\ \A j \in 1..Len(T) : InObject(T, j)

KeysOf(M, i) == {M[j].key : j \in 1..i}

\* It ends where the next key may begin, after i members; or with the last of i members.
UpToKey(T, M, i) ==
  /\ Unclosed(T) /\ KeyFits(Reads(T)[Len(T)])
  /\ Holds(T, Reads(T)[Len(T)].members, M, i) /\ Reads(T)[Len(T)].keys[1] = KeysOf(M, i)

UpToEnd(T, M, i) ==
  /\ Unclosed(T) /\ Finishes(Reads(T)[Len(T)])
  /\ Holds(T, Kept(Reads(T)[Len(T)]), M, i) /\ Reads(T)[Len(T)].keys[1] = KeysOf(M, i)

\* In a longer text the decoder stands where it stood in the first.
LEMMA UnclosedLonger ==
  ASSUME NEW T, Unclosed(T), NEW U, Extends(T, U)
  PROVE  /\ \A j \in 0..Len(T) : Reads(U)[j] = Reads(T)[j]
         /\ \A j \in 1..Len(T) : InObject(U, j)
         /\ U[1] \in Braces /\ Len(T) \in 1..Len(T) /\ Len(T) \in 0..Len(T)
         /\ Reads(T)[Len(T)] \in Decoders /\ Reads(T)[Len(T)].pos = Len(T)
<1> DEFINE n == Len(T)
<1>1. /\ T \in Words /\ U \in Words /\ n \in Nat /\ Len(U) \in Nat /\ n <= Len(U)
      /\ \A j \in 1..n : U[j] = T[j]
  BY DEF Extends
<1>2. n >= 1 /\ T[1] \in Braces /\ \A j \in 1..n : InObject(T, j)
  BY DEF Unclosed
<1>3. 1 \in 1..n /\ n \in 1..n /\ n \in 0..n
  <2> HIDE DEF n
  <2>1. QED
    BY <1>1, <1>2
<1>4. T \in Seq(Chars) /\ U \in Seq(Chars)
  BY <1>1 DEF Words
<1>5. \A j \in 0..n : Reads(U)[j] = Reads(T)[j]
  <2>1. n <= Len(T)
    BY <1>1
  <2> HIDE DEF n
  <2>2. QED
    BY <1>1, <1>4, <2>1, SameReads
<1>6. \A j \in 1..n : InObject(U, j)
  <2>1. \A j \in 1..n : j \in 0..n
    BY <1>1
  <2> HIDE DEF n
  <2>2. QED
    BY <1>2, <1>5, <2>1 DEF InObject
<1>7. U[1] = T[1]
  BY <1>1, <1>3
<1>8. InObject(T, n)
  BY <1>2, <1>3
<1>9. QED
  BY <1>2, <1>3, <1>5, <1>6, <1>7, <1>8 DEF InObject

\* The next member is read after a comma or the opening brace.
LEMMA MemberAdded ==
  ASSUME NEW M, ValidMembers(M), NEW i \in Nat, NEW next, next = i + 1, next <= Len(M),
         NEW T, UpToKey(T, M, i), NEW U, U = T \o Spelt(M[next].key, M[next].value)
  PROVE  UpToEnd(U, M, next)
<1> DEFINE k == M[next].key
           v == M[next].value
           W == Spelt(k, v)
           m == Len(k)
           n == Len(v)
           a == Len(T)
           q == a + 1 + m
           r == q + 2
           last == r + n
           d == Reads(T)[a]
           x == Reads(U)[last]
<1>1. Len(M) \in Nat /\ next \in Nat /\ next \in 1..Len(M)
  <2>1. M \in Seq(MemberRecords)
    BY DEF ValidMembers
  <2>2. Len(M) \in Nat
    BY <2>1, LenProperties
  <2>3. QED
    BY <2>2
<1>2. /\ ValidKey(k) /\ ValidValue(v)
      /\ \A j, l \in 1..Len(M) : M[j].key = M[l].key => j = l
  BY <1>1 DEF ValidMembers, ValidMember
<1>3. k \in Words /\ v \in Words /\ n >= 1
  BY <1>2 DEF ValidKey, ValidValue
<1>4. /\ m \in Nat /\ n \in Nat
      /\ W \in Seq(Chars) /\ Len(W) = m + 3 + n
      /\ W[1] = Quote /\ W[m + 2] = Quote /\ W[m + 3] = ":"
      /\ \A j \in 1..m : W[j + 1] = k[j]
      /\ \A j \in 1..n : W[(m + 3) + j] = v[j]
  <2>1. SpeltAt(W, k, v, m, n)
    BY <1>3, SpeltFacts
  <2> HIDE DEF W, k, v, m, n
  <2>2. QED
    BY ONLY <2>1 DEF SpeltAt
<1>5. Unclosed(T) /\ T \in Words /\ a >= 1
  BY DEF UpToKey, Unclosed
<1> HIDE DEF k, v, W
<1>6. /\ Extends(T, U) /\ a \in Nat /\ U \in Words /\ Len(U) = a + Len(W)
      /\ \A j \in 1..Len(W) : U[a + j] = W[j]
  <2>1. U = T \o W /\ W \in Words
    BY <1>4 DEF k, v, W, Words
  <2>2. /\ Extends(T, U) /\ Len(T) \in Nat /\ Len(U) = Len(T) + Len(W)
        /\ \A j \in 1..Len(W) : U[Len(T) + j] = W[j]
    <3>1. T \in Words /\ W \in Words /\ U = T \o W
      BY <1>5, <2>1
    <3>2. QED
      BY ONLY <3>1, ExtendsFacts
  <2>3. U \in Words
    BY <2>2 DEF Extends
  <2>4. QED
    BY <2>2, <2>3
<1>7. /\ \A j \in 0..a : Reads(U)[j] = Reads(T)[j]
      /\ \A j \in 1..a : InObject(U, j)
      /\ U[1] \in Braces /\ a \in 1..a /\ a \in 0..a
      /\ d \in Decoders /\ d.pos = a
  BY <1>5, <1>6, UnclosedLonger
<1> HIDE DEF a, m, n
<1>8. q \in Nat /\ r \in Nat /\ last \in Nat /\ Len(U) = last /\ last >= 1
  BY <1>4, <1>5, <1>6
<1>9. MemberAt(U, a + 1, q, r, k, v)
  <2>1. \A j \in 1..(m + 3 + n) : U[a + j] = W[j]
    BY <1>4, <1>6
  <2>2. /\ a + 1 = a + 1 /\ q + 1 = a + (m + 2) /\ r = a + (m + 3)
        /\ 1 \in 1..(m + 3 + n) /\ m + 2 \in 1..(m + 3 + n) /\ m + 3 \in 1..(m + 3 + n)
        /\ \A j \in 1..m : (a + 1) + j = a + (j + 1) /\ j + 1 \in 1..(m + 3 + n)
        /\ \A j \in 1..n : r + j = a + ((m + 3) + j) /\ (m + 3) + j \in 1..(m + 3 + n)
    <3>1. a \in Nat /\ m \in Nat /\ n \in Nat
      BY <1>4, <1>6
    <3>2. QED
      BY ONLY <3>1
  <2> HIDE DEF q, r
  <2>3. U[a + 1] = Quote /\ U[q + 1] = Quote /\ U[r] = ":"
    BY <1>4, <2>1, <2>2
  <2>4. \A j \in 1..m : U[(a + 1) + j] = k[j]
    BY <1>4, <2>1, <2>2
  <2>5. \A j \in 1..n : U[r + j] = v[j]
    BY <1>4, <2>1, <2>2
  <2>6. q = (a + 1) + m /\ r = q + 2 /\ r + n <= Len(U)
    BY <1>8 DEF q, r, last
  <2>7. QED
    BY <2>3, <2>4, <2>5, <2>6 DEF MemberAt, m, n
<1>10. /\ InObject(U, a) /\ Reads(U)[a] = d /\ KeyFits(d)
       /\ d.keys[1] = KeysOf(M, i) /\ Holds(T, d.members, M, i)
  BY <1>7 DEF UpToKey, a
<1>11. k \notin KeysOf(M, i)
  <2> SUFFICES ASSUME NEW j \in 1..i, M[j].key = k PROVE FALSE
    BY DEF KeysOf
  <2>1. j \in 1..Len(M) /\ j # next
    BY <1>1
  <2>2. QED
    BY <1>1, <1>2, <2>1 DEF k
<1> HIDE DEF d, q
<1>12. /\ \A j \in a..last : InObject(U, j)
       /\ x \in Decoders /\ Finishes(x) /\ x.pos = last
       /\ x.key = k /\ x.from = r + 1 /\ x.members = d.members
       /\ x.keys[1] = KeysOf(M, i) \cup {k}
  <2>1. /\ U \in Seq(Chars) /\ ValidKey(k) /\ ValidValue(v) /\ a \in Nat /\ q \in Nat /\ r \in Nat
        /\ MemberAt(U, a + 1, q, r, k, v) /\ InObject(U, a) /\ KeyFits(Reads(U)[a]) /\ k \notin Reads(U)[a].keys[1]
        /\ x = Reads(U)[r + Len(v)] /\ last = r + Len(v)
    BY <1>2, <1>6, <1>8, <1>9, <1>10, <1>11 DEF Words, n
  <2> HIDE DEF x, r, last
  <2>2. /\ \A j \in a..(r + Len(v)) : InObject(U, j)
        /\ x \in Decoders /\ Finishes(x) /\ x.pos = r + Len(v)
        /\ x.key = k /\ x.from = r + 1 /\ x.members = Reads(U)[a].members
        /\ x.keys[1] = Reads(U)[a].keys[1] \cup {k}
    BY ONLY <2>1, ReadMember
  <2>3. QED
    BY <1>10, <2>1, <2>2
<1>13. Unclosed(U)
  <2>1. ASSUME NEW j \in 1..Len(U) PROVE InObject(U, j)
    <3>1. j \in 1..a \/ j \in a..last
      BY <1>6, <1>8
    <3>2. QED
      BY <1>7, <1>12, <3>1
  <2>2. QED
    BY <1>6, <1>7, <1>8, <2>1 DEF Unclosed
<1>14. KeysOf(M, i) \cup {k} = KeysOf(M, next)
  <2>1. \A j \in 1..next : j \in 1..i \/ j = next
    BY <1>1
  <2>2. \A j \in 1..i : j \in 1..next
    BY <1>1
  <2>3. next \in 1..next
    BY <1>1
  <2>4. QED
    BY <2>1, <2>2, <2>3 DEF KeysOf, k
<1>15. Holds(U, Kept(x), M, next)
  <2> DEFINE from == r + 1
             span == <<k, from, last>>
  <2>1. d.members \in Seq(Spans)
    BY <1>7, DecoderType
  <2>2. Holds(U, d.members, M, i)
    BY <1>6, <1>10, <2>1, HoldsLonger
  <2>3. from \in Nat /\ last \in Nat /\ 1 <= from /\ from <= last /\ last <= Len(U) /\
        last = from - 1 + n /\ last - from + 1 = n
    BY <1>3, <1>4, <1>8 DEF last, n
  <2>4. span \in Spans /\ span[1] = k /\ span[2] = from /\ span[3] = last
    BY <1>3, <2>3 DEF Spans
  <2>5. SubSeq(U, from, last) = v
    <3>1. U \in Seq(Chars) /\ v \in Seq(Chars) /\ Len(v) = n
      BY <1>3, <1>6 DEF Words, n
    <3>2. \A j \in 1..n : U[r + j] = v[j]
      BY <1>9 DEF MemberAt, n
    <3>3. \A j \in 1..n : from + j - 1 = r + j
      BY <1>8, <2>3
    <3>4. /\ SubSeq(U, from, last) \in Seq(Chars) /\ Len(SubSeq(U, from, last)) = n
          /\ \A j \in 1..n : SubSeq(U, from, last)[j] = U[from + j - 1]
      <4>1. \A j \in from..last : j \in 1..Len(U)
        BY <1>8, <2>3
      <4>2. \A j \in from..last : U[j] \in Chars
        BY <3>1, <4>1, ElementOfSeq
      <4> HIDE DEF from, last
      <4>3. /\ SubSeq(U, from, last) \in Seq(Chars)
            /\ Len(SubSeq(U, from, last)) = (IF from <= last THEN last - from + 1 ELSE 0)
            /\ \A j \in 1..(last - from + 1) : SubSeq(U, from, last)[j] = U[from + j - 1]
        BY <2>3, <4>2, SubSeqProperties
      <4>4. QED
        BY <2>3, <4>3
    <3> HIDE DEF from, last, r
    <3>5. ASSUME NEW j \in 1..n PROVE SubSeq(U, from, last)[j] = v[j]
      <4>1. from + j - 1 = r + j
        BY <3>3
      <4>2. SubSeq(U, from, last)[j] = U[from + j - 1]
        BY <3>4
      <4>3. QED
        BY <3>2, <4>1, <4>2
    <3>6. QED
      BY <3>1, <3>4, <3>5, SeqEqual
  <2>6. Kept(x) = Append(d.members, span)
    BY <1>12 DEF Kept, Finishes, Outermost
  <2> HIDE DEF span, from, last
  <2>7. span[1] = M[next].key /\ SubSeq(U, span[2], span[3]) = M[next].value
    BY <2>4, <2>5 DEF k, v
  <2>8. 1 <= span[2] /\ span[2] <= span[3] /\ span[3] <= Len(U)
    BY <2>3, <2>4
  <2>9. Holds(U, Append(d.members, span), M, next)
    BY <2>1, <2>2, <2>4, <2>7, <2>8, HoldsMore
  <2>10. QED
    BY <2>6, <2>9
<1>16. QED
  <2>1. x = Reads(U)[Len(U)]
    BY <1>8
  <2> HIDE DEF x, last
  <2>2. QED
    BY <1>12, <1>13, <1>14, <1>15, <2>1 DEF UpToEnd

\* One character more.
Followed(T, c, U) == U = T \o <<c>>

\* The decoder reads the character that follows.
LEMMA OneMore ==
  ASSUME NEW T \in Words, Len(T) >= 1, NEW c \in Chars, NEW U, Followed(T, c, U)
  PROVE  /\ Extends(T, U) /\ U \in Words /\ Len(T) \in Nat /\ Len(U) = Len(T) + 1 /\ U[Len(T) + 1] = c
         /\ Reads(U)[Len(T) + 1] = Read(Reads(U)[Len(T)], c)
<1> DEFINE one == <<c>>
           n == Len(T)
<1>1. one \in Words /\ Len(one) = 1 /\ one[1] = c
  BY DEF Words
<1> HIDE DEF one
<1>2. /\ Extends(T, U) /\ n \in Nat /\ Len(U) = n + Len(one)
      /\ \A j \in 1..Len(one) : U[n + j] = one[j]
  <2>1. T \in Words /\ one \in Words /\ U = T \o one
    BY <1>1 DEF one, Followed
  <2>2. QED
    BY ONLY <2>1, ExtendsFacts
<1> HIDE DEF n
<1>3. Len(U) = n + 1 /\ U[n + 1] = c
  BY <1>1, <1>2
<1>4. U \in Seq(Chars)
  BY <1>2 DEF Extends, Words
<1>5. Reads(U)[n + 1] = Read(Reads(U)[n], c)
  <2>1. n \in 0..(Len(U) - 1)
    BY <1>2, <1>3
  <2>2. Reads(U)[n + 1] = Read(Reads(U)[n], U[n + 1])
    BY <1>4, <2>1, ReadsStep
  <2>3. QED
    BY <1>3, <2>2
<1>6. QED
  BY <1>2, <1>3, <1>4, <1>5 DEF Words, n

\* A comma follows the member.
LEMMA CommaAdded ==
  ASSUME NEW T, NEW M, NEW i \in Nat, UpToEnd(T, M, i), NEW U, Followed(T, ",", U)
  PROVE  UpToKey(U, M, i)
<1> DEFINE n == Len(T)
           d == Reads(T)[n]
           m == n + 1
           e == Reads(U)[m]
<1>1. Unclosed(T) /\ T \in Words /\ n >= 1
  BY DEF UpToEnd, Unclosed
<1>2. /\ Extends(T, U) /\ U \in Words /\ n \in Nat /\ Len(U) = m /\ m \in Nat
      /\ Reads(U)[m] = Read(Reads(U)[n], ",")
  <2> DEFINE c == ","
  <2>1. c \in Chars /\ Followed(T, c, U)
    BY DEF Chars
  <2> HIDE DEF c
  <2>2. /\ Extends(T, U) /\ U \in Words /\ n \in Nat /\ Len(U) = n + 1
        /\ Reads(U)[n + 1] = Read(Reads(U)[n], c)
    BY <1>1, <2>1, OneMore
  <2> HIDE DEF n
  <2>3. m \in Nat
    BY ONLY <2>2
  <2>4. QED
    BY ONLY <2>2, <2>3 DEF c
<1>3. /\ \A j \in 0..n : Reads(U)[j] = Reads(T)[j]
      /\ \A j \in 1..n : InObject(U, j)
      /\ U[1] \in Braces /\ n \in 0..n
      /\ d \in Decoders /\ d.pos = n
  BY <1>1, <1>2, UnclosedLonger
<1>4. Finishes(d) /\ d.keys[1] = KeysOf(M, i) /\ Holds(T, Kept(d), M, i)
  BY DEF UpToEnd
<1>5. e = Read(d, ",")
  BY <1>2, <1>3
<1> HIDE DEF d, e
<1>6. /\ e \in Decoders /\ KeyFits(e) /\ e.pos = n + 1 /\ e.keys = d.keys
      /\ e.members = Append(d.members, <<d.key, d.from, d.pos>>)
  BY <1>3, <1>4, <1>5, CommaRead
<1>7. e.members = Kept(d) /\ e.members \in Seq(Spans)
  BY <1>4, <1>6, DecoderType DEF Kept, Finishes, Outermost
<1>8. Unclosed(U)
  <2>1. InObject(U, m)
    BY <1>6 DEF InObject, e
  <2>2. (\A j \in 1..m : j \in 1..n \/ j = m) /\ Len(U) >= 1
    <3>1. n \in Nat /\ Len(U) = m
      BY <1>2
    <3> HIDE DEF n
    <3>2. QED
      BY ONLY <3>1
  <2> HIDE DEF m, n
  <2>3. QED
    BY <1>2, <1>3, <2>1, <2>2 DEF Unclosed
<1>9. Holds(U, e.members, M, i)
  <2>1. Holds(T, e.members, M, i)
    BY <1>4, <1>7
  <2>2. QED
    BY <1>2, <1>7, <2>1, HoldsLonger
<1> HIDE DEF m
<1>10. QED
  BY <1>2, <1>4, <1>6, <1>8, <1>9 DEF UpToKey, e

\* A brace after the last member, or after no member, ends the object.
LEMMA BraceAdded ==
  ASSUME NEW T, NEW M, NEW i \in Nat,
         UpToEnd(T, M, i) \/ (UpToKey(T, M, i) /\ Reads(T)[Len(T)].at = "key or end"),
         NEW U, Followed(T, "}", U)
  PROVE  Whole(U, Len(U)) /\ Holds(U, Reads(U)[Len(U)].members, M, i) /\ Reads(U)[Len(U)].members \in Seq(Spans)
<1> DEFINE n == Len(T)
           d == Reads(T)[n]
           m == n + 1
           e == Reads(U)[m]
<1>1. Unclosed(T) /\ T \in Words /\ n >= 1
  BY DEF UpToEnd, UpToKey, Unclosed
<1>2. /\ Extends(T, U) /\ U \in Words /\ n \in Nat /\ Len(U) = m /\ m \in Nat /\ U[m] = "}"
      /\ Reads(U)[m] = Read(Reads(U)[n], "}")
  <2> DEFINE c == "}"
  <2>1. c \in Chars /\ Followed(T, c, U)
    BY DEF Chars, Brackets
  <2> HIDE DEF c
  <2>2. /\ Extends(T, U) /\ U \in Words /\ n \in Nat /\ Len(U) = n + 1 /\ U[n + 1] = c
        /\ Reads(U)[n + 1] = Read(Reads(U)[n], c)
    BY <1>1, <2>1, OneMore
  <2> HIDE DEF n
  <2>3. m \in Nat
    BY ONLY <2>2
  <2>4. QED
    BY ONLY <2>2, <2>3 DEF c
<1>3. /\ \A j \in 0..n : Reads(U)[j] = Reads(T)[j]
      /\ \A j \in 1..n : InObject(U, j)
      /\ U[1] \in Braces /\ n \in 0..n
      /\ d \in Decoders /\ d.pos = n
  BY <1>1, <1>2, UnclosedLonger
<1>4. e = Read(d, "}") /\ "}" \in Chars
  BY <1>2, <1>3 DEF Chars, Brackets
<1> DEFINE F == IF d.at = "key or end" THEN d.members ELSE Kept(d)
<1>5. Ends(d, "}") /\ Holds(T, F, M, i) /\ F \in Seq(Spans)
  <2>1. d.members \in Seq(Spans) /\ d.key \in Words /\ d.from \in Nat /\ d.pos \in Nat
    BY <1>3, DecoderType
  <2>2. CASE UpToEnd(T, M, i)
    <3>1. Finishes(d) /\ Holds(T, Kept(d), M, i)
      BY <2>2 DEF UpToEnd
    <3>2. Len(d.open) = 1 /\ d.at \in {"after", "number"} /\ F = Kept(d)
      BY <3>1 DEF Finishes, Outermost
    <3>3. Kept(d) = Append(d.members, <<d.key, d.from, d.pos>>)
      BY <3>2 DEF Kept
    <3> DEFINE span == <<d.key, d.from, d.pos>>
    <3>4. span \in Spans
      BY <2>1 DEF Spans
    <3> HIDE DEF span
    <3>5. Append(d.members, span) \in Seq(Spans)
      BY <2>1, <3>4, Appended
    <3>6. QED
      BY <3>1, <3>2, <3>3, <3>5 DEF Ends, span
  <2>3. CASE UpToKey(T, M, i) /\ Reads(T)[Len(T)].at = "key or end"
    <3>1. Len(d.open) = 1 /\ d.at = "key or end" /\ F = d.members /\ Holds(T, d.members, M, i)
      BY <2>3 DEF UpToKey, KeyFits, Outermost
    <3>2. QED
      BY <2>1, <3>1 DEF Ends
  <2>4. QED
    BY <2>2, <2>3
<1>6. e.members = F
  <2> DEFINE c == "}"
  <2>1. c \in Chars /\ Ends(d, c) /\ e = Read(d, c)
    BY <1>4, <1>5
  <2> HIDE DEF c, d, e
  <2>2. QED
    BY <1>3, <2>1, ReadEnd
<1> HIDE DEF F
<1>7. Holds(U, F, M, i)
  BY <1>2, <1>5, HoldsLonger
<1>8. Whole(U, m)
  <2>1. m \in 2..Len(U) /\ m - 1 = n
    <3>1. n \in Nat /\ n >= 1 /\ Len(U) = m
      BY <1>1, <1>2
    <3> HIDE DEF n
    <3>2. QED
      BY ONLY <3>1
  <2>2. Ends(Reads(U)[n], U[m])
    BY <1>2, <1>3, <1>5
  <2>3. U \in Seq(Chars)
    BY <1>2 DEF Words
  <2> HIDE DEF m, n
  <2>4. QED
    BY <1>3, <2>1, <2>2, <2>3 DEF Whole
<1>9. QED
  BY <1>2, <1>5, <1>6, <1>7, <1>8

\* The opening brace.
OpeningBrace == <<"{">>

\* After the opening brace the first key, or the end, may follow.
LEMMA BraceOpens ==
  ASSUME NEW M
  PROVE  /\ UpToKey(OpeningBrace, M, 0) /\ Len(OpeningBrace) = 1
         /\ Reads(OpeningBrace)[Len(OpeningBrace)].at = "key or end"
<1> DEFINE T == OpeningBrace
           d == Reads(T)[1]
<1>1. T \in Words /\ T[1] = "{" /\ T[1] \in Braces
  <2>1. "{" \in Chars
    BY DEF Chars, Brackets
  <2>2. QED
    <3> DEFINE c == "{"
    <3>1. c \in Chars /\ c \in Braces /\ T = <<c>>
      BY <2>1 DEF OpeningBrace, Braces
    <3> HIDE DEF T, c
    <3>2. T \in Words /\ T[1] = c
      BY <3>1 DEF Words
    <3>3. QED
      BY <3>1, <3>2 DEF c
<1>2. Len(T) = 1
  BY DEF OpeningBrace
<1> HIDE DEF T
<1>3. d = Opened
  <2>1. 0 \in 0..(Len(T) - 1) /\ 0 + 1 = 1
    BY ONLY <1>2
  <2>2. T \in Seq(Chars)
    BY <1>1 DEF Words
  <2>3. Reads(T)[0] = Begin /\ Reads(T)[0 + 1] = Read(Reads(T)[0], T[0 + 1])
    BY <2>1, <2>2, ReadsStep
  <2>4. d = Read(Begin, T[1])
    BY <2>1, <2>3
  <2>5. d = Read(Begin, "{")
    BY <1>1, <2>4, Zenon
  <2>6. QED
    BY <2>5, Opening
<1>4. d \in Decoders /\ d.pos = 1
  BY <1>3, Opening
<1>5. d.at = "key or end" /\ d.open = <<"{">> /\ d.members = <<>> /\ d.keys = <<{}>>
  <2> DEFINE at == "key or end"
             open == <<"{">>
             keys == <<{}>>
  <2>1. d = Decoder(at, open, keys, <<>>, <<>>, 0, <<>>, 1)
    BY <1>3 DEF Opened
  <2> HIDE DEF at, open, keys, d
  <2>2. d.at = at /\ d.open = open /\ d.members = <<>> /\ d.keys = keys
    BY ONLY <2>1, DecoderFields
  <2>3. QED
    BY <2>2 DEF at, open, keys
<1>6. KeyFits(d)
  <2>1. Len(<<"{">>) = 1
    OBVIOUS
  <2>2. QED
    BY <1>5, <2>1 DEF KeyFits, Outermost
<1>7. Unclosed(T)
  <2>1. (\A j \in 1..Len(T) : j = 1) /\ Len(T) >= 1
    BY ONLY <1>2
  <2>2. InObject(T, 1)
    BY <1>4 DEF InObject
  <2>3. QED
    BY <1>1, <2>1, <2>2 DEF Unclosed
<1>8. Holds(T, <<>>, M, 0)
  <2>1. Len(<<>>) = 0 /\ 1..0 = {}
    OBVIOUS
  <2>2. QED
    BY ONLY <2>1 DEF Holds
<1>9. d.keys[1] = KeysOf(M, 0)
  <2>1. <<{}>>[1] = {}
    OBVIOUS
  <2>2. \A j \in 1..0 : FALSE
    OBVIOUS
  <2>3. KeysOf(M, 0) = {}
    BY ONLY <2>2 DEF KeysOf
  <2>4. d.keys[1] = {}
    BY <1>5, <2>1
  <2>5. QED
    BY <2>3, <2>4
<1> HIDE DEF d
<1>10. QED
  BY <1>2, <1>5, <1>6, <1>7, <1>8, <1>9 DEF UpToKey, d, T

\* What a text holds as its members is what it is an object of.
LEMMA HeldValues ==
  ASSUME NEW T, NEW members \in Seq(Spans), NEW M, ValidMembers(M), Holds(T, members, M, Len(M))
  PROVE  Values(T, members) = M
<1> DEFINE n == Len(M)
           V == Values(T, members)
<1>1. M \in Seq(MemberRecords)
  BY DEF ValidMembers
<1>2. n \in Nat /\ \A j \in 1..n : M[j] \in MemberRecords
  BY <1>1, LenProperties, ElementOfSeq
<1>3. Len(members) = n
  BY DEF Holds
<1>4. /\ V = [j \in 1..n |-> V[j]]
      /\ \A j \in 1..n : V[j] = [key |-> members[j][1], value |-> SubSeq(T, members[j][2], members[j][3])]
  BY <1>3, ValuesFacts
<1>5. \A j \in 1..n : members[j][1] = M[j].key /\ SubSeq(T, members[j][2], members[j][3]) = M[j].value
  BY DEF Holds
<1> HIDE DEF n, V
<1>6. \A j \in 1..n : V[j] = M[j]
  <2> SUFFICES ASSUME NEW j \in 1..n PROVE V[j] = M[j]
    OBVIOUS
  <2>1. V[j] = [key |-> M[j].key, value |-> M[j].value]
    BY <1>4, <1>5
  <2>2. M[j] = [key |-> M[j].key, value |-> M[j].value]
    BY <1>2 DEF MemberRecords
  <2>3. QED
    BY <2>1, <2>2
<1>7. M = [j \in 1..n |-> M[j]]
  BY <1>1, <1>2 DEF n
<1>8. QED
  BY <1>4, <1>6, <1>7 DEF V

\* One text put behind another, as an operator the provers know only by the lemma below.
Cat(s, t) == s \o t

\* Concatenation stays among the sequences and is associative.
LEMMA CatFacts ==
  ASSUME NEW S, NEW s \in Seq(S), NEW t \in Seq(S), NEW u \in Seq(S)
  PROVE  Cat(s, t) \in Seq(S) /\ Cat(Cat(s, t), u) = Cat(s, Cat(t, u))
<1>1. s \o t \in Seq(S)
  BY ConcatProperties
<1>2. (s \o t) \o u = s \o (t \o u)
  BY ConcatAssociative
<1>3. QED
  BY <1>1, <1>2, Zenon DEF Cat

\* How the four parts of a text are put together does not matter.
LEMMA FourParts ==
  ASSUME NEW S, NEW a \in Seq(S), NEW b \in Seq(S), NEW c \in Seq(S), NEW d \in Seq(S)
  PROVE  a \o (b \o (c \o d)) = ((a \o b) \o c) \o d
<1>1. Cat(c, d) \in Seq(S) /\ Cat(a, b) \in Seq(S)
  BY CatFacts
<1>2. Cat(Cat(a, b), Cat(c, d)) = Cat(a, Cat(b, Cat(c, d)))
  BY <1>1, CatFacts
<1>3. Cat(Cat(Cat(a, b), c), d) = Cat(Cat(a, b), Cat(c, d))
  BY <1>1, CatFacts
<1>4. Cat(a, Cat(b, Cat(c, d))) = Cat(Cat(Cat(a, b), c), d)
  BY <1>2, <1>3, Zenon
<1>5. QED
  BY <1>4, Zenon DEF Cat

\* The text of members that may stand in an object is an object with these members.
THEOREM DumpedIsWhole ==
  ASSUME NEW M, ValidMembers(M)
  PROVE  /\ Dumped(M) \in Seq(Chars) /\ Dumped(M) # <<>>
         /\ ObjectAt(Dumped(M)).end = Len(Dumped(M)) /\ ObjectAt(Dumped(M)).members = M
<1> DEFINE n == Len(M)
           Sp(i) == Spelt(M[i].key, M[i].value)
           Comma(i) == IF i < n THEN <<",">> ELSE <<>>
           Part(i) == Sp(i) \o Comma(i)
           parts == [i \in 1..n |-> Part(i)]
<1>1. M \in Seq(MemberRecords) /\ n \in Nat
  <2>1. M \in Seq(MemberRecords)
    BY DEF ValidMembers
  <2>2. QED
    BY <2>1, LenProperties
<1>2. Dumped(M) = OpeningBrace \o FlattenSeq(parts) \o <<"}">>
  BY DEF Dumped, OpeningBrace, Spelt
<1>3. \A i \in 1..n : Sp(i) \in Seq(Chars)
  <2> SUFFICES ASSUME NEW i \in 1..n PROVE Sp(i) \in Seq(Chars)
    OBVIOUS
  <2>1. ValidMember(M[i])
    BY DEF ValidMembers
  <2> DEFINE k == M[i].key
             v == M[i].value
  <2>2. k \in Words /\ v \in Words
    BY <2>1 DEF ValidMember, ValidKey, ValidValue
  <2> HIDE DEF k, v
  <2>3. Spelt(k, v) \in Seq(Chars)
    BY <2>2, SpeltFacts DEF SpeltAt
  <2>4. QED
    BY <2>3 DEF k, v
<1>4. \A i \in 1..n : Comma(i) \in Seq(Chars)
  <2>1. "," \in Chars
    BY DEF Chars
  <2> DEFINE c == ","
  <2>2. c \in Chars
    BY <2>1
  <2> HIDE DEF c
  <2>3. <<c>> \in Seq(Chars) /\ <<>> \in Seq(Chars)
    BY <2>2
  <2>4. QED
    BY <2>3 DEF c
<1> HIDE DEF n, Sp, Comma
<1>5. \A i \in 1..n : Part(i) \in Seq(Chars)
  BY <1>3, <1>4, ConcatProperties
<1> HIDE DEF Part
<1>6. parts \in Seq(Seq(Chars)) /\ Len(parts) = n /\ \A i \in 1..n : parts[i] = Part(i)
  BY <1>1, <1>5
<1> HIDE DEF parts
<1>7. PICK f \in [0..n -> Seq(Chars)] :
        /\ f[0] = <<>>
        /\ \A i \in 0..(n - 1) : f[i + 1] = f[i] \o parts[i + 1]
        /\ FlattenSeq(parts) = f[n]
  BY <1>6, FlattenFacts
<1> DEFINE T(i) == OpeningBrace \o f[i]
           S == {i \in 0..n : (i < n => UpToKey(T(i), M, i)) /\ (i = n /\ n # 0 => UpToEnd(T(i), M, i))}
<1>8. OpeningBrace \in Seq(Chars)
  BY BraceOpens DEF UpToKey, Unclosed, Words
<1>9. T(0) = OpeningBrace
  BY <1>7, <1>8, ConcatEmptySeq
<1>10. 0 \in S
  <2>1. UpToKey(T(0), M, 0)
    BY <1>9, BraceOpens
  <2> HIDE DEF T
  <2>2. QED
    BY <1>1, <2>1
<1>11. \A i \in 0..(n - 1) : i \in S => i + 1 \in S
  <2> SUFFICES ASSUME NEW i \in 0..(n - 1), i \in S PROVE i + 1 \in S
    OBVIOUS
  <2> DEFINE next == i + 1
             U == T(i) \o Sp(next)
  <2>1. next \in 1..n /\ next \in 0..n /\ i \in 0..n /\ i \in Nat /\ next \in Nat /\ i < n /\
        next = i + 1 /\ next <= n /\ n # 0
    BY <1>1
  <2>2. UpToKey(T(i), M, i)
    BY <2>1
  <2>3. UpToEnd(U, M, next)
    <3> DEFINE t == T(i)
    <3>1. UpToKey(t, M, i) /\ U = t \o Spelt(M[next].key, M[next].value) /\ next <= Len(M)
      BY <2>1, <2>2 DEF Sp, n
    <3> HIDE DEF next, U, t
    <3>2. QED
      BY <2>1, <3>1, MemberAdded
  <2>4. T(next) = U \o Comma(next)
    <3> DEFINE g == f[i]
               p == Sp(next)
               l == Comma(next)
    <3>1. g \in Seq(Chars) /\ p \in Seq(Chars) /\ l \in Seq(Chars) /\ OpeningBrace \in Seq(Chars)
      BY <1>3, <1>4, <1>7, <1>8, <2>1
    <3>2. f[next] = g \o (p \o l)
      BY <1>6, <1>7, <2>1 DEF Part
    <3> HIDE DEF g, p, l
    <3>3. OpeningBrace \o (g \o (p \o l)) = ((OpeningBrace \o g) \o p) \o l
      BY ONLY <3>1, FourParts, SMTT(30)
    <3>4. QED
      BY <3>2, <3>3 DEF g, p, l
  <2> HIDE DEF U, T, next
  <2>5. CASE next < n
    <3>1. Followed(U, ",", T(next))
      <4>1. Comma(next) = <<",">>
        BY <2>5 DEF Comma
      <4>2. QED
        BY <2>4, <4>1, Zenon DEF Followed
    <3>2. UpToKey(T(next), M, next)
      BY <2>1, <2>3, <3>1, CommaAdded
    <3>3. ~(next = n)
      BY <1>1, <2>1, <2>5
    <3>4. QED
      BY <2>1, <3>2, <3>3 DEF next
  <2>6. CASE ~(next < n)
    <3>1. U \in Seq(Chars)
      BY <2>3 DEF UpToEnd, Unclosed, Words
    <3>2. T(next) = U
      BY <2>4, <2>6, <3>1, ConcatEmptySeq DEF Comma
    <3>3. QED
      BY <2>1, <2>3, <2>6, <3>2 DEF next
  <2>7. QED
    BY <2>5, <2>6
<1>12. n \in S
  <2> HIDE DEF S
  <2>1. \A i \in 0..n : i \in S
    BY <1>1, <1>10, <1>11, Induction
  <2>2. QED
    BY <1>1, <2>1
<1>13. Followed(T(n), "}", Dumped(M))
  BY <1>2, <1>7 DEF Followed
<1>14. UpToEnd(T(n), M, n) \/ (UpToKey(T(n), M, n) /\ Reads(T(n))[Len(T(n))].at = "key or end")
  <2>1. CASE n = 0
    <3>1. T(n) = OpeningBrace
      BY <1>9, <2>1
    <3>2. UpToKey(OpeningBrace, M, 0) /\ Reads(OpeningBrace)[Len(OpeningBrace)].at = "key or end"
      BY BraceOpens
    <3> HIDE DEF T
    <3>3. UpToKey(T(n), M, n)
      BY ONLY <2>1, <3>1, <3>2
    <3>4. Reads(T(n))[Len(T(n))].at = "key or end"
      BY ONLY <3>1, <3>2
    <3>5. QED
      BY ONLY <3>3, <3>4
  <2>2. CASE n # 0
    BY <1>12, <2>2
  <2>3. QED
    BY <2>1, <2>2
<1> HIDE DEF T, S
<1> DEFINE D == Dumped(M)
<1>15. Whole(D, Len(D)) /\ Holds(D, Reads(D)[Len(D)].members, M, n) /\ Reads(D)[Len(D)].members \in Seq(Spans)
  BY <1>1, <1>13, <1>14, BraceAdded
<1> HIDE DEF D
<1>16. D \in Seq(Chars) /\ Len(D) >= 2
  BY <1>15, WholeFacts
<1>17. D # <<>>
  BY <1>16
<1>18. Values(D, Reads(D)[Len(D)].members) = M
  BY <1>15, HeldValues DEF n
<1>19. QED
  BY <1>15, <1>16, <1>17, <1>18, ObjectOfWhole DEF D

-----------------------------------------------------------------------------
(* The objects at the start *)

\* What is left of a text.
LEMMA RestFacts ==
  ASSUME NEW s \in Seq(Chars), NEW i \in 1..(Len(s) + 1)
  PROVE  Len(s) \in Nat /\ Rest(s, i) \in Seq(Chars) /\ Len(Rest(s, i)) = Len(s) - i + 1
<1> DEFINE n == Len(s)
<1>1. n \in Nat
  BY LenProperties
<1>2. \A j \in 1..n : s[j] \in Chars
  BY ElementOfSeq
<1> HIDE DEF n
<1>3. i \in 1..(n + 1)
  BY DEF n
<1>4. \A j \in i..n : j \in 1..n
  BY <1>1, <1>3
<1>5. \A j \in i..n : s[j] \in Chars
  BY <1>2, <1>4
<1>6. i \in Int /\ n \in Int
  BY <1>1, <1>3
<1>7. SubSeq(s, i, n) \in Seq(Chars) /\ Len(SubSeq(s, i, n)) = (IF i <= n THEN n - i + 1 ELSE 0)
  BY <1>5, <1>6, SubSeqProperties
<1>8. Len(SubSeq(s, i, n)) = n - i + 1
  BY <1>1, <1>3, <1>7
<1>9. QED
  BY <1>1, <1>7, <1>8 DEF Rest, n

\* Where an object ends that begins within a text.
LEMMA ObjectWithin ==
  ASSUME NEW s \in Seq(Chars), NEW i \in 1..(Len(s) + 1), ObjectAt(Rest(s, i)).end # 0
  PROVE  /\ i \in 1..Len(s) /\ i + ObjectAt(Rest(s, i)).end \in (i + 1)..(Len(s) + 1)
         /\ ValidMembers(ObjectAt(Rest(s, i)).members)
<1> DEFINE t == Rest(s, i)
           e == ObjectAt(t).end
           n == Len(s)
<1>1. n \in Nat /\ t \in Seq(Chars) /\ Len(t) = n - i + 1
  BY RestFacts
<1>2. e # 0
  OBVIOUS
<1> HIDE DEF t
<1>3. Whole(t, e) /\ ValidMembers(ObjectAt(t).members)
  BY <1>1, <1>2, WholeObject, ObjectIsValid
<1>4. e \in Nat /\ e >= 2 /\ e <= Len(t)
  BY <1>3, WholeFacts
<1>5. i \in 1..(n + 1)
  OBVIOUS
<1> HIDE DEF n, e
<1>6. i \in 1..n /\ i + e \in (i + 1)..(n + 1)
  BY <1>1, <1>4, <1>5
<1>7. QED
  BY <1>3, <1>6 DEF n, e, t

\* What is found from one place on, when what is found further on is known.
FoundFrom(s, found, i) ==
  IF i <= Len(s) /\ s[i] \in {",", Fence} THEN found[i + 1]
  ELSE IF ObjectAt(Rest(s, i)).end = 0 THEN <<>>
  ELSE <<ObjectAt(Rest(s, i)).members>> \o found[i + ObjectAt(Rest(s, i)).end]

\* What is found depends on nothing that is found before it.
LEMMA FoundSame ==
  ASSUME NEW s \in Seq(Chars), NEW i \in 1..(Len(s) + 1), NEW f, NEW g, \A j \in (i + 1)..(Len(s) + 1) : f[j] = g[j]
  PROVE  FoundFrom(s, f, i) = FoundFrom(s, g, i)
<1> DEFINE e == ObjectAt(Rest(s, i)).end
           n == Len(s)
           comma == s[i] \in {",", Fence}
<1>1. n \in Nat /\ i \in 1..(n + 1)
  BY RestFacts
<1>2. CASE i <= n /\ comma
  <2>1. i <= n
    BY <1>2
  <2> HIDE DEF n, comma
  <2>2. i + 1 \in (i + 1)..(n + 1)
    BY ONLY <1>1, <2>1
  <2>3. f[i + 1] = g[i + 1]
    BY <2>2 DEF n
  <2>4. QED
    BY <1>2, <2>3 DEF FoundFrom, n, comma
<1>3. CASE ~(i <= n /\ comma) /\ e = 0
  BY <1>3 DEF FoundFrom
<1>4. CASE ~(i <= n /\ comma) /\ e # 0
  <2>1. i + e \in (i + 1)..(n + 1)
    BY <1>4, ObjectWithin
  <2>2. f[i + e] = g[i + e]
    BY <2>1
  <2>3. QED
    BY <1>4, <2>2 DEF FoundFrom
<1>5. QED
  BY <1>2, <1>3, <1>4

\* The objects of a text, from each place on.
LEMMA ObjectsFound ==
  ASSUME NEW s \in Seq(Chars)
  PROVE  \E found : /\ found = [i \in 1..(Len(s) + 1) |-> FoundFrom(s, found, i)]
                    /\ Objects(s) = found[1]
<1> DEFINE n == Len(s)
           FitsTo(f, m) == f = [i \in (n + 1 - m)..(n + 1) |-> FoundFrom(s, f, i)]
           S == {m \in 0..n : \E f : FitsTo(f, m)}
<1>1. n \in Nat /\ \A i \in 1..(n + 1) : i \in 1..(Len(s) + 1)
  BY LenProperties
<1>2. \A i \in 1..(n + 1) : \A f, g : (\A j \in (i + 1)..(n + 1) : f[j] = g[j]) =>
      FoundFrom(s, f, i) = FoundFrom(s, g, i)
  BY FoundSame
<1> HIDE DEF n
<1>3. 0 \in S
  <2> DEFINE h == [i \in (n + 1 - 0)..(n + 1) |-> <<>>]
             g == [i \in (n + 1 - 0)..(n + 1) |-> FoundFrom(s, h, i)]
  <2>1. \A i \in (n + 1 - 0)..(n + 1) : i \in 1..(n + 1) /\ (i + 1)..(n + 1) = {}
    BY <1>1
  <2> HIDE DEF h
  <2>2. \A i \in (n + 1 - 0)..(n + 1) : FoundFrom(s, h, i) = FoundFrom(s, g, i)
    <3> HIDE DEF g
    <3>1. QED
      BY <1>2, <2>1
  <2>3. FitsTo(g, 0)
    BY <2>2
  <2> HIDE DEF FitsTo, g
  <2>4. QED
    BY <1>1, <2>3
<1>4. \A m \in 0..(n - 1) : m \in S => m + 1 \in S
  <2> SUFFICES ASSUME NEW m \in 0..(n - 1), m \in S PROVE m + 1 \in S
    OBVIOUS
  <2>1. PICK f : FitsTo(f, m)
    OBVIOUS
  <2> DEFINE p == n - m
             g == [i \in p..(n + 1) |-> IF i = p THEN FoundFrom(s, f, p) ELSE f[i]]
  <2>2. p \in Nat /\ p \in 1..(n + 1) /\ n + 1 - m = p + 1 /\ n + 1 - (m + 1) = p /\ m + 1 \in 0..n
    BY <1>1
  <2>3. f = [i \in (p + 1)..(n + 1) |-> FoundFrom(s, f, i)]
    BY <2>1, <2>2
  <2> HIDE DEF p, FitsTo
  <2>4. g[p] = FoundFrom(s, f, p) /\ \A i \in (p + 1)..(n + 1) : g[i] = f[i] /\ i \in 1..(n + 1) /\ i \in p..(n + 1)
    BY <1>1, <2>2
  <2>5. DOMAIN g = p..(n + 1) /\ g = [i \in p..(n + 1) |-> g[i]]
    OBVIOUS
  <2> HIDE DEF g
  <2>6. FoundFrom(s, f, p) = FoundFrom(s, g, p)
    BY <1>2, <2>2, <2>4
  <2>7. ASSUME NEW i \in (p + 1)..(n + 1) PROVE g[i] = FoundFrom(s, g, i)
    <3>1. \A j \in (i + 1)..(n + 1) : f[j] = g[j]
      <4>1. \A j \in (i + 1)..(n + 1) : j \in (p + 1)..(n + 1)
        BY <1>1, <2>2
      <4>2. QED
        BY <2>4, <4>1
    <3>2. FoundFrom(s, f, i) = FoundFrom(s, g, i)
      BY <1>2, <2>4, <3>1
    <3>3. f[i] = FoundFrom(s, f, i)
      BY <2>3
    <3>4. QED
      BY <2>4, <3>2, <3>3
  <2>8. \A i \in p..(n + 1) : g[i] = FoundFrom(s, g, i)
    <3>1. \A i \in p..(n + 1) : i = p \/ i \in (p + 1)..(n + 1)
      BY <1>1, <2>2
    <3>2. QED
      BY <2>4, <2>6, <2>7, <3>1
  <2>9. g = [i \in p..(n + 1) |-> FoundFrom(s, g, i)]
    BY <2>5, <2>8
  <2>10. FitsTo(g, m + 1)
    BY <2>2, <2>9 DEF FitsTo
  <2>11. QED
    BY <2>2, <2>10
<1>5. n \in S
  <2> HIDE DEF S
  <2>1. \A m \in 0..n : m \in S
    BY <1>1, <1>3, <1>4, Induction
  <2>2. QED
    BY <1>1, <2>1
<1>6. n + 1 - n = 1
  BY <1>1
<1> DEFINE FoundAll(f) == f = [i \in 1..(n + 1) |-> FoundFrom(s, f, i)]
           found == CHOOSE f : FoundAll(f)
<1>7. \E f : FoundAll(f)
  BY <1>5, <1>6
<1>8. Objects(s) = found[1]
  BY DEF Objects, FoundFrom, n
<1>9. FoundAll(found)
  <2> HIDE DEF FoundAll
  <2>1. QED
    BY <1>7
<1> HIDE DEF found
<1>10. QED
  BY <1>8, <1>9 DEF n

\* The objects that stand somewhere in a text.
FoundAt(s, M) == \E p \in 1..Len(s) : ObjectAt(Rest(s, p)).end # 0 /\ M = ObjectAt(Rest(s, p)).members

Found(s) == {M \in Seq(MemberRecords) : FoundAt(s, M)}

\* What is found from one place on, when what is found further on are objects of the text.
LEMMA FoundFromType ==
  ASSUME NEW s \in Seq(Chars), NEW i \in 1..(Len(s) + 1), NEW f,
         \A j \in (i + 1)..(Len(s) + 1) : f[j] \in Seq(Found(s))
  PROVE  FoundFrom(s, f, i) \in Seq(Found(s))
<1> DEFINE object == ObjectAt(Rest(s, i))
           e == object.end
           n == Len(s)
           F == Found(s)
           comma == s[i] \in {",", Fence}
<1>1. n \in Nat /\ i \in 1..(n + 1)
  BY RestFacts
<1>2. CASE i <= n /\ comma
  <2>1. i <= n
    BY <1>2
  <2> HIDE DEF n, comma
  <2>2. i + 1 \in (i + 1)..(n + 1)
    BY ONLY <1>1, <2>1
  <2>3. f[i + 1] \in Seq(F)
    BY <2>2 DEF n
  <2>4. QED
    BY <1>2, <2>3 DEF FoundFrom, n, comma
<1>3. CASE ~(i <= n /\ comma) /\ e = 0
  <2> HIDE DEF F
  <2>1. <<>> \in Seq(F)
    OBVIOUS
  <2>2. QED
    BY <1>3, <2>1 DEF FoundFrom, F
<1>4. CASE ~(i <= n /\ comma) /\ e # 0
  <2>1. i \in 1..n /\ i + e \in (i + 1)..(n + 1) /\ ValidMembers(object.members)
    BY <1>4, ObjectWithin
  <2>2. f[i + e] \in Seq(F)
    BY <2>1
  <2>3. object.members \in Seq(MemberRecords)
    BY <2>1 DEF ValidMembers
  <2>4. FoundAt(s, object.members)
    BY <1>4, <2>1 DEF FoundAt
  <2>5. object.members \in F
    BY <2>3, <2>4 DEF Found
  <2>6. FoundFrom(s, f, i) = <<object.members>> \o f[i + e]
    BY <1>4 DEF FoundFrom
  <2> HIDE DEF F, object, e
  <2>7. <<object.members>> \in Seq(F)
    BY <2>5
  <2>8. <<object.members>> \o f[i + e] \in Seq(F)
    BY ONLY <2>2, <2>7, ConcatProperties
  <2>9. QED
    BY <2>6, <2>8 DEF F
<1>5. QED
  BY <1>2, <1>3, <1>4

\* The objects at the start of a text stand in it, and the object that it begins with is the first.
LEMMA ObjectsFacts ==
  ASSUME NEW s \in Seq(Chars)
  PROVE  /\ Objects(s) \in Seq(Found(s))
         /\ ObjectAt(s).end # 0 => Len(Objects(s)) >= 1 /\ Objects(s)[1] = ObjectAt(s).members
<1> DEFINE n == Len(s)
           F == Found(s)
<1>1. PICK found : /\ found = [i \in 1..(n + 1) |-> FoundFrom(s, found, i)]
                   /\ Objects(s) = found[1]
  BY ObjectsFound
<1>2. n \in Nat /\ (\A i \in 1..(n + 1) : found[i] = FoundFrom(s, found, i)) /\ 1 \in 1..(n + 1)
  BY <1>1, LenProperties
<1> DEFINE S == {m \in 0..n : \A i \in (n + 1 - m)..(n + 1) : found[i] \in Seq(F)}
<1>3. \A i \in 1..(n + 1) : (\A j \in (i + 1)..(n + 1) : found[j] \in Seq(F)) => found[i] \in Seq(F)
  BY <1>2, FoundFromType
<1>4. \A i \in 1..(n + 1) : found[i] \in Seq(F)
  <2> HIDE DEF F, n
  <2>1. 0 \in S
    <3>1. \A i \in (n + 1 - 0)..(n + 1) : i \in 1..(n + 1) /\ (i + 1)..(n + 1) = {}
      BY ONLY <1>2
    <3>2. QED
      BY <1>2, <1>3, <3>1
  <2>2. \A m \in 0..(n - 1) : m \in S => m + 1 \in S
    <3> SUFFICES ASSUME NEW m \in 0..(n - 1), m \in S PROVE m + 1 \in S
      OBVIOUS
    <3> DEFINE p == n - m
    <3>1. p \in 1..(n + 1) /\ n + 1 - m = p + 1 /\ n + 1 - (m + 1) = p /\ m + 1 \in 0..n
      BY <1>2
    <3>2. \A i \in (p + 1)..(n + 1) : found[i] \in Seq(F)
      BY <3>1
    <3> HIDE DEF p
    <3>3. found[p] \in Seq(F)
      BY <1>3, <3>1, <3>2
    <3>4. \A i \in p..(n + 1) : i = p \/ i \in (p + 1)..(n + 1)
      BY <1>2, <3>1
    <3>5. \A i \in p..(n + 1) : found[i] \in Seq(F)
      BY <3>2, <3>3, <3>4
    <3>6. QED
      BY <3>1, <3>5
  <2>3. \A m \in 0..n : m \in S
    <3> HIDE DEF S
    <3>1. QED
      BY <1>2, <2>1, <2>2, Induction
  <2>4. n \in S /\ n + 1 - n = 1
    BY <1>2, <2>3
  <2>5. QED
    BY <2>4
<1>5. Objects(s) \in Seq(F)
  BY <1>1, <1>2, <1>4
<1>6. ASSUME ObjectAt(s).end # 0
      PROVE  Len(Objects(s)) >= 1 /\ Objects(s)[1] = ObjectAt(s).members
  <2> DEFINE e == ObjectAt(s).end
             M == ObjectAt(s).members
  <2>1. Whole(s, e)
    BY <1>6, WholeObject
  <2>2. s[1] \in Braces
    BY <2>1 DEF Whole
  <2>3. s[1] \notin {",", Fence}
    BY <2>2 DEF Braces, Fence
  <2>4. Rest(s, 1) = s
    BY SubSeqFull DEF Rest
  <2>5. 1 + e \in (1 + 1)..(n + 1)
    BY <1>2, <1>6, <2>4, ObjectWithin
  <2>6. 1 + e \in 1..(n + 1)
    BY <1>2, <2>5
  <2>7. found[1] = <<M>> \o found[1 + e]
    BY <1>2, <1>6, <2>3, <2>4 DEF FoundFrom
  <2>8. found[1 + e] \in Seq(F)
    BY <1>4, <2>6
  <2> HIDE DEF M, F, e
  <2>9. Len(<<M>> \o found[1 + e]) >= 1 /\ (<<M>> \o found[1 + e])[1] = M
    BY <2>8
  <2>10. QED
    BY <1>1, <2>7, <2>9 DEF M
<1>7. QED
  BY <1>5, <1>6

-----------------------------------------------------------------------------
(* Merging *)

\* What is merged of the first i members: of each key the first.
Merging(all, M, i) ==
  /\ \A j, k \in 1..Len(M) : M[j].key = M[k].key => j = k
  /\ \A j \in 1..Len(M) : \E k \in 1..i : M[j] = all[k]
  /\ \A j \in 1..i : (\A k \in 1..(j - 1) : all[k].key # all[j].key) => Member(all[j], M)

MergedMore(M, m) == IF HasKey(M, m.key) THEN M ELSE Append(M, m)

\* One member more is merged when its key is new.
LEMMA MergingGoesOn ==
  ASSUME NEW S, NEW all \in Seq(S), NEW i \in Nat, NEW next, next = i + 1, next <= Len(all),
         NEW M \in Seq(S), Merging(all, M, i)
  PROVE  MergedMore(M, all[next]) \in Seq(S) /\ Merging(all, MergedMore(M, all[next]), next)
<1> DEFINE m == all[next]
           n == Len(M)
           First(j) == \A k \in 1..(j - 1) : all[k].key # all[j].key
<1>1. next \in Nat /\ next \in 1..Len(all) /\ Len(all) \in Nat /\ n \in Nat
  BY LenProperties
<1>2. m \in S
  BY <1>1, ElementOfSeq
<1>3. /\ \A k \in 1..i : k \in 1..next
      /\ \A j \in 1..next : j \in 1..i \/ j = next
      /\ next \in 1..next /\ next - 1 = i
  BY <1>1
<1>4. /\ \A j, k \in 1..n : M[j].key = M[k].key => j = k
      /\ \A j \in 1..n : \E k \in 1..i : M[j] = all[k]
      /\ \A j \in 1..i : First(j) => Member(all[j], M)
  BY DEF Merging
<1>5. CASE HasKey(M, m.key)
  <2>1. MergedMore(M, m) = M
    BY <1>5 DEF MergedMore
  <2>2. PICK j \in 1..n : M[j].key = m.key
    BY <1>5 DEF HasKey
  <2>3. PICK k \in 1..i : M[j] = all[k]
    BY <1>4
  <2>4. ~First(next)
    BY <1>3, <2>2, <2>3
  <2> HIDE DEF First, m
  <2>5. \A x \in 1..next : First(x) => Member(all[x], M)
    BY <1>3, <1>4, <2>4
  <2>6. \A x \in 1..n : \E y \in 1..next : M[x] = all[y]
    BY <1>3, <1>4
  <2>7. Merging(all, M, next)
    BY <1>4, <2>5, <2>6 DEF Merging, First
  <2>8. QED
    BY <2>1, <2>7 DEF m
<1>6. CASE ~HasKey(M, m.key)
  <2> DEFINE A == Append(M, m)
  <2>1. MergedMore(M, m) = A
    BY <1>6 DEF MergedMore
  <2>2. A \in Seq(S) /\ Len(A) = n + 1 /\ A[n + 1] = m /\ \A j \in 1..n : A[j] = M[j]
    BY <1>2, Appended
  <2>3. \A j \in 1..n : M[j].key # m.key
    BY <1>6 DEF HasKey
  <2> HIDE DEF A, First
  <2>4. \A j \in 1..Len(A) : j \in 1..n \/ j = n + 1
    BY <1>1, <2>2
  <2>5. n + 1 \in 1..Len(A) /\ \A j \in 1..n : j \in 1..Len(A)
    BY <1>1, <2>2
  <2> HIDE DEF m, n
  <2>6. \A j, k \in 1..Len(A) : A[j].key = A[k].key => j = k
    BY <1>4, <2>2, <2>3, <2>4
  <2>7. \A j \in 1..Len(A) : \E k \in 1..next : A[j] = all[k]
    <3>1. ASSUME NEW j \in 1..n PROVE \E k \in 1..next : A[j] = all[k]
      BY <1>3, <1>4, <2>2
    <3>2. A[n + 1] = all[next]
      BY <2>2 DEF m
    <3>3. QED
      BY <1>3, <2>4, <3>1, <3>2
  <2>8. \A j \in 1..next : First(j) => Member(all[j], A)
    <3>1. ASSUME NEW j \in 1..i, First(j) PROVE Member(all[j], A)
      <4>1. PICK x \in 1..n : M[x] = all[j]
        BY <1>4, <3>1 DEF Member, n
      <4>2. QED
        BY <2>2, <2>5, <4>1 DEF Member
    <3>2. Member(all[next], A)
      BY <2>2, <2>5 DEF Member, m
    <3>3. QED
      BY <1>3, <3>1, <3>2
  <2>9. Merging(all, A, next)
    BY <2>6, <2>7, <2>8 DEF Merging, First
  <2>10. QED
    BY <2>1, <2>2, <2>9 DEF m
<1>7. QED
  BY <1>5, <1>6

\* Merging keeps the first member of each key.
LEMMA MergedFacts ==
  ASSUME NEW S, NEW objects \in Seq(Seq(S)), NEW all, all = FlattenSeq(objects), all \in Seq(S)
  PROVE  Merged(objects) \in Seq(S) /\ Merging(all, Merged(objects), Len(all))
<1> DEFINE n == Len(all)
           FitsTo(f, m) == f = [i \in 0..m |-> IF i = 0 THEN <<>> ELSE MergedMore(f[i - 1], all[i])]
           W == {m \in 0..n : \E f : FitsTo(f, m)}
<1>1. n \in Nat
  BY LenProperties
<1> HIDE DEF n
<1>2. 0 \in W
  <2>1. FitsTo([i \in 0..0 |-> <<>>], 0)
    OBVIOUS
  <2> HIDE DEF FitsTo
  <2>2. QED
    BY <1>1, <2>1
<1>3. \A m \in 0..(n - 1) : m \in W => m + 1 \in W
  <2> SUFFICES ASSUME NEW m \in 0..(n - 1), m \in W PROVE m + 1 \in W
    OBVIOUS
  <2>1. PICK f : FitsTo(f, m)
    OBVIOUS
  <2> DEFINE g == [i \in 0..(m + 1) |-> IF i <= m THEN f[i] ELSE MergedMore(f[m], all[m + 1])]
  <2>2. FitsTo(g, m + 1)
    <3>1. ASSUME NEW i \in 0..(m + 1)
          PROVE g[i] = IF i = 0 THEN <<>> ELSE MergedMore(g[i - 1], all[i])
      BY <1>1, <2>1
    <3>2. QED
      BY <3>1
  <2> HIDE DEF FitsTo, g
  <2>3. QED
    BY <1>1, <2>2
<1>4. \E f : FitsTo(f, n)
  <2> HIDE DEF W, FitsTo
  <2>1. \A m \in 0..n : m \in W
    BY <1>1, <1>2, <1>3, Induction
  <2>2. QED
    BY <1>1, <2>1 DEF W
<1> DEFINE merged == CHOOSE f : FitsTo(f, n)
<1>5. Merged(objects) = merged[n]
  BY DEF Merged, MergedMore, n
<1>6. FitsTo(merged, n)
  <2> HIDE DEF FitsTo
  <2>1. QED
    BY <1>4
<1> HIDE DEF merged
<1>7. merged[0] = <<>> /\ \A i \in 0..(n - 1) : merged[i + 1] = MergedMore(merged[i], all[i + 1])
  BY <1>1, <1>6
<1> DEFINE V == {i \in 0..n : merged[i] \in Seq(S) /\ Merging(all, merged[i], i)}
<1>8. 0 \in V
  <2>1. Len(<<>>) = 0 /\ <<>> \in Seq(S)
    OBVIOUS
  <2>2. 1..0 = {} /\ 1..Len(<<>>) = {}
    BY <2>1
  <2>3. Merging(all, <<>>, 0)
    BY <2>2, Zenon DEF Merging
  <2>4. merged[0] \in Seq(S) /\ Merging(all, merged[0], 0)
    BY <1>7, <2>1, <2>3, Zenon
  <2>5. 0 \in 0..n
    BY <1>1
  <2>6. QED
    BY <2>4, <2>5
<1>9. \A i \in 0..(n - 1) : i \in V => i + 1 \in V
  <2> SUFFICES ASSUME NEW i \in 0..(n - 1), i \in V PROVE i + 1 \in V
    OBVIOUS
  <2> DEFINE next == i + 1
  <2>1. i \in Nat /\ next = i + 1 /\ next <= n /\ next \in 0..n
    BY <1>1
  <2> HIDE DEF next
  <2>2. MergedMore(merged[i], all[next]) \in Seq(S) /\ Merging(all, MergedMore(merged[i], all[next]), next)
    BY <2>1, MergingGoesOn DEF n
  <2>3. merged[next] = MergedMore(merged[i], all[next])
    BY <1>7, <2>1
  <2>4. QED
    BY <2>1, <2>2, <2>3
<1>10. n \in V
  <2> HIDE DEF V
  <2>1. \A i \in 0..n : i \in V
    BY <1>1, <1>8, <1>9, Induction
  <2>2. QED
    BY <1>1, <2>1
<1>11. QED
  BY <1>5, <1>10 DEF n

\* A member of an object that stands somewhere in a text.
FoundMember(s, m) == \E p \in 1..Len(s) : ObjectAt(Rest(s, p)).end # 0 /\ Member(m, ObjectAt(Rest(s, p)).members)

FoundMembers(s) == {m \in MemberRecords : ValidMember(m) /\ FoundMember(s, m)}

\* The objects that stand in a text are made of the members that stand in it.
LEMMA FoundIsOfMembers ==
  ASSUME NEW s \in Seq(Chars), NEW M \in Found(s)
  PROVE  M \in Seq(FoundMembers(s)) /\ ValidMembers(M)
<1>1. PICK p \in 1..Len(s) : ObjectAt(Rest(s, p)).end # 0 /\ M = ObjectAt(Rest(s, p)).members
  BY DEF Found, FoundAt
<1>2. p \in 1..(Len(s) + 1)
  <2>1. Len(s) \in Nat
    BY LenProperties
  <2>2. QED
    BY ONLY <2>1
<1>3. ValidMembers(M)
  BY <1>1, <1>2, ObjectWithin
<1>4. M \in Seq(MemberRecords) /\ (\A j \in 1..Len(M) : ValidMember(M[j])) /\
      \A j \in 1..Len(M) : M[j] \in MemberRecords
  BY <1>3, ElementOfSeq DEF ValidMembers
<1>5. ASSUME NEW j \in 1..Len(M) PROVE M[j] \in FoundMembers(s)
  <2>1. Member(M[j], M)
    BY DEF Member
  <2>2. FoundMember(s, M[j])
    BY <1>1, <2>1 DEF FoundMember
  <2>3. QED
    BY <1>4, <2>2 DEF FoundMembers
<1> DEFINE F == FoundMembers(s)
<1>6. \A j \in 1..Len(M) : M[j] \in F
  BY <1>5
<1> HIDE DEF F
<1>7. M \in Seq(F)
  <2>1. Len(M) \in Nat /\ M = [j \in 1..Len(M) |-> M[j]]
    BY <1>4
  <2>2. QED
    BY ONLY <1>6, <2>1
<1>8. QED
  BY <1>3, <1>7 DEF F

\* What the objects at the start are merged to: an object, of members that stand in the text,
\* with those of the object that the text begins with.
LEMMA MergedObjects ==
  ASSUME NEW s \in Seq(Chars)
  PROVE  /\ ValidMembers(Merged(Objects(s)))
         /\ \A j \in 1..Len(Merged(Objects(s))) : FoundMember(s, Merged(Objects(s))[j])
         /\ ObjectAt(s).end # 0 =>
              /\ Objects(s) # <<>>
              /\ \A j \in 1..Len(ObjectAt(s).members) : Member(ObjectAt(s).members[j], Merged(Objects(s)))
<1> DEFINE objects == Objects(s)
           F == FoundMembers(s)
           n == Len(objects)
           M == Merged(objects)
           first == ObjectAt(s).members
           whole == ObjectAt(s).end # 0
<1>1. /\ objects \in Seq(Found(s))
      /\ whole => Len(objects) >= 1 /\ objects[1] = first
  BY ObjectsFacts
<1>2. Found(s) \subseteq Seq(F)
  BY FoundIsOfMembers
<1>3. objects \in Seq(Seq(F)) /\ n \in Nat
  <2> HIDE DEF F, objects
  <2>1. n \in Nat /\ \A j \in 1..n : objects[j] \in Seq(F)
    BY <1>1, <1>2, LenProperties, ElementOfSeq
  <2>2. objects = [j \in 1..n |-> objects[j]]
    BY <1>1
  <2>3. QED
    BY ONLY <2>1, <2>2
<1> HIDE DEF objects, F
<1> DEFINE all == FlattenSeq(objects)
<1>4. PICK f \in [0..n -> Seq(F)] : /\ f[0] = <<>>
                                    /\ \A i \in 0..(n - 1) : f[i + 1] = f[i] \o objects[i + 1]
                                    /\ all = f[n]
  <2>1. objects \in Seq(Seq(F))
    BY <1>3
  <2>2. \E f \in [0..Len(objects) -> Seq(F)] :
          /\ f[0] = <<>>
          /\ \A i \in 0..(Len(objects) - 1) : f[i + 1] = f[i] \o objects[i + 1]
          /\ FlattenSeq(objects) = f[Len(objects)]
    BY ONLY <2>1, FlattenFacts
  <2>3. QED
    BY ONLY <2>2, Zenon
<1>5. all \in Seq(F)
  <2>1. n \in 0..n
    BY <1>3
  <2>2. QED
    BY <1>4, <2>1, Zenon
<1>6. M \in Seq(F) /\ Merging(all, M, Len(all))
  BY <1>3, <1>5, MergedFacts
<1> HIDE DEF all, M, n
<1>7. /\ \A j \in 1..Len(M) : M[j] \in F /\ M[j] \in MemberRecords /\ ValidMember(M[j]) /\ FoundMember(s, M[j])
      /\ M = [j \in 1..Len(M) |-> M[j]] /\ Len(M) \in Nat
  <2>1. \A j \in 1..Len(M) : M[j] \in F
    BY <1>6, ElementOfSeq
  <2>2. M = [j \in 1..Len(M) |-> M[j]] /\ Len(M) \in Nat
    BY <1>6
  <2>3. \A m \in F : m \in MemberRecords /\ ValidMember(m) /\ FoundMember(s, m)
    BY DEF F, FoundMembers
  <2>4. QED
    BY <2>1, <2>2, <2>3
<1>8. ValidMembers(M)
  <2>1. M \in Seq(MemberRecords)
    <3> DEFINE R == MemberRecords
    <3>1. \A j \in 1..Len(M) : M[j] \in R
      BY <1>7
    <3> HIDE DEF R
    <3>2. M \in Seq(R)
      BY ONLY <1>7, <3>1
    <3>3. QED
      BY <3>2 DEF R
  <2>2. \A j, k \in 1..Len(M) : M[j].key = M[k].key => j = k
    BY <1>6 DEF Merging
  <2>3. QED
    BY <1>7, <2>1, <2>2 DEF ValidMembers
<1>9. ASSUME whole
      PROVE  objects # <<>> /\ \A j \in 1..Len(first) : Member(first[j], M)
  <2>1. n >= 1 /\ objects[1] = first
    BY <1>1, <1>9 DEF n
  <2>2. ValidMembers(first) /\ first \in Seq(F)
    <3>1. first \in Seq(F)
      BY <1>3, <2>1, ElementOfSeq DEF n
    <3>2. ValidMembers(first)
      BY <1>9, ObjectIsValid
    <3>3. QED
      BY <3>1, <3>2
  <2> HIDE DEF first
  <2> DEFINE W == {i \in 0..(n - 1) : Len(f[i + 1]) >= Len(first) /\ \A j \in 1..Len(first) : f[i + 1][j] = first[j]}
  <2>3. 0 \in W
    <3>1. 0 \in 0..(n - 1)
      BY <1>3, <2>1
    <3>2. f[0 + 1] = f[0] \o objects[0 + 1]
      BY <1>4, <3>1
    <3>3. <<>> \o first = first
      BY <2>2, ConcatEmptySeq
    <3>4. f[0 + 1] = first
      BY <1>4, <2>1, <3>2, <3>3
    <3>5. Len(first) \in Nat /\ Len(first) >= Len(first)
      BY <2>2, LenProperties
    <3>6. QED
      BY <3>1, <3>4, <3>5
  <2>4. \A i \in 0..((n - 1) - 1) : i \in W => i + 1 \in W
    <3> SUFFICES ASSUME NEW i \in 0..((n - 1) - 1), i \in W PROVE i + 1 \in W
      OBVIOUS
    <3> DEFINE k == i + 1
               g == f[k]
               o == objects[k + 1]
    <3>1. k \in 0..(n - 1) /\ k \in 0..n /\ k + 1 \in 1..n
      BY <1>3
    <3>2. g \in Seq(F) /\ o \in Seq(F) /\ f[k + 1] = g \o o
      BY <1>3, <1>4, <3>1, ElementOfSeq DEF n
    <3>3. Len(g) >= Len(first) /\ \A j \in 1..Len(first) : g[j] = first[j]
      OBVIOUS
    <3> HIDE DEF k, g, o
    <3>4. Len(g) \in Nat /\ Len(o) \in Nat /\ Len(first) \in Nat
      BY <2>2, <3>2, LenProperties
    <3>5. Len(g \o o) = Len(g) + Len(o) /\
          \A j \in 1..(Len(g) + Len(o)) : (g \o o)[j] = IF j <= Len(g) THEN g[j] ELSE o[j - Len(g)]
      BY ONLY <3>2, ConcatProperties
    <3>6. Len(g \o o) >= Len(first)
      BY <3>3, <3>4, <3>5
    <3>7. \A j \in 1..Len(first) : (g \o o)[j] = first[j]
      BY <3>3, <3>4, <3>5
    <3>8. QED
      BY <3>1, <3>2, <3>6, <3>7 DEF k
  <2>5. n - 1 \in W
    <3> HIDE DEF W
    <3>1. n - 1 \in Nat
      BY <1>3, <2>1
    <3>2. \A i \in 0..(n - 1) : i \in W
      BY <2>3, <2>4, <3>1, Induction
    <3>3. QED
      BY <3>1, <3>2
  <2>6. Len(all) >= Len(first) /\ \A j \in 1..Len(first) : all[j] = first[j]
    <3>1. (n - 1) + 1 = n
      BY <1>3
    <3>2. QED
      BY <1>4, <2>5, <3>1
  <2>7. ASSUME NEW j \in 1..Len(first) PROVE Member(first[j], M)
    <3>1. Len(first) \in Nat /\ Len(all) \in Nat
      BY <1>5, <2>2, LenProperties
    <3>2. j \in 1..Len(all) /\ \A k \in 1..(j - 1) : k \in 1..Len(first) /\ k # j
      BY <2>6, <3>1
    <3>3. \A k \in 1..(j - 1) : first[k].key # first[j].key
      BY <2>2, <3>2 DEF ValidMembers
    <3>4. \A k \in 1..(j - 1) : all[k].key # all[j].key
      BY <2>6, <3>2, <3>3
    <3>5. Member(all[j], M)
      BY <1>6, <3>2, <3>4 DEF Merging
    <3>6. QED
      BY <2>6, <3>5
  <2>8. objects # <<>>
    <3>1. Len(<<>>) = 0
      OBVIOUS
    <3>2. QED
      BY <1>3, <2>1, <3>1 DEF n
  <2>9. QED
    BY <2>7, <2>8 DEF first
<1>10. QED
  BY <1>7, <1>8, <1>9 DEF objects, M

\* The object that a text begins with does not depend on what follows it.
LEMMA SameObject ==
  ASSUME NEW s \in Seq(Chars), ObjectAt(s).end # 0, NEW t, Extends(s, t)
  PROVE  ObjectAt(t).end # 0 /\ ObjectAt(t).members = ObjectAt(s).members
<1> DEFINE e == ObjectAt(s).end
           spans == Reads(s)[e].members
<1>1. Whole(s, e)
  BY WholeObject
<1>2. /\ Len(s) \in Nat /\ e >= 2 /\ e <= Len(s) /\ e \in Nat
      /\ t \in Seq(Chars) /\ Len(t) \in Nat /\ Len(s) <= Len(t)
      /\ \A j \in 1..Len(s) : t[j] = s[j]
  BY <1>1, WholeFacts DEF Extends, Words
<1> HIDE DEF e
<1>3. Len(t) >= e /\ \A i \in 1..e : t[i] = s[i]
  BY <1>2
<1>4. Whole(t, e) /\ \A i \in 1..e : Reads(t)[i] = Reads(s)[i]
  BY <1>1, <1>2, <1>3, SameStart
<1>5. Reads(t)[e] = Reads(s)[e]
  <2>1. e \in 1..e
    BY <1>2
  <2>2. QED
    BY <1>4, <2>1
<1>6. /\ ObjectAt(s).members = Values(s, spans)
      /\ ObjectAt(t).end = e /\ ObjectAt(t).members = Values(t, spans)
  BY <1>1, <1>4, <1>5, ObjectOfWhole
<1>7. spans \in Seq(Spans) /\ Placed(s, spans)
  BY <1>1, WholeMembers
<1> DEFINE k == Len(spans)
<1>8. k \in Nat /\ (\A j \in 1..k : spans[j] \in Spans)
      /\ \A j \in 1..k : 1 <= spans[j][2] /\ spans[j][2] <= spans[j][3] /\ spans[j][3] <= Len(s)
  BY <1>7, LenProperties, ElementOfSeq DEF Placed
<1> HIDE DEF spans, k
<1>9. ASSUME NEW j \in 1..k
      PROVE  SubSeq(t, spans[j][2], spans[j][3]) = SubSeq(s, spans[j][2], spans[j][3])
  <2> DEFINE a == spans[j][2]
             b == spans[j][3]
  <2>1. a \in Nat /\ b \in Nat /\ 1 <= a /\ a <= b /\ b <= Len(s)
    BY <1>8 DEF Spans
  <2>2. s \in Words /\ t \in Words
    BY <1>2 DEF Words
  <2> HIDE DEF a, b
  <2>3. SubSeq(t, a, b) = SubSeq(s, a, b)
    <3>1. Len(s) <= Len(s) /\ Len(s) \in Nat
      BY <1>2
    <3>2. QED
      BY <1>2, <2>1, <2>2, <3>1, SamePart
  <2>4. QED
    BY <2>3 DEF a, b
<1>10. Values(t, spans) = Values(s, spans)
  BY <1>9, Zenon DEF Values, k
<1>11. e # 0
  BY <1>2
<1>12. QED
  BY <1>6, <1>10, <1>11

\* The brace that is restored follows the text.
LEMMA RestoredFacts ==
  ASSUME NEW s \in Seq(Chars)
  PROVE  Extends(s, RestoreEnd(s)) /\ RestoreEnd(s) \in Seq(Chars)
<1> DEFINE brace == "}"
<1>1. brace \in Chars
  BY DEF Chars, Brackets
<1> HIDE DEF brace
<1>2. RestoreEnd(s) = s \/ RestoreEnd(s) = Append(s, brace)
  BY DEF RestoreEnd, brace
<1>3. CASE RestoreEnd(s) = s
  <2>1. Len(s) \in Nat
    BY LenProperties
  <2>2. QED
    BY <1>3, <2>1 DEF Extends, Words
<1>4. CASE RestoreEnd(s) = Append(s, brace)
  <2> DEFINE t == Append(s, brace)
  <2>1. /\ t \in Seq(Chars) /\ Len(s) \in Nat /\ Len(t) = Len(s) + 1
        /\ \A i \in 1..Len(s) : t[i] = s[i]
    BY <1>1, Appended
  <2> HIDE DEF t
  <2>2. Len(t) \in Nat /\ Len(s) <= Len(t)
    BY <2>1
  <2>3. Extends(s, t)
    BY <2>1, <2>2 DEF Extends, Words
  <2>4. QED
    BY <1>4, <2>1, <2>3 DEF t
<1>5. QED
  BY <1>2, <1>3, <1>4

\* What is parsed keeps why the LLM ended.
LEMMA ParsedFinish ==
  ASSUME NEW s, NEW repair, NEW finish
  PROVE  Parsed(s, repair, finish).finish = finish
<1> DEFINE c == Candidates(s, repair)
           good == {i \in 1..Len(c) :
                      /\ c[i] # <<>> /\ ObjectAt(c[i]).end = Len(c[i])
                      /\ \A k \in 1..(i - 1) : c[k] # c[i]}
           error == Outcome(finish, "format error", <<>>)
           object == Outcome(finish, "object", ObjectAt(c[Max(good)]).members)
<1>1. Parsed(s, repair, finish) = IF good = {} THEN error ELSE object
  BY DEF Parsed
<1>2. error.finish = finish /\ object.finish = finish
  BY DEF Outcome
<1> HIDE DEF error, object, good
<1>3. QED
  BY <1>1, <1>2

\* The objects at the start are the answer.
LEMMA MergedIsParsed ==
  ASSUME NEW s \in Seq(Chars), NEW repair \in BOOLEAN, NEW finish
  PROVE  Parsed(Dumped(Merged(Objects(s))), repair, finish) = Outcome(finish, "object", Merged(Objects(s)))
<1> DEFINE M == Merged(Objects(s))
<1>1. ValidMembers(M)
  BY MergedObjects
<1> HIDE DEF M
<1>2. /\ Dumped(M) \in Seq(Chars) /\ Dumped(M) # <<>>
      /\ ObjectAt(Dumped(M)).end = Len(Dumped(M)) /\ ObjectAt(Dumped(M)).members = M
  BY <1>1, DumpedIsWhole
<1>3. Parsed(Dumped(M), repair, finish) = Outcome(finish, "object", M)
  BY <1>2, WholeTextIsItsObject
<1>4. QED
  BY <1>3 DEF M

-----------------------------------------------------------------------------
(* The answer *)

\* What the outcome of a text may be.
Honest(o, s) ==
  /\ o.kind = "object" /\ o.finish = "length" =>
       \A i \in 1..Len(o.members) : FoundMember(s, o.members[i])
  /\ ObjectAt(s).end # 0 =>
       /\ o.kind = "object"
       /\ \A i \in 1..Len(ObjectAt(s).members) : Member(ObjectAt(s).members[i], o.members)

\* What complete_json() makes of a text, with each of the settings.
LEMMA CompletedIsHonest ==
  ASSUME NEW s \in Seq(Chars), NEW finish \in {"stop", "length"}, settings \in Settings
  PROVE  Honest(Completed(s, finish), s)
<1> DEFINE repair == settings.repair
           content == IF settings.stop # "off" /\ finish = "stop" THEN RestoreEnd(s) ELSE s
           objects == Objects(content)
           M == Merged(objects)
           whole == ObjectAt(s).end # 0
           first == ObjectAt(s).members
           o == Completed(s, finish)
<1>1. repair \in BOOLEAN
  BY AnswerAssumption
<1>2. Extends(s, content) /\ content \in Seq(Chars) /\ (finish = "length" => content = s)
  <2>1. Extends(s, s)
    <3>1. Len(s) \in Nat
      BY LenProperties
    <3>2. QED
      BY <3>1 DEF Extends, Words
  <2>2. Extends(s, RestoreEnd(s)) /\ RestoreEnd(s) \in Seq(Chars)
    BY RestoredFacts
  <2>3. QED
    BY <2>1, <2>2
<1>3. o = IF objects # <<>> THEN Parsed(Dumped(M), repair, finish)
          ELSE IF finish = "length" THEN Outcome(finish, "truncated", <<>>)
          ELSE Parsed(content, repair, finish)
  BY DEF Completed
<1> HIDE DEF repair, content, o
<1>4. /\ \A j \in 1..Len(M) : FoundMember(content, M[j])
      /\ ObjectAt(content).end # 0 =>
           /\ objects # <<>>
           /\ \A j \in 1..Len(ObjectAt(content).members) : Member(ObjectAt(content).members[j], M)
  BY <1>2, MergedObjects
<1>5. whole => ObjectAt(content).end # 0 /\ ObjectAt(content).members = first
  BY <1>2, SameObject
<1> HIDE DEF objects, M
<1>6. CASE objects # <<>>
  <2>1. o = Outcome(finish, "object", M)
    BY <1>1, <1>2, <1>3, <1>6, MergedIsParsed DEF objects, M
  <2>2. o.kind = "object" /\ o.finish = finish /\ o.members = M
    BY <2>1 DEF Outcome
  <2>3. finish = "length" => \A j \in 1..Len(M) : FoundMember(s, M[j])
    BY <1>2, <1>4
  <2>4. whole => \A j \in 1..Len(first) : Member(first[j], M)
    BY <1>4, <1>5
  <2>5. Honest(o, s)
    BY <2>2, <2>3, <2>4 DEF Honest
  <2>6. QED
    BY <2>5 DEF o
<1>7. CASE objects = <<>>
  <2>1. ~whole
    BY <1>4, <1>5, <1>7
  <2>2. o.finish = finish /\ (finish = "length" => o.kind # "object")
    <3>1. CASE finish = "length"
      <4>1. o = Outcome(finish, "truncated", <<>>)
        BY <1>3, <1>7, <3>1
      <4>2. QED
        BY <4>1 DEF Outcome
    <3>2. CASE finish # "length"
      <4>1. o = Parsed(content, repair, finish)
        BY <1>3, <1>7, <3>2
      <4>2. QED
        BY <3>2, <4>1, ParsedFinish
    <3>3. QED
      BY <3>1, <3>2
  <2>3. Honest(o, s)
    BY <2>1, <2>2 DEF Honest
  <2>4. QED
    BY <2>3 DEF o
<1>8. QED
  BY <1>6, <1>7

\* What the loader leaves of a piece when it stops at a brace.
LEMMA StoppedPiece ==
  ASSUME NEW p \in Seq(Chars), Contains(p, "}")
  PROVE  SubSeq(p, 1, SelectInSeq(p, LAMBDA c : c = "}") - 1) \in Seq(Chars)
<1> DEFINE I == {i \in 1..Len(p) : p[i] = "}"}
           n == Len(p)
<1>1. n \in Nat /\ \A j \in 1..n : p[j] \in Chars
  BY LenProperties, ElementOfSeq
<1>2. I # {} /\ I \subseteq 1..n
  BY Zenon DEF Contains
<1>3. SelectInSeq(p, LAMBDA c : c = "}") = Min(I)
  BY <1>2 DEF SelectInSeq
<1> HIDE DEF I, n
<1>4. Min(I) \in I
  <2>1. I \in SUBSET Nat
    BY ONLY <1>1, <1>2
  <2>2. \E m \in I : \A k \in I : m <= k
    BY <1>2, <2>1, Least
  <2>3. QED
    BY <2>2 DEF Min
<1>5. Min(I) \in 1..n
  BY <1>2, <1>4
<1> DEFINE first == Min(I)
           last == first - 1
<1> HIDE DEF first
<1>6. last \in Nat /\ \A j \in 1..last : j \in 1..n
  <2>1. first \in 1..n
    BY <1>5 DEF first
  <2>2. QED
    BY ONLY <1>1, <2>1
<1> HIDE DEF last
<1>7. SubSeq(p, 1, last) \in Seq(Chars)
  <2>1. 1 \in Int /\ last \in Int
    BY ONLY <1>6
  <2>2. \A j \in 1..last : p[j] \in Chars
    BY ONLY <1>1, <1>6
  <2>3. QED
    BY ONLY <2>1, <2>2, SubSeqProperties
<1>8. QED
  BY <1>3, <1>7 DEF first, last

\* The inductive invariant: what was written is a text, and what it was completed to is
\* what it may be.
AnswerInv ==
  /\ settings \in Settings
  /\ text \in Seq(Chars)
  /\ outcome # Pending => Honest(outcome, text)

\* It holds in every state, for every piece of text that the LLM may write, any number of
\* them, and every setting.
LEMMA AnswerInvariant == AnswerSpec => []AnswerInv
<1>1. AnswerInit => AnswerInv
  BY DEF AnswerInit, AnswerInv
<1>2. AnswerInv /\ [AnswerNext]_answerVars => AnswerInv'
  <2> SUFFICES ASSUME AnswerInv, [AnswerNext]_answerVars PROVE AnswerInv'
    OBVIOUS
  <2>1. settings \in Settings /\ text \in Seq(Chars) /\ Pieces \subseteq Seq(Chars)
    BY AnswerAssumption DEF AnswerInv
  <2>2. ASSUME NEW p \in Pieces, Write(p) PROVE AnswerInv'
    <3>1. /\ settings' = settings /\ text' = text \o p
          /\ outcome' = Pending
      BY <2>2 DEF Write
    <3>2. text' \in Seq(Chars)
      BY <2>1, <3>1, ConcatProperties
    <3>3. QED
      BY <2>1, <3>1, <3>2 DEF AnswerInv, Pending, Outcome
  <2>3. ASSUME NEW p \in Pieces, StopAtBrace(p) PROVE AnswerInv'
    <3> DEFINE part == SubSeq(p, 1, SelectInSeq(p, LAMBDA c : c = "}") - 1)
    <3>1. /\ settings' = settings /\ text' = text \o part
          /\ outcome' = Completed(text', "stop")
      BY <2>3 DEF StopAtBrace
    <3>2. p \in Seq(Chars) /\ Contains(p, "}")
      BY <2>1, <2>3 DEF StopAtBrace, Stops
    <3>3. part \in Seq(Chars)
      BY <3>2, StoppedPiece
    <3> HIDE DEF part
    <3>4. text' \in Seq(Chars)
      BY <2>1, <3>1, <3>3, ConcatProperties
    <3>5. Honest(Completed(text', "stop"), text')
      BY <2>1, <3>4, CompletedIsHonest
    <3>6. QED
      BY <2>1, <3>1, <3>4, <3>5 DEF AnswerInv
  <2>4. ASSUME NEW finish \in {"stop", "length"}, End(finish) PROVE AnswerInv'
    <3>1. settings' = settings /\ text' = text /\ outcome' = Completed(text, finish)
      BY <2>4 DEF End
    <3>2. Honest(Completed(text, finish), text)
      BY <2>1, CompletedIsHonest
    <3>3. QED
      BY <2>1, <3>1, <3>2 DEF AnswerInv
  <2>5. CASE UNCHANGED answerVars
    BY <2>5 DEF AnswerInv, answerVars, Pending, Outcome
  <2>6. QED
    BY <2>2, <2>3, <2>4, <2>5 DEF AnswerNext
<1>3. QED
  BY <1>1, <1>2, PTL DEF AnswerSpec

\* Whatever the LLM writes and whichever settings are made, an answer that was cut at the
\* token limit is used for the objects in it that are complete, and for nothing else
\* (complete_json()).
THEOREM NothingCut == AnswerSpec => []NothingCutIsUsed
<1>1. AnswerInv => NothingCutIsUsed
  <2> SUFFICES ASSUME AnswerInv, Used, outcome.finish = "length", NEW i \in 1..Len(outcome.members)
               PROVE  \E from \in 1..Len(text) : Member(outcome.members[i], ObjectAt(Rest(text, from)).members)
    BY DEF NothingCutIsUsed
  <2>1. outcome # Pending
    BY DEF Used, Pending, Outcome
  <2>2. FoundMember(text, outcome.members[i])
    BY <2>1 DEF AnswerInv, Honest, Used
  <2>3. QED
    BY <2>2 DEF FoundMember
<1>2. QED
  BY <1>1, AnswerInvariant, PTL

\* Whatever the LLM writes and whichever settings are made, the members of an object that
\* the answer begins with are all in the outcome, as they were written, and no repair, no
\* restored brace and no later object replaces them.
THEOREM FirstObjectKept == AnswerSpec => []FirstObjectIsKept
<1>1. AnswerInv => FirstObjectIsKept
  BY DEF AnswerInv, Honest, Used, FirstObjectIsKept
<1>2. QED
  BY <1>1, AnswerInvariant, PTL
=============================================================================
