--------------------------- MODULE RowSumTheorems ---------------------------
(***************************************************************************)
(* What the sum of a column does when a row is inserted or updated.  The   *)
(* invariants that relate a balance to a table of rows (locked money to    *)
(* pending withdraws, a wallet to its ledger) all rest on these facts.     *)
(* Induction on the number of rows is carried out on sets of naturals, by  *)
(* the least counterexample.                                               *)
(***************************************************************************)
EXTENDS RowSums, WellFoundedInduction, TLAPS

(* A non-empty set of naturals has a least element.                        *)
LEMMA LeastNatural ==
  ASSUME NEW T \in SUBSET Nat, T # {}
  PROVE  \E x \in T : \A y \in T : x <= y
<1> DEFINE R == {ss \in Nat \X Nat : ss[1] < ss[2]}
<1>1. IsWellFoundedOn(R, Nat)
  BY NatLessThanWellFounded DEF OpToRel
<1>2. ASSUME NEW x \in Nat, NEW y \in Nat
      PROVE  <<y, x>> \in R <=> y < x
  OBVIOUS
<1> HIDE DEF R
<1>3. \E x \in T : \A y \in T : ~ (<<y, x>> \in R)
  BY <1>1, WFMin
<1>4. PICK x \in T : \A y \in T : ~ (<<y, x>> \in R)
  BY <1>3, Zenon
<1>5. \A y \in T : x <= y
  <2>1. TAKE y \in T
  <2>2. ~ (<<y, x>> \in R)
    BY <1>4
  <2>3. x \in Nat /\ y \in Nat
    OBVIOUS
  <2>4. ~ (y < x)
    BY <2>2, <2>3, <1>2
  <2> QED BY <2>3, <2>4
<1> QED BY <1>5

(* A set that holds 0 and the successor of each of its naturals holds them *)
(* all: induction stated for sets.                                         *)
LEMMA SetInduction ==
  ASSUME NEW S, 0 \in S, \A n \in Nat : n \in S => n + 1 \in S
  PROVE  Nat \subseteq S
<1> DEFINE T == {n \in Nat : n \notin S}
<1>1. SUFFICES ASSUME T # {} PROVE FALSE
  OBVIOUS
<1>2. PICK x \in T : \A y \in T : x <= y
  BY <1>1, LeastNatural
<1>3. x # 0 /\ x - 1 \in Nat
  OBVIOUS
<1>4. x - 1 \in S
  BY <1>2, <1>3
<1> QED BY <1>3, <1>4

IsSum(col, n, s) ==
  s = [i \in 0..n |-> IF i = 0 THEN 0 ELSE s[i - 1] + col[i]]

(* The recursive definition has a solution, so SumRows is its value.       *)
LEMMA SumExists ==
  ASSUME NEW n \in Nat, NEW col, \A i \in 1..n : col[i] \in Int
  PROVE  \E s \in [0..n -> Int] : IsSum(col, n, s)
<1> DEFINE S == {m \in Nat : m <= n => \E s \in [0..m -> Int] : IsSum(col, m, s)}
<1>1. 0 \in S
  <2>1. IsSum(col, 0, [i \in 0..0 |-> 0])
    BY DEF IsSum
  <2>2. [i \in 0..0 |-> 0] \in [0..0 -> Int]
    OBVIOUS
  <2> QED BY <2>1, <2>2
<1>2. ASSUME NEW m \in Nat, m \in S
      PROVE  m + 1 \in S
  <2>1. CASE m + 1 <= n
    <3>1. PICK s \in [0..m -> Int] : IsSum(col, m, s)
      BY <1>2, <2>1
    <3> DEFINE t == [i \in 0..(m + 1) |-> IF i = m + 1 THEN s[m] + col[i] ELSE s[i]]
    <3>2. m + 1 \in 1..n /\ m \in 0..m
      BY <2>1
    <3>3. t \in [0..(m + 1) -> Int]
      BY <3>2
    <3>4. \A i \in 0..m : s[i] = IF i = 0 THEN 0 ELSE s[i - 1] + col[i]
      BY <3>1 DEF IsSum
    <3>5. \A i \in 0..(m + 1) : t[i] = IF i = 0 THEN 0 ELSE t[i - 1] + col[i]
      <4>1. TAKE i \in 0..(m + 1)
      <4>2. CASE i = 0 BY <4>2, <3>4
      <4>3. CASE i = m + 1 BY <4>3
      <4>4. CASE i # 0 /\ i # m + 1
        <5>1. i \in 0..m /\ i - 1 \in 0..(m + 1) /\ i - 1 # m + 1
          BY <4>4
        <5> QED BY <5>1, <4>4, <3>4
      <4> QED BY <4>2, <4>3, <4>4
    <3>6. t = [i \in 0..(m + 1) |-> IF i = 0 THEN 0 ELSE t[i - 1] + col[i]]
      BY <3>5
    <3> HIDE DEF t
    <3>7. IsSum(col, m + 1, t)
      BY <3>6 DEF IsSum
    <3> QED BY <3>3, <3>7
  <2>2. CASE ~ (m + 1 <= n)
    BY <2>2
  <2> QED BY <2>1, <2>2
<1> HIDE DEF S
<1>3. Nat \subseteq S
  BY <1>1, <1>2, SetInduction
<1>4. n \in S
  BY <1>3
<1> QED BY <1>4 DEF S

(* s lists the sums of the first 0, 1, ..., n entries of the column.        *)
Running(s, col, n) ==
  /\ s[0] = 0
  /\ \A i \in 1..n : s[i] = s[i - 1] + col[i]

(* SumRows(col, n) is the last entry of a running sum: what the later      *)
(* lemmas use instead of the recursive definition.                         *)
LEMMA SumSolution ==
  ASSUME NEW n \in Nat, NEW col, \A i \in 1..n : col[i] \in Int
  PROVE  \E s \in [0..n -> Int] :
           Running(s, col, n) /\ SumRows(col, n) = s[n]
<1> DEFINE s == CHOOSE s : IsSum(col, n, s)
<1>1. SumRows(col, n) = s[n]
  BY DEF SumRows, IsSum
<1>2. PICK t \in [0..n -> Int] : IsSum(col, n, t)
  BY SumExists
<1>3. IsSum(col, n, s)
  BY <1>2
<1> HIDE DEF s
<1>4. \A i \in 0..n : s[i] = IF i = 0 THEN 0 ELSE s[i - 1] + col[i]
  BY <1>3 DEF IsSum
<1>5. \A i \in 0..n : s[i] \in Int
  <2> DEFINE S == {m \in Nat : m <= n => s[m] \in Int}
  <2>1. 0 \in S
    BY <1>4
  <2>2. ASSUME NEW m \in Nat, m \in S PROVE m + 1 \in S
    <3>1. m + 1 <= n => s[m + 1] = s[m] + col[m + 1]
      BY <1>4
    <3> QED BY <3>1, <2>2
  <2> HIDE DEF S
  <2>3. Nat \subseteq S
    BY <2>1, <2>2, SetInduction
  <2> QED BY <2>3 DEF S
<1>6. s \in [0..n -> Int]
  BY <1>3, <1>5 DEF IsSum
<1>7. Running(s, col, n)
  BY <1>4 DEF Running
<1> QED BY <1>1, <1>6, <1>7

(* A sum of integers is an integer.                                        *)
LEMMA SumType ==
  ASSUME NEW n \in Nat, NEW col, \A i \in 1..n : col[i] \in Int
  PROVE  SumRows(col, n) \in Int
BY SumSolution

(* The sum over an empty table is 0.                                       *)
LEMMA SumEmpty ==
  ASSUME NEW col
  PROVE  SumRows(col, 0) = 0
<1>1. 0 \in Nat /\ \A i \in 1..0 : col[i] \in Int
  OBVIOUS
<1>2. PICK s \in [0..0 -> Int] : Running(s, col, 0) /\ SumRows(col, 0) = s[0]
  BY <1>1, SumSolution, Zenon
<1> QED BY <1>2 DEF Running

(* Two columns that agree have the same sum, and changing one row changes  *)
(* the sum by the difference: UPDATE ... WHERE id = k.                     *)
LEMMA SumUpdate ==
  ASSUME NEW n \in Nat, NEW col, NEW new,
         \A i \in 1..n : col[i] \in Int /\ new[i] \in Int,
         NEW k \in 1..n, \A i \in 1..n : i # k => new[i] = col[i]
  PROVE  SumRows(new, n) = SumRows(col, n) + new[k] - col[k]
<1>0. (\A i \in 1..n : col[i] \in Int) /\ (\A i \in 1..n : new[i] \in Int)
  OBVIOUS
<1>1. PICK s \in [0..n -> Int] :
        Running(s, col, n) /\ SumRows(col, n) = s[n]
  BY <1>0, SumSolution, Zenon
<1>2. PICK t \in [0..n -> Int] :
        Running(t, new, n) /\ SumRows(new, n) = t[n]
  BY <1>0, SumSolution, Zenon
<1> DEFINE d == new[k] - col[k]
<1> DEFINE S == {m \in Nat : m <= n => t[m] = s[m] + (IF m < k THEN 0 ELSE d)}
<1>3. 0 \in S
  BY <1>1, <1>2 DEF Running
<1>4. ASSUME NEW m \in Nat, m \in S PROVE m + 1 \in S
  <2>1. CASE m + 1 <= n
    <3>1. s[m + 1] = s[m] + col[m + 1] /\ t[m + 1] = t[m] + new[m + 1]
      BY <1>1, <1>2, <2>1 DEF Running
    <3>2. s[m] \in Int /\ t[m] \in Int /\ d \in Int /\ col[m + 1] \in Int
      BY <2>1
    <3>3. t[m] = s[m] + (IF m < k THEN 0 ELSE d)
      BY <1>4, <2>1
    <3>4. m < k => t[m] = s[m]
      BY <3>3
    <3>5. ~ (m < k) => t[m] = s[m] + d /\ new[m + 1] = col[m + 1]
      BY <3>3, <2>1
    <3>6. m + 1 < k => t[m + 1] = s[m + 1]
      BY <3>1, <3>4, <2>1
    <3>7. m + 1 = k => t[m + 1] = s[m + 1] + d
      <4>1. SUFFICES ASSUME m + 1 = k PROVE t[k] = s[k] + (new[k] - col[k])
        OBVIOUS
      <4>2. s[k] = s[m] + col[k] /\ t[k] = t[m] + new[k] /\ t[m] = s[m]
        <5>1. m < k /\ s[m + 1] = s[m] + col[m + 1] /\ t[m + 1] = t[m] + new[m + 1]
          BY <4>1, <3>1
        <5> QED BY <4>1, <5>1, <3>4, Zenon
      <4>3. s[m] \in Int /\ col[k] \in Int /\ new[k] \in Int
        BY <3>2, <1>0
      <4> QED BY <4>2, <4>3
    <3>8. ~ (m < k) => t[m + 1] = s[m + 1] + d
      <4> HIDE DEF d
      <4> QED BY <3>1, <3>2, <3>5
    <3> HIDE DEF d
    <3>9. t[m + 1] = s[m + 1] + (IF m + 1 < k THEN 0 ELSE d)
      <4>1. s[m + 1] \in Int /\ k \in Int
        BY <2>1
      <4> QED BY <3>6, <3>7, <3>8, <4>1
    <3> QED BY <3>9
  <2> QED BY <2>1
<1> HIDE DEF S
<1>5. n \in S
  BY <1>3, <1>4, SetInduction
<1>6. t[n] = s[n] + d
  BY <1>5 DEF S
<1>7. s[n] \in Int /\ new[k] \in Int /\ col[k] \in Int
  OBVIOUS
<1> QED BY <1>1, <1>2, <1>6, <1>7

(* Columns that agree on the first n rows have the same sum over them.     *)
LEMMA SumEqual ==
  ASSUME NEW n \in Nat, NEW col, NEW new,
         \A i \in 1..n : col[i] \in Int /\ new[i] = col[i]
  PROVE  SumRows(new, n) = SumRows(col, n)
<1>1. CASE n = 0
  BY <1>1, SumEmpty
<1>2. CASE n # 0
  <2>1. n \in 1..n /\ new[n] = col[n] /\ new[n] \in Int
    BY <1>2
  <2>2. SumRows(new, n) = SumRows(col, n) + new[n] - col[n]
    BY <2>1, SumUpdate
  <2> QED BY <2>1, <2>2, SumType
<1> QED BY <1>1, <1>2

(* Inserting a row adds its value: INSERT INTO table.                      *)
LEMMA SumAppend ==
  ASSUME NEW n \in Nat, NEW col, NEW new,
         \A i \in 1..n : col[i] \in Int /\ new[i] = col[i],
         new[n + 1] \in Int
  PROVE  SumRows(new, n + 1) = SumRows(col, n) + new[n + 1]
<1>0. \A i \in 1..n : col[i] \in Int
  OBVIOUS
<1>1. PICK s \in [0..n -> Int] :
        Running(s, col, n) /\ SumRows(col, n) = s[n]
  BY <1>0, SumSolution, Zenon
<1>2. \A i \in 1..(n + 1) : new[i] \in Int
  OBVIOUS
<1>3. PICK t \in [0..(n + 1) -> Int] :
        Running(t, new, n + 1) /\ SumRows(new, n + 1) = t[n + 1]
  <2>1. n + 1 \in Nat
    OBVIOUS
  <2> QED BY <1>2, <2>1, SumSolution
<1> DEFINE S == {m \in Nat : m <= n => t[m] = s[m]}
<1>4. 0 \in S
  BY <1>1, <1>3 DEF Running
<1>5. ASSUME NEW m \in Nat, m \in S PROVE m + 1 \in S
  BY <1>1, <1>3, <1>5 DEF Running
<1> HIDE DEF S
<1>6. n \in S
  BY <1>4, <1>5, SetInduction
<1>7. t[n] = s[n]
  BY <1>6 DEF S
<1> QED BY <1>1, <1>3, <1>7 DEF Running

(* With no negative entry, the sum is at least each of its entries.   *)
LEMMA SumCovers ==
  ASSUME NEW n \in Nat, NEW col, \A i \in 1..n : col[i] \in Nat,
         NEW k \in 1..n
  PROVE  col[k] <= SumRows(col, n)
<1>0. \A i \in 1..n : col[i] \in Int
  OBVIOUS
<1>1. PICK s \in [0..n -> Int] :
        Running(s, col, n) /\ SumRows(col, n) = s[n]
  BY <1>0, SumSolution, Zenon
<1> DEFINE S == {m \in Nat : m <= n => (s[m] >= 0 /\ (k <= m => s[m] >= col[k]))}
<1>2. 0 \in S
  BY <1>1 DEF Running
<1>3. ASSUME NEW m \in Nat, m \in S PROVE m + 1 \in S
  <2>1. CASE m + 1 <= n
    <3>1. s[m + 1] = s[m] + col[m + 1] /\ s[m] \in Int /\ col[m + 1] \in Nat /\ col[k] \in Nat
      BY <1>1, <2>1 DEF Running
    <3>2. CASE k = m + 1
      BY <3>1, <3>2, <1>3, <2>1
    <3>3. CASE k # m + 1
      BY <3>1, <3>3, <1>3, <2>1
    <3> QED BY <3>2, <3>3
  <2> QED BY <2>1
<1> HIDE DEF S
<1>4. n \in S
  BY <1>2, <1>3, SetInduction
<1> QED BY <1>1, <1>4 DEF S
=============================================================================
