--------------------------- MODULE BlockMapProofs ---------------------------
(***************************************************************************)
(* Theorems about BlockMap, for every number of direct entries, size of    *)
(* the tables, file with holes and boot block.                             *)
(***************************************************************************)
EXTENDS BlockMap, FiniteSetTheorems, SequenceTheorems, TLAPS

(***************************************************************************)
(* Leaves and their indices.                                               *)
(***************************************************************************)

\* The index of the block at the end of a path: the blocks before its tree in
\* i_block, and the entries of the tables on the way as digits.
Index(p) ==
  IF p[1] < Direct THEN p[1]
  ELSE IF p[1] = Single THEN Direct + p[2]
  ELSE IF p[1] = Double THEN Direct + E1 + (E1 * p[2] + p[3])
  ELSE Direct + E1 + E2 + (E1 * (E1 * p[2] + p[3]) + p[4])

\* The path on which the divisions of ext2_block_from_offset lead.
CodePath(k) ==
  LET n1 == k - Direct
      n2 == n1 - E1
      n3 == n2 - E2
  IN  IF k < Direct THEN <<k>>
      ELSE IF n1 < E1 THEN <<Single, n1>>
      ELSE IF n2 < E2 THEN <<Double, n2 \div E1, n2 % E1>>
      ELSE <<Triple, n3 \div E2, MiddleIndex(n3), n3 % E1>>

\* The blocks a file can have at most.
Total == Direct + E1 + E2 + E3

\* Sizes are positive numbers.
LEMMA Sizes ==
  /\ Direct \in Nat \ {0} /\ E1 \in Nat \ {0} /\ E2 \in Nat \ {0} /\ E3 \in Nat \ {0}
  /\ Total \in Nat /\ InTable = 0 .. E1 - 1
<1>1. Direct \in Nat \ {0} /\ Entries \in Nat \ {0}
  BY SizeAssumption
<1>2. \A a, b \in Nat \ {0} : a * b \in Nat \ {0}
  OBVIOUS
<1>3. E2 \in Nat \ {0} /\ E2 = Entries * Entries
  BY <1>1, <1>2 DEF E2
<1>4. E3 \in Nat \ {0}
  BY <1>1, <1>2, <1>3 DEF E3
<1>. QED
  BY <1>1, <1>3, <1>4 DEF E1, Total, InTable

\* Quotient and remainder of a number that is given in parts.
LEMMA DivMod ==
  ASSUME NEW k \in Nat \ {0}, NEW q \in Nat, NEW r \in 0 .. k - 1, NEW x, x = k * q + r
  PROVE  x \div k = q /\ x % k = r
  OBVIOUS

\* A number is made of its quotient and its remainder.
LEMMA DivModSplit ==
  ASSUME NEW k \in Nat \ {0}, NEW a \in Nat
  PROVE  a \div k \in Nat /\ a % k \in 0 .. k - 1 /\ a = k * (a \div k) + (a % k)
  OBVIOUS

\* A pair of digits is a number below the product ...
LEMMA DigitsBound ==
  ASSUME NEW k \in Nat \ {0}, NEW m \in Nat \ {0}, NEW a \in 0 .. m - 1, NEW r \in 0 .. k - 1
  PROVE  k * a + r \in 0 .. k * m - 1
<1>1. k * (a + 1) <= k * m
  OBVIOUS
<1>2. k * (a + 1) = k * a + k /\ k * a \in Nat /\ k * m \in Nat
  OBVIOUS
<1>. QED
  BY <1>1, <1>2

\* ... and pairs of digits are ordered as the numbers are.
LEMMA DigitsOrder ==
  ASSUME NEW k \in Nat \ {0}, NEW a \in Nat, NEW b \in Nat, NEW r \in 0 .. k - 1, NEW s \in 0 .. k - 1
  PROVE  k * a + r < k * b + s <=> a < b \/ (a = b /\ r < s)
<1>1. k * a \in Nat /\ k * b \in Nat
  OBVIOUS
<1>2. CASE a < b
  <2>1. k * (a + 1) <= k * b /\ k * (a + 1) = k * a + k
    BY <1>2
  <2>. QED
    BY <1>1, <1>2, <2>1
<1>3. CASE b < a
  <2>1. k * (b + 1) <= k * a /\ k * (b + 1) = k * b + k
    BY <1>3
  <2>. QED
    BY <1>1, <1>3, <2>1
<1>4. CASE a = b
  BY <1>1, <1>4
<1>. QED
  BY <1>2, <1>3, <1>4

\* The four kinds of leaves.
Kind0(p) == \E i \in 0 .. Direct - 1 : p = <<i>>
Kind1(p) == \E a \in InTable : p = <<Single, a>>
Kind2(p) == \E a, b \in InTable : p = <<Double, a, b>>
Kind3(p) == \E a, b, c \in InTable : p = <<Triple, a, b, c>>

\* Every leaf is of one of them.
LEMMA Kinds ==
  ASSUME NEW p
  PROVE  p \in Leaves <=> Kind0(p) \/ Kind1(p) \/ Kind2(p) \/ Kind3(p)
<1>1. p \in {Single} \X InTable <=> Kind1(p)
  BY DEF Kind1
<1>2. p \in {Double} \X InTable \X InTable <=> Kind2(p)
  BY DEF Kind2
<1>3. p \in {Triple} \X InTable \X InTable \X InTable <=> Kind3(p)
  BY DEF Kind3
<1>. QED
  BY <1>1, <1>2, <1>3 DEF Leaves, Kind0

\* The indices of the leaves of each kind.
LEMMA IndexOf ==
  /\ \A i \in 0 .. Direct - 1 : Index(<<i>>) = i
  /\ \A a \in InTable : Index(<<Single, a>>) = Direct + a
  /\ \A a, b \in InTable : Index(<<Double, a, b>>) = Direct + E1 + (E1 * a + b)
  /\ \A a, b, c \in InTable :
       Index(<<Triple, a, b, c>>) = Direct + E1 + E2 + (E1 * (E1 * a + b) + c)
  BY Sizes DEF Index, Single, Double, Triple

\* Where the indices of each kind lie.
LEMMA IndexRange ==
  ASSUME NEW p
  PROVE  /\ Kind0(p) => Index(p) \in 0 .. Direct - 1
         /\ Kind1(p) => Index(p) \in Direct .. Direct + E1 - 1
         /\ Kind2(p) => Index(p) \in Direct + E1 .. Direct + E1 + E2 - 1
         /\ Kind3(p) => Index(p) \in Direct + E1 + E2 .. Total - 1
<1>1. \A a, b \in InTable : E1 * a + b \in 0 .. E2 - 1
  <2>. SUFFICES ASSUME NEW a \in InTable, NEW b \in InTable PROVE E1 * a + b \in 0 .. E2 - 1
    OBVIOUS
  <2>1. E1 * a + b \in 0 .. E1 * E1 - 1
    BY Sizes, DigitsBound
  <2>. QED
    BY <2>1 DEF E1, E2
<1>2. \A a, b, c \in InTable : E1 * (E1 * a + b) + c \in 0 .. E3 - 1
  <2>. SUFFICES ASSUME NEW a \in InTable, NEW b \in InTable, NEW c \in InTable
                PROVE  E1 * (E1 * a + b) + c \in 0 .. E3 - 1
    OBVIOUS
  <2>1. PICK x : x = E1 * a + b
    OBVIOUS
  <2>2. x \in 0 .. E2 - 1
    BY <2>1, <1>1
  <2>3. E1 * x + c \in 0 .. E1 * E2 - 1
    BY <2>2, Sizes, DigitsBound
  <2>4. E1 * E2 = E3
    BY SizeAssumption DEF E1, E2, E3
  <2>. QED
    BY <2>1, <2>3, <2>4
<1>3. ASSUME Kind0(p) PROVE Index(p) \in 0 .. Direct - 1
  BY <1>3, IndexOf DEF Kind0
<1>4. ASSUME Kind1(p) PROVE Index(p) \in Direct .. Direct + E1 - 1
  BY <1>4, IndexOf, Sizes DEF Kind1
<1>5. ASSUME Kind2(p) PROVE Index(p) \in Direct + E1 .. Direct + E1 + E2 - 1
  <2>1. PICK n \in 0 .. E2 - 1 : Index(p) = Direct + E1 + n
    BY <1>5, <1>1, IndexOf DEF Kind2
  <2>. QED
    BY <2>1, Sizes
<1>6. ASSUME Kind3(p) PROVE Index(p) \in Direct + E1 + E2 .. Total - 1
  <2>1. PICK n \in 0 .. E3 - 1 : Index(p) = Direct + E1 + E2 + n
    BY <1>6, <1>2, IndexOf DEF Kind3
  <2>. QED
    BY <2>1, Sizes DEF Total
<1>. QED
  BY <1>3, <1>4, <1>5, <1>6

\* Dividing twice is dividing by the square.
LEMMA DivTwice ==
  ASSUME NEW k \in Nat \ {0}, NEW n \in Nat
  PROVE  n \div (k * k) = (n \div k) \div k
<1>1. PICK q \in Nat, r \in 0 .. k - 1 : n = k * q + r /\ q = n \div k
  BY DivModSplit
<1>2. PICK a \in Nat, b \in 0 .. k - 1 : q = k * a + b /\ a = q \div k
  BY DivModSplit
<1>3. PICK s : s = k * b + r
  OBVIOUS
<1>4. s \in 0 .. k * k - 1
  BY <1>3, DigitsBound
<1>5. n = (k * k) * a + s
  <2>1. n = k * (k * a + b) + r
    BY <1>1, <1>2
  <2>. QED
    BY <2>1, <1>3
<1>6. k * k \in Nat \ {0}
  OBVIOUS
<1>7. n \div (k * k) = a
  <2>1. PICK m : m = k * k
    OBVIOUS
  <2>. QED
    BY <1>4, <1>5, <1>6, <2>1, DivMod
<1>. QED
  BY <1>1, <1>2, <1>7

\* A number below a product has a pair of digits.
LEMMA Digits ==
  ASSUME NEW k \in Nat \ {0}, NEW m \in Nat \ {0}, NEW n \in 0 .. k * m - 1
  PROVE  n \div k \in 0 .. m - 1 /\ n % k \in 0 .. k - 1 /\ n = k * (n \div k) + (n % k)
<1>1. n \in Nat /\ n < k * m
  OBVIOUS
<1>2. PICK a \in Nat, b \in 0 .. k - 1 : n = k * a + b /\ a = n \div k /\ b = n % k
  BY <1>1, DivModSplit
<1>3. a < m
  <2>. SUFFICES ASSUME a >= m PROVE FALSE
    BY <1>2
  <2>1. k * a >= k * m
    OBVIOUS
  <2>. QED
    BY <2>1, <1>1, <1>2
<1>. QED
  BY <1>2, <1>3

\* The digits of a number below Entries^2, the entries of two tables, ...
LEMMA DoubleDigits ==
  ASSUME NEW n \in 0 .. E2 - 1
  PROVE  \E a, b \in InTable : n = E1 * a + b /\ a = n \div E1 /\ b = n % E1
<1>1. n \in 0 .. E1 * E1 - 1
  BY DEF E1, E2
<1>2. /\ n \div E1 \in 0 .. E1 - 1 /\ n % E1 \in 0 .. E1 - 1
      /\ n = E1 * (n \div E1) + (n % E1)
  BY <1>1, Digits, Sizes
<1>. QED
  BY <1>2, Sizes

\* ... and of one below Entries^3, the entries of three.
LEMMA TripleDigits ==
  ASSUME NEW n \in 0 .. E3 - 1
  PROVE  \E a, b, c \in InTable :
           /\ n = E1 * (E1 * a + b) + c
           /\ a = n \div E2 /\ b = (n \div E1) % E1 /\ c = n % E1
<1>1. E1 * E2 = E3
  BY SizeAssumption DEF E1, E2, E3
<1>2. n \in 0 .. E1 * E2 - 1
  BY <1>1
<1>3. PICK q, c : q = n \div E1 /\ c = n % E1
  OBVIOUS
<1>4. q \in 0 .. E2 - 1 /\ c \in 0 .. E1 - 1 /\ n = E1 * q + c
  BY <1>2, <1>3, Digits, Sizes
<1>5. PICK a, b \in InTable : q = E1 * a + b /\ a = q \div E1 /\ b = q % E1
  BY <1>4, DoubleDigits
<1>6. n \div (E1 * E1) = (n \div E1) \div E1
  <2>1. n \in Nat /\ E1 \in Nat \ {0}
    BY Sizes
  <2>. QED
    BY <2>1, DivTwice
<1>7. n \div E2 = a
  <2>1. E1 * E1 = E2
    BY DEF E1, E2
  <2>. QED
    BY <1>3, <1>5, <1>6, <2>1
<1>. QED
  BY <1>3, <1>4, <1>5, <1>7, Sizes

\* The divisions of ext2_block_from_offset find a leaf, the one with the index.
LEMMA CodePathIndex ==
  ASSUME NEW k \in 0 .. Total - 1
  PROVE  CodePath(k) \in Leaves /\ Index(CodePath(k)) = k
<1>. DEFINE n1 == k - Direct
            n2 == n1 - E1
            n3 == n2 - E2
<1>1. CASE k < Direct
  <2>1. CodePath(k) = <<k>> /\ k \in 0 .. Direct - 1
    BY <1>1, Sizes DEF CodePath
  <2>. QED
    BY <2>1, IndexOf, Kinds DEF Kind0
<1>2. CASE k >= Direct /\ n1 < E1
  <2>1. CodePath(k) = <<Single, n1>> /\ n1 \in InTable
    BY <1>2, Sizes DEF CodePath
  <2>2. Index(CodePath(k)) = k
    BY <2>1, IndexOf, Sizes
  <2>. QED
    BY <2>1, <2>2, Kinds DEF Kind1
<1>3. CASE k >= Direct /\ n1 >= E1 /\ n2 < E2
  <2>1. CodePath(k) = <<Double, n2 \div E1, n2 % E1>>
    BY <1>3, Sizes DEF CodePath
  <2>2. n2 \in 0 .. E2 - 1 /\ k = Direct + E1 + n2
    BY <1>3, Sizes
  <2>. HIDE DEF n2
  <2>3. PICK a, b \in InTable : n2 = E1 * a + b /\ a = n2 \div E1 /\ b = n2 % E1
    BY <2>2, DoubleDigits
  <2>4. CodePath(k) = <<Double, a, b>>
    BY <2>1, <2>3
  <2>5. Index(CodePath(k)) = k
    <3>1. Index(<<Double, a, b>>) = Direct + E1 + (E1 * a + b)
      BY IndexOf
    <3>. QED
      BY <2>2, <2>3, <2>4, <3>1
  <2>. QED
    BY <2>4, <2>5, Kinds DEF Kind2
<1>4. CASE k >= Direct /\ n1 >= E1 /\ n2 >= E2
  <2>1. CodePath(k) = <<Triple, n3 \div E2, (n3 \div E1) % E1, n3 % E1>>
    BY <1>4, Sizes DEF CodePath, MiddleIndex
  <2>2. n3 \in 0 .. E3 - 1 /\ k = Direct + E1 + E2 + n3
    BY <1>4, Sizes DEF Total
  <2>. HIDE DEF n3
  <2>3. PICK a, b, c \in InTable :
          /\ n3 = E1 * (E1 * a + b) + c
          /\ a = n3 \div E2 /\ b = (n3 \div E1) % E1 /\ c = n3 % E1
    BY <2>2, TripleDigits
  <2>4. CodePath(k) = <<Triple, a, b, c>>
    BY <2>1, <2>3
  <2>5. Index(CodePath(k)) = k
    <3>1. Index(<<Triple, a, b, c>>) = Direct + E1 + E2 + (E1 * (E1 * a + b) + c)
      BY IndexOf
    <3>. QED
      BY <2>2, <2>3, <2>4, <3>1
  <2>. QED
    BY <2>4, <2>5, Kinds DEF Kind3
<1>. QED
  BY <1>1, <1>2, <1>3, <1>4, Sizes

(***************************************************************************)
(* The lexicographic order is the order of the indices.                    *)
(***************************************************************************)

\* Paths of the same length are compared entry by entry.
LEMMA PrecedesSame ==
  /\ \A i, j \in Int : Precedes(<<i>>, <<j>>) <=> i < j
  /\ \A s, a, d \in Int : Precedes(<<s, a>>, <<s, d>>) <=> a < d
  /\ \A s, a, b, d, e \in Int :
       Precedes(<<s, a, b>>, <<s, d, e>>) <=> a < d \/ (a = d /\ b < e)
  /\ \A s, a, b, c, d, e, f \in Int :
       Precedes(<<s, a, b, c>>, <<s, d, e, f>>)
         <=> a < d \/ (a = d /\ (b < e \/ (b = e /\ c < f)))
<1>1. ASSUME NEW i \in Int, NEW j \in Int
      PROVE  Precedes(<<i>>, <<j>>) <=> i < j
  <2>. DEFINE p == <<i>>
              q == <<j>>
              P(n) == (\A l \in 1 .. n - 1 : p[l] = q[l]) /\ p[n] < q[n]
  <2>1. Precedes(p, q) <=> \E n \in 1 .. 1 : P(n)
    BY DEF Precedes
  <2>2. P(1) <=> i < j
    OBVIOUS
  <2>. HIDE DEF P
  <2>. QED
    BY <2>1, <2>2
<1>2. ASSUME NEW s \in Int, NEW a \in Int, NEW d \in Int
      PROVE  Precedes(<<s, a>>, <<s, d>>) <=> a < d
  <2>. DEFINE p == <<s, a>>
              q == <<s, d>>
              P(n) == (\A l \in 1 .. n - 1 : p[l] = q[l]) /\ p[n] < q[n]
  <2>1. Precedes(p, q) <=> \E n \in 1 .. 2 : P(n)
    BY DEF Precedes
  <2>2. ~P(1)
    OBVIOUS
  <2>3. P(2) <=> a < d
    OBVIOUS
  <2>. HIDE DEF P
  <2>. QED
    BY <2>1, <2>2, <2>3
<1>3. ASSUME NEW s \in Int, NEW a \in Int, NEW b \in Int, NEW d \in Int, NEW e \in Int
      PROVE  Precedes(<<s, a, b>>, <<s, d, e>>) <=> a < d \/ (a = d /\ b < e)
  <2>. DEFINE p == <<s, a, b>>
              q == <<s, d, e>>
              P(n) == (\A l \in 1 .. n - 1 : p[l] = q[l]) /\ p[n] < q[n]
  <2>1. Precedes(p, q) <=> \E n \in 1 .. 3 : P(n)
    BY DEF Precedes
  <2>2. ~P(1)
    OBVIOUS
  <2>3. P(2) <=> a < d
    OBVIOUS
  <2>4. P(3) <=> a = d /\ b < e
    OBVIOUS
  <2>. HIDE DEF P
  <2>. QED
    BY <2>1, <2>2, <2>3, <2>4
<1>4. ASSUME NEW s \in Int, NEW a \in Int, NEW b \in Int, NEW c \in Int,
             NEW d \in Int, NEW e \in Int, NEW f \in Int
      PROVE  Precedes(<<s, a, b, c>>, <<s, d, e, f>>)
               <=> a < d \/ (a = d /\ (b < e \/ (b = e /\ c < f)))
  <2>. DEFINE p == <<s, a, b, c>>
              q == <<s, d, e, f>>
              P(n) == (\A l \in 1 .. n - 1 : p[l] = q[l]) /\ p[n] < q[n]
  <2>1. Precedes(p, q) <=> \E n \in 1 .. 4 : P(n)
    BY DEF Precedes
  <2>2. ~P(1)
    OBVIOUS
  <2>3. P(2) <=> a < d
    OBVIOUS
  <2>4. P(3) <=> a = d /\ b < e
    OBVIOUS
  <2>5. P(4) <=> a = d /\ b = e /\ c < f
    OBVIOUS
  <2>. HIDE DEF P
  <2>. QED
    BY <2>1, <2>2, <2>3, <2>4, <2>5
<1>. QED
  BY <1>1, <1>2, <1>3, <1>4

\* The first entries of two paths decide when they differ.
LEMMA PrecedesFirst ==
  ASSUME NEW p, NEW q, Len(p) \in Nat \ {0}, p[1] \in Int, q[1] \in Int, p[1] # q[1]
  PROVE  Precedes(p, q) <=> p[1] < q[1]
  BY DEF Precedes

\* A leaf is a sequence, and its first entry tells its kind.
LEMMA FirstEntry ==
  ASSUME NEW p
  PROVE  /\ Kind0(p) => Len(p) = 1 /\ p[1] \in 0 .. Direct - 1
         /\ Kind1(p) => Len(p) = 2 /\ p[1] = Single
         /\ Kind2(p) => Len(p) = 3 /\ p[1] = Double
         /\ Kind3(p) => Len(p) = 4 /\ p[1] = Triple
  BY DEF Kind0, Kind1, Kind2, Kind3

\* Leaves are ordered as their indices are.
LEMMA OrderedAsIndices ==
  ASSUME NEW p \in Leaves, NEW q \in Leaves
  PROVE  Precedes(p, q) <=> Index(p) < Index(q)
<1>1. CASE p[1] # q[1]
  <2>1. Len(p) \in Nat \ {0} /\ p[1] \in Int /\ q[1] \in Int
    BY Kinds, FirstEntry, Sizes DEF Single, Double, Triple
  <2>2. Precedes(p, q) <=> p[1] < q[1]
    BY <1>1, <2>1, PrecedesFirst
  <2>3. CASE Kind0(p) /\ Kind0(q)
    BY <1>1, <2>2, <2>3, IndexOf DEF Kind0
  <2>4. CASE ~(Kind0(p) /\ Kind0(q))
    BY <1>1, <2>2, <2>4, Kinds, FirstEntry, IndexRange, Sizes DEF Single, Double, Triple, Total
  <2>. QED
    BY <2>3, <2>4
<1>2. CASE p[1] = q[1]
  <2>1. \/ Kind0(p) /\ Kind0(q)
        \/ Kind1(p) /\ Kind1(q)
        \/ Kind2(p) /\ Kind2(q)
        \/ Kind3(p) /\ Kind3(q)
    BY <1>2, Kinds, FirstEntry, Sizes DEF Single, Double, Triple
  <2>2. CASE Kind0(p) /\ Kind0(q)
    BY <2>2, PrecedesSame, IndexOf DEF Kind0
  <2>3. CASE Kind1(p) /\ Kind1(q)
    <3>1. PICK a, d \in InTable : p = <<Single, a>> /\ q = <<Single, d>>
      BY <2>3 DEF Kind1
    <3>2. Precedes(p, q) <=> a < d
      BY <3>1, PrecedesSame, Sizes DEF Single
    <3>. QED
      BY <3>1, <3>2, IndexOf, Sizes
  <2>4. CASE Kind2(p) /\ Kind2(q)
    <3>1. PICK a, b \in InTable : p = <<Double, a, b>>
      BY <2>4 DEF Kind2
    <3>2. PICK d, e \in InTable : q = <<Double, d, e>>
      BY <2>4 DEF Kind2
    <3>3. Precedes(p, q) <=> a < d \/ (a = d /\ b < e)
      BY <3>1, <3>2, PrecedesSame, Sizes DEF Double
    <3>4. E1 * a + b < E1 * d + e <=> a < d \/ (a = d /\ b < e)
      BY DigitsOrder, Sizes
    <3>5. PICK x, y \in Nat : x = E1 * a + b /\ y = E1 * d + e
      BY Sizes
    <3>6. Index(p) = Direct + E1 + x /\ Index(q) = Direct + E1 + y
      BY <3>1, <3>2, <3>5, IndexOf
    <3>7. Index(p) < Index(q) <=> x < y
      BY <3>6, Sizes
    <3>. QED
      BY <3>3, <3>4, <3>5, <3>7
  <2>5. CASE Kind3(p) /\ Kind3(q)
    <3>1. PICK a, b, c \in InTable : p = <<Triple, a, b, c>>
      BY <2>5 DEF Kind3
    <3>2. PICK d, e, f \in InTable : q = <<Triple, d, e, f>>
      BY <2>5 DEF Kind3
    <3>3. Precedes(p, q) <=> a < d \/ (a = d /\ (b < e \/ (b = e /\ c < f)))
      <4>1. /\ Triple \in Int
            /\ a \in Int /\ b \in Int /\ c \in Int /\ d \in Int /\ e \in Int /\ f \in Int
        BY Sizes DEF Triple
      <4>2. Precedes(<<Triple, a, b, c>>, <<Triple, d, e, f>>)
              <=> a < d \/ (a = d /\ (b < e \/ (b = e /\ c < f)))
        BY <4>1, PrecedesSame
      <4>. QED
        BY <3>1, <3>2, <4>2
    <3>4. PICK x, y \in Nat : x = E1 * a + b /\ y = E1 * d + e
      BY Sizes
    <3>5. x < y <=> a < d \/ (a = d /\ b < e)
      BY <3>4, DigitsOrder, Sizes
    <3>6. y < x <=> d < a \/ (d = a /\ e < b)
      BY <3>4, DigitsOrder, Sizes
    <3>7. x = y <=> a = d /\ b = e
      BY <3>4, <3>5, <3>6, Sizes
    <3>8. E1 * x + c < E1 * y + f <=> x < y \/ (x = y /\ c < f)
      BY DigitsOrder, Sizes
    <3>9. PICK u, v \in Nat : u = E1 * x + c /\ v = E1 * y + f
      BY Sizes
    <3>10. Index(p) = Direct + E1 + E2 + u /\ Index(q) = Direct + E1 + E2 + v
      BY <3>1, <3>2, <3>4, <3>9, IndexOf
    <3>11. Index(p) < Index(q) <=> u < v
      BY <3>10, Sizes
    <3>. QED
      BY <3>3, <3>5, <3>7, <3>8, <3>9, <3>11
  <2>. QED
    BY <2>1, <2>2, <2>3, <2>4, <2>5
<1>. QED
  BY <1>1, <1>2


\* Every leaf has an index below Total.
LEMMA IndexType ==
  ASSUME NEW p \in Leaves
  PROVE  Index(p) \in 0 .. Total - 1
  BY Kinds, IndexRange, Sizes DEF Total

\* No two leaves have the same index: one of them precedes the other.
LEMMA IndexInjective ==
  ASSUME NEW p \in Leaves, NEW q \in Leaves, Index(p) = Index(q)
  PROVE  p = q
<1>1. ~Precedes(p, q) /\ ~Precedes(q, p)
  BY OrderedAsIndices, IndexType
<1>2. p[1] = q[1]
  <2>. SUFFICES ASSUME p[1] # q[1] PROVE FALSE
    OBVIOUS
  <2>1. Len(p) \in Nat \ {0} /\ Len(q) \in Nat \ {0} /\ p[1] \in Int /\ q[1] \in Int
    BY Kinds, FirstEntry, Sizes DEF Single, Double, Triple
  <2>2. ~(p[1] < q[1]) /\ ~(q[1] < p[1])
    BY <1>1, <2>1, PrecedesFirst
  <2>. QED
    BY <2>1, <2>2
<1>3. \/ Kind0(p) /\ Kind0(q)
      \/ Kind1(p) /\ Kind1(q)
      \/ Kind2(p) /\ Kind2(q)
      \/ Kind3(p) /\ Kind3(q)
  BY <1>2, Kinds, FirstEntry, Sizes DEF Single, Double, Triple
<1>4. CASE Kind0(p) /\ Kind0(q)
  BY <1>2, <1>4 DEF Kind0
<1>5. CASE Kind1(p) /\ Kind1(q)
  <2>1. PICK a, d \in InTable : p = <<Single, a>> /\ q = <<Single, d>>
    BY <1>5 DEF Kind1
  <2>2. ~(a < d) /\ ~(d < a)
    BY <1>1, <2>1, PrecedesSame, Sizes DEF Single
  <2>. QED
    BY <2>1, <2>2, Sizes
<1>6. CASE Kind2(p) /\ Kind2(q)
  <2>1. PICK a, b \in InTable : p = <<Double, a, b>>
    BY <1>6 DEF Kind2
  <2>2. PICK d, e \in InTable : q = <<Double, d, e>>
    BY <1>6 DEF Kind2
  <2>3. /\ ~(a < d \/ (a = d /\ b < e))
        /\ ~(d < a \/ (d = a /\ e < b))
    BY <1>1, <2>1, <2>2, PrecedesSame, Sizes DEF Double
  <2>4. a = d /\ b = e
    BY <2>3, Sizes
  <2>. QED
    BY <2>1, <2>2, <2>4
<1>7. CASE Kind3(p) /\ Kind3(q)
  <2>1. PICK a, b, c \in InTable : p = <<Triple, a, b, c>>
    BY <1>7 DEF Kind3
  <2>2. PICK d, e, f \in InTable : q = <<Triple, d, e, f>>
    BY <1>7 DEF Kind3
  <2>3. /\ Triple \in Int
        /\ a \in Int /\ b \in Int /\ c \in Int /\ d \in Int /\ e \in Int /\ f \in Int
    BY Sizes DEF Triple
  <2>4. ~(a < d \/ (a = d /\ (b < e \/ (b = e /\ c < f))))
    <3>1. Precedes(<<Triple, a, b, c>>, <<Triple, d, e, f>>)
            <=> a < d \/ (a = d /\ (b < e \/ (b = e /\ c < f)))
      BY <2>3, PrecedesSame
    <3>. QED
      BY <1>1, <2>1, <2>2, <3>1
  <2>5. ~(d < a \/ (d = a /\ (e < b \/ (e = b /\ f < c))))
    <3>1. Precedes(<<Triple, d, e, f>>, <<Triple, a, b, c>>)
            <=> d < a \/ (d = a /\ (e < b \/ (e = b /\ f < c)))
      BY <2>3, PrecedesSame
    <3>. QED
      BY <1>1, <2>1, <2>2, <3>1
  <2>6. a = d /\ b = e /\ c = f
    BY <2>3, <2>4, <2>5
  <2>. QED
    BY <2>1, <2>2, <2>6
<1>. QED
  BY <1>3, <1>4, <1>5, <1>6, <1>7

\* There are n leaves with an index below n.
LEMMA CountBelow ==
  ASSUME NEW n \in 0 .. Total
  PROVE  Cardinality({q \in Leaves : Index(q) < n}) = n
<1>. DEFINE S == {q \in Leaves : Index(q) < n}
            g == [i \in 1 .. n |-> CodePath(i - 1)]
<1>1. n \in Nat
  BY Sizes
<1>2. \A i \in 1 .. n : i - 1 \in 0 .. Total - 1 /\ i - 1 < n
  BY Sizes
<1>3. \A i \in 1 .. n : g[i] \in Leaves /\ Index(g[i]) = i - 1
  BY <1>2, CodePathIndex
<1>4. g \in [1 .. n -> S]
  BY <1>2, <1>3
<1>5. \A q \in S : \E i \in 1 .. n : g[i] = q
  <2>. SUFFICES ASSUME NEW q \in S PROVE \E i \in 1 .. n : g[i] = q
    OBVIOUS
  <2>1. Index(q) \in 0 .. Total - 1 /\ Index(q) < n
    BY IndexType
  <2>2. PICK i : i = Index(q) + 1
    OBVIOUS
  <2>3. i \in 1 .. n /\ i - 1 = Index(q)
    BY <1>1, <2>1, <2>2
  <2>4. g[i] \in Leaves /\ Index(g[i]) = Index(q)
    BY <1>3, <2>3
  <2>5. g[i] = q
    BY <2>4, IndexInjective
  <2>. QED
    BY <2>3, <2>5
<1>6. \A i, j \in 1 .. n : g[i] = g[j] => i = j
  <2>. SUFFICES ASSUME NEW i \in 1 .. n, NEW j \in 1 .. n, g[i] = g[j] PROVE i = j
    OBVIOUS
  <2>1. i - 1 = j - 1
    BY <1>3
  <2>. QED
    BY <2>1, <1>1
<1>. HIDE DEF g, S
<1>7. g \in Bijection(1 .. n, S)
  <2>1. g \in Injection(1 .. n, S)
    BY <1>4, <1>6 DEF Injection, IsInjective
  <2>2. g \in Surjection(1 .. n, S)
    BY <1>4, <1>5 DEF Surjection
  <2>. QED
    BY <2>1, <2>2 DEF Bijection
<1>8. ExistsBijection(1 .. n, S)
  BY <1>7 DEF ExistsBijection
<1>9. Cardinality(S) = n
  BY <1>1, <1>8, FS_CountingElements
<1>. QED
  BY <1>9 DEF S

\* A file has at most Total blocks, ...
LEMMA LargestIs == Largest = Total /\ Indices = 0 .. Total - 1
<1>1. {q \in Leaves : Index(q) < Total} = Leaves
  BY IndexType, Sizes
<1>2. Total \in 0 .. Total
  BY Sizes
<1>. QED
  BY <1>1, <1>2, CountBelow DEF Largest, Indices

\* ... and the block with index k, which the format puts at the leaf with k
\* leaves before it, is where the divisions of the code lead.
LEMMA PathIsCodePath ==
  ASSUME NEW k \in Indices
  PROVE  PathTo[k] = CodePath(k) /\ PathTo[k] \in Leaves /\ Index(PathTo[k]) = k
<1>1. k \in 0 .. Total - 1
  BY LargestIs
<1>2. \A p \in Leaves : Cardinality({q \in Leaves : Precedes(q, p)}) = Index(p)
  <2>. SUFFICES ASSUME NEW p \in Leaves
                PROVE  Cardinality({q \in Leaves : Precedes(q, p)}) = Index(p)
    OBVIOUS
  <2>1. {q \in Leaves : Precedes(q, p)} = {q \in Leaves : Index(q) < Index(p)}
    BY OrderedAsIndices
  <2>2. Index(p) \in 0 .. Total
    BY IndexType, Sizes
  <2>. QED
    BY <2>1, <2>2, CountBelow
<1>3. PathTo[k] = CHOOSE p \in Leaves : Cardinality({q \in Leaves : Precedes(q, p)}) = k
  BY DEF PathTo
<1>4. CodePath(k) \in Leaves /\ Index(CodePath(k)) = k
  BY <1>1, CodePathIndex
<1>5. PathTo[k] \in Leaves /\ Cardinality({q \in Leaves : Precedes(q, PathTo[k])}) = k
  BY <1>2, <1>3, <1>4
<1>6. Index(PathTo[k]) = k
  BY <1>2, <1>5
<1>. QED
  BY <1>4, <1>5, <1>6, IndexInjective


(***************************************************************************)
(* Blocks and tables.                                                      *)
(***************************************************************************)

\* Leaves are sequences of numbers.
LEMMA LeafSeq ==
  ASSUME NEW p \in Leaves
  PROVE  p \in Seq(Nat) /\ Len(p) \in 1 .. 4
<1>1. Single \in Nat /\ Double \in Nat /\ Triple \in Nat /\ InTable \subseteq Nat
  BY Sizes DEF Single, Double, Triple
<1>2. CASE Kind0(p)
  BY <1>2, Sizes DEF Kind0
<1>3. CASE Kind1(p)
  BY <1>1, <1>3 DEF Kind1
<1>4. CASE Kind2(p)
  BY <1>1, <1>4 DEF Kind2
<1>5. CASE Kind3(p)
  BY <1>1, <1>5 DEF Kind3
<1>. QED
  BY <1>2, <1>3, <1>4, <1>5, Kinds

\* What the prefixes of a path are.
LEMMA Prefixes ==
  ASSUME NEW p \in Seq(Nat), NEW q
  PROVE  q \in PrefixesOf(p) <=>
           q \in Seq(Nat) /\ Len(q) \in 1 .. Len(p) /\ \A i \in 1 .. Len(q) : q[i] = p[i]
<1>1. ASSUME NEW n \in 1 .. Len(p)
      PROVE  /\ SubSeq(p, 1, n) \in Seq(Nat) /\ Len(SubSeq(p, 1, n)) = n
             /\ \A i \in 1 .. n : SubSeq(p, 1, n)[i] = p[i]
  <2>1. \A i \in 1 .. n : p[i] \in Nat
    OBVIOUS
  <2>. QED
    BY <2>1, SubSeqProperties
<1>2. ASSUME q \in PrefixesOf(p)
      PROVE  q \in Seq(Nat) /\ Len(q) \in 1 .. Len(p) /\ \A i \in 1 .. Len(q) : q[i] = p[i]
  BY <1>1, <1>2 DEF PrefixesOf
<1>3. ASSUME q \in Seq(Nat), Len(q) \in 1 .. Len(p), \A i \in 1 .. Len(q) : q[i] = p[i]
      PROVE  q \in PrefixesOf(p)
  <2>1. PICK n : n = Len(q)
    OBVIOUS
  <2>2. PICK s : s = SubSeq(p, 1, n)
    OBVIOUS
  <2>3. s \in Seq(Nat) /\ Len(s) = n /\ \A i \in 1 .. n : s[i] = p[i]
    BY <1>1, <1>3, <2>1, <2>2
  <2>4. q = s
    BY <1>3, <2>1, <2>3, SeqEqual
  <2>. QED
    BY <1>3, <2>1, <2>2, <2>4 DEF PrefixesOf
<1>. QED
  BY <1>2, <1>3

\* No leaf is above another one.
LEMMA LeafPrefix ==
  ASSUME NEW p \in Leaves, NEW q \in Leaves, q \in PrefixesOf(p)
  PROVE  q = p
<1>1. p \in Seq(Nat) /\ q \in Seq(Nat) /\ Len(q) \in 1 .. Len(p)
  BY LeafSeq, Prefixes
<1>2. \A i \in 1 .. Len(q) : q[i] = p[i]
  BY <1>1, Prefixes
<1>3. q[1] = p[1]
  BY <1>1, <1>2
<1>4. Len(q) = Len(p)
  BY <1>3, Kinds, FirstEntry, Sizes DEF Single, Double, Triple
<1>. QED
  BY <1>1, <1>2, <1>4, SeqEqual

\* The prefixes of leaves are leaves and tables.
LEMMA PrefixUnion ==
  ASSUME NEW q \in Leaves, NEW t \in PrefixesOf(q)
  PROVE  t \in Leaves \cup Tables
<1>. DEFINE All == {PrefixesOf(p) : p \in Leaves}
<1>1. PrefixesOf(q) \in All
  OBVIOUS
<1>2. Tables = (UNION All) \ Leaves
  BY DEF Tables
<1>. HIDE DEF All
<1>3. t \in UNION All
  BY <1>1
<1>. QED
  BY <1>2, <1>3

\* A leaf is a prefix of itself.
LEMMA LeafItself ==
  ASSUME NEW p \in Leaves
  PROVE  p \in PrefixesOf(p)
<1>1. p \in Seq(Nat) /\ Len(p) \in 1 .. Len(p)
  BY LeafSeq
<1>. QED
  BY <1>1, Prefixes

\* What is above a leaf is a table.
LEMMA TableAbove ==
  ASSUME NEW p \in Leaves, NEW t \in PrefixesOf(p), t # p
  PROVE  t \in Tables
<1>1. t \notin Leaves
  BY LeafPrefix
<1>2. t \in Leaves \cup Tables
  BY PrefixUnion
<1>. QED
  BY <1>1, <1>2

\* Tables are paths too.
LEMMA TableSeq ==
  ASSUME NEW t \in Tables
  PROVE  t \in Seq(Nat) /\ Len(t) \in Nat \ {0} /\ t # NoBlock
<1>1. PICK p \in Leaves : t \in PrefixesOf(p)
  BY DEF Tables
<1>2. t \in Seq(Nat) /\ Len(t) \in 1 .. Len(p)
  BY <1>1, LeafSeq, Prefixes
<1>. QED
  BY <1>2 DEF NoBlock

\* The blocks of a file are leaves and tables, every one a path, ...
LEMMA BlocksAre ==
  ASSUME NEW ks \in SUBSET Indices
  PROVE  /\ BlocksOf(ks) \subseteq Leaves \cup Tables
         /\ \A b \in BlocksOf(ks) : b \in Seq(Nat) /\ Len(b) \in Nat \ {0} /\ b[1] \in Nat
         /\ NoBlock \notin BlocksOf(ks) /\ Other \notin BlocksOf(ks)
<1>1. ASSUME NEW b \in BlocksOf(ks)
      PROVE  /\ b \in Leaves \cup Tables
             /\ b \in Seq(Nat) /\ Len(b) \in Nat \ {0} /\ b[1] \in Nat
  <2>1. PICK k \in ks : b \in PrefixesOf(PathTo[k])
    BY DEF BlocksOf
  <2>2. PathTo[k] \in Leaves
    BY PathIsCodePath
  <2>3. b \in Seq(Nat) /\ Len(b) \in 1 .. Len(PathTo[k])
    BY <2>1, <2>2, LeafSeq, Prefixes
  <2>4. b \in Leaves \cup Tables
    BY <2>1, <2>2, PrefixUnion
  <2>5. b[1] \in Nat /\ Len(b) \in Nat \ {0}
    BY <2>3
  <2>. QED
    BY <2>3, <2>4, <2>5
<1>2. NoBlock \notin BlocksOf(ks)
  BY <1>1 DEF NoBlock
<1>3. Other[1] = -2
  BY DEF Other
<1>4. Other \notin BlocksOf(ks)
  BY <1>1, <1>3
<1>. QED
  BY <1>1, <1>2, <1>4

\* ... the table above a block of the file is one of the file, ...
LEMMA AboveToo ==
  ASSUME NEW ks \in SUBSET Indices, NEW t \in Tables, NEW i \in InTable,
         Append(t, i) \in BlocksOf(ks)
  PROVE  t \in BlocksOf(ks)
<1>1. PICK k \in ks : Append(t, i) \in PrefixesOf(PathTo[k])
  BY DEF BlocksOf
<1>2. PathTo[k] \in Seq(Nat)
  BY PathIsCodePath, LeafSeq
<1>3. t \in Seq(Nat) /\ Len(t) \in Nat \ {0} /\ i \in Nat
  BY TableSeq, Sizes
<1>4. PICK s : s = Append(t, i)
  OBVIOUS
<1>5. s \in Seq(Nat) /\ Len(s) = Len(t) + 1 /\ \A j \in 1 .. Len(t) : s[j] = t[j]
  BY <1>3, <1>4, AppendProperties
<1>6. Len(s) \in 1 .. Len(PathTo[k]) /\ \A j \in 1 .. Len(s) : s[j] = PathTo[k][j]
  BY <1>1, <1>2, <1>4, Prefixes
<1>7. Len(t) \in 1 .. Len(PathTo[k]) /\ \A j \in 1 .. Len(t) : t[j] = PathTo[k][j]
  BY <1>3, <1>5, <1>6
<1>8. t \in PrefixesOf(PathTo[k])
  BY <1>2, <1>3, <1>7, Prefixes
<1>. QED
  BY <1>8 DEF BlocksOf

\* ... and a leaf is a block of the file if its index is.
LEMMA LeafOfFile ==
  ASSUME NEW ks \in SUBSET Indices, NEW k \in Indices
  PROVE  PathTo[k] \in BlocksOf(ks) <=> k \in ks
<1>1. \A j \in Indices : PathTo[j] \in Leaves /\ Index(PathTo[j]) = j
  BY PathIsCodePath
<1>2. ASSUME PathTo[k] \in BlocksOf(ks)
      PROVE  k \in ks
  <2>1. PICK j \in ks : PathTo[k] \in PrefixesOf(PathTo[j])
    BY <1>2 DEF BlocksOf
  <2>2. PathTo[k] = PathTo[j]
    BY <1>1, <2>1, LeafPrefix
  <2>. QED
    BY <1>1, <2>2
<1>3. ASSUME k \in ks
      PROVE  PathTo[k] \in BlocksOf(ks)
  <2>1. PathTo[k] \in PrefixesOf(PathTo[k])
    BY <1>1, LeafItself
  <2>. QED
    BY <1>3, <2>1 DEF BlocksOf
<1>. QED
  BY <1>2, <1>3


(***************************************************************************)
(* The inductive invariant.                                                *)
(***************************************************************************)

\* The tables of the file are those its writer left, before and after the
\* truncation; the inode points to them until then.
Formatted ==
  /\ Boot \in Boots
  /\ table = FormatTable(written, Boot)
  /\ ~truncated => i_block = FormatInode(written) /\ used = {Other} \cup BlocksOf(written)
  /\ truncated => /\ i_block = [i \in 0 .. Triple |-> NoBlock]
                  /\ used \subseteq {Other} \cup BlocksOf(written)

\* The last lookup would have the same result now.
Fresh ==
  \/ found = NoLookup
  \/ \E k \in 0 .. Largest : found = [index |-> k, block |-> BlockFrom(k)]

BInv ==
  /\ written \in SUBSET Indices /\ truncated \in BOOLEAN
  /\ Formatted /\ Fresh /\ FreesAll /\ FreesOwn

\* What the tables of a file written elsewhere hold.
LEMMA TablesHold ==
  ASSUME BInv
  PROVE  /\ DOMAIN table = Tables \cup {NoBlock}
         /\ table[NoBlock] = Boot
         /\ \A t \in Tables : \A i \in InTable : table[t][i] = PointerTo(written, Append(t, i))
<1>1. table = FormatTable(written, Boot)
  BY DEF BInv, Formatted
<1>2. PICK boot : boot = Boot
  OBVIOUS
<1>. QED
  BY <1>1, <1>2, TableSeq DEF FormatTable, Boot

\* A pointer leads to the one below it, unless the boot block stands in for
\* a table.
LEMMA Walk ==
  ASSUME BInv, NEW t \in Tables, NEW i \in InTable,
         Boot = ZeroTable \/ t \in BlocksOf(written)
  PROVE  Entry(PointerTo(written, t), i) = PointerTo(written, Append(t, i))
<1>1. written \in SUBSET Indices
  BY DEF BInv
<1>2. CASE t \in BlocksOf(written)
  BY <1>2, TablesHold DEF Entry, PointerTo
<1>3. CASE t \notin BlocksOf(written)
  <2>1. PointerTo(written, t) = NoBlock /\ PointerTo(written, Append(t, i)) = NoBlock
    BY <1>1, <1>3, AboveToo DEF PointerTo
  <2>2. Entry(NoBlock, i) = NoBlock
    BY <1>3, TablesHold DEF Entry, ZeroTable
  <2>. QED
    BY <2>1, <2>2
<1>. QED
  BY <1>2, <1>3

\* The cases of ext2_block_from_offset, with what its divisions yield.
LEMMA BlockFromIs ==
  ASSUME NEW k \in Indices
  PROVE  \/ /\ k < Direct /\ PathTo[k] = <<k>>
            /\ BlockFrom(k) = i_block[k]
         \/ \E a \in InTable :
              /\ PathTo[k] = <<Single, a>>
              /\ BlockFrom(k) = Entry(i_block[Single], a)
         \/ \E a, b \in InTable :
              /\ PathTo[k] = <<Double, a, b>>
              /\ BlockFrom(k) = Entry(Entry(i_block[Double], a), b)
         \/ \E a, b, c \in InTable :
              /\ PathTo[k] = <<Triple, a, b, c>>
              /\ BlockFrom(k) = Entry(Entry(Entry(i_block[Triple], a), b), c)
<1>. DEFINE n1 == k - Direct
            n2 == n1 - E1
            n3 == n2 - E2
<1>1. k \in 0 .. Total - 1
  BY LargestIs
<1>2. PathTo[k] = CodePath(k) /\ CodePath(k) \in Leaves
  BY PathIsCodePath
<1>3. CASE k < Direct
  BY <1>2, <1>3 DEF CodePath, BlockFrom
<1>4. CASE k >= Direct /\ n1 < E1
  <2>1. CodePath(k) = <<Single, n1>> /\ BlockFrom(k) = Entry(i_block[Single], n1)
    BY <1>1, <1>4, Sizes DEF CodePath, BlockFrom
  <2>2. n1 \in InTable
    BY <1>1, <1>4, Sizes
  <2>. QED
    BY <1>2, <2>1, <2>2
<1>5. CASE k >= Direct /\ n1 >= E1 /\ n2 < E2
  <2>1. /\ CodePath(k) = <<Double, n2 \div E1, n2 % E1>>
        /\ BlockFrom(k) = Entry(Entry(i_block[Double], n2 \div E1), n2 % E1)
    BY <1>1, <1>5, Sizes DEF CodePath, BlockFrom
  <2>2. PICK a, b : a = n2 \div E1 /\ b = n2 % E1
    OBVIOUS
  <2>3. n2 \in 0 .. E2 - 1
    BY <1>1, <1>5, Sizes
  <2>. HIDE DEF n2
  <2>4. a \in InTable /\ b \in InTable
    BY <2>2, <2>3, DoubleDigits
  <2>. QED
    BY <1>2, <2>1, <2>2, <2>4
<1>6. CASE k >= Direct /\ n1 >= E1 /\ n2 >= E2
  <2>1. n3 \in 0 .. E3 - 1
    BY <1>1, <1>6, Sizes DEF Total
  <2>2. /\ CodePath(k) = <<Triple, n3 \div E2, (n3 \div E1) % E1, n3 % E1>>
        /\ BlockFrom(k) = Entry(Entry(Entry(i_block[Triple], n3 \div E2), (n3 \div E1) % E1), n3 % E1)
    BY <1>1, <1>6, <2>1, Sizes DEF CodePath, BlockFrom, MiddleIndex
  <2>3. PICK a, b, c : a = n3 \div E2 /\ b = (n3 \div E1) % E1 /\ c = n3 % E1
    OBVIOUS
  <2>. HIDE DEF n3
  <2>4. a \in InTable /\ b \in InTable /\ c \in InTable
    BY <2>1, <2>3, TripleDigits
  <2>. QED
    BY <1>2, <2>2, <2>3, <2>4
<1>. QED
  BY <1>1, <1>3, <1>4, <1>5, <1>6, Sizes


\* Short sequences are the tuples of their elements.
LEMMA ShortSeqs ==
  ASSUME NEW q \in Seq(Nat)
  PROVE  /\ Len(q) = 1 => q = <<q[1]>>
         /\ Len(q) = 2 => q = <<q[1], q[2]>>
         /\ Len(q) = 3 => q = <<q[1], q[2], q[3]>>
         /\ Len(q) = 4 => q = <<q[1], q[2], q[3], q[4]>>
<1>1. ASSUME Len(q) = 1 PROVE q = <<q[1]>>
  <2>. DEFINE t == <<q[1]>>
  <2>1. \A i \in 1 .. 1 : q[i] \in Nat
    BY <1>1, ElementOfSeq
  <2>2. q[1] \in Nat
    BY <2>1
  <2>3. t \in Seq(Nat) /\ Len(t) = 1
    BY <2>2
  <2>4. q[1] = t[1]
    OBVIOUS
  <2>. HIDE DEF t
  <2>5. \A i \in 1 .. Len(q) : q[i] = t[i]
    BY <1>1, <2>4
  <2>6. q = t
    BY <1>1, <2>3, <2>5, SeqEqual
  <2>. QED
    BY <2>6 DEF t
<1>2. ASSUME Len(q) = 2 PROVE q = <<q[1], q[2]>>
  <2>. DEFINE t == <<q[1], q[2]>>
  <2>1. \A i \in 1 .. 2 : q[i] \in Nat
    BY <1>2, ElementOfSeq
  <2>2. q[1] \in Nat /\ q[2] \in Nat
    BY <2>1
  <2>3. t \in Seq(Nat) /\ Len(t) = 2
    BY <2>2
  <2>4. q[1] = t[1] /\ q[2] = t[2]
    OBVIOUS
  <2>. HIDE DEF t
  <2>5. \A i \in 1 .. Len(q) : q[i] = t[i]
    BY <1>2, <2>4
  <2>6. q = t
    BY <1>2, <2>3, <2>5, SeqEqual
  <2>. QED
    BY <2>6 DEF t
<1>3. ASSUME Len(q) = 3 PROVE q = <<q[1], q[2], q[3]>>
  <2>. DEFINE t == <<q[1], q[2], q[3]>>
  <2>1. \A i \in 1 .. 3 : q[i] \in Nat
    BY <1>3, ElementOfSeq
  <2>2. q[1] \in Nat /\ q[2] \in Nat /\ q[3] \in Nat
    BY <2>1
  <2>3. t \in Seq(Nat) /\ Len(t) = 3
    BY <2>2
  <2>4. q[1] = t[1] /\ q[2] = t[2] /\ q[3] = t[3]
    OBVIOUS
  <2>. HIDE DEF t
  <2>5. \A i \in 1 .. Len(q) : q[i] = t[i]
    BY <1>3, <2>4
  <2>6. q = t
    BY <1>3, <2>3, <2>5, SeqEqual
  <2>. QED
    BY <2>6 DEF t
<1>4. ASSUME Len(q) = 4 PROVE q = <<q[1], q[2], q[3], q[4]>>
  <2>. DEFINE t == <<q[1], q[2], q[3], q[4]>>
  <2>1. \A i \in 1 .. 4 : q[i] \in Nat
    BY <1>4, ElementOfSeq
  <2>2. q[1] \in Nat /\ q[2] \in Nat /\ q[3] \in Nat /\ q[4] \in Nat
    BY <2>1
  <2>3. t \in Seq(Nat) /\ Len(t) = 4
    BY <2>2
  <2>4. q[1] = t[1] /\ q[2] = t[2] /\ q[3] = t[3] /\ q[4] = t[4]
    OBVIOUS
  <2>. HIDE DEF t
  <2>5. \A i \in 1 .. Len(q) : q[i] = t[i]
    BY <1>4, <2>4
  <2>6. q = t
    BY <1>4, <2>3, <2>5, SeqEqual
  <2>. QED
    BY <2>6 DEF t
<1>. QED
  BY <1>1, <1>2, <1>3, <1>4

\* The beginning of a path.
LEMMA Cut ==
  ASSUME NEW p \in Seq(Nat), NEW n \in 1 .. Len(p)
  PROVE  /\ n = 1 => SubSeq(p, 1, n) = <<p[1]>>
         /\ n = 2 => SubSeq(p, 1, n) = <<p[1], p[2]>>
         /\ n = 3 => SubSeq(p, 1, n) = <<p[1], p[2], p[3]>>
         /\ n = 4 => SubSeq(p, 1, n) = <<p[1], p[2], p[3], p[4]>>
<1>1. \A i \in 1 .. n : p[i] \in Nat
  BY ElementOfSeq
<1>2. PICK u : u = SubSeq(p, 1, n)
  OBVIOUS
<1>3. u \in Seq(Nat) /\ Len(u) = n /\ \A i \in 1 .. n : u[i] = p[i]
  BY <1>1, <1>2, SubSeqProperties
<1>4. n = 1 => u = <<p[1]>>
  BY <1>3, ShortSeqs
<1>5. n = 2 => u = <<p[1], p[2]>>
  BY <1>3, ShortSeqs
<1>6. n = 3 => u = <<p[1], p[2], p[3]>>
  BY <1>3, ShortSeqs
<1>7. n = 4 => u = <<p[1], p[2], p[3], p[4]>>
  BY <1>3, ShortSeqs
<1>. QED
  BY <1>2, <1>4, <1>5, <1>6, <1>7

\* The prefixes of a path of one entry,
LEMMA Prefixes1 ==
  ASSUME NEW s \in Nat
  PROVE  PrefixesOf(<<s>>) = {<<s>>}
<1>. DEFINE p == <<s>>
<1>1. p \in Seq(Nat) /\ Len(p) = 1
  OBVIOUS
<1>2. p[1] = s
  OBVIOUS
<1>. HIDE DEF p
<1>3. SubSeq(p, 1, 1) = <<s>>
  <2>1. SubSeq(p, 1, 1) = <<p[1]>>
    <3>1. 1 \in 1 .. Len(p)
      BY <1>1
    <3>. QED
      BY <1>1, <3>1, Cut
  <2>. QED
    BY <1>2, <2>1
<1>4. PrefixesOf(p) = {SubSeq(p, 1, 1)}
  BY <1>1 DEF PrefixesOf
<1>. QED
  BY <1>3, <1>4 DEF p

\* of two,
LEMMA Prefixes2 ==
  ASSUME NEW s \in Nat, NEW a \in Nat
  PROVE  PrefixesOf(<<s, a>>) = {<<s>>, <<s, a>>}
<1>. DEFINE p == <<s, a>>
<1>1. p \in Seq(Nat) /\ Len(p) = 2
  OBVIOUS
<1>2. p[1] = s /\ p[2] = a
  OBVIOUS
<1>. HIDE DEF p
<1>3. SubSeq(p, 1, 1) = <<s>>
  <2>1. SubSeq(p, 1, 1) = <<p[1]>>
    <3>1. 1 \in 1 .. Len(p)
      BY <1>1
    <3>. QED
      BY <1>1, <3>1, Cut
  <2>. QED
    BY <1>2, <2>1
<1>4. SubSeq(p, 1, 2) = <<s, a>>
  <2>1. SubSeq(p, 1, 2) = <<p[1], p[2]>>
    <3>1. 2 \in 1 .. Len(p)
      BY <1>1
    <3>. QED
      BY <1>1, <3>1, Cut
  <2>. QED
    BY <1>2, <2>1
<1>5. PrefixesOf(p) = {SubSeq(p, 1, 1), SubSeq(p, 1, 2)}
  BY <1>1 DEF PrefixesOf
<1>. QED
  BY <1>3, <1>4, <1>5 DEF p

\* of three
LEMMA Prefixes3 ==
  ASSUME NEW s \in Nat, NEW a \in Nat, NEW b \in Nat
  PROVE  PrefixesOf(<<s, a, b>>) = {<<s>>, <<s, a>>, <<s, a, b>>}
<1>. DEFINE p == <<s, a, b>>
<1>1. p \in Seq(Nat) /\ Len(p) = 3
  OBVIOUS
<1>2. p[1] = s /\ p[2] = a /\ p[3] = b
  OBVIOUS
<1>. HIDE DEF p
<1>3. SubSeq(p, 1, 1) = <<s>>
  <2>1. SubSeq(p, 1, 1) = <<p[1]>>
    <3>1. 1 \in 1 .. Len(p)
      BY <1>1
    <3>. QED
      BY <1>1, <3>1, Cut
  <2>. QED
    BY <1>2, <2>1
<1>4. SubSeq(p, 1, 2) = <<s, a>>
  <2>1. SubSeq(p, 1, 2) = <<p[1], p[2]>>
    <3>1. 2 \in 1 .. Len(p)
      BY <1>1
    <3>. QED
      BY <1>1, <3>1, Cut
  <2>. QED
    BY <1>2, <2>1
<1>5. SubSeq(p, 1, 3) = <<s, a, b>>
  <2>1. SubSeq(p, 1, 3) = <<p[1], p[2], p[3]>>
    <3>1. 3 \in 1 .. Len(p)
      BY <1>1
    <3>. QED
      BY <1>1, <3>1, Cut
  <2>. QED
    BY <1>2, <2>1
<1>6. PrefixesOf(p) = {SubSeq(p, 1, 1), SubSeq(p, 1, 2), SubSeq(p, 1, 3)}
  BY <1>1 DEF PrefixesOf
<1>. QED
  BY <1>3, <1>4, <1>5, <1>6 DEF p

\* and of four entries.
LEMMA Prefixes4 ==
  ASSUME NEW s \in Nat, NEW a \in Nat, NEW b \in Nat, NEW c \in Nat
  PROVE  PrefixesOf(<<s, a, b, c>>) = {<<s>>, <<s, a>>, <<s, a, b>>, <<s, a, b, c>>}
<1>. DEFINE p == <<s, a, b, c>>
<1>1. p \in Seq(Nat) /\ Len(p) = 4
  OBVIOUS
<1>2. p[1] = s /\ p[2] = a /\ p[3] = b /\ p[4] = c
  OBVIOUS
<1>. HIDE DEF p
<1>3. SubSeq(p, 1, 1) = <<s>>
  <2>1. SubSeq(p, 1, 1) = <<p[1]>>
    <3>1. 1 \in 1 .. Len(p)
      BY <1>1
    <3>. QED
      BY <1>1, <3>1, Cut
  <2>. QED
    BY <1>2, <2>1
<1>4. SubSeq(p, 1, 2) = <<s, a>>
  <2>1. SubSeq(p, 1, 2) = <<p[1], p[2]>>
    <3>1. 2 \in 1 .. Len(p)
      BY <1>1
    <3>. QED
      BY <1>1, <3>1, Cut
  <2>. QED
    BY <1>2, <2>1
<1>5. SubSeq(p, 1, 3) = <<s, a, b>>
  <2>1. SubSeq(p, 1, 3) = <<p[1], p[2], p[3]>>
    <3>1. 3 \in 1 .. Len(p)
      BY <1>1
    <3>. QED
      BY <1>1, <3>1, Cut
  <2>. QED
    BY <1>2, <2>1
<1>6. SubSeq(p, 1, 4) = <<s, a, b, c>>
  <2>1. SubSeq(p, 1, 4) = <<p[1], p[2], p[3], p[4]>>
    <3>1. 4 \in 1 .. Len(p)
      BY <1>1
    <3>. QED
      BY <1>1, <3>1, Cut
  <2>. QED
    BY <1>2, <2>1
<1>7. PrefixesOf(p) = {SubSeq(p, 1, 1), SubSeq(p, 1, 2), SubSeq(p, 1, 3), SubSeq(p, 1, 4)}
  BY <1>1 DEF PrefixesOf
<1>. QED
  BY <1>3, <1>4, <1>5, <1>6, <1>7 DEF p

\* The entries of a table, one level down.
LEMMA TupleAppend ==
  ASSUME NEW s \in Nat, NEW a \in Nat, NEW b \in Nat, NEW c \in Nat
  PROVE  /\ Append(<<s>>, a) = <<s, a>>
         /\ Append(<<s, a>>, b) = <<s, a, b>>
         /\ Append(<<s, a, b>>, c) = <<s, a, b, c>>
<1>1. Append(<<s>>, a) = <<s, a>>
  <2>0. <<s>> \in Seq(Nat)
    OBVIOUS
  <2>1. PICK t \in Seq(Nat) : t = <<s>>
    BY <2>0
  <2>2. Len(t) = 1 /\ t[1] = s
    BY <2>1
  <2>3. PICK u : u = Append(t, a)
    OBVIOUS
  <2>4. /\ u \in Seq(Nat) /\ Len(u) = Len(t) + 1
        /\ \A i \in 1 .. Len(t) : u[i] = t[i]
        /\ u[Len(t) + 1] = a
    BY <2>3, AppendProperties
  <2>5. Len(u) = 2 /\ u[2] = a
    BY <2>2, <2>4
  <2>6. u[1] = s
    BY <2>2, <2>4
  <2>7. u = <<s, a>>
    BY <2>4, <2>5, <2>6, ShortSeqs
  <2>. QED
    BY <2>1, <2>3, <2>7
<1>2. Append(<<s, a>>, b) = <<s, a, b>>
  <2>0. <<s, a>> \in Seq(Nat)
    OBVIOUS
  <2>1. PICK t \in Seq(Nat) : t = <<s, a>>
    BY <2>0
  <2>2. Len(t) = 2 /\ t[1] = s /\ t[2] = a
    BY <2>1
  <2>3. PICK u : u = Append(t, b)
    OBVIOUS
  <2>4. /\ u \in Seq(Nat) /\ Len(u) = Len(t) + 1
        /\ \A i \in 1 .. Len(t) : u[i] = t[i]
        /\ u[Len(t) + 1] = b
    BY <2>3, AppendProperties
  <2>5. Len(u) = 3 /\ u[3] = b
    BY <2>2, <2>4
  <2>6. u[1] = s /\ u[2] = a
    BY <2>2, <2>4
  <2>7. u = <<s, a, b>>
    BY <2>4, <2>5, <2>6, ShortSeqs
  <2>. QED
    BY <2>1, <2>3, <2>7
<1>3. Append(<<s, a, b>>, c) = <<s, a, b, c>>
  <2>0. <<s, a, b>> \in Seq(Nat)
    OBVIOUS
  <2>1. PICK t \in Seq(Nat) : t = <<s, a, b>>
    BY <2>0
  <2>2. Len(t) = 3 /\ t[1] = s /\ t[2] = a /\ t[3] = b
    BY <2>1
  <2>3. PICK u : u = Append(t, c)
    OBVIOUS
  <2>4. /\ u \in Seq(Nat) /\ Len(u) = Len(t) + 1
        /\ \A i \in 1 .. Len(t) : u[i] = t[i]
        /\ u[Len(t) + 1] = c
    BY <2>3, AppendProperties
  <2>5. Len(u) = 4 /\ u[4] = c
    BY <2>2, <2>4
  <2>6. u[1] = s /\ u[2] = a /\ u[3] = b
    BY <2>2, <2>4
  <2>7. u = <<s, a, b, c>>
    BY <2>4, <2>5, <2>6, ShortSeqs
  <2>. QED
    BY <2>1, <2>3, <2>7
<1>. QED
  BY <1>1, <1>2, <1>3

(***************************************************************************)
(* Lookups.                                                                *)
(***************************************************************************)

\* The numbers paths are made of.
LEMMA PathNumbers ==
  Single \in Nat /\ Double \in Nat /\ Triple \in Nat /\ InTable \subseteq Nat
  BY Sizes DEF Single, Double, Triple

\* The blocks on the way to a leaf through one table,
LEMMA WaySingle ==
  ASSUME NEW a \in InTable
  PROVE  /\ <<Single>> \in Tables /\ Append(<<Single>>, a) = <<Single, a>>
         /\ PrefixesOf(<<Single, a>>) \ {<<Single, a>>} = {<<Single>>}
<1>1. <<Single, a>> \in Leaves
  BY Kinds DEF Kind1
<1>2. PrefixesOf(<<Single, a>>) = {<<Single>>, <<Single, a>>}
  BY PathNumbers, Prefixes2
<1>3. <<Single>> # <<Single, a>>
  OBVIOUS
<1>4. Append(<<Single>>, a) = <<Single, a>>
  BY PathNumbers, TupleAppend
<1>5. <<Single>> \in Tables
  BY <1>1, <1>2, <1>3, TableAbove
<1>. QED
  BY <1>2, <1>3, <1>4, <1>5

\* through two
LEMMA WayDouble ==
  ASSUME NEW a \in InTable, NEW b \in InTable
  PROVE  /\ <<Double>> \in Tables /\ Append(<<Double>>, a) = <<Double, a>>
         /\ <<Double, a>> \in Tables /\ Append(<<Double, a>>, b) = <<Double, a, b>>
         /\ PrefixesOf(<<Double, a, b>>) \ {<<Double, a, b>>} = {<<Double>>, <<Double, a>>}
<1>1. <<Double, a, b>> \in Leaves
  BY Kinds DEF Kind2
<1>2. PrefixesOf(<<Double, a, b>>) = {<<Double>>, <<Double, a>>, <<Double, a, b>>}
  <2>1. Double \in Nat /\ a \in Nat /\ b \in Nat
    BY PathNumbers
  <2>. QED
    BY <2>1, Prefixes3
<1>3. <<Double>> # <<Double, a, b>> /\ <<Double, a>> # <<Double, a, b>>
  OBVIOUS
<1>4. Append(<<Double>>, a) = <<Double, a>> /\ Append(<<Double, a>>, b) = <<Double, a, b>>
  BY PathNumbers, TupleAppend
<1>5. <<Double>> \in Tables /\ <<Double, a>> \in Tables
  BY <1>1, <1>2, <1>3, TableAbove
<1>. QED
  BY <1>2, <1>3, <1>4, <1>5

\* and through three.
LEMMA WayTriple ==
  ASSUME NEW a \in InTable, NEW b \in InTable, NEW c \in InTable
  PROVE  /\ <<Triple>> \in Tables /\ Append(<<Triple>>, a) = <<Triple, a>>
         /\ <<Triple, a>> \in Tables /\ Append(<<Triple, a>>, b) = <<Triple, a, b>>
         /\ <<Triple, a, b>> \in Tables /\ Append(<<Triple, a, b>>, c) = <<Triple, a, b, c>>
         /\ PrefixesOf(<<Triple, a, b, c>>) \ {<<Triple, a, b, c>>}
              = {<<Triple>>, <<Triple, a>>, <<Triple, a, b>>}
<1>1. <<Triple, a, b, c>> \in Leaves
  BY Kinds DEF Kind3
<1>2. PrefixesOf(<<Triple, a, b, c>>)
        = {<<Triple>>, <<Triple, a>>, <<Triple, a, b>>, <<Triple, a, b, c>>}
  <2>1. Triple \in Nat /\ a \in Nat /\ b \in Nat /\ c \in Nat
    BY PathNumbers
  <2>. QED
    BY <2>1, Prefixes4
<1>3. /\ <<Triple>> # <<Triple, a, b, c>> /\ <<Triple, a>> # <<Triple, a, b, c>>
      /\ <<Triple, a, b>> # <<Triple, a, b, c>>
  OBVIOUS
<1>4. /\ Append(<<Triple>>, a) = <<Triple, a>>
      /\ Append(<<Triple, a>>, b) = <<Triple, a, b>>
      /\ Append(<<Triple, a, b>>, c) = <<Triple, a, b, c>>
  BY PathNumbers, TupleAppend
<1>5. <<Triple>> \in Tables /\ <<Triple, a>> \in Tables /\ <<Triple, a, b>> \in Tables
  BY <1>1, <1>2, <1>3, TableAbove
<1>. QED
  BY <1>2, <1>3, <1>4, <1>5

\* ext2_block_from_offset returns the pointer to the block the format says, if
\* the tables on the way are there or the boot block has zeros for them.
LEMMA LookupIs ==
  ASSUME BInv, ~truncated, NEW k \in Indices, Boot = ZeroTable \/ ~TableMissing(k)
  PROVE  BlockFrom(k) = PointerTo(written, PathTo[k])
<1>. DEFINE Open(t) == Boot = ZeroTable \/ t \in BlocksOf(written)
<1>1. \A i \in 0 .. Triple : i_block[i] = PointerTo(written, <<i>>)
  BY DEF BInv, Formatted, FormatInode
<1>2. \A t \in PrefixesOf(PathTo[k]) \ {PathTo[k]} : Open(t)
  BY DEF TableMissing
<1>3. Single \in 0 .. Triple /\ Double \in 0 .. Triple /\ Triple \in 0 .. Triple
  BY Sizes DEF Single, Double, Triple
<1>4. \A t \in Tables : \A i \in InTable :
        Open(t) => Entry(PointerTo(written, t), i) = PointerTo(written, Append(t, i))
  BY Walk
<1>. HIDE DEF Open
<1>5. CASE k < Direct /\ PathTo[k] = <<k>> /\ BlockFrom(k) = i_block[k]
  <2>1. k \in 0 .. Triple
    BY <1>5, LargestIs, Sizes DEF Triple
  <2>. QED
    BY <1>1, <1>5, <2>1
<1>6. ASSUME NEW a \in InTable,
             PathTo[k] = <<Single, a>>, BlockFrom(k) = Entry(i_block[Single], a)
      PROVE  BlockFrom(k) = PointerTo(written, PathTo[k])
  <2>1. Open(<<Single>>)
    BY <1>2, <1>6, WaySingle
  <2>2. <<Single>> \in Tables /\ Append(<<Single>>, a) = <<Single, a>>
    BY WaySingle
  <2>3. Entry(PointerTo(written, <<Single>>), a) = PointerTo(written, Append(<<Single>>, a))
    BY <1>4, <2>1, <2>2
  <2>. QED
    BY <1>1, <1>3, <1>6, <2>2, <2>3
<1>7. ASSUME NEW a \in InTable, NEW b \in InTable,
             PathTo[k] = <<Double, a, b>>,
             BlockFrom(k) = Entry(Entry(i_block[Double], a), b)
      PROVE  BlockFrom(k) = PointerTo(written, PathTo[k])
  <2>1. Open(<<Double>>) /\ Open(<<Double, a>>)
    BY <1>2, <1>7, WayDouble
  <2>2. Entry(i_block[Double], a) = PointerTo(written, <<Double, a>>)
    <3>1. <<Double>> \in Tables /\ Append(<<Double>>, a) = <<Double, a>>
      BY WayDouble
    <3>2. Entry(PointerTo(written, <<Double>>), a) = PointerTo(written, Append(<<Double>>, a))
      BY <1>4, <2>1, <3>1
    <3>. QED
      BY <1>1, <1>3, <3>1, <3>2
  <2>3. Entry(PointerTo(written, <<Double, a>>), b) = PointerTo(written, <<Double, a, b>>)
    <3>1. <<Double, a>> \in Tables /\ Append(<<Double, a>>, b) = <<Double, a, b>>
      BY WayDouble
    <3>2. Entry(PointerTo(written, <<Double, a>>), b) = PointerTo(written, Append(<<Double, a>>, b))
      BY <1>4, <2>1, <3>1
    <3>. QED
      BY <3>1, <3>2
  <2>. QED
    BY <1>7, <2>2, <2>3
<1>8. ASSUME NEW a \in InTable, NEW b \in InTable, NEW c \in InTable,
             PathTo[k] = <<Triple, a, b, c>>,
             BlockFrom(k) = Entry(Entry(Entry(i_block[Triple], a), b), c)
      PROVE  BlockFrom(k) = PointerTo(written, PathTo[k])
  <2>1. Open(<<Triple>>) /\ Open(<<Triple, a>>) /\ Open(<<Triple, a, b>>)
    BY <1>2, <1>8, WayTriple
  <2>2. Entry(i_block[Triple], a) = PointerTo(written, <<Triple, a>>)
    <3>1. <<Triple>> \in Tables /\ Append(<<Triple>>, a) = <<Triple, a>>
      BY WayTriple
    <3>2. Entry(PointerTo(written, <<Triple>>), a) = PointerTo(written, Append(<<Triple>>, a))
      BY <1>4, <2>1, <3>1
    <3>. QED
      BY <1>1, <1>3, <3>1, <3>2
  <2>3. Entry(PointerTo(written, <<Triple, a>>), b) = PointerTo(written, <<Triple, a, b>>)
    <3>1. <<Triple, a>> \in Tables /\ Append(<<Triple, a>>, b) = <<Triple, a, b>>
      BY WayTriple
    <3>2. Entry(PointerTo(written, <<Triple, a>>), b) = PointerTo(written, Append(<<Triple, a>>, b))
      BY <1>4, <2>1, <3>1
    <3>. QED
      BY <3>1, <3>2
  <2>4. Entry(PointerTo(written, <<Triple, a, b>>), c) = PointerTo(written, <<Triple, a, b, c>>)
    <3>1. <<Triple, a, b>> \in Tables /\ Append(<<Triple, a, b>>, c) = <<Triple, a, b, c>>
      <4>1. <<Triple, a, b>> \in Tables
        BY WayTriple
      <4>2. /\ Append(<<Triple>>, a) = <<Triple, a>>
            /\ Append(<<Triple, a>>, b) = <<Triple, a, b>>
            /\ Append(<<Triple, a, b>>, c) = <<Triple, a, b, c>>
        BY PathNumbers, TupleAppend
      <4>. QED
        BY <4>1, <4>2
    <3>2. Entry(PointerTo(written, <<Triple, a, b>>), c) = PointerTo(written, Append(<<Triple, a, b>>, c))
      BY <1>4, <2>1, <3>1
    <3>. QED
      BY <3>1, <3>2
  <2>. QED
    BY <1>8, <2>2, <2>3, <2>4
<1>. QED
  BY <1>5, <1>6, <1>7, <1>8, BlockFromIs

\* Without pointers and with a boot block of zeros there is nothing to find.
LEMMA LookupTruncated ==
  ASSUME BInv, truncated, NEW k \in Indices, Boot = ZeroTable
  PROVE  BlockFrom(k) = NoBlock
<1>1. \A i \in 0 .. Triple : i_block[i] = NoBlock
  BY DEF BInv, Formatted
<1>2. \A a \in InTable : Entry(NoBlock, a) = NoBlock
  BY TablesHold DEF Entry, ZeroTable
<1>3. Single \in 0 .. Triple /\ Double \in 0 .. Triple /\ Triple \in 0 .. Triple
  BY Sizes DEF Single, Double, Triple
<1>4. k < Direct => k \in 0 .. Triple
  BY LargestIs, Sizes DEF Triple
<1>. QED
  BY <1>1, <1>2, <1>3, <1>4, BlockFromIs

\* The result of a lookup is a block, no block or the error.
LEMMA LookupType ==
  ASSUME BInv, NEW k \in 0 .. Largest
  PROVE  BlockFrom(k) \in Blocks \cup {NoBlock, <<-1>>}
<1>. DEFINE Found == Blocks \cup {NoBlock}
<1>1. written \in SUBSET Indices
  BY DEF BInv
<1>2. \A p : PointerTo(written, p) \in Found
  BY <1>1, BlocksAre DEF PointerTo, Blocks
<1>3. \A t : \A i \in InTable : Entry(t, i) \in Found
  <2>. SUFFICES ASSUME NEW t, NEW i \in InTable PROVE Entry(t, i) \in Found
    OBVIOUS
  <2>1. CASE t \in Tables
    BY <1>2, <2>1, TablesHold DEF Entry
  <2>2. CASE t = NoBlock
    <3>1. Boot \in [InTable -> Blocks \cup {NoBlock}]
      BY BootAssumption DEF BInv, Formatted
    <3>. QED
      BY <2>2, <3>1, TablesHold DEF Entry
  <2>3. CASE t \notin Tables \cup {NoBlock}
    BY <2>3, TablesHold DEF Entry
  <2>. QED
    BY <2>1, <2>2, <2>3
<1>4. \A i \in 0 .. Triple : i_block[i] \in Found
  BY <1>2 DEF BInv, Formatted, FormatInode
<1>5. CASE k \in Indices
  <2>1. k < Direct => k \in 0 .. Triple
    BY Sizes DEF Triple
  <2>2. BlockFrom(k) \in Found
    BY <1>3, <1>4, <1>5, <2>1, BlockFromIs
  <2>. QED
    BY <2>2
<1>6. CASE k \notin Indices
  <2>1. k = Direct + E1 + E2 + E3
    BY <1>6, LargestIs, Sizes DEF Total
  <2>2. BlockFrom(k) = <<-1>>
    BY <2>1, Sizes DEF BlockFrom
  <2>. QED
    BY <2>2
<1>. QED
  BY <1>5, <1>6


(***************************************************************************)
(* Truncation.                                                             *)
(***************************************************************************)

\* A table of the file has pointers to blocks of the file.
LEMMA KidsOwn ==
  ASSUME BInv, NEW t \in Tables
  PROVE  Kids(t) \subseteq BlocksOf(written)
<1>. SUFFICES ASSUME NEW b \in Kids(t) PROVE b \in BlocksOf(written)
  OBVIOUS
<1>1. PICK i \in InTable : b = Entry(t, i) /\ \A l \in 0 .. i : Entry(t, l) # NoBlock
  BY DEF Kids
<1>2. b # NoBlock
  BY <1>1, Sizes
<1>3. b = PointerTo(written, Append(t, i))
  BY <1>1, TablesHold DEF Entry
<1>. QED
  BY <1>2, <1>3 DEF PointerTo

\* What a table of the file points to can be freed with it: its entries are
\* tables of the file or hold no pointers.
LEMMA FreedBelowOwn ==
  ASSUME BInv, NEW t \in BlocksOf(written)
  PROVE  /\ FreedBelowSingle(t) \subseteq BlocksOf(written)
         /\ FreedBelowDouble(t) \subseteq BlocksOf(written)
<1>1. written \in SUBSET Indices
  BY DEF BInv
<1>2. \A s \in BlocksOf(written) : Kids(s) \subseteq BlocksOf(written)
  <2>. SUFFICES ASSUME NEW s \in BlocksOf(written) PROVE Kids(s) \subseteq BlocksOf(written)
    OBVIOUS
  <2>1. CASE s \in Tables
    BY <2>1, KidsOwn
  <2>2. CASE s \notin Tables
    <3>1. s \notin DOMAIN table
      BY <1>1, <2>2, BlocksAre, TablesHold
    <3>2. \A l : Entry(s, l) = NoBlock
      BY <3>1 DEF Entry
    <3>3. Kids(s) = {}
      BY <3>2, Sizes DEF Kids
    <3>. QED
      BY <3>3
  <2>. QED
    BY <2>1, <2>2
<1>3. \A s \in BlocksOf(written) : FreedBelowSingle(s) \subseteq BlocksOf(written)
  BY <1>2 DEF FreedBelowSingle
<1>4. FreedBelowDouble(t) \subseteq BlocksOf(written)
  BY <1>2, <1>3 DEF FreedBelowDouble
<1>. QED
  BY <1>3, <1>4

\* ext2_truncate_file frees blocks of the file alone, unless it has a triple
\* indirect table and the boot block is not of zeros.
LEMMA FreedOwn ==
  ASSUME BInv, ~truncated, Boot = ZeroTable \/ \A k \in written : PathTo[k][1] # Triple
  PROVE  Freed \subseteq BlocksOf(written)
<1>1. written \in SUBSET Indices
  BY DEF BInv
<1>2. \A i \in 0 .. Triple : i_block[i] \in BlocksOf(written) \/ i_block[i] = NoBlock
  BY DEF BInv, Formatted, FormatInode, PointerTo
<1>3. 0 .. Direct - 1 \subseteq 0 .. Triple /\ Single \in 0 .. Triple /\ Double \in 0 .. Triple
      /\ Triple \in 0 .. Triple
  BY Sizes DEF Single, Double, Triple
<1>4. i_block[Triple] # NoBlock => FreedBelowTriple(i_block[Triple]) \subseteq BlocksOf(written)
  <2>. SUFFICES ASSUME i_block[Triple] # NoBlock
                PROVE  FreedBelowTriple(i_block[Triple]) \subseteq BlocksOf(written)
    OBVIOUS
  <2>1. i_block[Triple] = <<Triple>> /\ <<Triple>> \in BlocksOf(written)
    BY <1>3 DEF BInv, Formatted, FormatInode, PointerTo
  <2>2. PICK k \in written : <<Triple>> \in PrefixesOf(PathTo[k])
    BY <2>1 DEF BlocksOf
  <2>3. PathTo[k][1] = Triple
    <3>1. PathTo[k] \in Seq(Nat)
      BY <1>1, PathIsCodePath, LeafSeq
    <3>2. PICK t : t = <<Triple>>
      OBVIOUS
    <3>3. Len(t) = 1 /\ t[1] = Triple
      BY <3>2
    <3>4. \A i \in 1 .. Len(t) : t[i] = PathTo[k][i]
      BY <2>2, <3>1, <3>2, Prefixes
    <3>. QED
      BY <3>3, <3>4
  <2>4. Boot = ZeroTable
    BY <2>3
  <2>5. \A i \in InTable : Entry(NoBlock, i) = NoBlock
    BY <2>4, TablesHold DEF Entry, ZeroTable
  <2>6. Kids(NoBlock) = {}
    BY <2>5, Sizes DEF Kids
  <2>. QED
    BY <2>1, <2>6 DEF FreedBelowTriple
<1>5. i_block[Single] # NoBlock => FreedBelowSingle(i_block[Single]) \subseteq BlocksOf(written)
  BY <1>2, <1>3, FreedBelowOwn
<1>6. i_block[Double] # NoBlock => FreedBelowDouble(i_block[Double]) \subseteq BlocksOf(written)
  BY <1>2, <1>3, FreedBelowOwn
<1>7. {i_block[i] : i \in 0 .. Direct - 1} \ {NoBlock} \subseteq BlocksOf(written)
  BY <1>2, <1>3
<1>. QED
  BY <1>4, <1>5, <1>6, <1>7 DEF Freed

\* The entries of a table without a hole before entry i.
LEMMA KidsReach ==
  ASSUME BInv, NEW t \in Tables, NEW i \in InTable,
         \A l \in 0 .. i : Append(t, l) \in BlocksOf(written)
  PROVE  Append(t, i) \in Kids(t)
<1>1. written \in SUBSET Indices
  BY DEF BInv
<1>2. 0 .. i \subseteq InTable /\ i \in 0 .. i
  BY Sizes
<1>3. \A l \in 0 .. i : Entry(t, l) = Append(t, l)
  BY <1>2, TablesHold DEF Entry, PointerTo
<1>4. \A l \in 0 .. i : Entry(t, l) # NoBlock
  BY <1>1, <1>3, BlocksAre
<1>. QED
  BY <1>2, <1>3, <1>4 DEF Kids


\* ext2_truncate_file frees every block of a file without holes and without a
\* triple indirect table.
LEMMA FreesDense ==
  ASSUME BInv, ~truncated, NEW m \in Nat, written = 0 .. m - 1, m <= Direct + E1 + E2
  PROVE  /\ BlocksOf(written) \subseteq Freed
         /\ \A k \in written : PathTo[k][1] # Triple
<1>1. written \in SUBSET Indices
  BY DEF BInv
<1>2. \A i \in 0 .. Triple : i_block[i] = PointerTo(written, <<i>>)
  BY DEF BInv, Formatted, FormatInode
<1>3. ASSUME NEW k \in written
      PROVE  /\ PathTo[k] \in Leaves
             /\ Kind0(PathTo[k]) \/ Kind1(PathTo[k]) \/ Kind2(PathTo[k])
             /\ \A p \in Leaves : ~Precedes(PathTo[k], p) => PrefixesOf(p) \subseteq BlocksOf(written)
  <2>1. PathTo[k] \in Leaves /\ Index(PathTo[k]) = k /\ k \in 0 .. m - 1
    BY <1>1, PathIsCodePath
  <2>2. Kind0(PathTo[k]) \/ Kind1(PathTo[k]) \/ Kind2(PathTo[k])
    BY <2>1, Kinds, IndexRange, Sizes
  <2>3. ASSUME NEW p \in Leaves, ~Precedes(PathTo[k], p)
        PROVE  PrefixesOf(p) \subseteq BlocksOf(written)
    <3>1. PICK j : j = Index(p)
      OBVIOUS
    <3>2. j \in 0 .. Total - 1 /\ ~(k < j)
      BY <2>1, <2>3, <3>1, IndexType, OrderedAsIndices
    <3>3. j \in written /\ j \in Indices
      BY <1>1, <2>1, <3>2
    <3>4. PathTo[j] = p
      BY <3>1, <3>3, PathIsCodePath, IndexInjective
    <3>. QED
      BY <3>3, <3>4 DEF BlocksOf
  <2>. QED
    BY <2>1, <2>2, <2>3
<1>4. \A k \in written : PathTo[k][1] # Triple
  <2>1. \A k \in written : PathTo[k][1] \in 0 .. Direct - 1 \/ PathTo[k][1] \in {Single, Double}
    BY <1>3, FirstEntry
  <2>. QED
    BY <2>1, Sizes DEF Single, Double, Triple
<1>5. ASSUME NEW b \in BlocksOf(written)
      PROVE  b \in Freed
  <2>1. PICK k \in written : b \in PrefixesOf(PathTo[k])
    BY DEF BlocksOf
  <2>2. \A p \in Leaves : ~Precedes(PathTo[k], p) => PrefixesOf(p) \subseteq BlocksOf(written)
    BY <1>3
  <2>3. PrefixesOf(PathTo[k]) \subseteq BlocksOf(written)
    BY DEF BlocksOf
  <2>4. b # NoBlock
    BY <1>1, BlocksAre
  <2>5. CASE Kind0(PathTo[k])
    <3>1. PICK i \in 0 .. Direct - 1 : PathTo[k] = <<i>>
      BY <2>5 DEF Kind0
    <3>2. b = <<i>>
      BY <2>1, <3>1, Prefixes1, Sizes
    <3>3. i \in 0 .. Triple
      BY Sizes DEF Triple
    <3>4. i_block[i] = b
      BY <1>2, <3>2, <3>3 DEF PointerTo
    <3>. QED
      BY <2>4, <3>4 DEF Freed
  <2>6. CASE Kind1(PathTo[k])
    <3>1. PICK a \in InTable : PathTo[k] = <<Single, a>>
      BY <2>6 DEF Kind1
    <3>2. b \in {<<Single>>, <<Single, a>>} /\ <<Single>> \in BlocksOf(written)
      BY <2>1, <2>3, <3>1, PathNumbers, Prefixes2
    <3>3. i_block[Single] = <<Single>> /\ <<Single>> # NoBlock
      <4>1. Single \in 0 .. Triple
        BY Sizes DEF Single, Triple
      <4>. QED
        BY <1>1, <1>2, <3>2, <4>1, BlocksAre DEF PointerTo
    <3>4. ASSUME NEW l \in 0 .. a PROVE Append(<<Single>>, l) \in BlocksOf(written)
      <4>1. l \in InTable /\ ~(a < l) /\ Single \in Int /\ a \in Int /\ l \in Int
        BY Sizes DEF Single
      <4>2. ~Precedes(<<Single, a>>, <<Single, l>>)
        BY <4>1, PrecedesSame
      <4>3. <<Single, l>> \in Leaves /\ <<Single, l>> \in PrefixesOf(<<Single, l>>)
        BY <4>1, Kinds, LeafItself DEF Kind1
      <4>. QED
        BY <2>2, <3>1, <4>1, <4>2, <4>3, WaySingle
    <3>5. <<Single, a>> \in Kids(<<Single>>)
      <4>1. <<Single>> \in Tables /\ Append(<<Single>>, a) = <<Single, a>>
        BY WaySingle
      <4>. QED
        BY <3>4, <4>1, KidsReach
    <3>6. b \in FreedBelowSingle(<<Single>>)
      BY <3>2, <3>5 DEF FreedBelowSingle
    <3>. QED
      BY <3>3, <3>6 DEF Freed
  <2>7. CASE Kind2(PathTo[k])
    <3>1. PICK a, c \in InTable : PathTo[k] = <<Double, a, c>>
      BY <2>7 DEF Kind2
    <3>2. PrefixesOf(PathTo[k]) = {<<Double>>, <<Double, a>>, <<Double, a, c>>}
      <4>1. Double \in Nat /\ a \in Nat /\ c \in Nat
        BY PathNumbers
      <4>. QED
        BY <3>1, <4>1, Prefixes3
    <3>3. i_block[Double] = <<Double>> /\ <<Double>> # NoBlock
      <4>1. Double \in 0 .. Triple
        BY Sizes DEF Double, Triple
      <4>2. <<Double>> \in BlocksOf(written)
        BY <2>3, <3>2
      <4>. QED
        BY <1>1, <1>2, <4>1, <4>2, BlocksAre DEF PointerTo
    <3>4. ASSUME NEW l \in 0 .. a PROVE Append(<<Double>>, l) \in BlocksOf(written)
      <4>1. /\ l \in InTable /\ 0 \in InTable /\ ~(a < l) /\ ~(c < 0)
            /\ Double \in Int /\ a \in Int /\ l \in Int /\ c \in Int /\ 0 \in Int
        BY Sizes DEF Double
      <4>2. ~Precedes(<<Double, a, c>>, <<Double, l, 0>>)
        BY <4>1, PrecedesSame
      <4>3. <<Double, l, 0>> \in Leaves
        BY <4>1, Kinds DEF Kind2
      <4>4. PrefixesOf(<<Double, l, 0>>) \subseteq BlocksOf(written)
        BY <2>2, <3>1, <4>2, <4>3
      <4>5. Append(<<Double>>, l) = <<Double, l>>
        BY <4>1, WayDouble
      <4>6. <<Double, l>> \in PrefixesOf(<<Double, l, 0>>)
        BY <4>1, WayDouble
      <4>. QED
        BY <4>4, <4>5, <4>6
    <3>5. <<Double, a>> \in Kids(<<Double>>)
      <4>1. <<Double>> \in Tables /\ Append(<<Double>>, a) = <<Double, a>>
        BY WayDouble
      <4>. QED
        BY <3>4, <4>1, KidsReach
    <3>6. ASSUME NEW l \in 0 .. c PROVE Append(<<Double, a>>, l) \in BlocksOf(written)
      <4>1. /\ l \in InTable /\ ~(a < a) /\ ~(c < l)
            /\ Double \in Int /\ a \in Int /\ l \in Int /\ c \in Int
        BY Sizes DEF Double
      <4>2. ~Precedes(<<Double, a, c>>, <<Double, a, l>>)
        BY <4>1, PrecedesSame
      <4>3. <<Double, a, l>> \in Leaves
        BY <4>1, Kinds DEF Kind2
      <4>4. PrefixesOf(<<Double, a, l>>) \subseteq BlocksOf(written)
        BY <2>2, <3>1, <4>2, <4>3
      <4>5. Append(<<Double, a>>, l) = <<Double, a, l>>
        BY <4>1, WayDouble
      <4>6. <<Double, a, l>> \in PrefixesOf(<<Double, a, l>>)
        BY <4>3, LeafItself
      <4>. QED
        BY <4>4, <4>5, <4>6
    <3>7. <<Double, a, c>> \in Kids(<<Double, a>>)
      <4>1. <<Double, a>> \in Tables /\ Append(<<Double, a>>, c) = <<Double, a, c>>
        BY WayDouble
      <4>. QED
        BY <3>6, <4>1, KidsReach
    <3>8. b \in FreedBelowDouble(<<Double>>)
      <4>1. CASE b = <<Double>>
        BY <4>1 DEF FreedBelowDouble
      <4>2. CASE b \in {<<Double, a>>, <<Double, a, c>>}
        <5>1. b \in FreedBelowSingle(<<Double, a>>)
          BY <3>7, <4>2 DEF FreedBelowSingle
        <5>. QED
          BY <3>5, <5>1 DEF FreedBelowDouble
      <4>. QED
        BY <2>1, <3>2, <4>1, <4>2
    <3>. QED
      BY <3>3, <3>8 DEF Freed
  <2>. QED
    BY <1>3, <2>5, <2>6, <2>7
<1>. QED
  BY <1>4, <1>5


(***************************************************************************)
(* The theorems.                                                           *)
(***************************************************************************)

\* A file nobody has written yet satisfies the invariant.
LEMMA BInit == Init => BInv
<1>. SUFFICES ASSUME Init PROVE BInv
  OBVIOUS
<1>1. written = {} /\ truncated = FALSE /\ found = NoLookup
  BY DEF Init
<1>2. BlocksOf({}) = {}
  BY DEF BlocksOf
<1>3. PICK boot \in Boots : table = FormatTable({}, boot)
  BY DEF Init
<1>4. Boot = boot
  BY <1>3 DEF FormatTable, Boot
<1>5. Formatted
  BY <1>1, <1>2, <1>3, <1>4 DEF Formatted, Init
<1>. QED
  BY <1>1, <1>5 DEF BInv, Fresh, FreesAll, FreesOwn

\* The writer elsewhere keeps the invariant, ...
LEMMA WriteElsewhereKeeps ==
  ASSUME BInv, NEW k \in Indices, WriteElsewhere(k)
  PROVE  BInv'
<1>1. PICK ks : ks = written \cup {k}
  OBVIOUS
<1>2. /\ written' = ks /\ i_block' = FormatInode(ks) /\ table' = FormatTable(ks, Boot)
      /\ used' = {Other} \cup BlocksOf(ks) /\ found' = NoLookup
      /\ ~truncated /\ truncated' = truncated
  BY <1>1 DEF WriteElsewhere
<1>3. written' \in SUBSET Indices
  BY <1>1, <1>2 DEF BInv
<1>4. PICK boot : boot = Boot
  OBVIOUS
<1>5. Boot' = boot /\ boot \in Boots
  BY <1>2, <1>4 DEF FormatTable, Boot, BInv, Formatted
<1>6. Formatted'
  BY <1>2, <1>4, <1>5 DEF Formatted
<1>7. Fresh' /\ truncated' \in BOOLEAN /\ FreesAll' /\ FreesOwn'
  BY <1>2 DEF Fresh, FreesAll, FreesOwn, BInv
<1>. QED
  BY <1>3, <1>6, <1>7 DEF BInv

\* ... and so do ext2_block_from_offset ...
LEMMA LookupKeeps ==
  ASSUME BInv, NEW k \in 0 .. Largest, ext2_block_from_offset(k)
  PROVE  BInv'
<1>1. /\ found' = [index |-> k, block |-> BlockFrom(k)]
      /\ UNCHANGED <<i_block, table, used, written, truncated>>
  BY DEF ext2_block_from_offset
<1>2. BlockFrom(k)' = BlockFrom(k)
  BY <1>1 DEF BlockFrom, Entry
<1>3. Fresh'
  BY <1>1, <1>2 DEF Fresh
<1>4. Formatted' /\ FreesAll' /\ FreesOwn'
  BY <1>1 DEF BInv, Formatted, FreesAll, FreesOwn, Boot
<1>. QED
  BY <1>1, <1>3, <1>4 DEF BInv

\* ... and ext2_truncate_file.
LEMMA TruncateKeeps ==
  ASSUME BInv, ext2_truncate_file
  PROVE  BInv'
<1>1. /\ ~truncated /\ truncated' = TRUE /\ used' = used \ Freed /\ found' = NoLookup
      /\ i_block' = [i \in 0 .. Triple |-> NoBlock]
      /\ table' = table /\ written' = written
  BY DEF ext2_truncate_file, Cleared
<1>2. Boot' = Boot
  BY <1>1 DEF Boot
<1>3. written \in SUBSET Indices /\ used = {Other} \cup BlocksOf(written)
  BY <1>1 DEF BInv, Formatted
<1>4. Other \notin BlocksOf(written)
  BY <1>3, BlocksAre
<1>5. Formatted'
  BY <1>1, <1>2, <1>3 DEF BInv, Formatted
<1>6. FreesOwn'
  <2>1. Boot = ZeroTable \/ (\A k \in written : PathTo[k][1] # Triple) => Other \in used \ Freed
    BY <1>1, <1>3, <1>4, FreedOwn
  <2>. QED
    BY <1>1, <1>2, <2>1 DEF FreesOwn
<1>7. FreesAll'
  <2>. SUFFICES ASSUME written = 0 .. Cardinality(written) - 1,
                       Cardinality(written) <= Direct + E1 + E2
                PROVE  used \ Freed = {Other}
    BY <1>1 DEF FreesAll
  <2>1. Cardinality(written) \in Nat
    <3>1. IsFiniteSet(0 .. Total - 1)
      BY FS_Interval, Sizes
    <3>2. IsFiniteSet(written)
      BY <1>3, <3>1, LargestIs, FS_Subset
    <3>. QED
      BY <3>2, FS_CardinalityType
  <2>2. PICK m \in Nat : m = Cardinality(written)
    BY <2>1
  <2>3. written = 0 .. m - 1 /\ m <= Direct + E1 + E2
    BY <2>2
  <2>4. BlocksOf(written) \subseteq Freed /\ \A k \in written : PathTo[k][1] # Triple
    BY <1>1, <2>3, FreesDense
  <2>5. Other \notin Freed
    BY <1>1, <1>4, <2>4, FreedOwn
  <2>. QED
    BY <1>3, <2>4, <2>5
<1>. QED
  BY <1>1, <1>3, <1>5, <1>6, <1>7 DEF BInv, Fresh

\* The invariant of the block map: the tables are those of the format until
\* and after the truncation, and a lookup has what the code would find again.
THEOREM MapInvariant == Spec => []BInv
<1>1. BInv /\ [Next]_vars => BInv'
  <2>. SUFFICES ASSUME BInv, [Next]_vars PROVE BInv'
    OBVIOUS
  <2>1. CASE \E k \in Indices : WriteElsewhere(k)
    BY <2>1, WriteElsewhereKeeps
  <2>2. CASE \E k \in 0 .. Largest : ext2_block_from_offset(k)
    BY <2>2, LookupKeeps
  <2>3. CASE ext2_truncate_file
    BY <2>3, TruncateKeeps
  <2>4. CASE UNCHANGED vars
    BY <2>4 DEF vars, BInv, Formatted, Fresh, FreesAll, FreesOwn, Boot, BlockFrom, Entry
  <2>. QED
    BY <2>1, <2>2, <2>3, <2>4 DEF Next
<1>. QED
  BY <1>1, BInit, PTL DEF Spec

\* Every lookup returns a block, none or -1, whatever the boot block holds,
\* and a truncated file has no pointer left.
THEOREM MapTypes == Spec => []TypeOK
<1>1. BInv => TypeOK
  <2>. SUFFICES ASSUME BInv PROVE TypeOK
    OBVIOUS
  <2>1. written \in SUBSET Indices
    BY DEF BInv
  <2>2. \A p : PointerTo(written, p) \in Blocks \cup {NoBlock}
    BY <2>1, BlocksAre DEF PointerTo, Blocks
  <2>3. i_block \in [0 .. Triple -> Blocks \cup {NoBlock}]
    BY <2>2 DEF BInv, Formatted, FormatInode
  <2>4. used \subseteq Blocks
    BY <2>1, BlocksAre DEF BInv, Formatted, Blocks
  <2>5. found.index \in -1 .. Largest /\ found.block \in Blocks \cup {NoBlock, <<-1>>}
    <3>1. CASE found = NoLookup
      BY <3>1, LargestIs, Sizes DEF NoLookup
    <3>2. ASSUME NEW k \in 0 .. Largest, found = [index |-> k, block |-> BlockFrom(k)]
          PROVE  found.index \in -1 .. Largest /\ found.block \in Blocks \cup {NoBlock, <<-1>>}
      <4>1. found.index = k /\ found.block = BlockFrom(k)
        BY <3>2
      <4>2. BlockFrom(k) \in Blocks \cup {NoBlock, <<-1>>}
        BY LookupType
      <4>3. k \in -1 .. Largest
        BY LargestIs, Sizes
      <4>. QED
        BY <4>1, <4>2, <4>3
    <3>. QED
      BY <3>1, <3>2 DEF BInv, Fresh
  <2>. QED
    BY <2>1, <2>3, <2>4, <2>5, TablesHold DEF TypeOK, BInv, Formatted
<1>. QED
  BY <1>1, MapInvariant, PTL

\* The divisions and remainders of ext2_block_from_offset lead to the block
\* with that index for every size of i_block and of the tables.
THEOREM MapTranslates == Spec => []Translates
<1>1. BInv => Translates
  <2>. SUFFICES ASSUME BInv PROVE Translates
    OBVIOUS
  <2>1. written \in SUBSET Indices
    BY DEF BInv
  <2>2. CASE found = NoLookup
    <3>1. found.index = -1 /\ found.index \notin Indices /\ found.block = NoBlock
      BY <2>2, LargestIs DEF NoLookup
    <3>. QED
      BY <2>1, <3>1 DEF Translates
  <2>3. ASSUME NEW k \in 0 .. Largest, found = [index |-> k, block |-> BlockFrom(k)]
        PROVE  Translates
    <3>1. found.index = k /\ found.block = BlockFrom(k)
      BY <2>3
    <3>2. ASSUME k \in written, ~truncated PROVE BlockFrom(k) = PathTo[k]
      <4>1. PathTo[k] \in BlocksOf(written) /\ PrefixesOf(PathTo[k]) \subseteq BlocksOf(written)
        BY <2>1, <3>2, LeafOfFile DEF BlocksOf
      <4>2. ~TableMissing(k)
        BY <4>1 DEF TableMissing
      <4>. QED
        BY <2>1, <3>2, <4>1, <4>2, LookupIs DEF PointerTo
    <3>3. ASSUME k \in Indices, truncated, Boot = ZeroTable PROVE BlockFrom(k) = NoBlock
      BY <3>3, LookupTruncated
    <3>4. ASSUME k \in Indices, ~truncated, k \notin written, Boot = ZeroTable \/ ~TableMissing(k)
          PROVE  BlockFrom(k) = NoBlock
      <4>1. PathTo[k] \notin BlocksOf(written)
        BY <2>1, <3>4, LeafOfFile
      <4>. QED
        BY <3>4, <4>1, LookupIs DEF PointerTo
    <3>. QED
      BY <3>1, <3>2, <3>3, <3>4 DEF Translates
  <2>. QED
    BY <2>2, <2>3 DEF BInv, Fresh
<1>. QED
  BY <1>1, MapInvariant, PTL

\* ext2_truncate_file frees every block of a file without holes up to the
\* double indirect table, whatever the sizes.
THEOREM MapFreesAll == Spec => []FreesAll
<1>1. BInv => FreesAll
  BY DEF BInv
<1>. QED
  BY <1>1, MapInvariant, PTL

\* ext2_truncate_file frees no other file's block, whatever holes the file has,
\* if there is no triple indirect table or the boot block is of zeros.
THEOREM MapFreesOwn == Spec => []FreesOwn
<1>1. BInv => FreesOwn
  BY DEF BInv
<1>. QED
  BY <1>1, MapInvariant, PTL


=============================================================================
