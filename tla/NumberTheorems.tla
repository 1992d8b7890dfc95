---------------------------- MODULE NumberTheorems ----------------------------
(***************************************************************************)
(* What the proofs need to know of numbers: division and remainders;       *)
(* induction, from the well-foundedness of their order; and what induction *)
(* gives for sums, that SumTo obeys its recursion.                         *)
(***************************************************************************)
EXTENDS Sums, Integers, WellFoundedInduction, TLAPS

(* Euclidean division: quotient and remainder of n by d. *)
LEMMA DivMod ==
  ASSUME NEW n \in Nat, NEW d \in Nat \ {0}
  PROVE  /\ n \div d \in Nat
         /\ n % d \in 0 .. d - 1
         /\ n = d * (n \div d) + (n % d)
  OBVIOUS

(* n lies between two neighbouring multiples of d. *)
LEMMA QuotientBetween ==
  ASSUME NEW n \in Nat, NEW d \in Nat \ {0}
  PROVE  /\ n \div d \in Nat
         /\ (n \div d) * d <= n
         /\ n < ((n \div d) + 1) * d
OBVIOUS

(* A common factor cancels. *)
LEMMA CancelFactor ==
  ASSUME NEW a \in Int, NEW b \in Int, NEW d \in Nat \ {0}, a * d < b * d
  PROVE  a < b
<1> SUFFICES ASSUME a >= b PROVE FALSE
  OBVIOUS
<1>1. PICK c \in Nat : a = b + c
  <2>1. a - b \in Nat /\ a = b + (a - b)
    OBVIOUS
  <2>2. QED
    BY <2>1
<1>2. a * d = (b * d) + (c * d) /\ c * d \in Nat /\ b * d \in Int
  BY <1>1
<1>3. QED
  BY <1>1, <1>2

(* Division of any integer. *)
LEMMA DivModInt ==
  ASSUME NEW n \in Int, NEW d \in Nat \ {0}
  PROVE  /\ n \div d \in Int
         /\ n % d \in 0 .. d - 1
         /\ n = ((n \div d) * d) + (n % d)
OBVIOUS

(* The remainder of a multiple plus a remainder. *)
LEMMA ModOfSum ==
  ASSUME NEW q \in Int, NEW d \in Nat \ {0}, NEW r \in 0 .. d - 1
  PROVE  ((q * d) + r) % d = r
<1> DEFINE n == (q * d) + r
           x == n \div d
           y == n % d
<1>0. q * d \in Int /\ n \in Int
  OBVIOUS
<1>1. x \in Int /\ y \in 0 .. d - 1 /\ n = (x * d) + y
  BY <1>0, DivModInt
<1> HIDE DEF x, y
<1>2. x * d \in Int /\ (q + 1) * d = (q * d) + d /\ (x + 1) * d = (x * d) + d
  BY <1>1
<1>3. x * d < (q + 1) * d
  BY <1>0, <1>1, <1>2
<1>4. q * d < (x + 1) * d
  BY <1>0, <1>1, <1>2
<1>5. x < q + 1 /\ q < x + 1
  BY <1>1, <1>3, <1>4, CancelFactor
<1>6. x = q
  BY <1>1, <1>5
<1>7. y = r
  BY <1>0, <1>1, <1>6
<1>8. QED
  BY <1>7 DEF y

(* What is added to a remainder counts as added to the number. *)
LEMMA ModOfModPlus ==
  ASSUME NEW a \in Int, NEW b \in Int, NEW d \in Nat \ {0}
  PROVE  ((a % d) + b) % d = (a + b) % d
<1> DEFINE p == a \div d
           x == a % d
<1>1. p \in Int /\ x \in 0 .. d - 1 /\ a = (p * d) + x
  BY DivModInt
<1> DEFINE q == (x + b) \div d
           y == (x + b) % d
<1>2. q \in Int /\ y \in 0 .. d - 1 /\ x + b = (q * d) + y
  BY <1>1, DivModInt
<1>3. (x + b) % d = y
  OBVIOUS
<1> HIDE DEF p, x, q, y
<1>4. (p + q) * d = (p * d) + (q * d) /\ p * d \in Int /\ q * d \in Int
  BY <1>1, <1>2
<1>5. a + b = ((p + q) * d) + y
  BY <1>1, <1>2, <1>4
<1>6. (a + b) % d = y
  <2>1. p + q \in Int
    BY <1>1, <1>2
  <2>2. QED
    BY <1>2, <1>5, <2>1, ModOfSum
<1>7. QED
  BY <1>3, <1>6 DEF x

(* A number below the modulus is its own remainder. *)
LEMMA ModSmall ==
  ASSUME NEW d \in Nat \ {0}, NEW r \in 0 .. d - 1
  PROVE  r % d = r
OBVIOUS

-----------------------------------------------------------------------------
(* A set of numbers that is not empty has a least element. *)
LEMMA LeastNumber ==
  ASSUME NEW T, T \subseteq Nat, T # {}
  PROVE  \E m \in T : \A k \in T : m <= k
<1>1. PICK m \in T : \A k \in T : ~ (<<k, m>> \in OpToRel(<, Nat))
  BY WFMin, NatLessThanWellFounded
<1>2. \A k \in T : ~(k < m)
  BY <1>1 DEF OpToRel
<1>3. QED
  BY <1>2

(* A set that holds 0, and with n also n + 1, holds every number. *)
LEMMA NatInduct ==
  ASSUME NEW T, 0 \in T, \A n \in Nat : n \in T => n + 1 \in T
  PROVE  Nat \subseteq T
<1> SUFFICES ASSUME Nat \ T # {} PROVE FALSE
  OBVIOUS
<1>1. PICK m \in Nat \ T : \A k \in Nat \ T : m <= k
  <2>1. Nat \ T \subseteq Nat
    OBVIOUS
  <2>2. QED
    BY <2>1, LeastNumber
<1>2. m # 0 /\ m - 1 \in Nat /\ m - 1 \in T
  <2>1. m # 0
    OBVIOUS
  <2>2. m - 1 \in Nat /\ ~(m <= m - 1)
    BY <2>1
  <2>3. QED
    BY <1>1, <2>1, <2>2
<1>3. (m - 1) + 1 = m
  OBVIOUS
<1>4. QED
  BY <1>2, <1>3

-----------------------------------------------------------------------------
(* f holds the sums of v up to n. *)
IsSums(f, v, n) ==
  /\ f \in [0 .. n -> Nat]
  /\ f[0] = 0
  /\ \A k \in 1 .. n : f[k] = f[k - 1] + v[k]

(* f satisfies the equation that defines SumTo. *)
Recurs(f, v, n) == f = [k \in 0 .. n |-> IF k = 0 THEN 0 ELSE f[k - 1] + v[k]]

(* The sums up to n + 1 extend those up to n. *)
LEMMA SumsExtend ==
  ASSUME NEW n \in Nat, NEW v, NEW f, IsSums(f, v, n), v[n + 1] \in Nat
  PROVE  IsSums([k \in 0 .. n + 1 |-> IF k = n + 1 THEN f[n] + v[n + 1] ELSE f[k]], v, n + 1)
<1> DEFINE g == [k \in 0 .. n + 1 |-> IF k = n + 1 THEN f[n] + v[n + 1] ELSE f[k]]
<1>1. f \in [0 .. n -> Nat] /\ f[0] = 0 /\ \A k \in 1 .. n : f[k] = f[k - 1] + v[k]
  BY DEF IsSums
<1>2. g \in [0 .. n + 1 -> Nat]
  BY <1>1
<1>3. g[0] = 0
  BY <1>1
<1>4. ASSUME NEW k \in 1 .. n + 1 PROVE g[k] = g[k - 1] + v[k]
  <2>1. CASE k = n + 1
    BY <2>1
  <2>2. CASE k # n + 1
    <3>1. /\ k \in 1 .. n /\ k - 1 \in 0 .. n /\ k - 1 # n + 1
          /\ k \in 0 .. n + 1 /\ k - 1 \in 0 .. n + 1
      BY <2>2
    <3>2. QED
      BY <1>1, <3>1
  <2>3. QED
    BY <2>1, <2>2
<1> HIDE DEF g
<1>5. IsSums(g, v, n + 1)
  BY <1>2, <1>3, <1>4 DEF IsSums
<1>6. QED
  BY <1>5 DEF g

(* They exist ... *)
LEMMA SumsExist ==
  ASSUME NEW n \in Nat, NEW v, \A k \in 1 .. n : v[k] \in Nat
  PROVE  \E f : IsSums(f, v, n)
<1> DEFINE T == {m \in Nat : m <= n => \E f : IsSums(f, v, m)}
<1>1. 0 \in T
  <2>1. IsSums([k \in 0 .. 0 |-> 0], v, 0)
    BY DEF IsSums
  <2>2. QED
    BY <2>1
<1>2. ASSUME NEW m \in Nat, m \in T PROVE m + 1 \in T
  <2>1. CASE m + 1 <= n
    <3>1. m <= n /\ m + 1 \in 1 .. n
      BY <2>1
    <3>2. PICK f : IsSums(f, v, m)
      BY <1>2, <3>1
    <3>3. \E g : IsSums(g, v, m + 1)
      BY <3>1, <3>2, SumsExtend
    <3>4. QED
      BY <3>3
  <2>2. CASE ~(m + 1 <= n)
    BY <2>2
  <2>3. QED
    BY <2>1, <2>2
<1> HIDE DEF T
<1>3. n \in T
  BY <1>1, <1>2, NatInduct
<1>4. QED
  BY <1>3 DEF T

(* ... and there are no others. *)
LEMMA SumsUnique ==
  ASSUME NEW n \in Nat, NEW v, NEW f, IsSums(f, v, n), NEW g, Recurs(g, v, n)
  PROVE  g = f
<1>1. f \in [0 .. n -> Nat] /\ f[0] = 0 /\ \A k \in 1 .. n : f[k] = f[k - 1] + v[k]
  BY DEF IsSums
<1> DEFINE T == {k \in Nat : k <= n => g[k] = f[k]}
<1>2. /\ g = [k \in 0 .. n |-> g[k]]
      /\ g[0] = 0 /\ \A k \in 1 .. n : g[k] = g[k - 1] + v[k]
  BY DEF Recurs
<1>3. 0 \in T
  BY <1>1, <1>2
<1>4. ASSUME NEW k \in Nat, k \in T PROVE k + 1 \in T
  <2>1. CASE k + 1 <= n
    <3>1. k + 1 \in 1 .. n /\ (k + 1) - 1 = k /\ k <= n
      BY <2>1
    <3>2. g[k] = f[k]
      BY <1>4, <3>1
    <3>3. g[k + 1] = g[k] + v[k + 1]
      BY <1>2, <3>1
    <3>4. f[k + 1] = f[k] + v[k + 1]
      BY <1>1, <3>1
    <3>5. QED
      BY <3>2, <3>3, <3>4
  <2>2. CASE ~(k + 1 <= n)
    BY <2>2
  <2>3. QED
    BY <2>1, <2>2
<1> HIDE DEF T
<1>5. Nat \subseteq T
  BY <1>3, <1>4, NatInduct
<1>6. ASSUME NEW k \in 0 .. n PROVE g[k] = f[k]
  <2>1. k \in Nat /\ k <= n
    OBVIOUS
  <2>2. k \in T
    BY <1>5, <2>1
  <2>3. QED
    BY <2>1, <2>2 DEF T
<1>7. QED
  BY <1>1, <1>2, <1>6

(* SumTo is what they hold. *)
LEMMA SumToIs ==
  ASSUME NEW n \in Nat, NEW v, NEW f, IsSums(f, v, n)
  PROVE  SumTo(v, n) = f[n]
<1> DEFINE s == CHOOSE h : Recurs(h, v, n)
<1>1. Recurs(f, v, n)
  BY DEF IsSums, Recurs
<1>2. Recurs(s, v, n)
  BY <1>1
<1>3. SumTo(v, n) = s[n]
  BY DEF SumTo, Recurs
<1> HIDE DEF s
<1>4. s = f
  BY <1>2, SumsUnique
<1>5. QED
  BY <1>3, <1>4

-----------------------------------------------------------------------------
(* The recursion. *)
LEMMA SumToZero == \A v : SumTo(v, 0) = 0
<1> SUFFICES ASSUME NEW v PROVE SumTo(v, 0) = 0
  OBVIOUS
<1>1. PICK f : IsSums(f, v, 0)
  BY SumsExist
<1>2. QED
  BY <1>1, SumToIs DEF IsSums

(* One number more is added. *)
LEMMA SumToNext ==
  ASSUME NEW n \in Nat, NEW v, \A k \in 1 .. n + 1 : v[k] \in Nat
  PROVE  /\ SumTo(v, n) \in Nat
         /\ SumTo(v, n + 1) = SumTo(v, n) + v[n + 1]
<1>1. PICK f : IsSums(f, v, n)
  BY SumsExist
<1>2. SumTo(v, n) = f[n] /\ f[n] \in Nat
  BY <1>1, SumToIs DEF IsSums
<1>3. v[n + 1] \in Nat
  OBVIOUS
<1> DEFINE g == [k \in 0 .. n + 1 |-> IF k = n + 1 THEN f[n] + v[n + 1] ELSE f[k]]
<1>4. IsSums(g, v, n + 1) /\ g[n + 1] = f[n] + v[n + 1]
  BY <1>1, <1>3, SumsExtend
<1> HIDE DEF g
<1>5. SumTo(v, n + 1) = g[n + 1]
  BY <1>4, SumToIs
<1>6. QED
  BY <1>2, <1>4, <1>5

(* A sum of numbers is a number. *)
LEMMA SumToType ==
  ASSUME NEW n \in Nat, NEW v, \A k \in 1 .. n : v[k] \in Nat
  PROVE  SumTo(v, n) \in Nat
<1>1. PICK f : IsSums(f, v, n)
  BY SumsExist
<1>2. f[n] \in Nat
  BY <1>1 DEF IsSums
<1>3. QED
  BY <1>1, <1>2, SumToIs

(* It depends on the terms only. *)
LEMMA SumToSame ==
  ASSUME NEW n \in Nat, NEW v, NEW w,
         \A k \in 1 .. n : v[k] \in Nat /\ v[k] = w[k]
  PROVE  SumTo(v, n) = SumTo(w, n)
<1>1. PICK f : IsSums(f, v, n)
  BY SumsExist
<1>2. IsSums(f, w, n)
  BY <1>1 DEF IsSums
<1>3. QED
  BY <1>1, <1>2, SumToIs

(* Of two sums whose terms differ at k only, the terms at k tell the difference. *)
LEMMA SumToChange ==
  ASSUME NEW n \in Nat, NEW v, NEW w, NEW k \in 1 .. n,
         \A j \in 1 .. n : v[j] \in Nat /\ w[j] \in Nat /\ (j # k => w[j] = v[j])
  PROVE  SumTo(w, n) + v[k] = SumTo(v, n) + w[k]
<1> DEFINE T == {m \in Nat : k + m <= n =>
                               SumTo(w, k + m) + v[k] = SumTo(v, k + m) + w[k]}
<1>1. 0 \in T
  <2>1. k - 1 \in Nat /\ (k - 1) + 1 = k /\ k + 0 = k
    OBVIOUS
  <2>2. \A j \in 1 .. k : v[j] \in Nat /\ w[j] \in Nat
    OBVIOUS
  <2>3. SumTo(v, k - 1) \in Nat /\ SumTo(v, k) = SumTo(v, k - 1) + v[k]
    BY <2>1, <2>2, SumToNext
  <2>4. SumTo(w, k - 1) \in Nat /\ SumTo(w, k) = SumTo(w, k - 1) + w[k]
    BY <2>1, <2>2, SumToNext
  <2>5. SumTo(v, k - 1) = SumTo(w, k - 1)
    <3>1. \A j \in 1 .. k - 1 : v[j] \in Nat /\ v[j] = w[j]
      OBVIOUS
    <3>2. QED
      BY <2>1, <3>1, SumToSame
  <2>6. v[k] \in Nat /\ w[k] \in Nat
    OBVIOUS
  <2>7. QED
    BY <2>1, <2>3, <2>4, <2>5, <2>6
<1>2. ASSUME NEW m \in Nat, m \in T PROVE m + 1 \in T
  <2> SUFFICES ASSUME k + (m + 1) <= n
               PROVE  SumTo(w, k + (m + 1)) + v[k] = SumTo(v, k + (m + 1)) + w[k]
    OBVIOUS
  <2>1. k + m \in Nat /\ (k + m) + 1 = k + (m + 1) /\ k + m <= n
    OBVIOUS
  <2>2. SumTo(w, k + m) + v[k] = SumTo(v, k + m) + w[k]
    BY <1>2, <2>1
  <2>3. \A j \in 1 .. (k + m) + 1 : v[j] \in Nat /\ w[j] \in Nat
    OBVIOUS
  <2>4. SumTo(v, k + m) \in Nat /\ SumTo(v, (k + m) + 1) = SumTo(v, k + m) + v[(k + m) + 1]
    BY <2>1, <2>3, SumToNext
  <2>5. SumTo(w, k + m) \in Nat /\ SumTo(w, (k + m) + 1) = SumTo(w, k + m) + w[(k + m) + 1]
    BY <2>1, <2>3, SumToNext
  <2>6. /\ v[(k + m) + 1] \in Nat /\ w[(k + m) + 1] = v[(k + m) + 1]
        /\ v[k] \in Nat /\ w[k] \in Nat
    <3>1. (k + m) + 1 \in 1 .. n /\ (k + m) + 1 # k
      OBVIOUS
    <3>2. QED
      BY <3>1
  <2>7. QED
    BY <2>1, <2>2, <2>4, <2>5, <2>6
<1> HIDE DEF T
<1>3. n - k \in T
  BY <1>1, <1>2, NatInduct
<1>4. k + (n - k) = n
  OBVIOUS
<1>5. QED
  BY <1>3, <1>4 DEF T

(* No term is larger than the sum. *)
LEMMA SumToBound ==
  ASSUME NEW n \in Nat, NEW v, \A j \in 1 .. n : v[j] \in Nat, NEW k \in 1 .. n
  PROVE  v[k] <= SumTo(v, n)
<1> DEFINE w == [j \in 1 .. n |-> IF j = k THEN 0 ELSE v[j]]
<1>1. \A j \in 1 .. n : v[j] \in Nat /\ w[j] \in Nat /\ (j # k => w[j] = v[j])
  OBVIOUS
<1>2. w[k] = 0
  OBVIOUS
<1> HIDE DEF w
<1>3. SumTo(w, n) + v[k] = SumTo(v, n) + w[k]
  BY <1>1, SumToChange
<1>4. SumTo(w, n) \in Nat /\ SumTo(v, n) \in Nat
  BY <1>1, SumToType
<1>5. QED
  BY <1>1, <1>2, <1>3, <1>4

(* A sum without its term at k. *)
LEMMA SumToWithout ==
  ASSUME NEW n \in Nat, NEW v, \A j \in 1 .. n : v[j] \in Nat, NEW k \in 1 .. n,
         NEW w, \A j \in 1 .. n - 1 : w[j] = IF j < k THEN v[j] ELSE v[j + 1]
  PROVE  SumTo(w, n - 1) + v[k] = SumTo(v, n)
<1>0. \A j \in 1 .. n - 1 : w[j] \in Nat
  <2> SUFFICES ASSUME NEW j \in 1 .. n - 1 PROVE w[j] \in Nat
    OBVIOUS
  <2>1. j \in 1 .. n /\ j + 1 \in 1 .. n
    OBVIOUS
  <2>2. QED
    BY <2>1
<1> DEFINE T == {m \in Nat : k + m <= n =>
                               SumTo(w, (k - 1) + m) + v[k] = SumTo(v, k + m)}
<1>1. 0 \in T
  <2>1. k - 1 \in Nat /\ (k - 1) + 1 = k /\ k + 0 = k /\ (k - 1) + 0 = k - 1
    OBVIOUS
  <2>2. \A j \in 1 .. k : v[j] \in Nat
    OBVIOUS
  <2>3. SumTo(v, k - 1) \in Nat /\ SumTo(v, k) = SumTo(v, k - 1) + v[k]
    BY <2>1, <2>2, SumToNext
  <2>4. SumTo(v, k - 1) = SumTo(w, k - 1)
    <3>1. \A j \in 1 .. k - 1 : v[j] \in Nat /\ v[j] = w[j]
      OBVIOUS
    <3>2. QED
      BY <2>1, <3>1, SumToSame
  <2>5. QED
    BY <2>1, <2>3, <2>4
<1>2. ASSUME NEW m \in Nat, m \in T PROVE m + 1 \in T
  <2> SUFFICES ASSUME k + (m + 1) <= n
               PROVE  SumTo(w, (k - 1) + (m + 1)) + v[k] = SumTo(v, k + (m + 1))
    OBVIOUS
  <2>1. /\ k + m \in Nat /\ (k + m) + 1 = k + (m + 1) /\ k + m <= n
        /\ (k - 1) + m \in Nat /\ ((k - 1) + m) + 1 = (k - 1) + (m + 1)
        /\ ((k - 1) + m) + 1 = k + m
    OBVIOUS
  <2>2. SumTo(w, (k - 1) + m) + v[k] = SumTo(v, k + m)
    BY <1>2, <2>1
  <2>3. \A j \in 1 .. (k + m) + 1 : v[j] \in Nat
    OBVIOUS
  <2>4. SumTo(v, k + m) \in Nat /\ SumTo(v, (k + m) + 1) = SumTo(v, k + m) + v[(k + m) + 1]
    BY <2>1, <2>3, SumToNext
  <2>5. \A j \in 1 .. ((k - 1) + m) + 1 : w[j] \in Nat
    BY <1>0
  <2>6. /\ SumTo(w, (k - 1) + m) \in Nat
        /\ SumTo(w, ((k - 1) + m) + 1) = SumTo(w, (k - 1) + m) + w[((k - 1) + m) + 1]
    BY <2>1, <2>5, SumToNext
  <2>7. w[k + m] = v[(k + m) + 1] /\ v[(k + m) + 1] \in Nat /\ v[k] \in Nat
    <3>1. k + m \in 1 .. n - 1 /\ ~(k + m < k) /\ (k + m) + 1 \in 1 .. n
      OBVIOUS
    <3>2. QED
      BY <3>1
  <2>8. QED
    BY <2>1, <2>2, <2>4, <2>6, <2>7
<1> HIDE DEF T
<1>3. n - k \in T
  BY <1>1, <1>2, NatInduct
<1>4. k + (n - k) = n /\ (k - 1) + (n - k) = n - 1
  OBVIOUS
<1>5. QED
  BY <1>3, <1>4 DEF T

=============================================================================
