-------------------------- MODULE PageArithProofs --------------------------
EXTENDS PageArith, TLAPS

\* A remainder is smaller than the page.
LEMMA ModRange ==
    ASSUME NEW a \in Int
    PROVE  a % PageSize \in 0..(PageSize - 1)
BY PageArithAssumption, SMT

\* Quotient and remainder determine the number.
LEMMA ModDecomp ==
    ASSUME NEW a \in Int
    PROVE  /\ a \div PageSize \in Int
           /\ a = (PageSize * (a \div PageSize)) + (a % PageSize)
BY PageArithAssumption, SMT

\* ... and a number of the form P * q + r with r < P has remainder r.
LEMMA ModUnique ==
    ASSUME NEW q \in Int, NEW r \in 0..(PageSize - 1), NEW a \in Int,
           a = (PageSize * q) + r
    PROVE  a % PageSize = r
BY PageArithAssumption, SMT

\* Adding whole pages does not change the remainder.
LEMMA ModShift ==
    ASSUME NEW a \in Int, NEW b \in Int, a % PageSize = 0
    PROVE  /\ (a + b) % PageSize = b % PageSize
           /\ (b - a) % PageSize = b % PageSize
<1> DEFINE i == a \div PageSize
           j == b \div PageSize
           r == b % PageSize
<1>1. /\ i \in Int /\ j \in Int /\ r \in 0..(PageSize - 1)
      /\ a = PageSize * i
      /\ b = (PageSize * j) + r
  BY ModDecomp, ModRange, PageArithAssumption, SMT
<1> HIDE DEF i, j, r
<1>2. a + b = (PageSize * (j + i)) + r /\ b - a = (PageSize * (j - i)) + r
  BY <1>1, PageArithAssumption, SMT
<1>3. j + i \in Int /\ j - i \in Int /\ a + b \in Int /\ b - a \in Int
  BY <1>1, SMT
<1>4. (a + b) % PageSize = r
  BY <1>1, <1>2, <1>3, ModUnique
<1>5. (b - a) % PageSize = r
  BY <1>1, <1>2, <1>3, ModUnique
<1> QED
  BY <1>4, <1>5 DEF r

\* Two distinct page boundaries are at least a page apart.
LEMMA PageGap ==
    ASSUME NEW a \in Nat, NEW b \in Nat,
           a % PageSize = 0, b % PageSize = 0, a < b
    PROVE  a + PageSize <= b
<1>1. (b - a) % PageSize = 0
  BY ModShift
<1>2. b - a \in Nat /\ b - a > 0
  BY SMT
<1>3. CASE b - a < PageSize
  BY <1>1, <1>2, <1>3, PageArithAssumption, SMT
<1>4. CASE b - a >= PageSize
  BY <1>4, PageArithAssumption, SMT
<1> QED
  BY <1>2, <1>3, <1>4, PageArithAssumption, SMT

\* align_down returns a page boundary at most a page below its argument.
LEMMA AlignDownFacts ==
    ASSUME NEW a \in Nat
    PROVE  /\ AlignDown(a) \in Nat
           /\ AlignDown(a) <= a
           /\ a < AlignDown(a) + PageSize
           /\ AlignDown(a) % PageSize = 0
           /\ a - AlignDown(a) = a % PageSize
<1>1. a % PageSize \in 0..(PageSize - 1)
  BY ModRange
<1>2. AlignDown(a) \in Nat
  BY PageArithAssumption, SMT DEF AlignDown
<1>3. AlignDown(a) % PageSize = 0
  BY PageArithAssumption, SMT DEF AlignDown
<1> QED
  BY <1>1, <1>2, <1>3, PageArithAssumption, SMT DEF AlignDown

\* It is the largest page boundary not above its argument ...
LEMMA AlignDownLargest ==
    ASSUME NEW a \in Nat, NEW k \in Nat, k % PageSize = 0, k <= a
    PROVE  k <= AlignDown(a)
BY PageArithAssumption, SMT DEF AlignDown

\* ... and align_up the smallest not below it.
LEMMA AlignUpFacts ==
    ASSUME NEW a \in Nat
    PROVE  /\ AlignUp(a) \in Nat
           /\ a <= AlignUp(a)
           /\ AlignUp(a) < a + PageSize
           /\ AlignUp(a) % PageSize = 0
<1>1. a % PageSize \in 0..(PageSize - 1)
  BY ModRange
<1>2. CASE a % PageSize = 0
  BY <1>2, PageArithAssumption, SMT DEF AlignUp
<1>3. CASE a % PageSize # 0
  <2>1. AlignUp(a) = AlignDown(a) + PageSize
    BY <1>3, <1>1, PageArithAssumption, SMT DEF AlignUp, AlignDown
  <2>2. PageSize % PageSize = 0
    BY PageArithAssumption, SMT
  <2> DEFINE b == AlignDown(a)
  <2>3. b \in Int /\ PageSize \in Int /\ b % PageSize = 0
    BY AlignDownFacts, PageArithAssumption
  <2> HIDE DEF b
  <2>4. (PageSize + b) % PageSize = b % PageSize
    BY <2>2, <2>3, ModShift
  <2>5. AlignUp(a) % PageSize = 0
    BY <2>1, <2>3, <2>4, PageArithAssumption, SMT DEF b
  <2> QED
    BY <1>1, <1>3, <2>1, <2>5, AlignDownFacts, PageArithAssumption, SMT DEF AlignDown
<1> QED
  BY <1>2, <1>3

LEMMA AlignUpSmallest ==
    ASSUME NEW a \in Nat, NEW k \in Nat, k % PageSize = 0, a <= k
    PROVE  AlignUp(a) <= k
<1>1. CASE a % PageSize = 0
  BY <1>1, SMT DEF AlignUp
<1>2. CASE a % PageSize # 0
  <2>1. AlignUp(a) = AlignDown(a) + PageSize /\ AlignDown(a) < a
    BY <1>2, ModRange, PageArithAssumption, SMT DEF AlignUp, AlignDown
  <2>2. AlignDown(a) < k
    BY <2>1, AlignDownFacts, SMT
  <2> QED
    BY <2>1, <2>2, AlignDownFacts, PageGap
<1> QED
  BY <1>1, <1>2

\* padded_vec fills whole pages: n bytes behind the prefix that align_down cut
\* off reach exactly to the next page boundary after them.
LEMMA PaddedLenIsPageSpan ==
    ASSUME NEW a \in Nat, NEW n \in Nat
    PROVE  PaddedLen((a % PageSize) + n) = AlignUp(a + n) - AlignDown(a)
<1> DEFINE m == (a % PageSize) + n
<1>1. m \in Nat /\ a + n = AlignDown(a) + m
  BY ModRange, PageArithAssumption, SMT DEF AlignDown
<1>2. (a + n) % PageSize = m % PageSize
  BY <1>1, AlignDownFacts, ModShift
<1>3. m % PageSize \in 0..(PageSize - 1)
  BY <1>1, ModRange
<1> HIDE DEF m
<1>4. CASE m % PageSize = 0
  <2>1. (PageSize - (m % PageSize)) % PageSize = 0
    BY <1>4, PageArithAssumption, SMT
  <2> QED
    BY <1>1, <1>2, <1>4, <2>1, AlignDownFacts, SMT DEF PaddedLen, AlignUp, m
<1>5. CASE m % PageSize # 0
  <2> DEFINE d == PageSize - (m % PageSize)
  <2>1. d \in 0..(PageSize - 1)
    BY <1>3, <1>5, PageArithAssumption, SMT
  <2>2. d % PageSize = d
    BY <2>1, PageArithAssumption, SMT
  <2> QED
    BY <1>1, <1>2, <1>5, <2>1, <2>2, AlignDownFacts, SMT DEF PaddedLen, AlignUp, m
<1> QED
  BY <1>4, <1>5
=============================================================================
