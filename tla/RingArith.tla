----------------------------- MODULE RingArith ------------------------------
(***************************************************************************)
(* Arithmetic of ring indices.  The two sides of a virtqueue count buffers *)
(* modulo 2^16 and find a buffer's slot modulo the ring's size; these are  *)
(* the facts that turn such indices back into counts, and one on the least *)
(* element of a set of numbers.                                            *)
(***************************************************************************)
EXTENDS Integers, FiniteSetsExt, TLAPS, WellFoundedInduction

LEMMA DivMod ==
    ASSUME NEW a \in Int, NEW M \in Nat \ {0}
    PROVE  \E q \in Int, r \in 0..M - 1 : a % M = r /\ a = M * q + r
<1>1. a = M * (a \div M) + (a % M)
  OBVIOUS
<1>2. a \div M \in Int /\ a % M \in 0..M - 1
  OBVIOUS
<1> QED BY <1>1, <1>2, Zenon

LEMMA ModUnique ==
    ASSUME NEW q \in Int, NEW M \in Nat \ {0}, NEW r \in 0..M - 1
    PROVE  (M * q + r) % M = r
OBVIOUS

LEMMA ModSmall ==
    ASSUME NEW M \in Nat \ {0}, NEW a \in 0..M - 1
    PROVE  a % M = a
OBVIOUS

LEMMA ModRange ==
    ASSUME NEW a \in Int, NEW M \in Nat \ {0}
    PROVE  a % M \in 0..M - 1
OBVIOUS

LEMMA TimesDistributes ==
    ASSUME NEW a \in Int, NEW b \in Int, NEW c \in Int
    PROVE  a * (b + c) = a * b + a * c /\ a * (b - c) = a * b - a * c
OBVIOUS

LEMMA TimesAssociates ==
    ASSUME NEW a \in Int, NEW b \in Int, NEW c \in Int
    PROVE  a * (b * c) = (a * b) * c
OBVIOUS

LEMMA ModShift ==
    ASSUME NEW b \in Int, NEW M \in Nat \ {0}, NEW k \in Int
    PROVE  (b + M * k) % M = b % M
<1>1. PICK q \in Int, r \in 0..M - 1 : b % M = r /\ b = M * q + r
  BY DivMod, Zenon
<1>2. M * (q + k) = M * q + M * k
  BY TimesDistributes
<1>3. b + M * k = M * (q + k) + r
  BY <1>1, <1>2
<1>4. q + k \in Int
  OBVIOUS
<1>5. (M * (q + k) + r) % M = r
  BY <1>4, ModUnique, Zenon
<1> QED BY <1>1, <1>3, <1>5, Zenon

(* An index may be reduced before something is added to it.                *)
LEMMA ModAdd ==
    ASSUME NEW a \in Int, NEW b \in Int, NEW M \in Nat \ {0}
    PROVE  ((a % M) + b) % M = (a + b) % M
<1>1. PICK q \in Int, r \in 0..M - 1 : a % M = r /\ a = M * q + r
  BY DivMod, Zenon
<1>2. a + b = (r + b) + M * q
  BY <1>1
<1>3. r + b \in Int
  OBVIOUS
<1>4. ((r + b) + M * q) % M = (r + b) % M
  BY <1>3, ModShift, Zenon
<1> QED BY <1>1, <1>2, <1>4, Zenon

(* The difference of two reduced indices, taken modulo M as uint16_t does. *)
LEMMA ModSub ==
    ASSUME NEW a \in Int, NEW b \in Int, NEW M \in Nat \ {0}
    PROVE  ((a % M) + M - (b % M)) % M = (a - b) % M
<1>1. PICK q \in Int, r \in 0..M - 1 : a % M = r /\ a = M * q + r
  BY DivMod, Zenon
<1>2. PICK p \in Int, s \in 0..M - 1 : b % M = s /\ b = M * p + s
  BY DivMod, Zenon
<1>3. M * (1 + p - q) = M + M * p - M * q
  BY TimesDistributes
<1>4. r + M - s = (a - b) + M * (1 + p - q)
  BY <1>1, <1>2, <1>3
<1>5. 1 + p - q \in Int /\ a - b \in Int
  OBVIOUS
<1>6. ((a - b) + M * (1 + p - q)) % M = (a - b) % M
  BY <1>5, ModShift, Zenon
<1> QED BY <1>1, <1>2, <1>4, <1>6, Zenon

(* The ring's size divides the modulus: a wrap of the index does not move  *)
(* the slots.                                                              *)
LEMMA ModMod ==
    ASSUME NEW a \in Int, NEW Q \in Nat \ {0}, NEW M \in Nat \ {0}, M % Q = 0
    PROVE  (a % M) % Q = a % Q
<1>1. PICK q \in Int, r \in 0..M - 1 : a % M = r /\ a = M * q + r
  BY DivMod, Zenon
<1>2. M \in Int
  OBVIOUS
<1>3. PICK p \in Int, s \in 0..Q - 1 : M % Q = s /\ M = Q * p + s
  BY <1>2, DivMod, Zenon
<1>4. M * q = Q * (p * q)
  BY <1>3, TimesAssociates
<1>5. a = r + Q * (p * q)
  BY <1>1, <1>4
<1>6. p * q \in Int /\ r \in Int
  OBVIOUS
<1>7. (r + Q * (p * q)) % Q = r % Q
  BY <1>6, ModShift, Zenon
<1> QED BY <1>1, <1>5, <1>7, Zenon

(* Two counts less than M apart have the same index only if they are equal *)
LEMMA ModInjective ==
    ASSUME NEW a \in Int, NEW b \in Int, NEW M \in Nat \ {0},
           a % M = b % M, a - b < M, b - a < M
    PROVE  a = b
<1>1. PICK q \in Int, r \in 0..M - 1 : a % M = r /\ a = M * q + r
  BY DivMod, Zenon
<1>2. PICK p \in Int, s \in 0..M - 1 : b % M = s /\ b = M * p + s
  BY DivMod, Zenon
<1>3. M * (q - p) = M * q - M * p
  BY TimesDistributes
<1>4. a - b = M * (q - p)
  BY <1>1, <1>2, <1>3
<1>5. q - p = 0
  BY <1>4
<1> QED BY <1>4, <1>5

(* The difference of two indices is the difference of the counts.          *)
LEMMA IndexGap ==
    ASSUME NEW a \in Int, NEW b \in Int, NEW M \in Nat \ {0},
           a - b \in 0..M - 1
    PROVE  ((a % M) + M - (b % M)) % M = a - b
<1>1. ((a % M) + M - (b % M)) % M = (a - b) % M
  BY ModSub, Zenon
<1>2. (a - b) % M = a - b
  BY ModSmall, Zenon
<1> QED BY <1>1, <1>2, Zenon

(* The slot of a buffer, found from an index that was already reduced.     *)
LEMMA SlotOfIndex ==
    ASSUME NEW a \in Int, NEW k \in Int,
           NEW Q \in Nat \ {0}, NEW M \in Nat \ {0}, M % Q = 0
    PROVE  ((a % M) + k) % Q = (a + k) % Q
<1>1. a % M \in Int
  BY ModRange
<1>2. (((a % M) % Q) + k) % Q = ((a % M) + k) % Q
  BY <1>1, ModAdd, Zenon
<1>3. ((a % Q) + k) % Q = (a + k) % Q
  BY ModAdd, Zenon
<1>4. (a % M) % Q = a % Q
  BY ModMod, Zenon
<1> QED BY <1>2, <1>3, <1>4, Zenon

(* The lowest number of a set is in it, if the set has any.                *)
LEMMA MinInSet ==
    ASSUME NEW S \in SUBSET Nat, S # {}
    PROVE  Min(S) \in S
<1>1. PICK x \in S : \A y \in S : ~(<<y, x>> \in OpToRel(<, Nat))
  BY NatLessThanWellFounded, WFMin, Zenon
<1>2. ASSUME NEW y \in S
      PROVE  x =< y
  <2>1. <<y, x>> \in Nat \X Nat /\ <<y, x>>[1] = y /\ <<y, x>>[2] = x
    OBVIOUS
  <2>2. ~(y < x)
    BY <1>1, <2>1 DEF OpToRel
  <2> QED BY <2>2
<1>3. \E z \in S : \A y \in S : z =< y
  BY <1>2
<1> QED BY <1>3 DEF Min

=============================================================================
