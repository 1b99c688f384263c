---------------------------- MODULE FleetProofs ----------------------------
(***************************************************************************)
(* Proofs about what surrounds the roster.                                 *)
(*                                                                         *)
(* Addresses, for any machines, pools, endpoint lists and widths of the    *)
(* two families: a prefix is an interval of addresses whose length is a    *)
(* power of two, so that questions about prefixes become questions about   *)
(* quotients.                                                              *)
(*                                                                         *)
(* Alerts, for any keys, endpoints, failures and crashes: a build holds    *)
(* copies of tables that nobody writes meanwhile (BuildInv), and what is   *)
(* cached ages no slower than the alerts in it (CacheInv).                 *)
(***************************************************************************)
EXTENDS Addresses, Alerts, FiniteSetTheorems, WellFoundedInduction, TLAPS

-----------------------------------------------------------------------------
(* Arithmetic: quotients, and powers of two, which are the sizes of sets   *)
(* of sets.                                                                *)

(* What a quotient and a remainder are.                                    *)
LEMMA Division ==
    ASSUME NEW x \in Nat, NEW y \in Nat \ {0}
    PROVE  /\ (x \div y) \in Nat /\ x % y \in 0..y - 1
           /\ x - (x \div y) * y = x % y
<1>1. (x \div y) \in Nat
    OBVIOUS
<1>2. x % y \in 0..y - 1
    OBVIOUS
<1>3. x - (x \div y) * y = x % y
    OBVIOUS
<1> QED
    BY <1>1, <1>2, <1>3

(* They are the only ones.                                                 *)
LEMMA OneDivision ==
    ASSUME NEW x \in Nat, NEW y \in Nat \ {0}, NEW q \in Nat, NEW r \in Nat,
           r < y, x = q * y + r
    PROVE  x \div y = q
OBVIOUS

(* Factors of a product, none of them 0.                                   *)
LEMMA Product ==
    ASSUME NEW x \in Nat \ {0}, NEW y \in Nat \ {0}
    PROVE  x * y \in Nat \ {0} /\ x <= x * y
OBVIOUS

(* Multiplying keeps a gap of one as a gap of the factor.                  *)
LEMMA ProductMonotone ==
    ASSUME NEW x \in Nat, NEW y \in Nat, NEW z \in Nat, x < y
    PROVE  x * z + z <= y * z
OBVIOUS

(* A quotient of a quotient is a quotient by the product.                  *)
LEMMA QuotientOfQuotient ==
    ASSUME NEW x \in Nat, NEW a \in Nat \ {0}, NEW b \in Nat \ {0}
    PROVE  (x \div a) \div b = x \div (a * b)
<1> DEFINE q == x \div a
           r == x % a
           p == q \div b
           s == q % b
<1>1. q \in Nat /\ r \in 0..a - 1 /\ x - q * a = r
    BY Division
<1>2. p \in Nat /\ s \in 0..b - 1 /\ q - p * b = s
    BY <1>1, Division
<1> HIDE DEF q, r, p, s
<1>3. x = q * a + r /\ q = p * b + s
    <2>1. q * a \in Nat /\ p * b \in Nat
        BY <1>1, <1>2
    <2> QED
        BY <2>1, <1>1, <1>2
<1>4. s * a + a <= b * a
    BY <1>2, ProductMonotone
<1>5. s * a + r \in Nat /\ s * a + r < a * b
    <2>1. s * a \in Nat /\ a * b \in Nat /\ a * b = b * a
        BY <1>2
    <2> QED
        BY <2>1, <1>1, <1>4
<1>6. x = p * (a * b) + (s * a + r)
    <2>1. q * a = (p * b) * a + s * a
        BY <1>2, <1>3
    <2>2. (p * b) * a = p * (a * b)
        BY <1>2
    <2>3. p * (a * b) \in Nat /\ s * a \in Nat
        BY <1>2
    <2> QED
        BY <2>1, <2>2, <2>3, <1>1, <1>3
<1>7. a * b \in Nat \ {0}
    BY Product
<1>8. x \div (a * b) = p
    BY <1>2, <1>5, <1>6, <1>7, OneDivision
<1> QED
    BY <1>8 DEF p, q

(* 2 ^ n is the number of the sets of n elements.                          *)
LEMMA Power ==
    ASSUME NEW n \in Nat
    PROVE  2 ^ n \in Nat \ {0}
<1>1. IsFiniteSet(1..n) /\ Cardinality(1..n) = n
    BY FS_Interval
<1>2. IsFiniteSet(SUBSET (1..n)) /\ Cardinality(SUBSET (1..n)) = 2 ^ n
    BY <1>1, FS_SUBSET
<1>3. 2 ^ n \in Nat
    BY <1>2, FS_CardinalityType
<1>4. 2 ^ n # 0
    <2>1. {} \in SUBSET (1..n)
        OBVIOUS
    <2> QED
        BY <2>1, <1>2, FS_EmptySet
<1> QED
    BY <1>3, <1>4

(* A set of a disjoint union is a pair of sets of its parts.               *)
LEMMA PowerOfSum ==
    ASSUME NEW m \in Nat, NEW n \in Nat
    PROVE  2 ^ (m + n) = 2 ^ m * 2 ^ n
<1> DEFINE A == 1..m
           B == m + 1..m + n
           C == 1..m + n
           S == (SUBSET A) \X (SUBSET B)
           f == [s \in SUBSET C |-> <<s \cap A, s \cap B>>]
<1>1. /\ IsFiniteSet(A) /\ Cardinality(A) = m
      /\ IsFiniteSet(B) /\ Cardinality(B) = n
      /\ IsFiniteSet(C) /\ Cardinality(C) = m + n
    <2>1. IsFiniteSet(A) /\ Cardinality(A) = m
        BY FS_Interval
    <2>2. /\ IsFiniteSet(B)
          /\ Cardinality(B) = IF m + 1 > m + n THEN 0 ELSE (m + n) - (m + 1) + 1
        BY FS_Interval, m + 1 \in Int, m + n \in Int
    <2>3. /\ IsFiniteSet(C)
          /\ Cardinality(C) = IF 1 > m + n THEN 0 ELSE (m + n) - 1 + 1
        BY FS_Interval, 1 \in Int, m + n \in Int
    <2>4. Cardinality(B) = n
        BY <2>2
    <2> QED
        BY <2>1, <2>2, <2>3, <2>4
<1>2. /\ IsFiniteSet(SUBSET A) /\ Cardinality(SUBSET A) = 2 ^ m
      /\ IsFiniteSet(SUBSET B) /\ Cardinality(SUBSET B) = 2 ^ n
      /\ IsFiniteSet(SUBSET C) /\ Cardinality(SUBSET C) = 2 ^ (m + n)
    BY <1>1, FS_SUBSET
<1>3. A \cup B = C /\ A \cap B = {}
    OBVIOUS
<1> HIDE DEF A, B, C
<1>4. Cardinality(S) = 2 ^ m * 2 ^ n
    <2>1. Cardinality((SUBSET A) \X (SUBSET B)) = Cardinality(SUBSET A) * Cardinality(SUBSET B)
        BY <1>2, FS_Product
    <2> QED
        BY <2>1, <1>2
<1>5. ExistsBijection(SUBSET C, S)
    <2>1. f \in [SUBSET C -> S]
        OBVIOUS
    <2>2. ASSUME NEW s \in SUBSET C, NEW t \in SUBSET C, f[s] = f[t]
          PROVE  s = t
        BY <2>2, <1>3
    <2>3. ASSUME NEW p \in S
          PROVE  \E s \in SUBSET C : f[s] = p
        <3>1. PICK a \in SUBSET A, b \in SUBSET B : p = <<a, b>>
            OBVIOUS
        <3>2. a \cup b \in SUBSET C /\ (a \cup b) \cap A = a /\ (a \cup b) \cap B = b
            BY <1>3
        <3> QED
            BY <3>1, <3>2
    <2>4. f \in Bijection(SUBSET C, S)
        BY <2>1, <2>2, <2>3, Zenon DEF Bijection, Injection, Surjection, IsInjective
    <2> QED
        BY <2>4 DEF ExistsBijection
<1> QED
    BY <1>2, <1>4, <1>5, FS_Bijection

(* A longer prefix is smaller by a factor.                                 *)
LEMMA PowerFactor ==
    ASSUME NEW m \in Nat, NEW n \in Nat, m <= n
    PROVE  2 ^ (n - m) \in Nat \ {0} /\ 2 ^ n = 2 ^ m * 2 ^ (n - m) /\ 2 ^ m <= 2 ^ n
<1>1. n - m \in Nat /\ m + (n - m) = n
    OBVIOUS
<1>2. 2 ^ (n - m) \in Nat \ {0} /\ 2 ^ m \in Nat \ {0}
    BY <1>1, Power
<1>3. 2 ^ n = 2 ^ m * 2 ^ (n - m)
    <2>1. 2 ^ (m + (n - m)) = 2 ^ m * 2 ^ (n - m)
        BY <1>1, PowerOfSum
    <2> QED
        BY <2>1, <1>1
<1> QED
    BY <1>2, <1>3, Product

(* Of a set of naturals one is the least.                                  *)
LEMMA LeastNatural ==
    ASSUME NEW T, T \subseteq Nat, T # {}
    PROVE  \E x \in T : \A y \in T : x <= y
<1>1. PICK x \in T : \A y \in T : <<y, x>> \notin OpToRel(<, Nat)
    BY NatLessThanWellFounded, WFMin, Zenon
<1>2. ASSUME NEW y \in T PROVE x <= y
    BY <1>1, <<y, x>> \in Nat \X Nat DEF OpToRel
<1> QED
    BY <1>2

-----------------------------------------------------------------------------
(* Prefixes.                                                               *)

(* A prefix's fields, its size, and the first address of its block.        *)
LEMMA PrefixFields ==
    ASSUME NEW p \in Prefix
    PROVE  /\ p.fam \in {4, 6} /\ p.base \in Nat /\ p.len \in Nat
           /\ Bits(p.fam) \in Nat /\ p.len <= Bits(p.fam)
           /\ p.base <= 2 ^ Bits(p.fam) - 1
           /\ p = [fam |-> p.fam, base |-> p.base, len |-> p.len]
           /\ [fam |-> p.fam, val |-> p.base] \in Address
<1>1. PICK f \in {4, 6} : \E v \in 0..2 ^ Bits(f) - 1, n \in 0..Bits(f) :
                              p = [fam |-> f, base |-> v, len |-> n]
    BY DEF Prefix
<1>2. PICK v \in 0..2 ^ Bits(f) - 1, n \in 0..Bits(f) : p = [fam |-> f, base |-> v, len |-> n]
    BY <1>1
<1>3. Bits(f) \in Nat
    BY AddressesAssumption DEF Bits
<1>4. 2 ^ Bits(f) \in Nat \ {0}
    BY <1>3, Power
<1>5. p.fam = f /\ p.base = v /\ p.len = n
    BY <1>2
<1>6. v \in Nat /\ v <= 2 ^ Bits(f) - 1 /\ n \in Nat /\ n <= Bits(f)
    BY <1>3, <1>4
<1>7. [fam |-> f, val |-> v] \in Address
    BY DEF Address
<1> QED
    BY <1>2, <1>3, <1>5, <1>6, <1>7

(* Anything of the right widths is a prefix.                               *)
LEMMA PrefixMade ==
    ASSUME NEW f \in {4, 6}, NEW v \in 0..2 ^ Bits(f) - 1, NEW n \in 0..Bits(f)
    PROVE  [fam |-> f, base |-> v, len |-> n] \in Prefix
BY DEF Prefix

(* An address is its family and its value, of that family's width.         *)
LEMMA AddressFields ==
    ASSUME NEW a \in Address
    PROVE  /\ a.fam \in {4, 6} /\ a.val \in 0..2 ^ Bits(a.fam) - 1 /\ a.val \in Nat
           /\ a = [fam |-> a.fam, val |-> a.val]
<1>1. PICK f \in {4, 6} : \E v \in 0..2 ^ Bits(f) - 1 : a = [fam |-> f, val |-> v]
    BY DEF Address
<1>2. PICK v \in 0..2 ^ Bits(f) - 1 : a = [fam |-> f, val |-> v]
    BY <1>1
<1>3. a.fam = f /\ a.val = v
    BY <1>2
<1>4. 2 ^ Bits(f) \in Nat
    BY AddressesAssumption, Power DEF Bits
<1>5. v \in Nat
    BY <1>4
<1> QED
    BY <1>2, <1>3, <1>5

(* The number of addresses of a prefix, no more than its family has.       *)
LEMMA SizeOfPrefix ==
    ASSUME NEW p \in Prefix
    PROVE  Size(p) \in Nat \ {0} /\ Size(p) <= 2 ^ Bits(p.fam)
<1>1. /\ p.len \in Nat /\ Bits(p.fam) \in Nat /\ p.len <= Bits(p.fam)
    BY PrefixFields
<1>2. Bits(p.fam) - p.len \in Nat /\ Bits(p.fam) - p.len <= Bits(p.fam)
    BY <1>1
<1> QED
    BY <1>1, <1>2, Power, PowerFactor DEF Size

(* Masking keeps the block, and needs doing only once.                     *)
LEMMA MaskedPrefix ==
    ASSUME NEW p \in Prefix
    PROVE  /\ Masked(p) \in Prefix /\ Masked(p).fam = p.fam /\ Masked(p).len = p.len
           /\ Size(Masked(p)) = Size(p)
           /\ Masked(p).base = (p.base \div Size(p)) * Size(p)
           /\ Masked(p).base \div Size(p) = p.base \div Size(p)
           /\ Masked(Masked(p)) = Masked(p)
<1> DEFINE S == Size(p)
           b == p.base
           q == b \div S
<1>1. /\ p.fam \in {4, 6} /\ b \in Nat /\ p.len \in Nat
      /\ Bits(p.fam) \in Nat /\ p.len <= Bits(p.fam)
      /\ b <= 2 ^ Bits(p.fam) - 1
      /\ p = [fam |-> p.fam, base |-> b, len |-> p.len]
    BY PrefixFields
<1>2. S \in Nat \ {0}
    BY SizeOfPrefix
<1>3. q \in Nat /\ b % S \in 0..S - 1 /\ b - q * S = b % S
    BY <1>1, <1>2, Division
<1>4. Masked(p) = [fam |-> p.fam, base |-> b - (b % S), len |-> p.len]
    <2>1. Masked(p) = [p EXCEPT !.base = p.base - (p.base % Size(p))]
        BY DEF Masked
    <2> QED
        BY <2>1, <1>1
<1>5. Size(Masked(p)) = S
    BY <1>4 DEF Size
<1> HIDE DEF S, b, q
<1>6. q * S \in Nat
    BY <1>2, <1>3
<1>7. b - (b % S) = q * S /\ q * S <= b
    BY <1>1, <1>2, <1>3, <1>6
<1>8. (q * S) \div S = q
    <2>1. 0 \in Nat /\ 0 < S /\ q * S = q * S + 0
        BY <1>2, <1>6
    <2> QED
        BY <2>1, <1>2, <1>3, <1>6, OneDivision
<1>9. Masked(p) = [fam |-> p.fam, base |-> q * S, len |-> p.len]
    BY <1>4, <1>7
<1>10. Masked(p) \in Prefix
    <2>1. 2 ^ Bits(p.fam) \in Nat
        BY <1>1, Power
    <2>2. q * S \in 0..2 ^ Bits(p.fam) - 1 /\ p.len \in 0..Bits(p.fam)
        BY <1>1, <1>6, <1>7, <2>1
    <2> QED
        BY <1>1, <1>9, <2>2, PrefixMade
<1>11. Masked(Masked(p)) = Masked(p)
    <2> DEFINE m == Masked(p)
    <2>1. m.base = q * S /\ m = [fam |-> m.fam, base |-> m.base, len |-> m.len]
        BY <1>9
    <2>2. Masked(m) = [m EXCEPT !.base = m.base - (m.base % S)]
        BY <1>5 DEF Masked
    <2>3. (q * S) % S = q * S - ((q * S) \div S) * S
        BY <1>2, <1>6, Division
    <2>4. m.base % S = 0
        BY <1>6, <1>8, <2>1, <2>3
    <2>5. m.base - (m.base % S) = m.base
        BY <2>1, <2>4, <1>6
    <2> HIDE DEF m
    <2>6. Masked(m) = m
        BY <2>1, <2>2, <2>5
    <2> QED
        BY <2>6 DEF m
<1>12. /\ Masked(p).fam = p.fam /\ Masked(p).len = p.len
       /\ Masked(p).base = q * S
    BY <1>9
<1>13. /\ Masked(p).base = (p.base \div Size(p)) * Size(p)
       /\ Masked(p).base \div Size(p) = p.base \div Size(p)
    BY <1>12, <1>8 DEF S, b, q
<1> QED
    BY <1>5, <1>10, <1>11, <1>12, <1>13 DEF S

-----------------------------------------------------------------------------
(* Endpoints: the overlap check.                                           *)

(* Whether the longer prefix lies in the shorter does not depend on which  *)
(* of its addresses is asked about, nor on the host bits.                  *)
LEMMA ShorterContains ==
    ASSUME NEW p \in Prefix, NEW q \in Prefix, p.fam = q.fam, p.len <= q.len,
           NEW x \in Nat, x \div Size(q) = q.base \div Size(q)
    PROVE  x \div Size(p) = q.base \div Size(p)
<1> DEFINE c == 2 ^ (q.len - p.len)
<1>1. /\ p.fam \in {4, 6} /\ p.len \in Nat /\ q.len \in Nat /\ Bits(p.fam) \in Nat
      /\ p.len <= Bits(p.fam) /\ q.len <= Bits(p.fam) /\ q.base \in Nat
    BY PrefixFields
<1>2. Size(p) \in Nat \ {0} /\ Size(q) \in Nat \ {0}
    BY SizeOfPrefix
<1>3. c \in Nat \ {0} /\ Size(p) = Size(q) * c
    <2> DEFINE h == Bits(p.fam) - q.len
               k == Bits(p.fam) - p.len
    <2>1. h \in Nat /\ k \in Nat /\ h <= k /\ k - h = q.len - p.len
        BY <1>1
    <2>2. Size(p) = 2 ^ k /\ Size(q) = 2 ^ h
        BY DEF Size
    <2> HIDE DEF h, k
    <2>3. 2 ^ (k - h) \in Nat \ {0} /\ 2 ^ k = 2 ^ h * 2 ^ (k - h)
        BY <2>1, PowerFactor
    <2> QED
        BY <2>1, <2>2, <2>3
<1> HIDE DEF c
<1>4. x \div Size(p) = (x \div Size(q)) \div c
    BY <1>2, <1>3, QuotientOfQuotient
<1>5. q.base \div Size(p) = (q.base \div Size(q)) \div c
    BY <1>1, <1>2, <1>3, QuotientOfQuotient
<1> QED
    BY <1>4, <1>5

(* Two prefixes share an address exactly when the shorter has the first    *)
(* one of the other.                                                       *)
LEMMA SharedAddress ==
    ASSUME NEW p \in Prefix, NEW q \in Prefix, p.fam = q.fam, p.len <= q.len
    PROVE  /\ Masked(p).base \div Size(p) = Masked(q).base \div Size(p)
                  => \E a \in Address : Contains(p, a) /\ Contains(q, a)
           /\ \A a \in Address : Contains(p, a) /\ Contains(q, a)
                  => Masked(p).base \div Size(p) = Masked(q).base \div Size(p)
<1>1. /\ Masked(p).base \div Size(p) = p.base \div Size(p)
      /\ Masked(q).base \div Size(q) = q.base \div Size(q)
    BY MaskedPrefix
<1>2. Masked(q).base \in Nat
    BY MaskedPrefix, PrefixFields
<1>3. Masked(q).base \div Size(p) = q.base \div Size(p)
    BY <1>1, <1>2, ShorterContains
<1>4. ASSUME Masked(p).base \div Size(p) = Masked(q).base \div Size(p)
      PROVE  \E a \in Address : Contains(p, a) /\ Contains(q, a)
    <2> DEFINE a == [fam |-> q.fam, val |-> q.base]
    <2>1. a \in Address
        BY PrefixFields
    <2>2. a.fam = q.fam /\ a.val = q.base
        OBVIOUS
    <2> HIDE DEF a
    <2>3. Contains(p, a) /\ Contains(q, a)
        BY <2>2, <1>1, <1>3, <1>4 DEF Contains
    <2> QED
        BY <2>1, <2>3
<1>5. ASSUME NEW a \in Address, Contains(p, a), Contains(q, a)
      PROVE  Masked(p).base \div Size(p) = Masked(q).base \div Size(p)
    <2>1. a.val \div Size(p) = p.base \div Size(p) /\ a.val \div Size(q) = q.base \div Size(q)
        BY <1>5 DEF Contains
    <2>2. a.val \in Nat
        BY AddressFields
    <2>3. a.val \div Size(p) = q.base \div Size(p)
        BY <2>1, <2>2, ShorterContains
    <2> QED
        BY <2>1, <2>3, <1>1, <1>3
<1> QED
    BY <1>4, <1>5

(* netip.Prefix.Overlaps, of prefixes as ParseAllowedIPs stores them, says *)
(* whether some address is in both as they were typed.                     *)
LEMMA OverlapsIsShared ==
    ASSUME NEW p \in Prefix, NEW q \in Prefix
    PROVE  Overlaps(Masked(p), Masked(q))
               <=> \E a \in Address : Contains(p, a) /\ Contains(q, a)
<1> DEFINE P == Masked(p)
           Q == Masked(q)
<1>1. /\ P.fam = p.fam /\ P.len = p.len /\ Size(P) = Size(p)
      /\ Q.fam = q.fam /\ Q.len = q.len /\ Size(Q) = Size(q)
    BY MaskedPrefix
<1>2. p.len \in Nat /\ q.len \in Nat
    BY PrefixFields
<1> SUFFICES Overlaps(P, Q) <=> \E a \in Address : Contains(p, a) /\ Contains(q, a)
    OBVIOUS
<1> HIDE DEF P, Q
<1>3. CASE p.fam # q.fam
    BY <1>1, <1>3 DEF Overlaps, Contains
<1>4. CASE p.fam = q.fam /\ p.len <= q.len
    <2>1. Overlaps(P, Q) <=> P.base \div Size(p) = Q.base \div Size(p)
        BY <1>1, <1>4 DEF Overlaps
    <2>2. /\ P.base \div Size(p) = Q.base \div Size(p)
                 => \E a \in Address : Contains(p, a) /\ Contains(q, a)
          /\ \A a \in Address : Contains(p, a) /\ Contains(q, a)
                 => P.base \div Size(p) = Q.base \div Size(p)
        BY <1>4, SharedAddress DEF P, Q
    <2> QED
        BY <2>1, <2>2
<1>5. CASE p.fam = q.fam /\ q.len < p.len
    <2>1. Overlaps(P, Q) <=> P.base \div Size(q) = Q.base \div Size(q)
        BY <1>1, <1>2, <1>5 DEF Overlaps
    <2>2. /\ Q.base \div Size(q) = P.base \div Size(q)
                 => \E a \in Address : Contains(q, a) /\ Contains(p, a)
          /\ \A a \in Address : Contains(q, a) /\ Contains(p, a)
                 => Q.base \div Size(q) = P.base \div Size(q)
        BY <1>2, <1>5, SharedAddress DEF P, Q
    <2> QED
        BY <2>1, <2>2
<1> QED
    BY <1>2, <1>3, <1>4, <1>5

(* The same of lists, the empty one standing for every IPv4 address.       *)
LEMMA OverlapOfLists ==
    ASSUME NEW A, A \subseteq Prefix, NEW B, B \subseteq Prefix
    PROVE  Overlap(AllowedIPsOr(A), AllowedIPsOr(B))
               <=> \E a \in Address :
                       /\ \E p \in (IF A = {} THEN DefaultAllowedIPs ELSE A) : Contains(p, a)
                       /\ \E q \in (IF B = {} THEN DefaultAllowedIPs ELSE B) : Contains(q, a)
<1> DEFINE X == IF A = {} THEN DefaultAllowedIPs ELSE A
           Y == IF B = {} THEN DefaultAllowedIPs ELSE B
<1>1. DefaultAllowedIPs \subseteq Prefix
    <2>1. Bits(4) \in Nat
        BY AddressesAssumption DEF Bits
    <2>2. 2 ^ Bits(4) \in Nat \ {0}
        BY <2>1, Power
    <2>3. 0 \in 0..2 ^ Bits(4) - 1 /\ 0 \in 0..Bits(4)
        BY <2>1, <2>2
    <2> QED
        BY <2>3, PrefixMade DEF DefaultAllowedIPs
<1>2. X \subseteq Prefix /\ Y \subseteq Prefix
    BY <1>1
<1>3. AllowedIPsOr(A) = {Masked(p) : p \in X} /\ AllowedIPsOr(B) = {Masked(q) : q \in Y}
    BY DEF AllowedIPsOr, ParseAllowedIPs
<1> HIDE DEF X, Y
<1>4. Overlap(AllowedIPsOr(A), AllowedIPsOr(B))
          <=> \E p \in X, q \in Y : Overlaps(Masked(p), Masked(q))
    BY <1>3 DEF Overlap
<1>5. \A p \in X, q \in Y :
          Overlaps(Masked(p), Masked(q)) <=> \E a \in Address : Contains(p, a) /\ Contains(q, a)
    BY <1>2, OverlapsIsShared
<1>6. Overlap(AllowedIPsOr(A), AllowedIPsOr(B))
          <=> \E a \in Address : (\E p \in X : Contains(p, a)) /\ (\E q \in Y : Contains(q, a))
    BY <1>4, <1>5
<1> QED
    BY <1>6 DEF X, Y

-----------------------------------------------------------------------------
(* The pool: types.                                                        *)

(* What has been typed, and what is handed out.                            *)
LEMMA TypedFields ==
    ASSUME NEW t \in Typed
    PROVE  /\ t.fam \in Families /\ t.fam \in {4, 6} /\ t.val \in 0..2 ^ Bits(t.fam) - 1
           /\ t.val \in Nat /\ Parse(t) \in Address /\ t # NoAddress
           /\ t.fam = 4 => t = Spell(Parse(t))
<1>1. PICK f \in Families : \E v \in 0..2 ^ Bits(f) - 1, s \in Spellings(f) :
                                t = [fam |-> f, val |-> v, as |-> s]
    BY DEF Typed
<1>2. PICK v \in 0..2 ^ Bits(f) - 1, s \in Spellings(f) : t = [fam |-> f, val |-> v, as |-> s]
    BY <1>1
<1>3. t.fam = f /\ t.val = v /\ t.as = s
    BY <1>2
<1>4. f \in {4, 6}
    BY AddressesAssumption
<1>5. 2 ^ Bits(f) \in Nat
    BY AddressesAssumption, Power DEF Bits
<1>6. v \in Nat
    BY <1>5
<1>7. Parse(t) = [fam |-> f, val |-> v]
    BY <1>3 DEF Parse
<1>8. Parse(t) \in Address
    BY <1>4, <1>7 DEF Address
<1>9. t # NoAddress
    BY <1>3, <1>4 DEF NoAddress
<1>10. f = 4 => t = Spell(Parse(t))
    BY <1>2, <1>7 DEF Spell, Spellings
<1> QED
    BY <1>3, <1>4, <1>6, <1>8, <1>9, <1>10

(* The spelling of an address can be typed and parses to it.               *)
LEMMA SpelledIsTyped ==
    ASSUME NEW a \in Address, a.fam \in Families
    PROVE  Spell(a) \in Typed /\ Parse(Spell(a)) = a /\ Spell(a).val = a.val /\ Spell(a).fam = a.fam
<1>1. a.val \in 0..2 ^ Bits(a.fam) - 1 /\ a = [fam |-> a.fam, val |-> a.val]
    BY AddressFields
<1>2. "canonical" \in Spellings(a.fam)
    BY DEF Spellings
<1>3. Spell(a) = [fam |-> a.fam, val |-> a.val, as |-> "canonical"]
    BY DEF Spell
<1>4. Spell(a) \in Typed
    BY <1>1, <1>2, <1>3 DEF Typed
<1>5. Spell(a).fam = a.fam /\ Spell(a).val = a.val
    BY <1>3
<1> QED
    BY <1>1, <1>4, <1>5 DEF Parse

(* NextFree gives the spelling of a free address, of the pool's family.    *)
LEMMA NextFreeFields ==
    ASSUME NEW t \in NextFree
    PROVE  \E a \in Free : t = Spell(a) /\ (\A c \in Free : a.val <= c.val)
BY DEF NextFree

(* A free address is one of the pool's family that nobody uses.            *)
LEMMA FreeFields ==
    ASSUME NEW a \in Free
    PROVE  a \in Address /\ a.fam = pool.fam /\ a \notin {Parse(t) : t \in Used}
BY DEF Free, Contains

(* A pool is of a family whose addresses are typed.                        *)
LEMMA PoolFamily ==
    ASSUME NEW p \in Pools
    PROVE  p \in Prefix /\ Masked(p).fam \in Families
BY AddressesAssumption, MaskedPrefix

(* The type invariant, and that addresses of the pool's family are typed.  *)
PoolInv == PoolTypeOK /\ pool.fam \in Families

(* Every step of the pool keeps its types.                                 *)
LEMMA PoolInvInductive ==
    /\ PoolInit => PoolInv
    /\ PoolInv /\ [PoolNext]_poolVars => PoolInv'
<1>1. ASSUME PoolInit
      PROVE  PoolInv
    <2>1. PICK p \in Pools : pool = Masked(p)
        BY <1>1 DEF PoolInit
    <2>2. pool \in Prefix /\ pool = Masked(pool) /\ pool.fam \in Families
        BY <2>1, PoolFamily, MaskedPrefix
    <2>3. addr \in [Machines -> Typed \cup {NoAddress}]
        BY <1>1 DEF PoolInit
    <2> QED
        BY <1>1, <2>2, <2>3 DEF PoolInit, PoolInv, PoolTypeOK
<1>2. ASSUME PoolInv, [PoolNext]_poolVars
      PROVE  PoolInv'
    <2>1. ASSUME UNCHANGED <<pool, lists>>, addr' \in [Machines -> Typed \cup {NoAddress}]
          PROVE  PoolInv'
        BY <1>2, <2>1 DEF PoolInv, PoolTypeOK, Masked, Size
    <2>2. ASSUME NEW m \in Machines, NEW t \in Typed, Assign(m, t)
          PROVE  PoolInv'
        BY <1>2, <2>1, <2>2 DEF PoolInv, PoolTypeOK, Assign
    <2>3. ASSUME NEW m \in Machines, Enroll(m)
          PROVE  PoolInv'
        <3>1. PICK t \in NextFree : addr' = [addr EXCEPT ![m] = t]
            BY <2>3 DEF Enroll
        <3>2. t \in Typed
            <4>1. PICK a \in Free : t = Spell(a)
                BY NextFreeFields
            <4>2. a \in Address /\ a.fam \in Families
                BY <4>1, FreeFields, <1>2 DEF PoolInv
            <4> QED
                BY <4>1, <4>2, SpelledIsTyped
        <3>3. UNCHANGED <<pool, lists>>
            BY <2>3 DEF Enroll
        <3> QED
            BY <1>2, <2>1, <3>1, <3>2, <3>3 DEF PoolInv, PoolTypeOK
    <2>4. ASSUME NEW m \in Machines, Release(m)
          PROVE  PoolInv'
        BY <1>2, <2>1, <2>4 DEF PoolInv, PoolTypeOK, Release
    <2>5. CASE UNCHANGED poolVars
        BY <1>2, <2>1, <2>5 DEF PoolInv, PoolTypeOK, poolVars
    <2> QED
        BY <1>2, <2>2, <2>3, <2>4, <2>5 DEF PoolNext
<1> QED
    BY <1>1, <1>2

(* So they hold always.                                                    *)
LEMMA PoolInvariance == PoolSpec => []PoolInv
BY PoolInvInductive, PTL DEF PoolSpec

(* The pool, the address column and the lists keep their types.            *)
THEOREM PoolTypes == PoolSpec => []PoolTypeOK
<1>1. PoolInv => PoolTypeOK
    BY DEF PoolInv
<1> QED
    BY <1>1, PoolInvariance, PTL

(* The overlap check refuses a pair of lists (parsePairFromAllowed, before *)
(* it saves an endpoint) exactly when some address would be routed to both *)
(* peers, whatever the widths of the families, prefixes and host bits.     *)
THEOREM OverlapExact == PoolSpec => []OverlapIsSharedAddress
<1>1. PoolInv => OverlapIsSharedAddress
    <2> SUFFICES ASSUME PoolInv
                 PROVE  OverlapIsSharedAddress
        OBVIOUS
    <2> DEFINE routes(L) == {a \in Address :
                   \E p \in (IF L = {} THEN DefaultAllowedIPs ELSE L) : Contains(p, a)}
    <2>1. lists[1] \subseteq Prefix /\ lists[2] \subseteq Prefix
        BY AddressesAssumption DEF PoolInv, PoolTypeOK
    <2>2. Overlap(AllowedIPsOr(lists[1]), AllowedIPsOr(lists[2]))
              <=> \E a \in Address : a \in routes(lists[1]) /\ a \in routes(lists[2])
        BY <2>1, OverlapOfLists
    <2>3. (\E a \in Address : a \in routes(lists[1]) /\ a \in routes(lists[2]))
              <=> routes(lists[1]) \cap routes(lists[2]) # {}
        OBVIOUS
    <2>4. Overlap(AllowedIPsOr(lists[1]), AllowedIPsOr(lists[2]))
              <=> routes(lists[1]) \cap routes(lists[2]) # {}
        BY <2>2, <2>3
    <2> QED
        BY <2>4 DEF OverlapIsSharedAddress
<1> QED
    BY <1>1, PoolInvariance, PTL

-----------------------------------------------------------------------------
(* Pools of IPv4: one spelling, one owner, one route.                      *)

(* An IPv4 address that is typed is the spelling of what it says.          *)
LEMMA OneSpelling ==
    ASSUME Families = {4}, NEW t \in Typed, NEW u \in Typed, Parse(t) = Parse(u)
    PROVE  t = u
<1>1. t.fam = 4 /\ u.fam = 4
    BY TypedFields
<1>2. t = Spell(Parse(t)) /\ u = Spell(Parse(u))
    BY <1>1, TypedFields
<1> QED
    BY <1>2

(* A step gives away no address that a machine has.                        *)
LEMMA OneMachineEachInductive ==
    ASSUME Families = {4}
    PROVE  /\ PoolInit => OneMachineEach
           /\ PoolInv /\ OneMachineEach /\ [PoolNext]_poolVars => OneMachineEach'
<1>1. ASSUME PoolInit
      PROVE  OneMachineEach
    BY <1>1 DEF PoolInit, OneMachineEach
<1>2. ASSUME PoolInv, OneMachineEach, [PoolNext]_poolVars
      PROVE  OneMachineEach'
    <2>1. addr \in [Machines -> Typed \cup {NoAddress}]
        BY <1>2 DEF PoolInv, PoolTypeOK
    <2>2. ASSUME NEW m \in Machines, NEW t \in Typed, addr' = [addr EXCEPT ![m] = t],
                 \A n \in Machines : addr[n] # NoAddress => Parse(addr[n]) # Parse(t)
          PROVE  OneMachineEach'
        <3> SUFFICES ASSUME NEW i \in Machines, NEW j \in Machines,
                            addr'[i] # NoAddress, addr'[j] # NoAddress,
                            Parse(addr'[i]) = Parse(addr'[j])
                     PROVE  i = j
            BY DEF OneMachineEach, Parse
        <3>1. \A n \in Machines : addr'[n] = IF n = m THEN t ELSE addr[n]
            BY <2>1, <2>2
        <3>2. CASE i = m \/ j = m
            BY <2>2, <3>1, <3>2
        <3>3. CASE i # m /\ j # m
            BY <1>2, <3>1, <3>3 DEF OneMachineEach
        <3> QED
            BY <3>2, <3>3
    <2>3. ASSUME NEW m \in Machines, NEW t \in Typed, Assign(m, t)
          PROVE  OneMachineEach'
        <3>1. t \notin Used /\ addr' = [addr EXCEPT ![m] = t]
            BY <2>3 DEF Assign, Validate
        <3>2. ASSUME NEW n \in Machines, addr[n] # NoAddress
              PROVE  Parse(addr[n]) # Parse(t)
            <4>1. addr[n] \in Used /\ addr[n] \in Typed
                BY <2>1, <3>2 DEF Used
            <4> QED
                BY <3>1, <4>1, OneSpelling
        <3> QED
            BY <2>2, <3>1, <3>2
    <2>4. ASSUME NEW m \in Machines, Enroll(m)
          PROVE  OneMachineEach'
        <3>1. PICK t \in NextFree : addr' = [addr EXCEPT ![m] = t]
            BY <2>4 DEF Enroll
        <3>2. PICK a \in Free : t = Spell(a)
            BY NextFreeFields
        <3>3. a \in Address /\ a.fam \in Families /\ a \notin {Parse(u) : u \in Used}
            BY FreeFields, <1>2 DEF PoolInv
        <3>4. t \in Typed /\ Parse(t) = a
            BY <3>2, <3>3, SpelledIsTyped
        <3>5. ASSUME NEW n \in Machines, addr[n] # NoAddress
              PROVE  Parse(addr[n]) # Parse(t)
            <4>1. addr[n] \in Used
                BY <3>5 DEF Used
            <4> QED
                BY <3>3, <3>4, <4>1
        <3> QED
            BY <2>2, <3>1, <3>4, <3>5
    <2>5. ASSUME NEW m \in Machines, Release(m)
          PROVE  OneMachineEach'
        <3>1. addr' = [addr EXCEPT ![m] = NoAddress]
            BY <2>5 DEF Release
        <3>2. \A n \in Machines : addr'[n] = IF n = m THEN NoAddress ELSE addr[n]
            BY <2>1, <3>1
        <3> QED
            BY <1>2, <3>2 DEF OneMachineEach, Parse
    <2>6. CASE UNCHANGED poolVars
        BY <1>2, <2>6 DEF OneMachineEach, poolVars, Parse
    <2> QED
        BY <1>2, <2>3, <2>4, <2>5, <2>6 DEF PoolNext
<1> QED
    BY <1>1, <1>2

(* An address belongs to one machine, whoever typed it and whatever        *)
(* NextFree handed out (the UNIQUE column and UsedAddresses compare        *)
(* spellings: of an IPv6 address there are two).                           *)
THEOREM OneOwner ==
    ASSUME Families = {4}
    PROVE  PoolSpec => []OneMachineEach
<1>1. /\ PoolInit => OneMachineEach
      /\ PoolInv /\ OneMachineEach /\ [PoolNext]_poolVars => OneMachineEach'
    BY OneMachineEachInductive
<1> QED
    BY <1>1, PoolInvariance, PTL DEF PoolSpec

(* "/32" after an IPv4 address is a route to that address and to no other. *)
LEMMA HostRoute ==
    ASSUME NEW t \in Typed, t.fam = 4, NEW a \in Address
    PROVE  AllowedCovers({Rendered(t)}, a) <=> a = Parse(t)
<1> DEFINE h == [fam |-> 4, base |-> t.val, len |-> Bits4]
<1>1. t.val \in 0..2 ^ Bits(4) - 1 /\ t.val \in Nat
    BY TypedFields
<1>2. Bits4 \in Nat /\ Bits(4) = Bits4 /\ Bits4 \in 0..Bits(4)
    BY AddressesAssumption DEF Bits
<1>3. h \in Prefix
    BY <1>1, <1>2, PrefixMade
<1>4. Size(h) = 1
    <2>1. h.fam = 4 /\ h.len = Bits4
        OBVIOUS
    <2> HIDE DEF h
    <2>2. Size(h) = 2 ^ (Bits4 - Bits4)
        BY <1>2, <2>1 DEF Size
    <2>3. Bits4 - Bits4 = 0 /\ 2 ^ 0 = 1
        BY <1>2
    <2> QED
        BY <2>2, <2>3
<1>5. h.base = t.val /\ h.fam = 4
    OBVIOUS
<1>6. Rendered(t) = Masked(h)
    BY DEF Rendered
<1> HIDE DEF h
<1>7. \A x \in Nat : x \div 1 = x
    OBVIOUS
<1>8. Masked(h).fam = 4 /\ Size(Masked(h)) = 1 /\ Masked(h).base = t.val
    <2>1. /\ Masked(h).fam = h.fam /\ Size(Masked(h)) = Size(h)
          /\ Masked(h).base = (h.base \div Size(h)) * Size(h)
        BY <1>3, MaskedPrefix
    <2>2. (t.val \div 1) * 1 = t.val
        BY <1>1, <1>7
    <2> QED
        BY <2>1, <2>2, <1>4, <1>5
<1>9. a.val \in Nat /\ a = [fam |-> a.fam, val |-> a.val]
    BY AddressFields
<1>10. Contains(Masked(h), a) <=> 4 = a.fam /\ a.val = t.val
    <2>1. a.val \div 1 = a.val /\ t.val \div 1 = t.val
        BY <1>1, <1>7, <1>9
    <2> QED
        BY <2>1, <1>8 DEF Contains
<1>11. a = Parse(t) <=> 4 = a.fam /\ a.val = t.val
    BY <1>9 DEF Parse
<1> QED
    BY <1>6, <1>10, <1>11 DEF AllowedCovers

(* The rendered config, the peer lists and expected-peers route to a       *)
(* machine its own address and nothing else.                               *)
THEOREM OwnRoute ==
    ASSUME Families = {4}
    PROVE  PoolSpec => []RoutesItself
<1>1. PoolInv => RoutesItself
    <2> SUFFICES ASSUME PoolInv, NEW m \in Machines, addr[m] # NoAddress, NEW a \in Address
                 PROVE  AllowedCovers({Rendered(addr[m])}, a) <=> a = Parse(addr[m])
        BY DEF RoutesItself
    <2>1. addr[m] \in Typed
        BY DEF PoolInv, PoolTypeOK
    <2>2. addr[m].fam = 4
        BY <2>1, TypedFields
    <2> QED
        BY <2>1, <2>2, HostRoute
<1> QED
    BY <1>1, PoolInvariance, PTL

-----------------------------------------------------------------------------
(* Pools of IPv4: NextFree against Validate.                               *)

(* The addresses of a pool are an interval; the broadcast address, where   *)
(* there is one, is the last of them.                                      *)
LEMMA PoolInterval ==
    ASSUME Families = {4}, PoolInv
    PROVE  /\ pool.base \in Nat /\ Size(pool) \in Nat \ {0} /\ pool.fam = 4
           /\ \A a \in Address : Contains(pool, a)
                  <=> a.fam = 4 /\ pool.base <= a.val /\ a.val < pool.base + Size(pool)
           /\ Broadcast # NoBroadcast
                  => Broadcast = [fam |-> 4, val |-> pool.base + (Size(pool) - 1)]
<1> DEFINE S == Size(pool)
           k == pool.base \div Size(pool)
<1>1. pool \in Prefix /\ pool = Masked(pool) /\ pool.fam = 4
    BY DEF PoolInv, PoolTypeOK
<1>2. pool.base \in Nat /\ pool.len \in Nat /\ pool.len <= Bits4 /\ Bits4 \in Nat
    <2>1. Bits(4) = Bits4
        BY DEF Bits
    <2> QED
        BY <1>1, <2>1, PrefixFields
<1>3. S \in Nat \ {0} /\ S <= 2 ^ Bits4 /\ S = 2 ^ (Bits4 - pool.len)
    <2>1. Bits(4) = Bits4
        BY DEF Bits
    <2> QED
        BY <1>1, <2>1, SizeOfPrefix DEF Size
<1>4. k \in Nat /\ pool.base = k * S
    <2>1. k \in Nat
        BY <1>2, <1>3, Division
    <2>2. Masked(pool).base = k * S
        BY <1>1, MaskedPrefix
    <2> QED
        BY <1>1, <2>1, <2>2
<1>5. Broadcast # NoBroadcast
          => Broadcast = [fam |-> 4, val |-> pool.base + (S - 1)]
    <2> SUFFICES ASSUME Broadcast # NoBroadcast
                 PROVE  Broadcast = [fam |-> 4, val |-> pool.base + (S - 1)]
        OBVIOUS
    <2>1. Broadcast = [fam |-> 4,
                       val |-> pool.base + ((2 ^ (Bits4 - pool.len) - 1) % 2 ^ Bits4)]
        BY DEF Broadcast
    <2>2. 2 ^ Bits4 \in Nat \ {0} /\ S - 1 \in Nat /\ S - 1 < 2 ^ Bits4
        BY <1>2, <1>3, Power
    <2>3. (S - 1) % 2 ^ Bits4 = S - 1
        <3> DEFINE w == 2 ^ Bits4
                   x == S - 1
        <3> HIDE DEF w, x, S
        <3>1. w \in Nat \ {0} /\ x \in Nat /\ x < w
            BY <2>2 DEF w, x
        <3>2. x \div w = 0
            <4>1. 0 \in Nat /\ x = 0 * w + x
                BY <3>1
            <4> QED
                BY <3>1, <4>1, OneDivision
        <3>3. x - (x \div w) * w = x % w
            BY <3>1, Division
        <3>4. x % w = x
            BY <3>1, <3>2, <3>3
        <3> QED
            BY <3>4 DEF w, x
    <2> QED
        BY <1>3, <2>1, <2>3
<1>6. ASSUME NEW a \in Address
      PROVE  Contains(pool, a) <=> a.fam = 4 /\ pool.base <= a.val /\ a.val < pool.base + S
    <2>1. a.val \in Nat
        BY AddressFields
    <2>2. Contains(pool, a) <=> 4 = a.fam /\ a.val \div S = k
        BY <1>1 DEF Contains
    <2> HIDE DEF S, k
    <2>3. ASSUME a.val \div S = k
          PROVE  pool.base <= a.val /\ a.val < pool.base + S
        <3>1. a.val % S \in 0..S - 1 /\ a.val - (a.val \div S) * S = a.val % S
            BY <1>3, <2>1, Division
        <3>2. a.val - k * S = a.val % S /\ k * S \in Nat
            BY <2>3, <3>1, <1>4, <1>3
        <3> QED
            BY <1>2, <1>3, <1>4, <2>1, <3>1, <3>2
    <2>4. ASSUME pool.base <= a.val, a.val < pool.base + S
          PROVE  a.val \div S = k
        <3> DEFINE r == a.val - pool.base
        <3>1. r \in Nat /\ r < S /\ a.val = pool.base + r
            BY <1>2, <1>3, <2>1, <2>4
        <3> HIDE DEF r
        <3>2. a.val = k * S + r
            BY <1>4, <3>1
        <3> QED
            BY <1>3, <1>4, <2>1, <3>1, <3>2, OneDivision
    <2> QED
        BY <2>2, <2>3, <2>4
<1> QED
    BY <1>1, <1>2, <1>3, <1>5, <1>6

(* What may be typed is what may be handed out.                            *)
LEMMA ValidIsFree ==
    ASSUME Families = {4}, PoolInv, NEW t \in Typed
    PROVE  Validate(t) <=> Parse(t) \in Free
<1> DEFINE a == Parse(t)
<1>1. a \in Address /\ a.fam = 4 /\ a.val = t.val /\ t.val \in Nat
    BY TypedFields DEF Parse
<1>2. a = [fam |-> 4, val |-> t.val]
    BY TypedFields DEF Parse
<1>3. t \in Used <=> a \in {Parse(u) : u \in Used}
    <2>1. ASSUME NEW u \in Used, a = Parse(u)
          PROVE  u = t
        <3>1. u \in Typed
            BY DEF Used, PoolInv, PoolTypeOK
        <3> QED
            BY <2>1, <3>1, OneSpelling
    <2> QED
        BY <2>1
<1> HIDE DEF a
<1>4. /\ pool.base \in Nat /\ Size(pool) \in Nat \ {0} /\ pool.fam = 4
      /\ Contains(pool, a) <=> a.fam = 4 /\ pool.base <= a.val /\ a.val < pool.base + Size(pool)
      /\ Broadcast # NoBroadcast
             => Broadcast = [fam |-> 4, val |-> pool.base + (Size(pool) - 1)]
    BY <1>1, PoolInterval
<1>5. a # Network <=> a.val # pool.base
    BY <1>1, <1>2, <1>4 DEF Network
<1>6. ASSUME Contains(pool, a)
      PROVE  a # Broadcast <=> (Broadcast # NoBroadcast => a.val < Broadcast.val)
    <2>1. CASE Broadcast = NoBroadcast
        <3>1. a # NoBroadcast
            BY <1>2 DEF NoBroadcast
        <3> QED
            BY <2>1, <3>1
    <2>2. CASE Broadcast # NoBroadcast
        <3>1. Broadcast = [fam |-> 4, val |-> pool.base + (Size(pool) - 1)]
            BY <1>4, <2>2
        <3>2. Broadcast.val = pool.base + (Size(pool) - 1)
            BY <3>1
        <3>3. a = Broadcast <=> a.val = pool.base + (Size(pool) - 1)
            BY <1>1, <1>2, <3>1
        <3>4. a.val \in Nat /\ a.val < pool.base + Size(pool)
            BY <1>1, <1>4, <1>6
        <3>5. a.val < pool.base + (Size(pool) - 1) <=> a.val # pool.base + (Size(pool) - 1)
            BY <1>4, <3>4
        <3> QED
            BY <2>2, <3>2, <3>3, <3>5
    <2> QED
        BY <2>1, <2>2
<1>7. Contains(pool, a) => (a.val # pool.base <=> a.val > pool.base)
    BY <1>1, <1>4
<1>8. Validate(t) <=> Contains(pool, a) /\ a # Network /\ a # Broadcast /\ t \notin Used
    BY DEF Validate, a
<1>9. a \in Free <=> /\ Contains(pool, a) /\ a.val > pool.base
                     /\ Broadcast # NoBroadcast => a.val < Broadcast.val
                     /\ a \notin {Parse(u) : u \in Used}
    BY <1>1 DEF Free
<1> QED
    BY <1>3, <1>5, <1>6, <1>7, <1>8, <1>9 DEF a

(* Of addresses one is the lowest.                                         *)
LEMMA LowestExists ==
    ASSUME NEW A, A \subseteq Address, A # {}
    PROVE  \E a \in A : \A c \in A : a.val <= c.val
<1> DEFINE T == {a.val : a \in A}
<1>1. T \subseteq Nat /\ T # {}
    BY AddressFields
<1>2. PICK v \in T : \A w \in T : v <= w
    BY <1>1, LeastNatural
<1>3. PICK a \in A : a.val = v
    BY <1>2
<1> QED
    BY <1>2, <1>3

(* NextFree finds an address exactly when an administrator could type one, *)
(* and then the lowest (suggestIP, enrolment): in /0 pools, where the host *)
(* bits overflow, and in /31 and /32 pools, which have no broadcast        *)
(* address, too.                                                           *)
THEOREM LowestHandedOut ==
    ASSUME Families = {4}
    PROVE  PoolSpec => []NextFreeIsLowestValid
<1>1. PoolInv => NextFreeIsLowestValid
    <2> SUFFICES ASSUME PoolInv
                 PROVE  NextFreeIsLowestValid
        OBVIOUS
    <2> DEFINE valid == {t \in Typed : t.fam = pool.fam /\ Validate(t)}
    <2>1. pool.fam = 4 /\ Free \subseteq Address
        BY DEF PoolInv, Free
    <2>2. ASSUME NEW a \in Free
          PROVE  Spell(a) \in valid
        <3>1. a \in Address /\ a.fam = 4
            BY <2>1, FreeFields
        <3>2. /\ Spell(a) \in Typed /\ Parse(Spell(a)) = a
              /\ Spell(a).val = a.val /\ Spell(a).fam = 4
            BY <3>1, SpelledIsTyped
        <3> QED
            BY <2>1, <2>2, <3>2, ValidIsFree
    <2>3. ASSUME NEW u \in valid
          PROVE  Parse(u) \in Free /\ Parse(u).val = u.val
        BY <2>3, ValidIsFree DEF Parse
    <2>4. ASSUME NEW t \in NextFree
          PROVE  t \in valid /\ \A u \in valid : t.val <= u.val
        <3>1. PICK a \in Free : t = Spell(a) /\ (\A c \in Free : a.val <= c.val)
            BY NextFreeFields
        <3>2. t.val = a.val
            BY <3>1 DEF Spell
        <3>3. t \in valid
            BY <3>1, <2>2
        <3>4. ASSUME NEW u \in valid
              PROVE  t.val <= u.val
            BY <2>3, <3>1, <3>2
        <3> QED
            BY <3>3, <3>4
    <2>5. Free # {} => NextFree # {}
        BY <2>1, LowestExists DEF NextFree
    <2>6. NextFree = {} <=> valid = {}
        BY <2>3, <2>4, <2>5
    <2> QED
        BY <2>4, <2>6 DEF NextFreeIsLowestValid
<1> QED
    BY <1>1, PoolInvariance, PTL

-----------------------------------------------------------------------------
(* The alerts.                                                             *)

(* Machines in service are registered; an alert that holds held 0 seconds  *)
(* ago.                                                                    *)
TablesInv ==
    /\ \A e \in Endpoints : active[e] \subseteq known
    /\ \A a \in Holding : a \in DOMAIN ago => ago[a] = 0

(* Alerts of which a status may speak: those that hold, and those whose    *)
(* age nobody keeps.                                                       *)
Sound == Holding \cup {a \in Alert : a[2] \notin Aged}

(* A build has read what the tables still say, and put out only such       *)
(* alerts: nobody writes while it runs.                                    *)
BuildInv ==
    /\ build.out \subseteq Sound
    /\ build.pc = "none" => build = NoBuild
    /\ \A e, f \in build.ep : e = f
    /\ build.pc \in {"reported", "lookup"} => \A e \in build.ep : build.expected = active[e]
    /\ build.pc = "lookup" => \A e \in build.ep :
           build.look \subseteq reported[e] \ active[e] /\ build.off = off[e]

(* Of an alert in the cache it is known how long ago it may have ceased.   *)
CacheInv ==
    Valid => \A a \in cache.alerts : a \in DOMAIN ago => ago[a] <= cache.age

AlertInv == TypeOK /\ TablesInv /\ BuildInv /\ CacheInv

(* The alert of a set is put out when the set has members.                 *)
LEMMA SomeAlert ==
    ASSUME NEW e, NEW t, NEW S, NEW a \in Some(e, t, S)
    PROVE  S # {} /\ a = <<e, t>> /\ e \in Endpoints /\ t \in Types
BY DEF Some, Alert

(* Only alerts that are followed are put out.                              *)
LEMMA SomeAlerts ==
    ASSUME NEW e, NEW t, NEW S
    PROVE  Some(e, t, S) \subseteq Alert
BY DEF Some

(* An alert holds when the tables show its cause.                          *)
LEMMA Holds ==
    ASSUME NEW e \in Endpoints, NEW t \in Types,
           \/ t = "stale" /\ last[e] = "stale"
           \/ t = "missing" /\ active[e] \ reported[e] # {}
           \/ t = "unlinked" /\ (reported[e] \cap known) \ active[e] # {}
           \/ t = "unexpected" /\ reported[e] \ known # {}
           \/ t = "mismatch" /\ off[e] \cap known # {}
    PROVE  <<e, t>> \in Holding
<1>1. t \in Wrong(e)
    BY DEF Wrong
<1> QED
    BY <1>1 DEF Holding, Alert

(* What holds is said by the tables alone.                                 *)
LEMMA HoldingOfWorld == UNCHANGED world => Holding' = Holding
BY DEF world, Holding, Wrong

-----------------------------------------------------------------------------
(* Types of the alerts' state.                                             *)

(* The fields of a build, and a build made of such fields.                 *)
LEMMA BuildFields ==
    ASSUME NEW b \in Build
    PROVE  /\ b.todo \subseteq Endpoints /\ b.ep \subseteq Endpoints /\ b.out \subseteq Alert
           /\ b.expected \subseteq Keys /\ b.reported \subseteq Keys
           /\ b.off \subseteq Keys /\ b.look \subseteq Keys
           /\ b.by \in {"page", "alerts"}
BY DEF Build

(* No build is a build, and so is one that begins.                         *)
LEMMA NoBuildTypes ==
    /\ NoBuild \in Build
    /\ \A by \in {"page", "alerts"} :
          [NoBuild EXCEPT !.pc = "next", !.by = by, !.todo = Endpoints] \in Build
BY DEF NoBuild, Build

(* The evaluations the alert loop sets up are of their type.               *)
LEMMA EvalTypes ==
    ASSUME NEW A, A \subseteq Alert
    PROVE  /\ Idle \in [pc : {"idle", "want", "post", "resolve"}, current : SUBSET Alert,
                        left : SUBSET Alert]
           /\ Obtained(A) \in [pc : {"idle", "want", "post", "resolve"}, current : SUBSET Alert,
                               left : SUBSET Alert]
           /\ Obtained(A).pc = "post" /\ Obtained(A).current = A
BY DEF Idle, Obtained

(* Seconds are counted up to a bound.                                      *)
LEMMA LaterBounds ==
    ASSUME NEW most \in Nat, NEW n \in 0..most
    PROVE  Later(n, most) \in 0..most /\ n <= Later(n, most) /\ Later(n, most) <= n + 1
           /\ (n < most => Later(n, most) = n + 1) /\ (Later(n, most) < most => n < most)
BY DEF Later

(* Nothing a write leaves behind is of another type.                       *)
LEMMA WriteTypes ==
    ASSUME TypeOK, Changes,
           known' \subseteq Keys, active' \in [Endpoints -> SUBSET Keys],
           reported' \in [Endpoints -> SUBSET Keys], off' \in [Endpoints -> SUBSET Keys],
           last' \in [Endpoints -> {"never", "fresh", "stale"}]
    PROVE  TypeOK'
<1>1. ago' \in [Endpoints \X Aged -> 0..TTL + 1]
    <2>1. ago' = [a \in DOMAIN ago |-> IF a \in Holding' THEN 0 ELSE ago[a]]
        BY DEF Changes
    <2>2. TTL \in Nat
        BY AlertsAssumption
    <2> QED
        BY <2>1, <2>2 DEF TypeOK
<1>2. UNCHANGED <<build, cache, eval, firing, crashes, pager, missed>>
    BY DEF Changes
<1> QED
    BY <1>1, <1>2 DEF TypeOK

(* Every step keeps the types of the alerts' state.                        *)
LEMMA TypesInductive ==
    /\ Init => TypeOK
    /\ TypeOK /\ [Next]_vars => TypeOK'
<1> USE AlertsAssumption
<1>1. ASSUME Init
      PROVE  TypeOK
    <2>1. NoCache \in [alerts : SUBSET Alert, age : 0..TTL]
        BY DEF NoCache
    <2>2. Idle \in [pc : {"idle", "want", "post", "resolve"}, current : SUBSET Alert,
                    left : SUBSET Alert]
        BY EvalTypes
    <2>3. [a \in Endpoints \X Aged |-> TTL + 1] \in [Endpoints \X Aged -> 0..TTL + 1]
        OBVIOUS
    <2> QED
        BY <1>1, <2>1, <2>2, <2>3, NoBuildTypes DEF Init, TypeOK
<1>2. ASSUME TypeOK, [Next]_vars
      PROVE  TypeOK'
    <2> DEFINE Eval == [pc : {"idle", "want", "post", "resolve"}, current : SUBSET Alert,
                        left : SUBSET Alert]
               Cache == [alerts : SUBSET Alert, age : 0..TTL]
    <2> USE <1>2
    <2>1. ASSUME NEW e \in Endpoints, NEW R \in SUBSET Keys, NEW O \in SUBSET Keys,
                 Report(e, R, O)
          PROVE  TypeOK'
        BY <2>1, WriteTypes DEF Report, TypeOK
    <2>2. ASSUME NEW e \in Endpoints, Silence(e)
          PROVE  TypeOK'
        BY <2>2, WriteTypes DEF Silence, TypeOK
    <2>3. ASSUME NEW k \in Keys, Register(k)
          PROVE  TypeOK'
        <3>1. known' \subseteq Keys
            BY <2>3 DEF Register, TypeOK
        <3>2. active' \in [Endpoints -> SUBSET Keys]
            BY <2>3 DEF Register, TypeOK
        <3> QED
            BY <2>3, <3>1, <3>2, WriteTypes DEF Register, TypeOK
    <2>4. ASSUME NEW k \in Keys, NEW e \in Endpoints, Activate(k, e)
          PROVE  TypeOK'
        <3>1. active' \in [Endpoints -> SUBSET Keys]
            <4>1. active' = [active EXCEPT ![e] = IF k \in active[e] THEN active[e] \ {k}
                                                                     ELSE active[e] \cup {k}]
                BY <2>4 DEF Activate
            <4> QED
                BY <4>1 DEF TypeOK
        <3> QED
            BY <2>4, <3>1, WriteTypes DEF Activate, TypeOK
    <2>5. ASSUME build' \in Build, cache' \in Cache, eval' \in Eval,
                 UNCHANGED <<world, firing, crashes, pager, missed, ago>>
          PROVE  TypeOK'
        BY <2>5 DEF TypeOK, world
    <2>6. build \in Build /\ cache \in Cache /\ eval \in Eval
        BY DEF TypeOK
    <2>7. CASE BuildStep
        <3>1. ASSUME NEW e \in Endpoints, ReadReport(e)
              PROVE  TypeOK'
            <4> DEFINE A == Some(e, "stale", {d \in {e} : last[d] = "stale"})
            <4>1. build' = [build EXCEPT !.pc = "expected", !.todo = build.todo \ {e}, !.ep = {e},
                              !.out = build.out \cup A]
                BY <3>1 DEF ReadReport
            <4>2. A \subseteq Alert
                BY SomeAlerts
            <4> HIDE DEF A
            <4>3. build' \in Build
                BY <4>1, <4>2, <2>6 DEF Build
            <4> QED
                BY <2>5, <2>6, <3>1, <4>3 DEF ReadReport
        <3>2. ASSUME NEW e \in Endpoints, ReadExpected(e)
              PROVE  TypeOK'
            <4>1. build' = [build EXCEPT !.pc = "reported", !.expected = active[e]]
                BY <3>2 DEF ReadExpected
            <4>2. active[e] \subseteq Keys
                BY DEF TypeOK
            <4>3. build' \in Build
                BY <4>1, <4>2, <2>6 DEF Build
            <4> QED
                BY <2>5, <2>6, <3>2, <4>3 DEF ReadExpected
        <3>3. ASSUME NEW e \in Endpoints, ReadReported(e)
              PROVE  TypeOK'
            <4> DEFINE A == Some(e, "missing", build.expected \ reported[e])
                       B == Some(e, "mismatch", build.expected \cap off[e])
            <4>1. build' = [build EXCEPT !.pc = "lookup", !.reported = reported[e], !.off = off[e],
                              !.look = reported[e] \ build.expected,
                              !.out = build.out \cup A \cup B]
                BY <3>3 DEF ReadReported
            <4>2. reported[e] \subseteq Keys /\ off[e] \subseteq Keys
                BY DEF TypeOK
            <4>3. A \subseteq Alert /\ B \subseteq Alert
                BY SomeAlerts
            <4> HIDE DEF A, B
            <4>4. build' \in Build
                BY <4>1, <4>2, <4>3, <2>6 DEF Build
            <4> QED
                BY <2>5, <2>6, <3>3, <4>4 DEF ReadReported
        <3>4. ASSUME NEW e \in Endpoints, NEW k \in Keys, NEW found \in BOOLEAN, Lookup(e, k, found)
              PROVE  TypeOK'
            <4> DEFINE A == Some(e, IF found THEN "unlinked" ELSE "unexpected", {k})
                       B == Some(e, "mismatch", {j \in {k} : found /\ j \in build.off})
            <4>1. build' = [build EXCEPT !.look = build.look \ {k}, !.out = build.out \cup A \cup B]
                BY <3>4 DEF Lookup
            <4>2. A \subseteq Alert /\ B \subseteq Alert
                BY SomeAlerts
            <4> HIDE DEF A, B
            <4>3. build' \in Build
                BY <4>1, <4>2, <2>6 DEF Build
            <4> QED
                BY <2>5, <2>6, <3>4, <4>3 DEF Lookup
        <3>5. ASSUME Built
              PROVE  TypeOK'
            <4>1. CASE build.todo # {}
                <5>1. build' = [build EXCEPT !.pc = "next", !.ep = {}, !.expected = {},
                                             !.reported = {}, !.off = {}]
                    BY <3>5, <4>1 DEF Built
                <5>2. build' \in Build
                    BY <5>1, <2>6 DEF Build
                <5> QED
                    BY <2>5, <2>6, <3>5, <4>1, <5>2 DEF Built
            <4>2. CASE build.todo = {}
                <5>1. build' = NoBuild /\ cache' = [alerts |-> build.out, age |-> 0]
                    BY <3>5, <4>2 DEF Built
                <5>2. build.out \subseteq Alert
                    BY <2>6, BuildFields
                <5>3. build' \in Build /\ cache' \in Cache
                    BY <5>1, <5>2, NoBuildTypes
                <5>4. eval' = Obtained(build.out) \/ eval' = eval
                    BY <3>5, <4>2 DEF Built
                <5>5. eval' \in Eval
                    BY <2>6, <5>2, <5>4, EvalTypes
                <5> QED
                    BY <2>5, <3>5, <5>3, <5>5 DEF Built
            <4> QED
                BY <4>1, <4>2
        <3>6. ASSUME BuildFails
              PROVE  TypeOK'
            <4>1. build' \in Build
                BY <3>6, NoBuildTypes DEF BuildFails
            <4>2. eval' \in Eval
                BY <3>6, <2>6, EvalTypes DEF BuildFails
            <4> QED
                BY <2>5, <2>6, <3>6, <4>1, <4>2 DEF BuildFails
        <3> QED
            BY <2>7, <3>1, <3>2, <3>3, <3>4, <3>5, <3>6 DEF BuildStep
    <2>8. CASE AlertStep
        <3>1. ASSUME Evaluate
              PROVE  TypeOK'
            <4>1. eval' \in Eval
                BY <3>1, EvalTypes DEF Evaluate, Idle
            <4> QED
                BY <2>5, <2>6, <3>1, <4>1 DEF Evaluate
        <3>2. ASSUME Ask
              PROVE  TypeOK'
            <4>1. cache.alerts \subseteq Alert
                BY <2>6
            <4>2. eval' = Obtained(cache.alerts) \/ eval' = eval
                BY <3>2 DEF Ask
            <4>3. eval' \in Eval
                BY <2>6, <4>1, <4>2, EvalTypes
            <4>4. build' \in Build
                BY <3>2, <2>6, NoBuildTypes DEF Ask, Start
            <4> QED
                BY <2>5, <2>6, <3>2, <4>3, <4>4 DEF Ask
        <3>3. ASSUME Resolve
              PROVE  TypeOK'
            <4>1. firing \subseteq Alert
                BY DEF TypeOK
            <4>2. eval' \in Eval
                BY <3>3, <2>6, <4>1 DEF Resolve
            <4> QED
                BY <2>5, <2>6, <3>3, <4>2 DEF Resolve
        <3>4. ASSUME Rest
              PROVE  TypeOK'
            <4>1. eval' \in Eval
                BY <3>4, EvalTypes DEF Rest
            <4> QED
                BY <2>5, <2>6, <3>4, <4>1 DEF Rest
        <3>5. ASSUME NEW a \in Alert, PostFiring(a)
              PROVE  TypeOK'
            <4>1. pager' \subseteq Alert /\ missed' \subseteq Alert
                BY <3>5 DEF PostFiring, Post, TypeOK
            <4> QED
                BY <3>5, <4>1 DEF PostFiring, TypeOK, world
        <3>6. ASSUME NEW a \in Alert, PostResolved(a)
              PROVE  TypeOK'
            <4>1. pager' \subseteq Alert /\ missed' \subseteq Alert
                BY <3>6 DEF PostResolved, Post, TypeOK
            <4>2. eval' \in Eval
                BY <3>6, <2>6 DEF PostResolved
            <4>3. firing' \subseteq Alert
                BY <3>6 DEF PostResolved, TypeOK
            <4> QED
                BY <3>6, <4>1, <4>2, <4>3 DEF PostResolved, TypeOK, world
        <3> QED
            BY <2>8, <3>1, <3>2, <3>3, <3>4, <3>5, <3>6 DEF AlertStep
    <2>9. CASE ServePage
        <3>1. build' \in Build
            BY <2>9, NoBuildTypes DEF ServePage, Start
        <3> QED
            BY <2>5, <2>6, <2>9, <3>1 DEF ServePage
    <2>10. CASE Tick
        <3>1. cache' \in Cache
            <4>1. cache' = [cache EXCEPT !.age = Later(cache.age, TTL)]
                BY <2>10 DEF Tick
            <4>2. cache.age \in 0..TTL
                BY <2>6
            <4>3. Later(cache.age, TTL) \in 0..TTL
                BY <4>2, LaterBounds
            <4> QED
                BY <2>6, <4>1, <4>3
        <3>2. ago' \in [Endpoints \X Aged -> 0..TTL + 1]
            <4>1. ago' = [a \in DOMAIN ago |-> IF a \in Holding THEN 0 ELSE Later(ago[a], TTL + 1)]
                BY <2>10 DEF Tick
            <4>2. ago \in [Endpoints \X Aged -> 0..TTL + 1]
                BY DEF TypeOK
            <4>3. \A n \in 0..TTL + 1 : Later(n, TTL + 1) \in 0..TTL + 1
                BY LaterBounds
            <4> QED
                BY <4>1, <4>2, <4>3
        <3> QED
            BY <2>10, <3>1, <3>2 DEF Tick, TypeOK, world
    <2>11. CASE Crash
        <3>1. cache' \in Cache
            BY <2>11 DEF Crash, NoCache
        <3>2. build' \in Build /\ eval' \in Eval
            BY <2>11, NoBuildTypes, EvalTypes DEF Crash
        <3>3. crashes' \in 0..MaxCrashes /\ firing' \subseteq Alert /\ missed' \subseteq Alert
            BY <2>11 DEF Crash, TypeOK
        <3> QED
            BY <2>11, <3>1, <3>2, <3>3 DEF Crash, TypeOK, world
    <2>12. CASE UNCHANGED vars
        BY <2>12 DEF vars, TypeOK
    <2> QED
        BY <2>1, <2>2, <2>3, <2>4, <2>7, <2>8, <2>9, <2>10, <2>11, <2>12 DEF Next
<1> QED
    BY <1>1, <1>2

-----------------------------------------------------------------------------
(* The alerts of a status have held within its age.                        *)

(* A write leaves the age of every alert that holds 0, and no other older. *)
LEMMA WriteAges ==
    ASSUME TypeOK, CacheInv, Changes, \A e \in Endpoints : active'[e] \subseteq known'
    PROVE  TablesInv' /\ CacheInv'
<1>1. /\ ago' = [a \in DOMAIN ago |-> IF a \in Holding' THEN 0 ELSE ago[a]]
      /\ cache' = cache
    BY DEF Changes
<1>2. ago \in [Endpoints \X Aged -> 0..TTL + 1] /\ cache.age \in Nat /\ TTL \in Nat
    BY AlertsAssumption DEF TypeOK
<1>3. DOMAIN ago' = DOMAIN ago /\ \A a \in DOMAIN ago : ago'[a] <= ago[a] /\ ago'[a] \in Nat
    BY <1>1, <1>2
<1>4. \A a \in Holding' : a \in DOMAIN ago' => ago'[a] = 0
    BY <1>1
<1>5. ASSUME cache'.age < TTL, NEW a \in cache'.alerts, a \in DOMAIN ago'
      PROVE  ago'[a] <= cache'.age
    <2>1. ago[a] <= cache.age
        BY <1>1, <1>3, <1>5 DEF CacheInv, Valid
    <2>2. ago[a] \in Nat /\ ago'[a] \in Nat /\ ago'[a] <= ago[a]
        BY <1>2, <1>3, <1>5
    <2> QED
        BY <1>1, <1>2, <2>1, <2>2
<1>6. TablesInv'
    BY <1>4 DEF TablesInv
<1>7. CacheInv'
    BY <1>5 DEF CacheInv, Valid
<1> QED
    BY <1>6, <1>7

(* A write finds no build, and leaves none.                                *)
LEMMA WriteOutsideBuild ==
    ASSUME TypeOK, BuildInv, CacheInv, ~Torn, Changes,
           \A e \in Endpoints : active'[e] \subseteq known'
    PROVE  TablesInv' /\ BuildInv' /\ CacheInv' /\ build' = build
<1>1. build.pc = "none" /\ build' = build
    BY DEF Changes
<1>2. build = NoBuild
    BY <1>1 DEF BuildInv
<1>3. BuildInv'
    BY <1>1, <1>2 DEF BuildInv, NoBuild
<1> QED
    BY <1>1, <1>3, WriteAges

(* A step that leaves the tables and the ages alone.                       *)
LEMMA TablesKept ==
    ASSUME TablesInv, UNCHANGED world, UNCHANGED ago
    PROVE  TablesInv' /\ Holding' = Holding
<1>1. Holding' = Holding
    BY HoldingOfWorld
<1> QED
    BY <1>1 DEF TablesInv, world

(* What the steps of a build put out holds, failing lookups aside.         *)
LEMMA BuildStepOutput ==
    ASSUME TypeOK, TablesInv, BuildInv, LookupFails => "unexpected" \notin Aged, BuildStep
    PROVE  BuildInv'
<1> DEFINE Reads(e) ==
        /\ build.pc \in {"reported", "lookup"} => build.expected = active[e]
        /\ build.pc = "lookup" => build.look \subseteq reported[e] \ active[e] /\ build.off = off[e]
<1>1. build \in Build
    BY DEF TypeOK
<1>2. \A e \in build.ep : Reads(e)
    BY DEF BuildInv
<1>3. build.out \subseteq Sound /\ \A e, f \in build.ep : e = f
    BY DEF BuildInv
<1>4. UNCHANGED world
    <2>1. ASSUME NEW e \in Endpoints, ReadReport(e) \/ ReadExpected(e) \/ ReadReported(e)
          PROVE  UNCHANGED world
        BY <2>1 DEF ReadReport, ReadExpected, ReadReported
    <2>2. ASSUME NEW e \in Endpoints, NEW k \in Keys, NEW found \in BOOLEAN, Lookup(e, k, found)
          PROVE  UNCHANGED world
        BY <2>2 DEF Lookup
    <2>3. ASSUME Built \/ BuildFails
          PROVE  UNCHANGED world
        BY <2>3 DEF Built, BuildFails
    <2> QED
        BY <2>1, <2>2, <2>3 DEF BuildStep
<1>5. Holding' = Holding /\ active' = active /\ reported' = reported /\ off' = off
    BY <1>4, HoldingOfWorld DEF world
<1>5a. Holding \subseteq Sound /\ Sound' = Sound
    BY <1>5 DEF Sound
<1>6. ASSUME build'.out \subseteq Sound, build'.pc # "none",
             \A e, f \in build'.ep : e = f,
             \A e \in build'.ep :
                /\ build'.pc \in {"reported", "lookup"} => build'.expected = active[e]
                /\ build'.pc = "lookup" =>
                      build'.look \subseteq reported[e] \ active[e] /\ build'.off = off[e]
      PROVE  BuildInv'
    BY <1>5, <1>6, <1>5a DEF BuildInv
<1>7. ASSUME build' = NoBuild
      PROVE  BuildInv'
    BY <1>7 DEF BuildInv, NoBuild
<1>8. ASSUME NEW e \in Endpoints, ReadReport(e)
      PROVE  BuildInv'
    <2> DEFINE A == Some(e, "stale", {d \in {e} : last[d] = "stale"})
    <2>1. build' = [build EXCEPT !.pc = "expected", !.todo = build.todo \ {e}, !.ep = {e},
                      !.out = build.out \cup A]
        BY <1>8 DEF ReadReport
    <2>2. A \subseteq Holding
        <3> SUFFICES ASSUME NEW a \in A
                     PROVE  a \in Holding
            OBVIOUS
        <3>1. {d \in {e} : last[d] = "stale"} # {} /\ a = <<e, "stale">> /\ "stale" \in Types
            BY SomeAlert
        <3>2. last[e] = "stale"
            BY <3>1
        <3> QED
            BY <3>1, <3>2, Holds
    <2> HIDE DEF A
    <2>3. /\ build'.pc = "expected" /\ build'.ep = {e} /\ build'.out = build.out \cup A
        BY <2>1, <1>1 DEF Build
    <2> QED
        BY <1>3, <1>6, <1>5a, <2>2, <2>3
<1>9. ASSUME NEW e \in Endpoints, ReadExpected(e)
      PROVE  BuildInv'
    <2>1. build' = [build EXCEPT !.pc = "reported", !.expected = active[e]] /\ e \in build.ep
        BY <1>9 DEF ReadExpected
    <2>2. /\ build'.pc = "reported" /\ build'.ep = build.ep /\ build'.out = build.out
          /\ build'.expected = active[e]
        BY <2>1, <1>1 DEF Build
    <2>3. \A f \in build'.ep : f = e
        BY <1>3, <2>1, <2>2
    <2> QED
        BY <1>3, <1>6, <2>2, <2>3
<1>10. ASSUME NEW e \in Endpoints, ReadReported(e)
       PROVE  BuildInv'
    <2> DEFINE A == Some(e, "missing", build.expected \ reported[e])
               B == Some(e, "mismatch", build.expected \cap off[e])
    <2>1. /\ build' = [build EXCEPT !.pc = "lookup", !.reported = reported[e], !.off = off[e],
                         !.look = reported[e] \ build.expected,
                         !.out = build.out \cup A \cup B]
          /\ e \in build.ep /\ build.pc = "reported"
        BY <1>10 DEF ReadReported
    <2>2. build.expected = active[e] /\ active[e] \subseteq known
        BY <2>1, <1>2 DEF TablesInv
    <2>3. A \subseteq Holding
        <3> SUFFICES ASSUME NEW a \in A
                     PROVE  a \in Holding
            OBVIOUS
        <3>1. build.expected \ reported[e] # {} /\ a = <<e, "missing">> /\ "missing" \in Types
            BY SomeAlert
        <3>2. active[e] \ reported[e] # {}
            BY <2>2, <3>1
        <3> QED
            BY <3>1, <3>2, Holds
    <2>4. B \subseteq Holding
        <3> SUFFICES ASSUME NEW a \in B
                     PROVE  a \in Holding
            OBVIOUS
        <3>1. build.expected \cap off[e] # {} /\ a = <<e, "mismatch">> /\ "mismatch" \in Types
            BY SomeAlert
        <3>2. off[e] \cap known # {}
            BY <2>2, <3>1
        <3> QED
            BY <3>1, <3>2, Holds
    <2> HIDE DEF A, B
    <2>5. /\ build'.pc = "lookup" /\ build'.ep = build.ep /\ build'.out = build.out \cup A \cup B
          /\ build'.expected = build.expected /\ build'.off = off[e]
          /\ build'.look = reported[e] \ build.expected
        BY <2>1, <1>1 DEF Build
    <2>6. \A f \in build'.ep : f = e
        BY <1>3, <2>1, <2>5
    <2> QED
        BY <1>3, <1>6, <1>5a, <2>2, <2>3, <2>4, <2>5, <2>6
<1>11. ASSUME NEW e \in Endpoints, NEW k \in Keys, NEW found \in BOOLEAN, Lookup(e, k, found)
       PROVE  BuildInv'
    <2> DEFINE t == IF found THEN "unlinked" ELSE "unexpected"
               A == Some(e, t, {k})
               B == Some(e, "mismatch", {j \in {k} : found /\ j \in build.off})
    <2>1. /\ build' = [build EXCEPT !.look = build.look \ {k}, !.out = build.out \cup A \cup B]
          /\ build.pc = "lookup" /\ e \in build.ep /\ k \in build.look
          /\ found => k \in known
          /\ ~found => k \notin known \/ LookupFails
        BY <1>11 DEF Lookup
    <2>2. k \in reported[e] /\ k \notin active[e] /\ build.off = off[e]
        BY <1>2, <2>1
    <2>3. A \subseteq Sound
        <3> SUFFICES ASSUME NEW a \in A
                     PROVE  a \in Sound
            OBVIOUS
        <3>1. a = <<e, t>> /\ t \in Types /\ a \in Alert
            BY SomeAlert DEF Alert
        <3>2. CASE found
            <4>1. (reported[e] \cap known) \ active[e] # {} /\ t = "unlinked"
                BY <2>1, <2>2, <3>2
            <4> QED
                BY <1>5a, <3>1, <4>1, Holds
        <3>3. CASE ~found /\ k \notin known
            <4>1. reported[e] \ known # {} /\ t = "unexpected"
                BY <2>1, <2>2, <3>3
            <4> QED
                BY <1>5a, <3>1, <4>1, Holds
        <3>4. CASE ~found /\ LookupFails
            <4>1. a[2] = "unexpected" /\ "unexpected" \notin Aged
                BY <3>1, <3>4
            <4> QED
                BY <3>1, <4>1 DEF Sound
        <3> QED
            BY <2>1, <3>2, <3>3, <3>4
    <2>4. B \subseteq Holding
        <3> SUFFICES ASSUME NEW a \in B
                     PROVE  a \in Holding
            OBVIOUS
        <3>1. /\ {j \in {k} : found /\ j \in build.off} # {}
              /\ a = <<e, "mismatch">> /\ "mismatch" \in Types
            BY SomeAlert
        <3>2. k \in off[e] /\ k \in known
            BY <2>1, <2>2, <3>1
        <3> QED
            BY <3>1, <3>2, Holds
    <2> HIDE DEF A, B
    <2>5. /\ build'.pc = "lookup" /\ build'.ep = build.ep /\ build'.out = build.out \cup A \cup B
          /\ build'.expected = build.expected /\ build'.off = build.off
          /\ build'.look \subseteq build.look
        BY <2>1, <1>1 DEF Build
    <2> QED
        BY <1>2, <1>3, <1>6, <1>5a, <2>1, <2>3, <2>4, <2>5
<1>12. ASSUME Built
       PROVE  BuildInv'
    <2>1. CASE build.todo # {}
        <3>1. build' = [build EXCEPT !.pc = "next", !.ep = {}, !.expected = {},
                                     !.reported = {}, !.off = {}]
            BY <1>12, <2>1 DEF Built
        <3>2. build'.pc = "next" /\ build'.ep = {} /\ build'.out = build.out
            BY <3>1, <1>1 DEF Build
        <3> QED
            BY <1>3, <1>6, <3>2
    <2>2. CASE build.todo = {}
        BY <1>7, <1>12, <2>2 DEF Built
    <2> QED
        BY <2>1, <2>2
<1>13. ASSUME BuildFails
       PROVE  BuildInv'
    BY <1>7, <1>13 DEF BuildFails
<1> QED
    BY <1>8, <1>9, <1>10, <1>11, <1>12, <1>13 DEF BuildStep

(* A build that begins has put out nothing.                                *)
LEMMA BuildStarts ==
    ASSUME NEW by, Start(by)
    PROVE  BuildInv'
<1>1. build'.pc = "next" /\ build'.ep = {} /\ build'.out = {}
    BY DEF Start, NoBuild
<1> QED
    BY <1>1 DEF BuildInv

(* Neither tables nor build change: the build's copies still agree.        *)
LEMMA BuildKept ==
    ASSUME BuildInv, UNCHANGED build, UNCHANGED world
    PROVE  BuildInv'
<1>1. Holding' = Holding
    BY HoldingOfWorld
<1> QED
    BY <1>1 DEF BuildInv, Sound, world

(* Neither cache nor ages change.                                          *)
LEMMA CacheKept ==
    ASSUME CacheInv, UNCHANGED cache, UNCHANGED ago
    PROVE  CacheInv'
BY DEF CacheInv, Valid

(* What a build put out held 0 seconds ago.                                *)
LEMMA SoundAges ==
    ASSUME TypeOK, TablesInv, BuildInv, NEW a \in build.out, a \in DOMAIN ago
    PROVE  ago[a] = 0
<1>1. a[2] \in Aged
    BY DEF TypeOK
<1>2. a \in Holding
    BY <1>1 DEF BuildInv, Sound
<1> QED
    BY <1>2 DEF TablesInv

(* The result of a build is cached: all of it holds now.                   *)
LEMMA CacheBuilt ==
    ASSUME TypeOK, TablesInv, BuildInv, CacheInv, BuildStep
    PROVE  CacheInv' /\ UNCHANGED ago /\ UNCHANGED world
<1>1. ASSUME NEW e \in Endpoints, ReadReport(e) \/ ReadExpected(e) \/ ReadReported(e)
      PROVE  UNCHANGED cache /\ UNCHANGED ago /\ UNCHANGED world
    BY <1>1 DEF ReadReport, ReadExpected, ReadReported
<1>2. ASSUME NEW e \in Endpoints, NEW k \in Keys, NEW found \in BOOLEAN, Lookup(e, k, found)
      PROVE  UNCHANGED cache /\ UNCHANGED ago /\ UNCHANGED world
    BY <1>2 DEF Lookup
<1>3. ASSUME BuildFails
      PROVE  UNCHANGED cache /\ UNCHANGED ago /\ UNCHANGED world
    BY <1>3 DEF BuildFails
<1>4. ASSUME Built
      PROVE  CacheInv' /\ UNCHANGED ago /\ UNCHANGED world
    <2>1. UNCHANGED ago /\ UNCHANGED world
        BY <1>4 DEF Built
    <2>2. CASE build.todo # {}
        BY <1>4, <2>1, <2>2, CacheKept DEF Built
    <2>3. CASE build.todo = {}
        <3>1. cache'.alerts = build.out /\ cache'.age = 0
            BY <1>4, <2>3 DEF Built
        <3>2. \A a \in cache'.alerts : a \in DOMAIN ago' => ago'[a] = 0
            BY <2>1, <3>1, SoundAges
        <3> QED
            BY <2>1, <3>1, <3>2 DEF CacheInv, Valid
    <2> QED
        BY <2>1, <2>2, <2>3
<1> QED
    BY <1>1, <1>2, <1>3, <1>4, CacheKept DEF BuildStep

(* A second passes: the cache ages as fast as its alerts.                  *)
LEMMA Ages ==
    ASSUME TypeOK, TablesInv, CacheInv, Tick
    PROVE  TablesInv' /\ CacheInv'
<1>1. /\ cache' = [cache EXCEPT !.age = Later(cache.age, TTL)]
      /\ ago' = [a \in DOMAIN ago |-> IF a \in Holding THEN 0 ELSE Later(ago[a], TTL + 1)]
      /\ UNCHANGED world
    BY DEF Tick
<1>2. /\ cache \in [alerts : SUBSET Alert, age : 0..TTL] /\ TTL \in Nat
      /\ ago \in [Endpoints \X Aged -> 0..TTL + 1]
    BY AlertsAssumption DEF TypeOK
<1>3. cache'.alerts = cache.alerts /\ cache'.age = Later(cache.age, TTL) /\ cache.age \in 0..TTL
    BY <1>1, <1>2
<1>4. Holding' = Holding
    BY <1>1, HoldingOfWorld
<1>5. TablesInv'
    BY <1>1, <1>4 DEF TablesInv, world
<1>6. ASSUME cache'.age < TTL, NEW a \in cache'.alerts, a \in DOMAIN ago'
      PROVE  ago'[a] <= cache'.age
    <2>1. cache.age < TTL /\ cache'.age = cache.age + 1
        BY <1>2, <1>3, <1>6, LaterBounds
    <2>2. a \in DOMAIN ago /\ ago[a] <= cache.age
        BY <1>1, <1>3, <1>6, <2>1 DEF CacheInv, Valid
    <2>3. ago[a] \in 0..TTL + 1
        BY <1>2, <2>2
    <2>4. Later(ago[a], TTL + 1) \in 0..TTL + 1 /\ Later(ago[a], TTL + 1) <= ago[a] + 1
        <3>1. TTL + 1 \in Nat
            BY <1>2
        <3> QED
            BY <2>3, <3>1, LaterBounds
    <2>5. ago'[a] = 0 \/ ago'[a] = Later(ago[a], TTL + 1)
        BY <1>1, <2>2
    <2> QED
        BY <1>2, <1>3, <2>1, <2>2, <2>3, <2>4, <2>5
<1>7. CacheInv'
    BY <1>6 DEF CacheInv, Valid
<1> QED
    BY <1>5, <1>7

(* Every step keeps the invariant.                                         *)
LEMMA AlertInvInductive ==
    ASSUME ~Torn, LookupFails => "unexpected" \notin Aged
    PROVE  /\ Init => AlertInv
           /\ AlertInv /\ [Next]_vars => AlertInv'
<1>1. ASSUME Init
      PROVE  AlertInv
    <2>1. Holding = {}
        <3>1. \A e \in Endpoints : /\ last[e] = "never" /\ active[e] = {}
                                   /\ reported[e] = {} /\ off[e] = {}
            BY <1>1 DEF Init
        <3>2. \A a \in Alert : a[1] \in Endpoints
            BY DEF Alert
        <3> QED
            BY <3>1, <3>2 DEF Holding, Wrong
    <2>2. TablesInv
        BY <1>1, <2>1 DEF Init, TablesInv
    <2>3. BuildInv
        BY <1>1, <2>1 DEF Init, BuildInv, NoBuild
    <2>4. CacheInv
        BY <1>1 DEF Init, CacheInv, Valid, NoCache
    <2> QED
        BY <1>1, <2>2, <2>3, <2>4, TypesInductive DEF AlertInv
<1>2. ASSUME AlertInv, [Next]_vars
      PROVE  TablesInv' /\ BuildInv' /\ CacheInv'
    <2>1. TypeOK /\ TablesInv /\ BuildInv /\ CacheInv
        BY <1>2 DEF AlertInv
    <2>2. active \in [Endpoints -> SUBSET Keys] /\ \A e \in Endpoints : active[e] \subseteq known
        BY <2>1 DEF TypeOK, TablesInv
    <2>3. ASSUME Changes, \A e \in Endpoints : active'[e] \subseteq known'
          PROVE  TablesInv' /\ BuildInv' /\ CacheInv'
        BY <2>1, <2>3, WriteOutsideBuild
    <2>4. ASSUME NEW e \in Endpoints, NEW R \in SUBSET Keys, NEW O \in SUBSET Keys, Report(e, R, O)
          PROVE  TablesInv' /\ BuildInv' /\ CacheInv'
        BY <2>2, <2>3, <2>4 DEF Report
    <2>5. ASSUME NEW e \in Endpoints, Silence(e)
          PROVE  TablesInv' /\ BuildInv' /\ CacheInv'
        BY <2>2, <2>3, <2>5 DEF Silence
    <2>6. ASSUME NEW k \in Keys, Register(k)
          PROVE  TablesInv' /\ BuildInv' /\ CacheInv'
        BY <2>2, <2>3, <2>6 DEF Register
    <2>7. ASSUME NEW k \in Keys, NEW e \in Endpoints, Activate(k, e)
          PROVE  TablesInv' /\ BuildInv' /\ CacheInv'
        <3>1. \A f \in Endpoints : active'[f] \subseteq active[f] \cup {k}
            BY <2>2, <2>7 DEF Activate
        <3>2. k \in known /\ known' = known /\ Changes
            BY <2>7 DEF Activate
        <3>3. \A f \in Endpoints : active'[f] \subseteq known'
            BY <2>2, <3>1, <3>2
        <3> QED
            BY <2>3, <3>2, <3>3
    <2>8. ASSUME UNCHANGED world, UNCHANGED ago, UNCHANGED cache, BuildInv'
          PROVE  TablesInv' /\ BuildInv' /\ CacheInv'
        BY <2>1, <2>8, TablesKept, CacheKept
    <2>9. CASE BuildStep
        BY <2>1, <2>9, BuildStepOutput, CacheBuilt, TablesKept
    <2>10. CASE AlertStep
        <3>1. UNCHANGED world /\ UNCHANGED ago /\ UNCHANGED cache
            <4>1. ASSUME Evaluate \/ Ask \/ Resolve \/ Rest
                  PROVE  UNCHANGED world /\ UNCHANGED ago /\ UNCHANGED cache
                BY <4>1 DEF Evaluate, Ask, Resolve, Rest
            <4>2. ASSUME NEW a \in Alert, PostFiring(a) \/ PostResolved(a)
                  PROVE  UNCHANGED world /\ UNCHANGED ago /\ UNCHANGED cache
                BY <4>2 DEF PostFiring, PostResolved
            <4> QED
                BY <2>10, <4>1, <4>2 DEF AlertStep
        <3>2. Start("alerts") \/ UNCHANGED build
            <4>1. ASSUME Evaluate \/ Ask \/ Resolve \/ Rest
                  PROVE  Start("alerts") \/ UNCHANGED build
                BY <4>1 DEF Evaluate, Ask, Resolve, Rest
            <4>2. ASSUME NEW a \in Alert, PostFiring(a) \/ PostResolved(a)
                  PROVE  UNCHANGED build
                BY <4>2 DEF PostFiring, PostResolved
            <4> QED
                BY <2>10, <4>1, <4>2 DEF AlertStep
        <3> QED
            BY <2>1, <2>8, <3>1, <3>2, BuildStarts, BuildKept
    <2>11. CASE ServePage
        BY <2>1, <2>8, <2>11, BuildStarts DEF ServePage
    <2>12. CASE Tick
        <3>1. UNCHANGED build /\ UNCHANGED world
            BY <2>12 DEF Tick
        <3> QED
            BY <2>1, <2>12, <3>1, Ages, BuildKept
    <2>13. CASE Crash
        <3>1. UNCHANGED world /\ UNCHANGED ago /\ build' = NoBuild /\ cache' = NoCache
            BY <2>13 DEF Crash
        <3>2. BuildInv'
            BY <3>1 DEF BuildInv, NoBuild
        <3>3. CacheInv'
            BY <3>1, AlertsAssumption DEF CacheInv, Valid, NoCache
        <3> QED
            BY <2>1, <3>1, <3>2, <3>3, TablesKept
    <2>14. CASE UNCHANGED vars
        <3>1. UNCHANGED world /\ UNCHANGED ago /\ UNCHANGED cache /\ UNCHANGED build
            BY <2>14 DEF vars, world
        <3> QED
            BY <2>1, <2>8, <3>1, BuildKept
    <2> QED
        BY <1>2, <2>4, <2>5, <2>6, <2>7, <2>9, <2>10, <2>11, <2>12, <2>13, <2>14 DEF Next
<1> QED
    BY <1>1, <1>2, TypesInductive DEF AlertInv

(* An evaluation obtains the cache's alerts, or those of its own build.    *)
LEMMA EvaluationObtains ==
    ASSUME TypeOK, [Next]_vars, eval.pc = "want", eval'.pc = "post"
    PROVE  \/ Valid /\ eval'.current = cache.alerts
           \/ eval'.current = build.out /\ build.pc = "lookup"
<1>1. ASSUME UNCHANGED eval
      PROVE  FALSE
    BY <1>1
<1>2. ASSUME NEW e \in Endpoints
      PROVE  /\ ReadReport(e) \/ ReadExpected(e) \/ ReadReported(e) \/ Silence(e) => UNCHANGED eval
             /\ \A k \in Keys, found \in BOOLEAN : Lookup(e, k, found) => UNCHANGED eval
             /\ \A R, O \in SUBSET Keys : Report(e, R, O) => UNCHANGED eval
             /\ \A k \in Keys : Activate(k, e) => UNCHANGED eval
    <2>1. ReadReport(e) \/ ReadExpected(e) \/ ReadReported(e) \/ Silence(e) => UNCHANGED eval
        BY DEF ReadReport, ReadExpected, ReadReported, Silence, Changes
    <2>2. \A k \in Keys, found \in BOOLEAN : Lookup(e, k, found) => UNCHANGED eval
        BY DEF Lookup
    <2>3. \A R, O \in SUBSET Keys : Report(e, R, O) => UNCHANGED eval
        BY DEF Report, Changes
    <2>4. \A k \in Keys : Activate(k, e) => UNCHANGED eval
        BY DEF Activate, Changes
    <2> QED
        BY <2>1, <2>2, <2>3, <2>4
<1>3. \A k \in Keys : Register(k) => UNCHANGED eval
    BY DEF Register, Changes
<1>4. ASSUME BuildStep
      PROVE  eval'.current = build.out /\ build.pc = "lookup"
    <2>1. ASSUME Built
          PROVE  eval'.current = build.out /\ build.pc = "lookup"
        <3>1. eval' = Obtained(build.out) /\ build.pc = "lookup"
            BY <1>1, <2>1 DEF Built
        <3> QED
            BY <3>1 DEF Obtained
    <2>2. ASSUME BuildFails
          PROVE  FALSE
        <3>1. eval' = Idle
            BY <1>1, <2>2 DEF BuildFails
        <3> QED
            BY <3>1 DEF Idle
    <2> QED
        BY <1>1, <1>2, <1>4, <2>1, <2>2 DEF BuildStep
<1>5. ASSUME AlertStep
      PROVE  Valid /\ eval'.current = cache.alerts
    <2>1. ASSUME Ask
          PROVE  Valid /\ eval'.current = cache.alerts
        <3>1. Valid /\ eval' = Obtained(cache.alerts)
            BY <1>1, <2>1 DEF Ask
        <3> QED
            BY <3>1 DEF Obtained
    <2>2. ~Evaluate /\ ~Resolve /\ ~Rest
        BY DEF Evaluate, Resolve, Rest
    <2>3. ASSUME NEW a \in Alert
          PROVE  ~PostFiring(a) /\ ~PostResolved(a)
        BY DEF PostFiring, PostResolved
    <2> QED
        BY <1>5, <2>1, <2>2, <2>3 DEF AlertStep
<1>6. ServePage \/ Tick => UNCHANGED eval
    BY DEF ServePage, Tick
<1>7. ASSUME Crash
      PROVE  FALSE
    BY <1>7 DEF Crash, Idle
<1>8. UNCHANGED vars => UNCHANGED eval
    BY DEF vars
<1> QED
    BY <1>1, <1>2, <1>3, <1>4, <1>5, <1>6, <1>7, <1>8 DEF Next

(* An evaluation acts on no alert that ceased longer ago than a status may *)
(* be kept, whoever built the status it comes from (status, evalAlerts,    *)
(* statusCacheTTL), when the tables are not written during a build; except *)
(* that a lookup that fails can make an "unexpected" alert out of nothing. *)
THEOREM RecentTruth ==
    ASSUME ~Torn, LookupFails => "unexpected" \notin Aged
    PROVE  Spec => EvaluatesRecentTruth
<1> DEFINE Recent == eval.pc = "want" /\ eval'.pc = "post" =>
                         \A a \in eval'.current \cap DOMAIN ago : ago[a] <= TTL
<1>1. /\ Init => AlertInv
      /\ AlertInv /\ [Next]_vars => AlertInv'
    BY AlertInvInductive
<1>2. AlertInv /\ [Next]_vars => [Recent]_vars
    <2> SUFFICES ASSUME AlertInv, [Next]_vars, eval.pc = "want", eval'.pc = "post",
                        NEW a \in eval'.current, a \in DOMAIN ago
                 PROVE  ago[a] <= TTL
        OBVIOUS
    <2>1. /\ TTL \in Nat /\ ago \in [Endpoints \X Aged -> 0..TTL + 1]
          /\ cache \in [alerts : SUBSET Alert, age : 0..TTL]
        BY AlertsAssumption DEF AlertInv, TypeOK
    <2>2. ago[a] \in Nat /\ cache.age \in Nat
        BY <2>1
    <2>3. \/ Valid /\ eval'.current = cache.alerts
          \/ eval'.current = build.out /\ build.pc = "lookup"
        BY EvaluationObtains DEF AlertInv
    <2>4. CASE Valid /\ eval'.current = cache.alerts
        <3>1. ago[a] <= cache.age /\ cache.age < TTL
            BY <2>4 DEF AlertInv, CacheInv, Valid
        <3> QED
            BY <2>1, <2>2, <3>1
    <2>5. CASE eval'.current = build.out
        <3>1. ago[a] = 0
            BY <2>5, SoundAges DEF AlertInv
        <3> QED
            BY <2>1, <3>1
    <2> QED
        BY <2>3, <2>4, <2>5
<1> HIDE DEF Recent
<1>3. Spec => [][Recent]_vars
    BY <1>1, <1>2, PTL DEF Spec
<1> QED
    BY <1>3 DEF Recent, EvaluatesRecentTruth

-----------------------------------------------------------------------------
(* The receiver's belief.                                                  *)

(* A post that is heard keeps receiver and map together; one that is not   *)
(* excepts its alert.                                                      *)
LEMMA PostMatches ==
    ASSUME PagerMatchesMap, NEW a,
           \/ Post(a, pager \cup {a}) /\ firing' = firing \cup {a}
           \/ Post(a, pager \ {a}) /\ firing' = firing \ {a}
    PROVE  PagerMatchesMap'
<1>1. \A b : b # a => (b \in pager' <=> b \in pager) /\ (b \in firing' <=> b \in firing)
                     /\ (b \in missed' <=> b \in missed)
    BY DEF Post
<1>2. a \in missed' \/ (a \in pager' <=> a \in firing')
    BY DEF Post
<1>3. \A b : b \in missed \/ (b \in pager <=> b \in firing)
    BY DEF PagerMatchesMap
<1>4. \A b : b \in missed' \/ (b \in pager' <=> b \in firing')
    BY <1>1, <1>2, <1>3
<1> QED
    BY <1>4 DEF PagerMatchesMap

(* What the receiver believes is what the map says, except for alerts      *)
(* whose last transition it never heard of: whatever is written during a   *)
(* build, whatever queries or posts fail, however often the process dies.  *)
THEOREM ReceiverInStep == Spec => []PagerMatchesMap
<1>1. Init => PagerMatchesMap
    BY DEF Init, PagerMatchesMap
<1>2. PagerMatchesMap /\ [Next]_vars => PagerMatchesMap'
    <2> SUFFICES ASSUME PagerMatchesMap, [Next]_vars
                 PROVE  PagerMatchesMap'
        OBVIOUS
    <2>1. ASSUME UNCHANGED <<firing, pager, missed>>
          PROVE  PagerMatchesMap'
        BY <2>1 DEF PagerMatchesMap
    <2>2. ASSUME NEW e \in Endpoints,
                 \/ Silence(e)
                 \/ \E R, O \in SUBSET Keys : Report(e, R, O)
                 \/ \E k \in Keys : Activate(k, e)
          PROVE  PagerMatchesMap'
        BY <2>1, <2>2 DEF Silence, Report, Activate, Changes
    <2>3. ASSUME NEW k \in Keys, Register(k)
          PROVE  PagerMatchesMap'
        BY <2>1, <2>3 DEF Register, Changes
    <2>4. CASE BuildStep
        <3>1. ASSUME NEW e \in Endpoints, ReadReport(e) \/ ReadExpected(e) \/ ReadReported(e)
              PROVE  PagerMatchesMap'
            BY <2>1, <3>1 DEF ReadReport, ReadExpected, ReadReported
        <3>2. ASSUME NEW e \in Endpoints, NEW k \in Keys, NEW found \in BOOLEAN, Lookup(e, k, found)
              PROVE  PagerMatchesMap'
            BY <2>1, <3>2 DEF Lookup
        <3>3. ASSUME Built \/ BuildFails
              PROVE  PagerMatchesMap'
            BY <2>1, <3>3 DEF Built, BuildFails
        <3> QED
            BY <2>4, <3>1, <3>2, <3>3 DEF BuildStep
    <2>5. CASE AlertStep
        <3>1. ASSUME Evaluate \/ Ask \/ Resolve \/ Rest
              PROVE  PagerMatchesMap'
            BY <2>1, <3>1 DEF Evaluate, Ask, Resolve, Rest
        <3>2. ASSUME NEW a \in Alert, PostFiring(a)
              PROVE  PagerMatchesMap'
            BY <3>2, PostMatches DEF PostFiring
        <3>3. ASSUME NEW a \in Alert, PostResolved(a)
              PROVE  PagerMatchesMap'
            BY <3>3, PostMatches DEF PostResolved
        <3> QED
            BY <2>5, <3>1, <3>2, <3>3 DEF AlertStep
    <2>6. CASE ServePage \/ Tick
        BY <2>1, <2>6 DEF ServePage, Tick
    <2>7. CASE Crash
        <3>1. firing' = {} /\ missed' = missed \cup firing /\ pager' = pager
            BY <2>7 DEF Crash
        <3> QED
            BY <3>1 DEF PagerMatchesMap
    <2>8. CASE UNCHANGED vars
        BY <2>1, <2>8 DEF vars
    <2> QED
        BY <2>2, <2>3, <2>4, <2>5, <2>6, <2>7, <2>8 DEF Next
<1> QED
    BY <1>1, <1>2, PTL DEF Spec
=============================================================================
