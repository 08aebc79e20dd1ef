-------------------------- MODULE RoutingTableProofs --------------------------
(***************************************************************************)
(* Proofs about RoutingTable, for every address width, every split of it   *)
(* and every size of the tables.                                           *)
(***************************************************************************)
EXTENDS RoutingTable, TLAPS

(***************************************************************************)
(* Division and remainder by a positive number that is not a literal: what *)
(* the shifts and masks of routing_table.c amount to.  \div is a right     *)
(* shift, % a mask of the low bits.                                        *)
(***************************************************************************)
\* Division with remainder.
LEMMA DivMod ==
  ASSUME NEW a \in Nat, NEW d \in Nat \ {0}
  PROVE  /\ a = d * (a \div d) + (a % d)
         /\ a % d \in 0 .. d - 1
         /\ a \div d \in Nat
BY SMT

\* Multiplication by a natural number is monotone.
LEMMA MulMonotone ==
  ASSUME NEW a \in Int, NEW b \in Int, NEW d \in Nat, a <= b
  PROVE  d * a <= d * b
BY SMT

\* Quotient and remainder are unique.
LEMMA DivUnique ==
  ASSUME NEW a \in Nat, NEW d \in Nat \ {0}, NEW q \in Int, NEW r \in 0 .. d - 1,
         a = d * q + r
  PROVE  q = a \div d /\ r = a % d
<1>1. a = d * (a \div d) + (a % d) /\ a % d \in 0 .. d - 1 /\ a \div d \in Nat
  BY DivMod, Zenon
<1>2. q <= a \div d
  <2> SUFFICES ASSUME q >= (a \div d) + 1 PROVE FALSE
    BY <1>1
  <2>1. d * q >= d * ((a \div d) + 1)
    BY <1>1, MulMonotone
  <2>2. d * ((a \div d) + 1) = d * (a \div d) + d
    BY <1>1
  <2> QED BY <1>1, <2>1, <2>2
<1>3. q >= a \div d
  <2> SUFFICES ASSUME q + 1 <= a \div d PROVE FALSE
    BY <1>1
  <2>1. d * (q + 1) <= d * (a \div d)
    BY <1>1, MulMonotone
  <2>2. d * (q + 1) = d * q + d
    BY <1>1
  <2> QED BY <1>1, <2>1, <2>2
<1> QED BY <1>1, <1>2, <1>3

\* A multiple of d leaves no remainder.
LEMMA MultipleMod ==
  ASSUME NEW d \in Nat \ {0}, NEW q \in Nat
  PROVE  (d * q) % d = 0 /\ d * q \in Nat
<1> DEFINE m == d * q
<1>1. m = d * q + 0 /\ m \in Nat /\ 0 \in 0 .. d - 1
  <2>1. d * 0 <= d * q
    BY MulMonotone
  <2> QED BY <2>1
<1> HIDE DEF m
<1>2. m % d = 0
  BY <1>1, DivUnique
<1> QED BY <1>1, <1>2, Zenon DEF m

\* A digit below e on top of a remainder below d is a number below d * e.
LEMMA TwoDigits ==
  ASSUME NEW d \in Nat \ {0}, NEW e \in Nat \ {0},
         NEW t \in 0 .. e - 1, NEW r \in 0 .. d - 1
  PROVE  d * t + r \in 0 .. d * e - 1 /\ d * e \in Nat \ {0}
<1>1. d * t <= d * (e - 1)
  BY MulMonotone
<1>2. d * (e - 1) = d * e - d /\ d * e \in Int
  OBVIOUS
<1>3. d * 0 <= d * t /\ d * 0 = 0 /\ d * t \in Int
  BY MulMonotone
<1> QED BY <1>1, <1>2, <1>3

\* Two shifts in a row are one shift by the sum of their counts.
LEMMA DivDiv ==
  ASSUME NEW a \in Nat, NEW d \in Nat \ {0}, NEW e \in Nat \ {0}
  PROVE  (a \div d) \div e = a \div (d * e)
<1> DEFINE q == a \div d
           r == a % d
           s == q \div e
           t == q % e
<1>1. a = d * q + r /\ r \in 0 .. d - 1 /\ q \in Nat
  BY DivMod, Zenon
<1>2. q = e * s + t /\ t \in 0 .. e - 1 /\ s \in Nat
  BY <1>1, DivMod, Zenon
<1>3. d * t + r \in 0 .. d * e - 1 /\ d * e \in Nat \ {0}
  BY <1>1, <1>2, TwoDigits, Zenon
<1> HIDE DEF q, r, s, t
<1>4. d * (e * s + t) = (d * e) * s + d * t
  BY <1>1, <1>2
<1>5. a = (d * e) * s + (d * t + r)
  BY <1>1, <1>2, <1>4
<1>6. s = a \div (d * e)
  BY <1>2, <1>3, <1>5, DivUnique
<1> QED BY <1>6, Zenon DEF q, s

\* The numbers whose quotient by d is q form the interval of length d at d * q.
LEMMA QuotientInterval ==
  ASSUME NEW x \in Nat, NEW d \in Nat \ {0}, NEW q \in Nat
  PROVE  x \in d * q .. d * q + d - 1 <=> x \div d = q
<1>1. x = d * (x \div d) + (x % d) /\ x % d \in 0 .. d - 1
  BY DivMod, Zenon
<1>2. ASSUME x \in d * q .. d * q + d - 1 PROVE x \div d = q
  <2>1. x - d * q \in 0 .. d - 1 /\ x = d * q + (x - d * q)
    BY <1>2
  <2> QED BY <2>1, DivUnique
<1> QED BY <1>1, <1>2

\* The quotient of a number below d * e by d is below e.
LEMMA QuotientBound ==
  ASSUME NEW d \in Nat \ {0}, NEW e \in Nat \ {0}, NEW x \in 0 .. d * e - 1
  PROVE  x \div d \in 0 .. e - 1
<1>0. x \in Nat
  OBVIOUS
<1>1. x = d * (x \div d) + (x % d) /\ x % d \in 0 .. d - 1 /\ x \div d \in Nat
  BY <1>0, DivMod, Zenon
<1>2. SUFFICES ASSUME x \div d >= e PROVE FALSE
  BY <1>1
<1>3. d * (x \div d) >= d * e
  BY <1>1, <1>2, MulMonotone
<1> QED BY <1>1, <1>3

\* Two numbers have the same high part above d if they have the same part above
\* m, a multiple of d, and the same part between.
LEMMA QuotientSplit ==
  ASSUME NEW a \in Nat, NEW b \in Nat, NEW d \in Nat \ {0},
         NEW m \in Nat \ {0}, m % d = 0
  PROVE  a \div d = b \div d <=> a \div m = b \div m /\ (a % m) \div d = (b % m) \div d
<1> DEFINE e == m \div d
<1>0. e \in Nat \ {0} /\ m = d * e
  BY DivMod
<1> HIDE DEF e
<1>1. ASSUME NEW x \in Nat
      PROVE  /\ x \div m = (x \div d) \div e
             /\ (x % m) \div d = (x \div d) % e
  <2> DEFINE q == x \div d
             r == x % d
             s == q \div e
             t == q % e
  <2>1. x = d * q + r /\ r \in 0 .. d - 1 /\ q \in Nat
    BY DivMod, Zenon
  <2>2. q = e * s + t /\ t \in 0 .. e - 1 /\ s \in Nat
    BY <1>0, <2>1, DivMod, Zenon
  <2>3. d * t + r \in 0 .. d * e - 1
    BY <1>0, <2>1, <2>2, TwoDigits, ZenonT(40)
  <2> HIDE DEF q, r, s, t
  <2>4. d * (e * s + t) = (d * e) * s + d * t
    BY <1>0, <2>1, <2>2
  <2>5. x = (d * e) * s + (d * t + r)
    BY <1>0, <2>1, <2>2, <2>4
  <2>6. s = x \div m /\ d * t + r = x % m
    <3> DEFINE v == d * t + r
    <3>1. v \in 0 .. m - 1 /\ x = m * s + v /\ s \in Int
      BY <1>0, <2>2, <2>3, <2>5
    <3> HIDE DEF v
    <3>2. s = x \div m /\ v = x % m
      BY <3>1, DivUnique, Zenon
    <3> QED BY <3>2, Zenon DEF v
  <2>7. d * t + r \in Nat
    BY <2>3
  <2>8. t = (d * t + r) \div d
    BY <1>0, <2>1, <2>2, <2>7, DivUnique
  <2>9. s = (x \div d) \div e /\ t = (x \div d) % e
    BY Zenon DEF q, s, t
  <2> QED BY <2>6, <2>8, <2>9, Zenon
<1>2. a \div d \in Nat /\ b \div d \in Nat
  BY DivMod, Zenon
<1>3. /\ a \div d = e * ((a \div d) \div e) + ((a \div d) % e)
      /\ b \div d = e * ((b \div d) \div e) + ((b \div d) % e)
  BY <1>0, <1>2, DivMod, Zenon
<1>4. /\ a \div m = (a \div d) \div e
      /\ (a % m) \div d = (a \div d) % e
      /\ b \div m = (b \div d) \div e
      /\ (b % m) \div d = (b \div d) % e
  BY <1>1, Zenon
<1> QED BY <1>3, <1>4, Zenon
-----------------------------------------------------------------------------
(***************************************************************************)
(* Index arithmetic.                                                       *)
(***************************************************************************)
\* The powers the tables are sized by.
LEMMA Powers ==
  /\ 2^W \in Nat \ {0} /\ 2^P \in Nat \ {0} /\ 2^(W - P) \in Nat \ {0}
  /\ 2^W = 2^(W - P) * 2^P
  /\ \A p \in 0 .. P : /\ 2^(P - p) \in Nat \ {0} /\ 2^p \in Nat \ {0}
                       /\ 2^(W - p) \in Nat \ {0}
                       /\ 2^(W - p) = 2^(W - P) * 2^(P - p)
                       /\ 2^P = 2^(P - p) * 2^p
                       /\ 2^W = 2^(W - p) * 2^p
  /\ \A p \in P .. W : /\ 2^(W - p) \in Nat \ {0} /\ 2^(p - P) \in Nat \ {0}
                       /\ 2^(W - P) = 2^(W - p) * 2^(p - P)
<1> USE SizeAssumption
<1>1. \A m, n \in 0 .. W : /\ 2^m \in Nat \ {0}
                           /\ m + n <= W => 2^(m + n) = 2^m * 2^n
  BY PowerAssumption
<1>2. W \in 0 .. W /\ P \in 0 .. W /\ W - P \in 0 .. W /\ (W - P) + P = W
  OBVIOUS
<1>3. /\ 2^W \in Nat \ {0} /\ 2^P \in Nat \ {0} /\ 2^(W - P) \in Nat \ {0}
      /\ 2^((W - P) + P) = 2^(W - P) * 2^P
  BY <1>1, <1>2
<1>4. ASSUME NEW p \in 0 .. P
      PROVE  /\ 2^(P - p) \in Nat \ {0} /\ 2^p \in Nat \ {0}
             /\ 2^(W - p) \in Nat \ {0}
             /\ 2^(W - p) = 2^(W - P) * 2^(P - p)
             /\ 2^P = 2^(P - p) * 2^p
             /\ 2^W = 2^(W - p) * 2^p
  <2>1. /\ p \in 0 .. W /\ P - p \in 0 .. W /\ W - p \in 0 .. W
        /\ (W - P) + (P - p) = W - p /\ (P - p) + p = P /\ (W - p) + p = W
    OBVIOUS
  <2>2. /\ 2^((W - P) + (P - p)) = 2^(W - P) * 2^(P - p)
        /\ 2^((P - p) + p) = 2^(P - p) * 2^p
        /\ 2^((W - p) + p) = 2^(W - p) * 2^p
    BY <1>1, <1>2, <2>1
  <2> QED BY <1>1, <2>1, <2>2
<1>5. ASSUME NEW p \in P .. W
      PROVE  /\ 2^(W - p) \in Nat \ {0} /\ 2^(p - P) \in Nat \ {0}
             /\ 2^(W - P) = 2^(W - p) * 2^(p - P)
  <2>1. W - p \in 0 .. W /\ p - P \in 0 .. W /\ (W - p) + (p - P) = W - P
    OBVIOUS
  <2>2. 2^((W - p) + (p - P)) = 2^(W - p) * 2^(p - P)
    BY <1>1, <2>1
  <2> QED BY <1>1, <2>1, <2>2
<1> QED BY <1>2, <1>3, <1>4, <1>5

\* An address is an index of tbl24_table and a slot of a long table.
LEMMA AddrSplit ==
  ASSUME NEW a \in Addr
  PROVE  /\ a \in Nat
         /\ a \div 2^(W - P) \in Indexes
         /\ Low(a, W - P) \in Slots
<1>1. a \in 0 .. 2^(W - P) * 2^P - 1
  BY Powers DEF Addr
<1>2. a \in Nat
  BY Powers DEF Addr
<1> QED BY <1>1, <1>2, Powers, QuotientBound, DivMod, Zenon
        DEF Indexes, Slots, TBL24_TABLE_SIZE, TBLLONG_ENTRY_SIZE, Low

\* min_index and max_index for a route of 1 .. P bits.
LEMMA RangeOfPrefix ==
  ASSUME NEW ip \in Addr, NEW p \in 1 .. P
  PROVE  LET q   == ip \div 2^(W - p)
             min == Shl(Shr(ip, W - p), P - p)
         IN  /\ q \in 0 .. 2^p - 1
             /\ min = 2^(P - p) * q
             /\ Fill(min, P - p) = 2^(P - p) * q + 2^(P - p) - 1
             /\ Fill(min, P - p) <= 2^P - 1
<1> DEFINE q == ip \div 2^(W - p)
           e == 2^(P - p)
<1>0. p \in 0 .. P /\ W - p \in Nat /\ W - p < W /\ (W - p) % W = W - p
  BY SizeAssumption
<1>1. /\ e \in Nat \ {0} /\ 2^p \in Nat \ {0} /\ 2^(W - p) \in Nat \ {0}
      /\ 2^P = e * 2^p /\ 2^W = 2^(W - p) * 2^p
      /\ 2^W = 2^(W - P) * 2^P /\ 2^(W - P) \in Nat \ {0} /\ 2^P \in Nat \ {0}
  BY <1>0, Powers
<1>2. q \in 0 .. 2^p - 1
  BY <1>1, QuotientBound DEF Addr
<1> HIDE DEF q, e
<1>3. e * q + e <= 2^P
  <2>1. e * (q + 1) <= e * 2^p
    BY <1>1, <1>2, MulMonotone
  <2>2. e * (q + 1) = e * q + e
    BY <1>1, <1>2
  <2> QED BY <1>1, <2>1, <2>2
<1>4. 2^P <= 2^W
  <2>1. 2^P * 1 <= 2^P * 2^(W - P)
    BY <1>1, MulMonotone
  <2>2. 2^P * 2^(W - P) = 2^W
    BY <1>1
  <2> QED BY <1>1, <2>1, <2>2
<1>5. e * q \in Nat /\ e * q < 2^W
  <2>1. e * 0 <= e * q
    BY <1>1, <1>2, MulMonotone
  <2> QED BY <1>1, <1>2, <1>3, <1>4, <2>1
<1>6. (q * e) % 2^W = e * q
  <2>1. q * e = e * q
    BY <1>1, <1>2
  <2>2. e * q = 2^W * 0 + e * q /\ e * q \in 0 .. 2^W - 1
    BY <1>1, <1>5
  <2> QED BY <1>1, <1>5, <2>1, <2>2, DivUnique
<1>7. (e * q) % e = 0
  BY <1>1, <1>2, MultipleMod
<1>8. Shl(Shr(ip, W - p), P - p) = e * q
  BY <1>0, <1>6 DEF Shl, Shr, q, e
<1>9. Fill(e * q, P - p) = e * q + e - 1
  BY <1>1, <1>5, <1>7 DEF Fill, e
<1> QED BY <1>1, <1>2, <1>3, <1>5, <1>8, <1>9 DEF q, e

\* min_index and max_index for a /0 route: the shift by W is no shift, so the
\* low W - P bits of the address end up above the index.
LEMMA RangeOfDefault ==
  ASSUME NEW ip \in Addr
  PROVE  LET min == Shl(Shr(ip, W - 0), P - 0)
         IN  /\ min = 2^P * Low(ip, W - P)
             /\ Fill(min, P - 0) = 2^P * Low(ip, W - P) + 2^P - 1
<1> DEFINE c == ip \div 2^(W - P)
           r == ip % 2^(W - P)
           b == 2^(W - P)
           e == 2^P
           w == 2^W
<1>0. W % W = 0 /\ W - 0 = W /\ P - 0 = P /\ ip \div 1 = ip /\ ip \in Nat /\ 2^0 = 1
  BY SizeAssumption, PowerAssumption, Powers DEF Addr
<1>1. b \in Nat \ {0} /\ e \in Nat \ {0} /\ w \in Nat \ {0} /\ w = b * e
  BY Powers
<1>2. ip = b * c + r /\ r \in 0 .. b - 1 /\ c \in Nat
  BY <1>0, <1>1, DivMod, Zenon
<1> HIDE DEF b, c, r, e, w
<1>3. e * r + 0 \in 0 .. e * b - 1
  BY <1>1, <1>2, TwoDigits
<1>4. e * b = w /\ e * r \in Nat /\ e * r \in 0 .. w - 1
  BY <1>1, <1>2, <1>3
<1>5. ip * e = w * c + e * r
  <2>1. (b * c + r) * e = (b * e) * c + e * r
    BY <1>1, <1>2
  <2> QED BY <1>1, <1>2, <2>1
<1>6. (ip * e) % w = e * r
  <2> DEFINE v == ip * e
             u == e * r
  <2>1. v \in Nat /\ u \in 0 .. w - 1 /\ v = w * c + u /\ c \in Int
    <3>1. e * 0 <= e * ip
      BY <1>0, <1>1, MulMonotone
    <3> QED BY <1>0, <1>1, <1>2, <1>4, <1>5, <3>1
  <2> HIDE DEF v, u
  <2>2. u = v % w
    BY <1>1, <2>1, DivUnique, Zenon
  <2> QED BY <2>2 DEF v, u
<1>7. (e * r) % e = 0
  BY <1>1, <1>2, MultipleMod
<1>8. Shl(Shr(ip, W - 0), P - 0) = e * r
  BY <1>0, <1>6, Zenon DEF Shl, Shr, e, w
<1>9. Fill(e * r, P - 0) = e * r + e - 1
  BY <1>0, <1>1, <1>4, <1>7 DEF Fill, e
<1> QED BY <1>8, <1>9 DEF Low, r, e

\* A run of d numbers that ends by m lies in 0 .. m.
LEMMA RunWithin ==
  ASSUME NEW u \in Nat, NEW d \in Nat, NEW m \in Int, u + d - 1 <= m
  PROVE  u .. u + d - 1 \subseteq 0 .. m
OBVIOUS

\* A run that starts at or past d is not within 0 .. d - 1.
LEMMA RunBeyond ==
  ASSUME NEW d \in Nat \ {0}, NEW u \in Nat, d <= u
  PROVE  ~(u .. u + d - 1 \subseteq 0 .. d - 1)
<1>1. u \in u .. u + d - 1
  OBVIOUS
<1>2. u \notin 0 .. d - 1
  OBVIOUS
<1> QED BY <1>1, <1>2

\* For a route of at most P bits: the loop stays in tbl24_table exactly when a
\* /0 route has no bits below the index, and then visits the indexes whose
\* addresses the route covers.
LEMMA RangeCovers ==
  ASSUME NEW ip \in Addr, NEW p \in 0 .. P
  PROVE  LET min   == Shl(Shr(ip, W - p), P - p)
             range == min .. Fill(min, P - p)
         IN  /\ range \subseteq Indexes <=> (p = 0 => Low(ip, W - P) = 0)
             /\ range \subseteq Indexes =>
                  \A a \in Addr : a \div 2^(W - P) \in range
                                    <=> a \div 2^(W - p) = ip \div 2^(W - p)
<1> DEFINE min == Shl(Shr(ip, W - p), P - p)
           range == min .. Fill(min, P - p)
           q == ip \div 2^(W - p)
           e == 2^(P - p)
           b == 2^(W - P)
<1>0. /\ b \in Nat \ {0} /\ e \in Nat \ {0} /\ 2^P \in Nat \ {0} /\ 2^W \in Nat \ {0}
      /\ 2^(W - p) = b * e /\ 2^(W - p) \in Nat \ {0} /\ ip \in Nat
      /\ Indexes = 0 .. 2^P - 1
  BY Powers DEF Addr, Indexes, TBL24_TABLE_SIZE
<1>1. q \in Nat
  BY <1>0, DivMod, Zenon
<1> HIDE DEF b, e
<1>2. ASSUME NEW a \in Addr
      PROVE  a \div b \in Nat /\ (a \div b) \div e = a \div 2^(W - p)
  <2>1. a \in Nat
    BY AddrSplit
  <2>2. (a \div b) \div e = a \div (b * e)
    BY <1>0, <2>1, DivDiv, ZenonT(40)
  <2> QED BY <1>0, <2>1, <2>2, DivMod, Zenon
<1>3. CASE p # 0
  <2>1. p \in 1 .. P
    BY <1>3, SizeAssumption
  <2>2. /\ min = e * q /\ Fill(min, P - p) = e * q + e - 1
        /\ Fill(min, P - p) <= 2^P - 1
    BY <2>1, RangeOfPrefix DEF e
  <2>3. e * q \in Nat
    BY <1>0, <1>1, MultipleMod, ZenonT(40)
  <2> HIDE DEF min, q
  <2>4. range = e * q .. e * q + e - 1 /\ range \subseteq Indexes
    <3>1. range = e * q .. e * q + e - 1
      BY <2>2, Zenon
    <3>2. e \in Nat /\ 2^P - 1 \in Int
      BY ONLY <1>0
    <3>3. e * q + e - 1 <= 2^P - 1
      BY <2>2, Zenon
    <3>4. e * q .. e * q + e - 1 \subseteq 0 .. 2^P - 1
      BY <2>3, <3>2, <3>3, RunWithin, Zenon
    <3> QED BY <1>0, <3>1, <3>4, Zenon
  <2>5. ASSUME NEW a \in Addr
        PROVE  a \div b \in range <=> a \div 2^(W - p) = q
    <3> DEFINE x == a \div b
    <3>1. x \in Nat /\ x \div e = a \div 2^(W - p)
      BY <1>2
    <3> HIDE DEF x
    <3>2. x \in e * q .. e * q + e - 1 <=> x \div e = q
      BY <1>0, <1>1, <3>1, QuotientInterval, Zenon
    <3> QED BY <2>4, <3>1, <3>2, Zenon DEF x
  <2> QED BY <1>3, <2>4, <2>5 DEF min, q, b
<1>4. CASE p = 0
  <2> DEFINE r == Low(ip, W - P)
  <2>1. min = 2^P * r /\ Fill(min, P - p) = 2^P * r + 2^P - 1 /\ e = 2^P
    BY <1>4, RangeOfDefault, SizeAssumption DEF e
  <2>2. r \in Nat
    <3>1. ip % b \in 0 .. b - 1
      BY <1>0, DivMod, Zenon
    <3> QED BY <1>0, <3>1 DEF Low, b
  <2> HIDE DEF min, r
  <2>3. 2^P * r \in Nat
    BY <1>0, <2>2, MultipleMod
  <2>4. ASSUME r = 0 PROVE range = Indexes
    BY <1>0, <2>1, <2>4
  <2>5. ASSUME r # 0 PROVE ~(range \subseteq Indexes)
    <3>0. 1 <= r /\ r \in Int /\ 2^P \in Nat
      BY <1>0, <2>2, <2>5
    <3>1. 2^P * 1 <= 2^P * r
      BY <3>0, MulMonotone
    <3>2. 2^P <= 2^P * r
      BY ONLY <3>0, <3>1
    <3>3. ~(2^P * r .. 2^P * r + 2^P - 1 \subseteq 0 .. 2^P - 1)
      BY <1>0, <2>3, <3>2, RunBeyond, Zenon
    <3> QED BY <1>0, <2>1, <3>3, Zenon
  <2>6. ASSUME NEW a \in Addr PROVE a \div 2^(W - p) = 0
    <3>1. 2^(W - p) = 2^W
      BY <1>4, SizeAssumption
    <3>2. a = 2^W * 0 + a /\ a \in 0 .. 2^W - 1 /\ a \in Nat
      BY <1>0 DEF Addr
    <3> QED BY <1>0, <3>1, <3>2, DivUnique
  <2>7. ASSUME NEW a \in Addr PROVE a \div b \in Indexes
    BY AddrSplit DEF b
  <2> QED BY <1>4, <2>4, <2>5, <2>6, <2>7, Zenon DEF min, r, b
<1> QED BY <1>3, <1>4

\* For a route longer than P bits: the addresses it covers are the slots
\* min_i .. max_i of the long table of its block.
LEMMA SlotsCover ==
  ASSUME NEW ip \in Addr, NEW p \in P + 1 .. W
  PROVE  LET n   == W - p
             min == Clear(Low(ip, W - P), n)
         IN  /\ min .. Fill(min, n) \subseteq Slots
             /\ \A a \in Addr : a \div 2^n = ip \div 2^n <=>
                  /\ a \div 2^(W - P) = ip \div 2^(W - P)
                  /\ Low(a, W - P) \in min .. Fill(min, n)
<1> DEFINE n == W - p
           d == 2^n
           e == 2^(p - P)
           b == 2^(W - P)
           lo == ip % b
           q == lo \div d
           min == Clear(Low(ip, W - P), n)
<1>0. p \in P .. W
  BY SizeAssumption
<1>1. /\ d \in Nat \ {0} /\ e \in Nat \ {0} /\ b \in Nat \ {0} /\ b = d * e
      /\ Slots = 0 .. b - 1
  BY <1>0, Powers DEF Slots, TBLLONG_ENTRY_SIZE
<1>2. ip \in Nat /\ lo \in Nat /\ lo \in 0 .. d * e - 1
  BY <1>1, AddrSplit DEF Low
<1>3. lo = d * q + (lo % d) /\ lo % d \in 0 .. d - 1 /\ q \in Nat
  BY <1>1, <1>2, DivMod, Zenon
<1>4. q \in 0 .. e - 1
  BY <1>1, <1>2, QuotientBound, Zenon
<1>5. min = lo - (lo % d)
  BY DEF Clear, Low
<1> HIDE DEF d, e, b, q
<1>6. min = d * q /\ d * q \in Nat
  BY <1>1, <1>3, <1>5, MultipleMod
<1>7. Fill(min, n) = d * q + d - 1
  <2>1. (d * q) % d = 0
    BY <1>1, <1>3, MultipleMod, Zenon
  <2>2. min % d = 0
    BY <1>6, <2>1
  <2>3. Fill(min, n) = min - (min % d) + d - 1
    BY DEF Fill, d
  <2> QED BY <1>1, <1>6, <2>2, <2>3
<1>8. d * q + d - 1 <= b - 1
  <2>1. d * (q + 1) <= d * e
    BY <1>1, <1>4, MulMonotone
  <2>2. d * (q + 1) = d * q + d
    BY <1>1, <1>3
  <2> QED BY <1>1, <1>6, <2>1, <2>2
<1>9. min .. Fill(min, n) = d * q .. d * q + d - 1
  BY <1>6, <1>7
<1>10. min .. Fill(min, n) \subseteq Slots
  <2> DEFINE u == d * q
  <2>1. /\ u \in Nat /\ u + d - 1 <= b - 1 /\ d \in Nat /\ b \in Nat
        /\ min .. Fill(min, n) = u .. u + d - 1
    BY <1>1, <1>6, <1>8, <1>9
  <2> HIDE DEF u
  <2>2. u .. u + d - 1 \subseteq 0 .. b - 1
    <3>1. b - 1 \in Int
      BY <2>1
    <3> QED BY <2>1, <3>1, RunWithin, Zenon
  <2> QED BY <1>1, <2>1, <2>2, Zenon
<1>11. ASSUME NEW a \in Addr
       PROVE  a \div d = ip \div d <=>
                /\ a \div b = ip \div b
                /\ a % b \in min .. Fill(min, n)
  <2>1. a \in Nat /\ a % b \in Nat
    <3>1. a \in Nat
      BY AddrSplit
    <3>2. a % b \in 0 .. b - 1
      BY <1>1, <3>1, DivMod, Zenon
    <3> QED BY ONLY <1>1, <3>1, <3>2
  <2>2. a \div d = ip \div d <=> /\ a \div b = ip \div b
                                 /\ (a % b) \div d = lo \div d
    <3>1. b % d = 0
      BY <1>1, MultipleMod
    <3>2. a \in Nat /\ ip \in Nat /\ d \in Nat \ {0} /\ b \in Nat \ {0}
      BY <1>1, <1>2, <2>1
    <3> HIDE DEF min, n
    <3>3. \A x, y \in Nat, k, m \in Nat \ {0} : m % k = 0 =>
            (x \div k = y \div k <=> x \div m = y \div m /\ (x % m) \div k = (y % m) \div k)
      BY QuotientSplit, Zenon
    <3>4. \A k, m \in Nat \ {0} : m % k = 0 =>
            (a \div k = ip \div k <=> a \div m = ip \div m /\ (a % m) \div k = (ip % m) \div k)
      BY ONLY <3>2, <3>3, Zenon
    <3>5. a \div d = ip \div d <=> a \div b = ip \div b /\ (a % b) \div d = (ip % b) \div d
      BY ONLY <3>1, <3>2, <3>4, Zenon
    <3> QED BY <3>5
  <2>3. a % b \in d * q .. d * q + d - 1 <=> (a % b) \div d = q
    BY <1>1, <1>3, <2>1, QuotientInterval, Zenon
  <2> QED BY <1>9, <2>2, <2>3, Zenon DEF q
<1> QED BY <1>10, <1>11 DEF Low, d, b
-----------------------------------------------------------------------------
(***************************************************************************)
(* One iteration of build_routing_table.                                   *)
(***************************************************************************)
\* An entry holds INVALID_NH_ID exactly when it is short and so is its id.
LEMMA EntryShape ==
  ASSUME NEW e \in Tbl24Entry
  PROVE  /\ Val(e) = INVALID_NH_ID <=> ~e.is_long /\ e.next_id = INVALID_NH_ID
         /\ e.next_id \in Nat
<1>1. e.next_id \in 0 .. ID_LIMIT - 1 /\ e.is_long \in BOOLEAN
  BY DEF Tbl24Entry
<1>2. INVALID_NH_ID \in Nat /\ INVALID_NH_ID < ID_LIMIT /\ ID_LIMIT \in Nat
  BY SizeAssumption, FieldAssumption DEF INVALID_NH_ID
<1>3. CASE e.is_long
  BY <1>1, <1>2, <1>3 DEF Val
<1>4. CASE ~e.is_long
  BY <1>1, <1>2, <1>4 DEF Val
<1> QED BY <1>1, <1>3, <1>4

\* get_next_hop's test reduces to is_long.
LEMMA LookupShape ==
  ASSUME TypeOK, NEW a \in Addr
  PROVE  LookupId(a) = LET e == tbl24_table[a \div 2^(W - P)]
                       IN  IF e.is_long THEN tbllong_table[e.next_id][Low(a, W - P)]
                                        ELSE e.next_id
<1> DEFINE e == tbl24_table[a \div 2^(W - P)]
<1>1. e \in Tbl24Entry
  BY AddrSplit DEF TypeOK
<1>2. Val(e) = INVALID_NH_ID => ~e.is_long
  BY <1>1, EntryShape
<1> QED BY <1>2 DEF LookupId

\* What get_next_hop must resolve a to once route id has been written.
Resolved(id, a) ==
  IF Covers(id, a) /\ Replaces(id, LookupId(a)) THEN id ELSE LookupId(a)

\* Writing a route where it covers and replaces keeps the longest match.
LEMMA MatchStep ==
  ASSUME TypeOK, NEW a \in Addr, nh_id < INVALID_NH_ID,
         IsLongestMatch(LookupId(a), nh_id, a)
  PROVE  IsLongestMatch(Resolved(nh_id, a), nh_id + 1, a)
<1> DEFINE l == LookupId(a)
<1>1. /\ nh_id \in Nat /\ INVALID_NH_ID \in Nat /\ P \in Nat
      /\ \A i \in 0 .. nh_id : Prefix(i) \in Nat
  <2>1. nh_id \in Nat /\ INVALID_NH_ID \in Nat /\ \A i \in 0 .. nh_id : i \in NhIds
    BY SizeAssumption DEF TypeOK, NhIds, INVALID_NH_ID
  <2>2. \A i \in NhIds : Prefix(i) \in 0 .. W
    BY DEF TypeOK, NextHopInfo, Prefix
  <2> QED BY <2>1, <2>2, SizeAssumption
<1>2. /\ 0 .. (nh_id + 1) - 1 = 0 .. nh_id
      /\ \A i \in 0 .. nh_id : i = nh_id \/ i \in 0 .. nh_id - 1
      /\ \A i \in 0 .. nh_id - 1 : i \in 0 .. nh_id /\ i <= nh_id /\ i # INVALID_NH_ID
  BY <1>1
<1> HIDE DEF l
<1>3. CASE l = INVALID_NH_ID
  <2>1. \A i \in 0 .. nh_id - 1 : ~Covers(i, a)
    BY <1>2, <1>3 DEF IsLongestMatch, l
  <2>2. CASE Covers(nh_id, a)
    <3>1. Resolved(nh_id, a) = nh_id
      BY <1>3, <2>2 DEF Resolved, Replaces, l
    <3>2. Preferred(nh_id, nh_id)
      BY <1>1 DEF Preferred
    <3> QED BY <1>1, <1>2, <2>1, <2>2, <3>1, <3>2 DEF IsLongestMatch
  <2>3. CASE ~Covers(nh_id, a)
    <3>1. Resolved(nh_id, a) = INVALID_NH_ID
      BY <1>3, <2>3 DEF Resolved, l
    <3> QED BY <1>2, <2>1, <2>3, <3>1, Zenon DEF IsLongestMatch
  <2> QED BY <2>2, <2>3
<1>4. CASE l # INVALID_NH_ID
  <2>1. /\ l \in 0 .. nh_id - 1 /\ Covers(l, a)
        /\ \A i \in 0 .. nh_id - 1 : Covers(i, a) => Preferred(l, i)
    BY <1>4 DEF IsLongestMatch, l
  <2>2. l \in 0 .. nh_id /\ l <= nh_id
    BY <1>2, <2>1
  <2>3. CASE Covers(nh_id, a) /\ Prefix(l) <= Prefix(nh_id)
    <3>1. Resolved(nh_id, a) = nh_id
      BY <2>3 DEF Resolved, Replaces, l
    <3>2. ASSUME NEW i \in 0 .. nh_id, Covers(i, a) PROVE Preferred(nh_id, i)
      <4>1. CASE i = nh_id
        BY <1>1, <4>1 DEF Preferred
      <4>2. CASE i \in 0 .. nh_id - 1
        <5>1. Preferred(l, i) /\ i <= nh_id
          BY <1>2, <2>1, <3>2, <4>2
        <5>2. Prefix(i) \in Nat /\ Prefix(l) \in Nat /\ Prefix(nh_id) \in Nat
          BY <1>1, <2>2
        <5> QED BY <2>3, <5>1, <5>2 DEF Preferred
      <4> QED BY <1>2, <4>1, <4>2
    <3> QED BY <1>1, <1>2, <2>3, <3>1, <3>2 DEF IsLongestMatch
  <2>4. CASE ~(Covers(nh_id, a) /\ Prefix(l) <= Prefix(nh_id))
    <3>1. Resolved(nh_id, a) = l
      BY <1>4, <2>4 DEF Resolved, Replaces, l
    <3>2. ASSUME NEW i \in 0 .. nh_id, Covers(i, a) PROVE Preferred(l, i)
      <4>1. CASE i = nh_id
        <5>1. Prefix(nh_id) \in Nat /\ Prefix(l) \in Nat
          BY <1>1, <2>2
        <5> QED BY <2>4, <3>2, <4>1, <5>1 DEF Preferred
      <4>2. CASE i \in 0 .. nh_id - 1
        BY <2>1, <3>2, <4>2, ZenonT(40)
      <4> QED BY <1>2, <4>1, <4>2
    <3> QED BY <1>2, <2>1, <2>2, <3>1, <3>2, Zenon DEF IsLongestMatch
  <2> QED BY <2>3, <2>4
<1> QED BY <1>3, <1>4

\* The same after a step.
LEMMA LookupShapeNext ==
  ASSUME TypeOK', NEW a \in Addr
  PROVE  LookupId(a)' = LET e == tbl24_table'[a \div 2^(W - P)]
                        IN  IF e.is_long THEN tbllong_table'[e.next_id][Low(a, W - P)]
                                         ELSE e.next_id
<1> DEFINE e == tbl24_table'[a \div 2^(W - P)]
<1>1. e \in Tbl24Entry
  BY AddrSplit DEF TypeOK
<1>2. Val(e) = INVALID_NH_ID => ~e.is_long
  BY <1>1, EntryShape
<1> QED BY <1>2 DEF LookupId, Val

\* Facts about the route of an iteration that every case below uses.
LEMMA Iteration ==
  ASSUME IInv, pc = "building", nh_id < nh_id_to_info_idx
  PROVE  /\ Filled /\ nh_id \in Nat /\ nh_id < INVALID_NH_ID /\ nh_id + 1 \in 0 .. INVALID_NH_ID
         /\ nh_id \in NhIds /\ INVALID_NH_ID \in NhIds
         /\ nh_id \in 0 .. ID_LIMIT - 1 /\ nh_id # INVALID_NH_ID
         /\ nh_id_to_info[nh_id].in_use
         /\ IpAddr(nh_id) \in Addr /\ Prefix(nh_id) \in 0 .. W
         /\ \A i \in NhIds : Prefix(i) \in 0 .. W
<1>1. \A i \in NhIds : Prefix(i) \in 0 .. W /\ IpAddr(i) \in Addr
  BY DEF IInv, TypeOK, NextHopInfo, Prefix, IpAddr
<1>2. /\ nh_id \in Nat /\ nh_id < INVALID_NH_ID /\ INVALID_NH_ID \in Nat
      /\ nh_id_to_info_idx \in Nat
  BY SizeAssumption DEF IInv, TypeOK, INVALID_NH_ID
<1>3. nh_id \in NhIds /\ INVALID_NH_ID \in NhIds /\ nh_id \in 0 .. ID_LIMIT - 1
  BY <1>2, SizeAssumption, FieldAssumption DEF NhIds, INVALID_NH_ID
<1>4. nh_id_to_info[nh_id].in_use
  BY <1>2 DEF IInv, AddedInUse
<1> QED BY <1>1, <1>2, <1>3, <1>4 DEF Filled

\* Route id over a long table leaves ids in it.
LEMMA OverlayType ==
  ASSUME NEW id \in NhIds, NEW t \in [Slots -> NhIds], NEW S
  PROVE  /\ Overlay(id, t, S) \in [Slots -> NhIds]
         /\ \A i \in Slots : Overlay(id, t, S)[i] =
              IF i \in S /\ Replaces(id, t[i]) THEN id ELSE t[i]
BY DEF Overlay

\* A route of at most P bits keeps the types.
LEMMA LteType ==
  ASSUME IInv, pc = "building", nh_id < nh_id_to_info_idx,
         build_route_lte_24, UNCHANGED <<nh_id_to_info, nh_id_to_info_idx, builds>>
  PROVE  TypeOK'
<1> DEFINE range == MinIndex(nh_id) .. MaxIndex(nh_id)
<1>1. nh_id \in NhIds /\ nh_id \in 0 .. ID_LIMIT - 1 /\ nh_id + 1 \in 0 .. INVALID_NH_ID
  BY Iteration
<1>2. \A e \in Tbl24Entry : Lte24Entry(nh_id, e) \in Tbl24Entry
  BY <1>1 DEF Lte24Entry, Tbl24Entry
<1>3. tbl24_table' \in [Indexes -> Tbl24Entry]
  BY <1>2 DEF build_route_lte_24, IInv, TypeOK
<1>4. tbllong_table' \in [LongIds -> [Slots -> NhIds]]
  BY <1>1, OverlayType DEF build_route_lte_24, IInv, TypeOK
<1> QED BY <1>1, <1>3, <1>4 DEF build_route_lte_24, IInv, TypeOK

\* Lte24Entry, by cases on is_long.
LEMMA Lte24EntryShape ==
  ASSUME NEW e \in Tbl24Entry, NEW id
  PROVE  /\ Lte24Entry(id, e).is_long = e.is_long
         /\ e.is_long => Lte24Entry(id, e) = e
         /\ ~e.is_long => Lte24Entry(id, e).next_id =
                            IF Replaces(id, e.next_id) THEN id ELSE e.next_id
<1>1. Val(e) = INVALID_NH_ID <=> ~e.is_long /\ e.next_id = INVALID_NH_ID
  BY EntryShape
<1>2. CASE e.is_long
  BY <1>1, <1>2, Zenon DEF Lte24Entry
<1>3. CASE ~e.is_long
  BY <1>1, <1>3, Zenon DEF Lte24Entry, Replaces, Tbl24Entry
<1> QED BY <1>2, <1>3

\* After a route of at most P bits, get_next_hop resolves as it must.
LEMMA LteLookup ==
  ASSUME IInv, pc = "building", nh_id < nh_id_to_info_idx, Prefix(nh_id) <= P,
         build_route_lte_24, UNCHANGED <<nh_id_to_info, nh_id_to_info_idx, builds>>,
         NEW a \in Addr
  PROVE  LookupId(a)' = Resolved(nh_id, a)
<1> DEFINE range == MinIndex(nh_id) .. MaxIndex(nh_id)
           x == a \div 2^(W - P)
           i == Low(a, W - P)
           e == tbl24_table[x]
<1>1. x \in Indexes /\ i \in Slots
  BY AddrSplit
<1>2. e \in Tbl24Entry
  BY <1>1 DEF IInv, TypeOK
<1>3. x \in range <=> Covers(nh_id, a)
  <2>1. IpAddr(nh_id) \in Addr /\ Prefix(nh_id) \in 0 .. P
    BY Iteration, SizeAssumption
  <2>2. range \subseteq Indexes
    BY DEF build_route_lte_24
  <2> QED BY <2>1, <2>2, RangeCovers DEF Covers, MinIndex, MaxIndex
<1>4. /\ tbl24_table'[x] = IF x \in range THEN Lte24Entry(nh_id, e) ELSE e
      /\ tbl24_table'[x].is_long = e.is_long
      /\ e.is_long => tbl24_table'[x] = e
  BY <1>1, <1>2, Lte24EntryShape DEF build_route_lte_24
<1> HIDE DEF range, x, i
<1>5. CASE ~e.is_long
  <2>1. LookupId(a) = e.next_id
    BY <1>5, LookupShape, ZenonT(40) DEF IInv, x
  <2>2. LookupId(a)' = tbl24_table'[x].next_id
    BY <1>4, <1>5, LteType, LookupShapeNext DEF x
  <2>3. CASE x \in range
    <3>1. tbl24_table'[x].next_id = IF Replaces(nh_id, e.next_id) THEN nh_id ELSE e.next_id
      BY <1>2, <1>4, <1>5, <2>3, Lte24EntryShape
    <3> QED BY <1>3, <2>1, <2>2, <2>3, <3>1 DEF Resolved
  <2>4. CASE x \notin range
    BY <1>3, <1>4, <2>1, <2>2, <2>4 DEF Resolved
  <2> QED BY <2>3, <2>4
<1>6. CASE e.is_long
  <2> DEFINE t == e.next_id
             old == tbllong_table[t]
  <2>1. LookupId(a) = old[i]
    BY <1>6, LookupShape, ZenonT(40) DEF IInv, x, i
  <2>2. LookupId(a)' = tbllong_table'[t][i]
    BY <1>4, <1>6, LteType, LookupShapeNext DEF x, i
  <2>3. t \in LongIds
    <3>1. t \in 0 .. tbllong_table_idx - 1
      BY <1>1, <1>6 DEF IInv, OneLongTablePerBlock
    <3> QED BY <3>1, SizeAssumption DEF IInv, TypeOK, LongIds
  <2>4. t \in LongTablesOf(range) <=> x \in range
    <3>1. range \subseteq Indexes
      BY DEF build_route_lte_24, range
    <3>2. ASSUME NEW y \in range, tbl24_table[y].is_long, tbl24_table[y].next_id = t
          PROVE  y = x
      BY <1>1, <1>6, <3>1, <3>2, ZenonT(40) DEF IInv, OneLongTablePerBlock
    <3> QED BY <1>1, <1>6, <3>1, <3>2 DEF LongTablesOf
  <2>5. tbllong_table'[t] = IF t \in LongTablesOf(range) THEN Overlay(nh_id, old, Slots) ELSE old
    BY <2>3 DEF build_route_lte_24, range
  <2>6. Overlay(nh_id, old, Slots)[i] = IF Replaces(nh_id, old[i]) THEN nh_id ELSE old[i]
    BY <1>1 DEF Overlay
  <2> QED BY <1>3, <2>1, <2>2, <2>4, <2>5, <2>6, ZenonT(40) DEF Resolved
<1> QED BY <1>5, <1>6

\* The slots of a route longer than P bits, and the addresses it covers.
LEMMA GtCovers ==
  ASSUME IInv, pc = "building", nh_id < nh_id_to_info_idx, Prefix(nh_id) > P
  PROVE  /\ RouteIndex(nh_id) \in Indexes
         /\ \A a \in Addr : Covers(nh_id, a) <=> /\ a \div 2^(W - P) = RouteIndex(nh_id)
                                                 /\ Low(a, W - P) \in RouteSlots(nh_id)
<1>1. IpAddr(nh_id) \in Addr /\ Prefix(nh_id) \in P + 1 .. W
  BY Iteration, SizeAssumption
<1> QED BY <1>1, AddrSplit, SlotsCover DEF Covers, RouteIndex, RouteSlots

\* The content of a new long table: the route in its slots, elsewhere the
\* short route the block had.
LEMMA InheritShape ==
  ASSUME IInv, pc = "building", nh_id < nh_id_to_info_idx, Prefix(nh_id) > P,
         NEW x \in Indexes, ~tbl24_table[x].is_long, tbllong_table_idx < TBLLONG_TABLE_SIZE
  PROVE  LET t == tbllong_table_idx
             w == [i \in Slots |-> IF i \in RouteSlots(nh_id) THEN nh_id ELSE tbllong_table[t][i]]
             c == Inherit(tbl24_table[x], w)
         IN  /\ t \in LongIds
             /\ c \in [Slots -> NhIds]
             /\ \A i \in Slots :
                  c[i] = IF i \in RouteSlots(nh_id) THEN nh_id ELSE tbl24_table[x].next_id
             /\ Replaces(nh_id, tbl24_table[x].next_id)
<1> DEFINE t == tbllong_table_idx
           w == [i \in Slots |-> IF i \in RouteSlots(nh_id) THEN nh_id ELSE tbllong_table[t][i]]
           e == tbl24_table[x]
<1>1. t \in LongIds
  BY SizeAssumption DEF IInv, TypeOK, LongIds
<1>2. \A i \in Slots : tbllong_table[t][i] = INVALID_NH_ID
  <2>1. t >= tbllong_table_idx
    BY SizeAssumption DEF IInv, TypeOK
  <2> QED BY <1>1, <2>1, Iteration DEF IInv, FreeTablesEmpty
<1>3. /\ nh_id \in NhIds /\ INVALID_NH_ID \in NhIds /\ nh_id # INVALID_NH_ID
      /\ Prefix(nh_id) \in Nat /\ P \in Nat
      /\ \A i \in NhIds : Prefix(i) \in Nat
  BY Iteration, SizeAssumption
<1>4. /\ w \in [Slots -> NhIds]
      /\ \A i \in Slots : w[i] = IF i \in RouteSlots(nh_id) THEN nh_id ELSE INVALID_NH_ID
  BY <1>2, <1>3, ZenonT(40)
<1>5. /\ e.next_id \in NhIds
      /\ e.next_id # INVALID_NH_ID => Prefix(e.next_id) <= P
  BY Iteration DEF IInv, ShortEntriesShort
<1>6. Val(e) = INVALID_NH_ID <=> e.next_id = INVALID_NH_ID
  BY EntryShape DEF IInv, TypeOK
<1> HIDE DEF w, t
<1>7. Replaces(nh_id, e.next_id)
  BY <1>3, <1>5 DEF Replaces
<1>8. CASE e.next_id = INVALID_NH_ID
  <2>1. Inherit(e, w) = w
    BY <1>6, <1>8, ZenonT(40) DEF Inherit
  <2> QED BY <1>1, <1>4, <1>7, <1>8, <2>1 DEF w, t
<1>9. CASE e.next_id # INVALID_NH_ID
  <2>1. Inherit(e, w) = Overlay(e.next_id, w, Slots)
    BY <1>6, <1>9, ZenonT(40) DEF Inherit
  <2>2. /\ Overlay(e.next_id, w, Slots) \in [Slots -> NhIds]
        /\ \A i \in Slots : Overlay(e.next_id, w, Slots)[i] =
             IF Replaces(e.next_id, w[i]) THEN e.next_id ELSE w[i]
    BY <1>4, <1>5, OverlayType
  <2>3. ~Replaces(e.next_id, nh_id)
    BY <1>3, <1>5, <1>9 DEF Replaces
  <2>4. Replaces(e.next_id, INVALID_NH_ID)
    BY DEF Replaces
  <2>5. \A i \in Slots : Inherit(e, w)[i] = IF i \in RouteSlots(nh_id) THEN nh_id ELSE e.next_id
    BY <1>4, <2>1, <2>2, <2>3, <2>4
  <2> QED BY <1>1, <1>7, <2>1, <2>2, <2>5 DEF w, t
<1> QED BY <1>8, <1>9

LEMMA AllocType ==
  ASSUME IInv, pc = "building", nh_id < nh_id_to_info_idx, Prefix(nh_id) > P,
         build_route_gt_24_alloc, UNCHANGED <<nh_id_to_info, nh_id_to_info_idx, builds>>
  PROVE  TypeOK'
<1> DEFINE x == RouteIndex(nh_id)
           t == tbllong_table_idx
           w == [i \in Slots |-> IF i \in RouteSlots(nh_id) THEN nh_id ELSE tbllong_table[t][i]]
           c == Inherit(tbl24_table[x], w)
<1>1. x \in Indexes /\ ~tbl24_table[x].is_long /\ t < TBLLONG_TABLE_SIZE
  BY GtCovers DEF build_route_gt_24_alloc, LongTablesLeft
<1>2. t \in LongIds /\ c \in [Slots -> NhIds]
  BY <1>1, InheritShape
<1>3. [next_id |-> t, is_long |-> TRUE] \in Tbl24Entry
  <2>1. t \in 0 .. ID_LIMIT - 1
    BY <1>2, SizeAssumption, FieldAssumption DEF LongIds
  <2> QED BY <2>1 DEF Tbl24Entry
<1>4. /\ tbl24_table' = [tbl24_table EXCEPT ![x] = [next_id |-> t, is_long |-> TRUE]]
      /\ tbllong_table' = [tbllong_table EXCEPT ![t] = c]
      /\ tbllong_table_idx' = t + 1 /\ nh_id' = nh_id + 1 /\ pc' = pc
  BY DEF build_route_gt_24_alloc, After
<1> HIDE DEF x, t, c
<1>5. tbl24_table' \in [Indexes -> Tbl24Entry] /\ tbllong_table' \in [LongIds -> [Slots -> NhIds]]
  BY <1>2, <1>3, <1>4, Zenon DEF IInv, TypeOK
<1>6. t + 1 \in 0 .. TBLLONG_TABLE_SIZE /\ nh_id + 1 \in 0 .. INVALID_NH_ID
  BY <1>2, Iteration, SizeAssumption DEF LongIds
<1> QED BY <1>4, <1>5, <1>6 DEF IInv, TypeOK

\* A long entry names a table that has been handed out, its own.
LEMMA LongEntry ==
  ASSUME IInv, Filled, NEW x \in Indexes, tbl24_table[x].is_long
  PROVE  /\ tbl24_table[x].next_id \in 0 .. tbllong_table_idx - 1
         /\ tbl24_table[x].next_id \in LongIds
         /\ \A y \in Indexes : tbl24_table[y].is_long /\ tbl24_table[y].next_id = tbl24_table[x].next_id
                                 => y = x
<1>1. /\ tbl24_table[x].next_id \in 0 .. tbllong_table_idx - 1
      /\ \A y \in Indexes : tbl24_table[y].is_long /\ tbl24_table[y].next_id = tbl24_table[x].next_id
                              => y = x
  BY DEF IInv, OneLongTablePerBlock, Filled
<1> QED BY <1>1, SizeAssumption DEF IInv, TypeOK, LongIds

LEMMA AllocLookup ==
  ASSUME IInv, pc = "building", nh_id < nh_id_to_info_idx, Prefix(nh_id) > P,
         build_route_gt_24_alloc, UNCHANGED <<nh_id_to_info, nh_id_to_info_idx, builds>>,
         NEW a \in Addr
  PROVE  LookupId(a)' = Resolved(nh_id, a)
<1> DEFINE x == RouteIndex(nh_id)
           t == tbllong_table_idx
           w == [i \in Slots |-> IF i \in RouteSlots(nh_id) THEN nh_id ELSE tbllong_table[t][i]]
           c == Inherit(tbl24_table[x], w)
           y == a \div 2^(W - P)
           i == Low(a, W - P)
<1>1. x \in Indexes /\ ~tbl24_table[x].is_long /\ t < TBLLONG_TABLE_SIZE
  BY GtCovers DEF build_route_gt_24_alloc, LongTablesLeft
<1>2. /\ t \in LongIds /\ c \in [Slots -> NhIds] /\ Replaces(nh_id, tbl24_table[x].next_id)
      /\ \A j \in Slots : c[j] = IF j \in RouteSlots(nh_id) THEN nh_id ELSE tbl24_table[x].next_id
  BY <1>1, InheritShape
<1>3. y \in Indexes /\ i \in Slots
  BY AddrSplit
<1>4. Covers(nh_id, a) <=> y = x /\ i \in RouteSlots(nh_id)
  BY GtCovers
<1>5. /\ tbl24_table' = [tbl24_table EXCEPT ![x] = [next_id |-> t, is_long |-> TRUE]]
      /\ tbllong_table' = [tbllong_table EXCEPT ![t] = c]
  BY ZenonT(40) DEF build_route_gt_24_alloc
<1>6. /\ LookupId(a) = IF tbl24_table[y].is_long THEN tbllong_table[tbl24_table[y].next_id][i]
                                                 ELSE tbl24_table[y].next_id
      /\ LookupId(a)' = IF tbl24_table'[y].is_long THEN tbllong_table'[tbl24_table'[y].next_id][i]
                                                   ELSE tbl24_table'[y].next_id
  BY LookupShape, LookupShapeNext, AllocType, ZenonT(40) DEF IInv
<1> HIDE DEF x, t, c, y, i
<1>7. CASE y = x
  <2>1. tbl24_table'[y] = [next_id |-> t, is_long |-> TRUE] /\ tbllong_table'[t] = c
    BY <1>1, <1>2, <1>5, <1>7, ZenonT(40) DEF IInv, TypeOK
  <2>2. LookupId(a) = tbl24_table[x].next_id /\ LookupId(a)' = c[i]
    BY ONLY <1>1, <1>6, <1>7, <2>1
  <2> QED BY <1>2, <1>3, <1>4, <1>7, <2>2 DEF Resolved
<1>8. CASE y # x
  <2>1. tbl24_table'[y] = tbl24_table[y]
    BY <1>3, <1>5, <1>8 DEF IInv, TypeOK
  <2>2. ASSUME tbl24_table[y].is_long
        PROVE  tbllong_table'[tbl24_table[y].next_id] = tbllong_table[tbl24_table[y].next_id]
    <3>1. /\ tbl24_table[y].next_id \in 0 .. tbllong_table_idx - 1
          /\ tbl24_table[y].next_id \in LongIds
      BY <1>3, <2>2, LongEntry, Iteration
    <3>2. tbl24_table[y].next_id # t
      BY <1>2, <3>1 DEF t, LongIds
    <3> QED BY <1>5, <3>1, <3>2 DEF IInv, TypeOK
  <2> QED BY <1>4, <1>6, <1>8, <2>1, <2>2 DEF Resolved
<1> QED BY <1>7, <1>8

LEMMA LongType ==
  ASSUME IInv, pc = "building", nh_id < nh_id_to_info_idx, Prefix(nh_id) > P,
         build_route_gt_24_long, UNCHANGED <<nh_id_to_info, nh_id_to_info_idx, builds>>
  PROVE  TypeOK'
<1> DEFINE t == tbl24_table[RouteIndex(nh_id)].next_id
<1>1. t \in LongIds
  BY GtCovers, LongEntry, Iteration DEF build_route_gt_24_long
<1>2. tbllong_table' = [tbllong_table EXCEPT ![t] =
                          Overlay(nh_id, tbllong_table[t], RouteSlots(nh_id))]
  BY DEF build_route_gt_24_long
<1> HIDE DEF t
<1>3. tbllong_table' \in [LongIds -> [Slots -> NhIds]]
  <2>1. tbllong_table \in [LongIds -> [Slots -> NhIds]] /\ nh_id \in NhIds
    BY Iteration DEF IInv, TypeOK
  <2>2. Overlay(nh_id, tbllong_table[t], RouteSlots(nh_id)) \in [Slots -> NhIds]
    BY <1>1, <2>1, OverlayType
  <2> QED BY <1>1, <1>2, <2>1, <2>2
<1> QED BY <1>3, Iteration, ZenonT(40) DEF IInv, TypeOK, build_route_gt_24_long

LEMMA LongLookup ==
  ASSUME IInv, pc = "building", nh_id < nh_id_to_info_idx, Prefix(nh_id) > P,
         build_route_gt_24_long, UNCHANGED <<nh_id_to_info, nh_id_to_info_idx, builds>>,
         NEW a \in Addr
  PROVE  LookupId(a)' = Resolved(nh_id, a)
<1> DEFINE x == RouteIndex(nh_id)
           t == tbl24_table[x].next_id
           y == a \div 2^(W - P)
           i == Low(a, W - P)
<1>1. x \in Indexes /\ tbl24_table[x].is_long /\ tbl24_table' = tbl24_table
  BY GtCovers DEF build_route_gt_24_long
<1>2. t \in LongIds /\ \A z \in Indexes : tbl24_table[z].is_long /\ tbl24_table[z].next_id = t => z = x
  BY <1>1, LongEntry, Iteration
<1>3. y \in Indexes /\ i \in Slots
  BY AddrSplit
<1>4. Covers(nh_id, a) <=> y = x /\ i \in RouteSlots(nh_id)
  BY GtCovers
<1>5. tbllong_table' = [tbllong_table EXCEPT ![t] =
                          Overlay(nh_id, tbllong_table[t], RouteSlots(nh_id))]
  BY DEF build_route_gt_24_long
<1>6. /\ LookupId(a) = IF tbl24_table[y].is_long THEN tbllong_table[tbl24_table[y].next_id][i]
                                                 ELSE tbl24_table[y].next_id
      /\ LookupId(a)' = IF tbl24_table[y].is_long THEN tbllong_table'[tbl24_table[y].next_id][i]
                                                  ELSE tbl24_table[y].next_id
  BY <1>1, LookupShape, LookupShapeNext, LongType, ZenonT(40) DEF IInv
<1> HIDE DEF x, t, y, i
<1>7. CASE y = x
  <2>1. tbllong_table'[t][i] = IF i \in RouteSlots(nh_id) /\ Replaces(nh_id, tbllong_table[t][i])
                                 THEN nh_id ELSE tbllong_table[t][i]
    BY <1>2, <1>3, <1>5 DEF IInv, TypeOK, Overlay
  <2>2. LookupId(a) = tbllong_table[t][i] /\ LookupId(a)' = tbllong_table'[t][i]
    BY <1>1, <1>6, <1>7, ZenonT(40) DEF t
  <2> QED BY <1>4, <1>7, <2>1, <2>2 DEF Resolved
<1>8. CASE y # x
  <2>1. ASSUME tbl24_table[y].is_long
        PROVE  tbllong_table'[tbl24_table[y].next_id] = tbllong_table[tbl24_table[y].next_id]
    <3>1. tbl24_table[y].next_id \in LongIds /\ tbl24_table[y].next_id # t
      BY <1>2, <1>3, <1>8, <2>1, LongEntry, Iteration
    <3> QED BY <1>5, <3>1 DEF IInv, TypeOK
  <2> QED BY <1>4, <1>6, <1>8, <2>1, ZenonT(40) DEF Resolved
<1> QED BY <1>7, <1>8

LEMMA LongBlocksStep ==
  ASSUME NEW n \in Nat
  PROVE  LongBlocks(n + 1) = IF Prefix(n) > P THEN LongBlocks(n) \cup {RouteIndex(n)}
                                              ELSE LongBlocks(n)
<1>1. 0 .. (n + 1) - 1 = (0 .. n - 1) \cup {n}
  OBVIOUS
<1>2. CASE Prefix(n) > P
  BY <1>1, <1>2 DEF LongBlocks
<1>3. CASE ~(Prefix(n) > P)
  BY <1>1, <1>3 DEF LongBlocks
<1> QED BY <1>2, <1>3

\* The conjuncts of IInv that an iteration keeps for the same reason in
\* every case that writes a route.
LEMMA WriteKeeps ==
  ASSUME IInv, pc = "building", nh_id < nh_id_to_info_idx,
         UNCHANGED <<nh_id_to_info, nh_id_to_info_idx, builds, pc>>, nh_id' = nh_id + 1,
         \A a \in Addr : LookupId(a)' = Resolved(nh_id, a)
  PROVE  /\ AddedInUse' /\ LongestPrefixMatch' /\ LongTablesSuffice'
         /\ UndefinedOnlyByDefaultRoute' /\ (pc = "building" => nh_id <= nh_id_to_info_idx)'
<1>1. AddedInUse' /\ LongTablesSuffice' /\ UndefinedOnlyByDefaultRoute'
  BY DEF IInv, AddedInUse, LongTablesSuffice, UndefinedOnlyByDefaultRoute
<1>2. nh_id + 1 <= nh_id_to_info_idx
  BY SizeAssumption, SMTT(30) DEF IInv, TypeOK, INVALID_NH_ID
<1>3. ASSUME NEW a \in Addr PROVE IsLongestMatch(LookupId(a), nh_id, a)'
  <2>1. IsLongestMatch(LookupId(a), nh_id, a) /\ TypeOK /\ nh_id < INVALID_NH_ID
    BY Iteration DEF IInv, LongestPrefixMatch, Filled
  <2>2. IsLongestMatch(Resolved(nh_id, a), nh_id + 1, a)
    BY <2>1, MatchStep
  <2>3. LookupId(a)' = Resolved(nh_id, a)
    OBVIOUS
  <2> DEFINE id == Resolved(nh_id, a)
  <2> HIDE DEF id
  <2> QED BY <2>2, <2>3 DEF IsLongestMatch, Covers, Preferred, Prefix, IpAddr, id
<1> QED BY <1>1, <1>2, <1>3 DEF LongestPrefixMatch

\* A route of at most P bits.
LEMMA LteStep ==
  ASSUME IInv, pc = "building", nh_id < nh_id_to_info_idx, Prefix(nh_id) <= P,
         build_route_lte_24, UNCHANGED <<nh_id_to_info, nh_id_to_info_idx, builds>>
  PROVE  IInv'
<1>1. TypeOK'
  BY LteType
<1>2. nh_id' = nh_id + 1 /\ UNCHANGED <<tbllong_table_idx, pc>> /\ Filled /\ nh_id \in Nat
      /\ Prefix(nh_id) \in Nat
  BY Iteration, SizeAssumption DEF build_route_lte_24
<1>3. /\ AddedInUse' /\ LongestPrefixMatch' /\ LongTablesSuffice'
      /\ UndefinedOnlyByDefaultRoute' /\ (pc = "building" => nh_id <= nh_id_to_info_idx)'
  BY <1>2, LteLookup, WriteKeeps
<1>4. CountersInStep'
  BY <1>2, <1>3, SizeAssumption DEF IInv, TypeOK, CountersInStep
<1>5. ASSUME NEW x \in Indexes
      PROVE  /\ tbl24_table'[x].is_long = tbl24_table[x].is_long
             /\ tbl24_table[x].is_long => tbl24_table'[x] = tbl24_table[x]
             /\ ~tbl24_table[x].is_long =>
                  tbl24_table'[x].next_id \in {tbl24_table[x].next_id, nh_id}
  <2>1. tbl24_table[x] \in Tbl24Entry
    BY DEF IInv, TypeOK
  <2>2. tbl24_table'[x] \in {tbl24_table[x], Lte24Entry(nh_id, tbl24_table[x])}
    BY ZenonT(40) DEF build_route_lte_24
  <2> QED BY <2>1, <2>2, Lte24EntryShape
<1>6. OneLongTablePerBlock'
  <2> DEFINE long == {x \in Indexes : tbl24_table[x].is_long}
  <2>1. long' = long
    BY <1>5
  <2>2. LongBlocks(nh_id)' = LongBlocks(nh_id)
    <3>1. LongBlocks(nh_id)' = LongBlocks(nh_id + 1)
      BY <1>2 DEF LongBlocks, RouteIndex, Prefix, IpAddr
    <3>2. ~(Prefix(nh_id) > P)
      BY <1>2, SizeAssumption
    <3> QED BY <1>2, <3>1, <3>2, LongBlocksStep, Zenon
  <2>3. \A x \in long : tbl24_table'[x].next_id = tbl24_table[x].next_id
    BY <1>5, ZenonT(40)
  <2>4. /\ long = LongBlocks(nh_id)
        /\ {tbl24_table[x].next_id : x \in long} = 0 .. tbllong_table_idx - 1
        /\ \A x, y \in long : tbl24_table[x].next_id = tbl24_table[y].next_id => x = y
    BY <1>2 DEF IInv, OneLongTablePerBlock, Filled
  <2>5. {tbl24_table'[x].next_id : x \in long} = {tbl24_table[x].next_id : x \in long}
    BY <2>3
  <2> QED BY <1>2, <2>1, <2>2, <2>3, <2>4, <2>5 DEF OneLongTablePerBlock
<1>7. FreeTablesEmpty'
  <2>1. ASSUME NEW t \in LongIds, NEW i \in Slots, t >= tbllong_table_idx
        PROVE  tbllong_table'[t][i] = INVALID_NH_ID
    <3> DEFINE range == MinIndex(nh_id) .. MaxIndex(nh_id)
    <3>1. t \notin LongTablesOf(range)
      <4>1. range \subseteq Indexes
        BY DEF build_route_lte_24
      <4>2. ASSUME NEW y \in range, tbl24_table[y].is_long PROVE tbl24_table[y].next_id # t
        <5>1. tbl24_table[y].next_id \in 0 .. tbllong_table_idx - 1
          BY <1>2, <4>1, <4>2, LongEntry
        <5> QED BY <2>1, <5>1, SizeAssumption DEF IInv, TypeOK, LongIds
      <4> QED BY <4>2 DEF LongTablesOf
    <3>2. tbllong_table'[t] = tbllong_table[t]
      BY <3>1 DEF build_route_lte_24
    <3> QED BY <1>2, <2>1, <3>2 DEF IInv, FreeTablesEmpty
  <2> QED BY <1>2, <2>1 DEF FreeTablesEmpty
<1>8. ShortEntriesShort'
  <2>1. ASSUME NEW x \in Indexes, ~tbl24_table'[x].is_long
        PROVE  /\ tbl24_table'[x].next_id \in NhIds
               /\ tbl24_table'[x].next_id # INVALID_NH_ID => Prefix(tbl24_table'[x].next_id) <= P
    BY <1>2, <1>5, <2>1, Iteration DEF IInv, ShortEntriesShort
  <2> QED BY <2>1, ZenonT(40) DEF ShortEntriesShort, Prefix
<1> QED BY <1>1, <1>3, <1>4, <1>6, <1>7, <1>8 DEF IInv

\* A route longer than P bits into a block without a long table.
LEMMA AllocStep ==
  ASSUME IInv, pc = "building", nh_id < nh_id_to_info_idx, Prefix(nh_id) > P,
         build_route_gt_24_alloc, UNCHANGED <<nh_id_to_info, nh_id_to_info_idx, builds>>
  PROVE  IInv'
<1> DEFINE x == RouteIndex(nh_id)
           t == tbllong_table_idx
<1>1. TypeOK'
  BY AllocType, ZenonT(40)
<1>2. /\ nh_id' = nh_id + 1 /\ pc' = pc /\ Filled /\ nh_id \in Nat /\ t \in Nat
      /\ tbllong_table_idx' = t + 1
      /\ x \in Indexes /\ ~tbl24_table[x].is_long
      /\ tbl24_table' = [tbl24_table EXCEPT ![x] = [next_id |-> t, is_long |-> TRUE]]
  BY GtCovers, Iteration, SizeAssumption DEF IInv, TypeOK, build_route_gt_24_alloc, After
<1>3. /\ AddedInUse' /\ LongestPrefixMatch' /\ LongTablesSuffice'
      /\ UndefinedOnlyByDefaultRoute' /\ (pc = "building" => nh_id <= nh_id_to_info_idx)'
  BY <1>2, AllocLookup, WriteKeeps
<1>4. CountersInStep'
  BY <1>2, <1>3 DEF IInv, CountersInStep
<1>5. \A y \in Indexes : tbl24_table'[y] = IF y = x THEN [next_id |-> t, is_long |-> TRUE]
                                                    ELSE tbl24_table[y]
  BY <1>2, ZenonT(40) DEF IInv, TypeOK
<1>6. OneLongTablePerBlock'
  <2> DEFINE long == {y \in Indexes : tbl24_table[y].is_long}
  <2> HIDE DEF x
  <2>1. long' = long \cup {x} /\ x \notin long
    BY ONLY <1>2, <1>5
  <2>2. LongBlocks(nh_id)' = LongBlocks(nh_id) \cup {x}
    <3>1. LongBlocks(nh_id)' = LongBlocks(nh_id + 1)
      BY <1>2 DEF LongBlocks, RouteIndex, Prefix, IpAddr
    <3> QED BY <1>2, <3>1, LongBlocksStep, Zenon DEF x
  <2>3. /\ long = LongBlocks(nh_id)
        /\ {tbl24_table[y].next_id : y \in long} = 0 .. t - 1
        /\ \A y, z \in long : tbl24_table[y].next_id = tbl24_table[z].next_id => y = z
    BY <1>2 DEF IInv, OneLongTablePerBlock, Filled
  <2>4. tbl24_table'[x].next_id = t /\ \A y \in long : tbl24_table'[y].next_id = tbl24_table[y].next_id
    BY <1>2, <1>5, <2>1
  <2>5. \A y \in long : tbl24_table[y].next_id \in 0 .. t - 1
    BY <2>3
  <2> DEFINE ids == {tbl24_table[y].next_id : y \in long}
             L == long \cup {x}
  <2>6. {tbl24_table'[y].next_id : y \in L} = ids \cup {t}
    BY <2>4
  <2>7. 0 .. (t + 1) - 1 = (0 .. t - 1) \cup {t}
    BY <1>2
  <2>8. \A y, z \in L : tbl24_table'[y].next_id = tbl24_table'[z].next_id => y = z
    <3>1. \A y \in long : tbl24_table'[y].next_id # t
      BY ONLY <1>2, <2>4, <2>5
    <3> QED BY <2>3, <2>4, <3>1
  <2> QED BY <1>2, <2>1, <2>2, <2>3, <2>6, <2>7, <2>8 DEF OneLongTablePerBlock
<1>7. FreeTablesEmpty'
  <2>1. ASSUME NEW s \in LongIds, NEW i \in Slots, s >= t + 1
        PROVE  tbllong_table'[s][i] = INVALID_NH_ID
    <3>1. s # t /\ s >= t
      BY <1>2, <2>1 DEF LongIds
    <3>2. tbllong_table'[s] = tbllong_table[s]
      BY <3>1, ZenonT(40) DEF build_route_gt_24_alloc, IInv, TypeOK
    <3> QED BY <1>2, <3>1, <3>2 DEF IInv, FreeTablesEmpty
  <2> QED BY <1>2, <2>1, ZenonT(40) DEF FreeTablesEmpty
<1>8. ShortEntriesShort'
  <2>1. ASSUME NEW y \in Indexes, ~tbl24_table'[y].is_long
        PROVE  tbl24_table'[y] = tbl24_table[y]
    BY ONLY <1>5, <2>1
  <2> QED BY <1>2, <2>1 DEF IInv, ShortEntriesShort, Prefix
<1> QED BY <1>1, <1>3, <1>4, <1>6, <1>7, <1>8 DEF IInv

\* A route longer than P bits into a block that has a long table.
LEMMA LongStep ==
  ASSUME IInv, pc = "building", nh_id < nh_id_to_info_idx, Prefix(nh_id) > P,
         build_route_gt_24_long, UNCHANGED <<nh_id_to_info, nh_id_to_info_idx, builds>>
  PROVE  IInv'
<1> DEFINE x == RouteIndex(nh_id)
           t == tbl24_table[x].next_id
<1>1. TypeOK'
  BY LongType, ZenonT(40)
<1>2. /\ nh_id' = nh_id + 1 /\ pc' = pc /\ Filled /\ nh_id \in Nat
      /\ tbllong_table_idx' = tbllong_table_idx /\ tbllong_table_idx \in Nat
      /\ x \in Indexes /\ tbl24_table[x].is_long /\ tbl24_table' = tbl24_table
  BY GtCovers, Iteration, SizeAssumption DEF IInv, TypeOK, build_route_gt_24_long
<1>3. /\ AddedInUse' /\ LongestPrefixMatch' /\ LongTablesSuffice'
      /\ UndefinedOnlyByDefaultRoute' /\ (pc = "building" => nh_id <= nh_id_to_info_idx)'
  BY <1>2, LongLookup, WriteKeeps
<1>4. CountersInStep'
  BY <1>2, <1>3, SMTT(30) DEF IInv, CountersInStep
<1>5. OneLongTablePerBlock'
  <2>1. LongBlocks(nh_id)' = LongBlocks(nh_id)
    <3>1. LongBlocks(nh_id)' = LongBlocks(nh_id + 1)
      BY <1>2 DEF LongBlocks, RouteIndex, Prefix, IpAddr
    <3>2. x \in LongBlocks(nh_id)
      BY <1>2 DEF IInv, OneLongTablePerBlock, Filled
    <3> QED BY <1>2, <3>1, <3>2, LongBlocksStep, ZenonT(40)
  <2> QED BY <1>2, <2>1 DEF IInv, OneLongTablePerBlock
<1>6. FreeTablesEmpty'
  <2>1. ASSUME NEW s \in LongIds, NEW i \in Slots, s >= tbllong_table_idx
        PROVE  tbllong_table'[s][i] = INVALID_NH_ID
    <3>1. t \in 0 .. tbllong_table_idx - 1
      BY <1>2, LongEntry
    <3>2. s # t
      BY <1>2, <2>1, <3>1 DEF LongIds
    <3>3. tbllong_table'[s] = tbllong_table[s]
      BY <3>2 DEF build_route_gt_24_long, IInv, TypeOK
    <3> QED BY <1>2, <2>1, <3>3 DEF IInv, FreeTablesEmpty
  <2> QED BY <1>2, <2>1 DEF FreeTablesEmpty
<1>7. ShortEntriesShort'
  BY <1>2 DEF IInv, ShortEntriesShort, Prefix, Filled
<1> QED BY <1>1, <1>3, <1>4, <1>5, <1>6, <1>7 DEF IInv

\* The process ends, or its memory is lost, in the middle of an iteration.
LEMMA FailStep ==
  ASSUME IInv, pc = "building", nh_id < nh_id_to_info_idx,
         \/ Prefix(nh_id) <= P /\ build_route_lte_24_outside
         \/ Prefix(nh_id) > P /\ build_route_gt_24_full,
         UNCHANGED <<nh_id_to_info, nh_id_to_info_idx, builds>>
  PROVE  IInv'
<1>1. UNCHANGED <<nh_id_to_info, nh_id_to_info_idx, tables, nh_id, builds>>
      /\ pc' \in {"undefined", "build_exit"}
  BY DEF build_route_lte_24_outside, build_route_gt_24_full
<1>2. TypeOK' /\ AddedInUse'
  BY <1>1, ZenonT(40) DEF IInv, TypeOK, AddedInUse, Phases, tables
<1>3. CountersInStep' /\ OneLongTablePerBlock' /\ FreeTablesEmpty' /\ ShortEntriesShort'
      /\ LongestPrefixMatch'
  BY <1>1 DEF CountersInStep, OneLongTablePerBlock, FreeTablesEmpty, ShortEntriesShort,
              LongestPrefixMatch, Filled
<1>4. CASE Prefix(nh_id) <= P /\ build_route_lte_24_outside
  <2>1. IpAddr(nh_id) \in Addr /\ Prefix(nh_id) \in 0 .. P
    BY <1>4, Iteration, SizeAssumption
  <2>2. ~(MinIndex(nh_id) .. MaxIndex(nh_id) \subseteq Indexes) /\ pc' = "undefined"
    BY <1>4, ZenonT(40) DEF build_route_lte_24_outside
  <2>3. Prefix(nh_id) = 0 /\ Low(IpAddr(nh_id), W - P) # 0
    BY <2>1, <2>2, RangeCovers DEF MinIndex, MaxIndex
  <2>4. UndefinedOnlyByDefaultRoute' /\ LongTablesSuffice'
    BY <1>1, <2>2, <2>3, ZenonT(40) DEF UndefinedOnlyByDefaultRoute, LongTablesSuffice, Prefix, IpAddr
  <2> QED BY <1>2, <1>3, <2>4 DEF IInv
<1>5. CASE Prefix(nh_id) > P /\ build_route_gt_24_full
  <2> DEFINE x == RouteIndex(nh_id)
             long == {y \in Indexes : tbl24_table[y].is_long}
             t == tbllong_table_idx
  <2>1. ~tbl24_table[x].is_long /\ t >= TBLLONG_TABLE_SIZE /\ pc' = "build_exit"
    BY <1>5, SizeAssumption DEF build_route_gt_24_full, LongTablesLeft, IInv, TypeOK
  <2>2. t <= nh_id /\ t \in Nat /\ nh_id \in Nat /\ nh_id < INVALID_NH_ID
    BY Iteration, SizeAssumption DEF IInv, TypeOK, CountersInStep
  <2>3. LongTablesSuffice'
    BY <2>1, <2>2, SizeAssumption DEF LongTablesSuffice, INVALID_NH_ID
  <2>4. UndefinedOnlyByDefaultRoute'
    BY <2>1 DEF UndefinedOnlyByDefaultRoute
  <2> QED BY <1>2, <1>3, <2>3, <2>4 DEF IInv
<1> QED BY <1>4, <1>5

\* The calls outside the loop.
LEMMA CallStep ==
  ASSUME IInv,
         \/ \E a \in RouteAddrs, p \in RoutePrefixes, h \in NextHops : AddRoute(a, p, h)
         \/ AddRouteFull \/ BuildStart \/ BuildEnd
  PROVE  IInv'
<1>1. CASE \E a \in RouteAddrs, p \in RoutePrefixes, h \in NextHops : AddRoute(a, p, h)
  <2>1. PICK a \in RouteAddrs, p \in RoutePrefixes, h \in NextHops : AddRoute(a, p, h)
    BY <1>1, ZenonT(40)
  <2> DEFINE i == nh_id_to_info_idx
             info == [ip_addr |-> a, prefix |-> ClampPrefix(p), next_hop |-> h, in_use |-> TRUE]
  <2>2. info \in NextHopInfo
    BY ONLY InputAssumption, SizeAssumption DEF NextHopInfo, Addr, ClampPrefix
  <2>3. i \in NhIds /\ i \in Nat /\ i + 1 \in 0 .. INVALID_NH_ID
    BY <2>1, SizeAssumption DEF AddRoute, TableFull, IInv, TypeOK, NhIds, INVALID_NH_ID
  <2>4. /\ nh_id_to_info' = [nh_id_to_info EXCEPT ![i] = info]
        /\ nh_id_to_info_idx' = i + 1 /\ pc' = "adding"
        /\ UNCHANGED <<tbl24_table, tbllong_table, tbllong_table_idx, nh_id, builds>>
    BY <2>1 DEF AddRoute, tables
  <2> HIDE DEF info
  <2>5. TypeOK'
    BY <2>2, <2>3, <2>4 DEF IInv, TypeOK, Phases
  <2>6. AddedInUse'
    <3>1. ASSUME NEW j \in 0 .. i PROVE nh_id_to_info'[j].in_use
      <4>1. CASE j = i
        BY <2>3, <2>4, <4>1 DEF IInv, TypeOK, info
      <4>2. CASE j \in 0 .. i - 1
        BY <2>3, <2>4, <4>2 DEF IInv, TypeOK, AddedInUse
      <4> QED BY <2>3, <4>1, <4>2
    <3>2. 0 .. (i + 1) - 1 = 0 .. i
      BY <2>3
    <3> QED BY <2>4, <3>1, <3>2, Zenon DEF AddedInUse
  <2> QED BY <2>4, <2>5, <2>6 DEF IInv, CountersInStep, OneLongTablePerBlock, FreeTablesEmpty,
                                  ShortEntriesShort, LongestPrefixMatch, LongTablesSuffice, UndefinedOnlyByDefaultRoute, Filled
<1>2. CASE AddRouteFull
  BY <1>2, ZenonT(40) DEF AddRouteFull, tables, IInv, TypeOK, Phases, AddedInUse, CountersInStep,
              OneLongTablePerBlock, FreeTablesEmpty, ShortEntriesShort, LongestPrefixMatch,
              LongTablesSuffice, UndefinedOnlyByDefaultRoute, Filled
<1>3. CASE BuildStart
  <2>1. INVALID_NH_ID \in NhIds /\ INVALID_NH_ID \in 0 .. ID_LIMIT - 1 /\ INVALID_NH_ID \in Nat
    BY SizeAssumption, FieldAssumption DEF NhIds, INVALID_NH_ID
  <2>2. [next_id |-> INVALID_NH_ID, is_long |-> FALSE] \in Tbl24Entry
    BY <2>1, ZenonT(40) DEF Tbl24Entry
  <2>3. TypeOK'
    BY <1>3, <2>1, <2>2, SizeAssumption DEF BuildStart, Idle, IInv, TypeOK, Phases
  <2>4. AddedInUse' /\ CountersInStep'
    BY <1>3, SizeAssumption DEF BuildStart, IInv, TypeOK, AddedInUse, CountersInStep
  <2>5. \A x \in Indexes : ~tbl24_table'[x].is_long /\ tbl24_table'[x].next_id = INVALID_NH_ID
    BY <1>3, ZenonT(40) DEF BuildStart
  <2>6. OneLongTablePerBlock'
    <3>1. LongBlocks(nh_id)' = {} /\ 0 .. tbllong_table_idx' - 1 = {}
      BY <1>3 DEF BuildStart, LongBlocks
    <3>2. {x \in Indexes : tbl24_table'[x].is_long} = {}
      BY <2>5
    <3> QED BY <3>1, <3>2 DEF OneLongTablePerBlock
  <2>7. FreeTablesEmpty' /\ ShortEntriesShort'
    BY <1>3, <2>1, <2>5 DEF BuildStart, FreeTablesEmpty, ShortEntriesShort
  <2>8. LongestPrefixMatch'
    <3>1. ASSUME NEW a \in Addr PROVE LookupId(a)' = INVALID_NH_ID
      BY <2>3, <2>5, AddrSplit, LookupShapeNext
    <3>2. nh_id' = 0
      BY <1>3 DEF BuildStart
    <3> QED BY ONLY <3>1, <3>2 DEF LongestPrefixMatch, IsLongestMatch
  <2>9. LongTablesSuffice' /\ UndefinedOnlyByDefaultRoute'
    BY <1>3 DEF BuildStart, LongTablesSuffice, UndefinedOnlyByDefaultRoute
  <2> QED BY <2>3, <2>4, <2>6, <2>7, <2>8, <2>9 DEF IInv
<1>4. CASE BuildEnd
  <2>1. /\ pc = "building" /\ pc' = "ready" /\ nh_id_to_info_idx' = 0
        /\ UNCHANGED <<nh_id_to_info, tbl24_table, tbllong_table, tbllong_table_idx, nh_id, builds>>
    BY <1>4 DEF BuildEnd, tables
  <2>2. TypeOK' /\ AddedInUse' /\ CountersInStep'
    BY <2>1, SizeAssumption DEF IInv, TypeOK, Phases, INVALID_NH_ID, AddedInUse, CountersInStep, Filled
  <2>3. OneLongTablePerBlock'
    BY <2>1 DEF IInv, OneLongTablePerBlock, LongBlocks, RouteIndex, Prefix, IpAddr
  <2>4. FreeTablesEmpty' /\ ShortEntriesShort'
    BY <2>1, ZenonT(40) DEF IInv, FreeTablesEmpty, ShortEntriesShort, Filled, Prefix
  <2>5. LongestPrefixMatch'
    <3>1. \A a \in Addr : LookupId(a)' = LookupId(a)
      BY <2>1 DEF LookupId
    <3> QED BY <2>1, <3>1, ZenonT(40) DEF IInv, LongestPrefixMatch, IsLongestMatch, Covers, Preferred, Prefix, IpAddr
  <2>6. LongTablesSuffice' /\ UndefinedOnlyByDefaultRoute'
    BY <2>1 DEF LongTablesSuffice, UndefinedOnlyByDefaultRoute
  <2> QED BY <2>2, <2>3, <2>4, <2>5, <2>6 DEF IInv
<1> QED BY <1>1, <1>2, <1>3, <1>4, ZenonT(40)

LEMMA StutterStep ==
  ASSUME IInv, UNCHANGED vars
  PROVE  IInv'
<1>1. /\ UNCHANGED <<nh_id_to_info, nh_id_to_info_idx, tbl24_table, tbllong_table,
                     tbllong_table_idx, nh_id, builds, pc>>
  BY ZenonT(40) DEF vars
<1>2. TypeOK' /\ AddedInUse' /\ CountersInStep' /\ FreeTablesEmpty' /\ ShortEntriesShort'
      /\ LongTablesSuffice'
  BY <1>1, ZenonT(40) DEF IInv, TypeOK, AddedInUse, CountersInStep, FreeTablesEmpty, ShortEntriesShort,
              LongTablesSuffice, Filled, Prefix
<1>3. OneLongTablePerBlock' /\ UndefinedOnlyByDefaultRoute'
  BY <1>1 DEF IInv, OneLongTablePerBlock, UndefinedOnlyByDefaultRoute,
              LongBlocks, RouteIndex, Prefix, IpAddr
<1>4. LongestPrefixMatch'
  <2>1. \A a \in Addr : LookupId(a)' = LookupId(a)
    BY <1>1 DEF LookupId
  <2> QED BY <1>1, <2>1, ZenonT(40) DEF IInv, LongestPrefixMatch, IsLongestMatch, Covers, Preferred, Prefix, IpAddr
<1> QED BY <1>2, <1>3, <1>4 DEF IInv

\* IInv is an invariant of the routing table, whatever the sequence of
\* add_route and build_routing_table calls.
THEOREM Invariance == Spec => []IInv
<1>1. Init => IInv
  <2> SUFFICES ASSUME Init PROVE IInv
    OBVIOUS
  <2>1. 0 \in NhIds /\ 0 \in 0 .. ID_LIMIT - 1 /\ 0 \in Addr /\ 0 \in 0 .. INVALID_NH_ID
    BY SizeAssumption, FieldAssumption, Powers DEF NhIds, Addr, INVALID_NH_ID
  <2>2. /\ [ip_addr |-> 0, prefix |-> 0, next_hop |-> ZeroHop, in_use |-> FALSE] \in NextHopInfo
        /\ [next_id |-> 0, is_long |-> FALSE] \in Tbl24Entry
    BY <2>1, SizeAssumption DEF NextHopInfo, Tbl24Entry
  <2>3. TypeOK
    BY <2>1, <2>2, SizeAssumption DEF Init, TypeOK, Phases
  <2>4. pc = "adding" /\ nh_id_to_info_idx = 0
    BY DEF Init
  <2>5. AddedInUse
    BY <2>4 DEF AddedInUse
  <2>6. CountersInStep /\ OneLongTablePerBlock /\ FreeTablesEmpty /\ ShortEntriesShort
        /\ LongestPrefixMatch /\ LongTablesSuffice
        /\ UndefinedOnlyByDefaultRoute
    BY <2>4 DEF CountersInStep, OneLongTablePerBlock, FreeTablesEmpty, ShortEntriesShort,
                LongestPrefixMatch, LongTablesSuffice, UndefinedOnlyByDefaultRoute, Filled
  <2> QED BY <2>3, <2>5, <2>6 DEF IInv
<1>2. IInv /\ [Next]_vars => IInv'
  <2> SUFFICES ASSUME IInv, [Next]_vars PROVE IInv'
    BY ZenonT(40)
  <2>1. CASE BuildRoute
    <3>1. /\ pc = "building" /\ nh_id < nh_id_to_info_idx
          /\ UNCHANGED <<nh_id_to_info, nh_id_to_info_idx, builds>>
      BY <2>1 DEF BuildRoute, RoutesLeft
    <3>2. nh_id_to_info[nh_id].in_use
      BY <3>1, Iteration
    <3>3. \/ Prefix(nh_id) <= P /\ build_route_lte_24
          \/ Prefix(nh_id) > P /\ build_route_gt_24_alloc
          \/ Prefix(nh_id) > P /\ build_route_gt_24_long
          \/ Prefix(nh_id) <= P /\ build_route_lte_24_outside
          \/ Prefix(nh_id) > P /\ build_route_gt_24_full
      BY <2>1, <3>2 DEF BuildRoute
    <3> QED BY <3>1, <3>3, LteStep, AllocStep, LongStep, FailStep
  <2>2. CASE \/ \E a \in RouteAddrs, p \in RoutePrefixes, h \in NextHops : AddRoute(a, p, h)
             \/ AddRouteFull \/ BuildStart \/ BuildEnd
    BY <2>2, CallStep
  <2>3. CASE UNCHANGED vars
    BY <2>3, StutterStep
  <2> QED BY <2>1, <2>2, <2>3 DEF Next
<1> QED BY <1>1, <1>2, PTL DEF Spec

\* Every index, id and counter of routing_table.c stays in its range.
THEOREM TypeCorrect == Spec => []TypeOK
<1>1. IInv => TypeOK
  BY DEF IInv
<1> QED BY <1>1, Invariance, PTL

\* At every iteration of build_routing_table and after it, get_next_hop
\* resolves every address to its longest match, for every width and table size.
THEOREM LookupIsLongestMatch == Spec => []LongestPrefixMatch
<1>1. IInv => LongestPrefixMatch
  BY DEF IInv
<1> QED BY <1>1, Invariance, PTL

\* Every block with a route longer than P bits has a long table of its own, and
\* no table is handed out for anything else.
THEOREM LongTablesAreOwned == Spec => []OneLongTablePerBlock
<1>1. IInv => OneLongTablePerBlock
  BY DEF IInv
<1> QED BY <1>1, Invariance, PTL

\* With as many long tables as a table can have routes, as in the code, the
\* exit of _build_route_gt_24_idx is never taken.
THEOREM LongTablesNeverRunOut == Spec => []LongTablesSuffice
<1>1. IInv => LongTablesSuffice
  BY DEF IInv
<1> QED BY <1>1, Invariance, PTL

\* No route but a /0 with bits below the index makes _build_route_lte_24 leave
\* tbl24.
THEOREM OnlyDefaultRouteIsUndefined == Spec => []UndefinedOnlyByDefaultRoute
<1>1. IInv => UndefinedOnlyByDefaultRoute
  BY DEF IInv
<1> QED BY <1>1, Invariance, PTL
=============================================================================
