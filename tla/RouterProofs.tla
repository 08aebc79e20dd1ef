---------------------------- MODULE RouterProofs ----------------------------
(***************************************************************************)
(* Proofs about Router, for every number of lcores, ports, rings and       *)
(* buffers, every table and every mix of frames.                           *)
(*                                                                         *)
(* The invariants are layered, each proved inductive with the help of the  *)
(* ones before it:                                                         *)
(*   RInv  the phases of the master and the confs the workers read,        *)
(*   DInv  how the interfaces have been dealt to the workers so far,       *)
(*   TInv  the shapes of the rings, bursts and hands,                      *)
(*   OInv  every buffer is in one place or in the pool.                    *)
(* RouterFrames adds two more, about the frames in the buffers.            *)
(*                                                                         *)
(* OInv is about "stores": the rings, bursts and hands that hold buffers.  *)
(* StepKinds says that a step moves buffers from the front of one store to *)
(* the back of another, frees one, fills one, or leaves all where they     *)
(* are; OInv and the invariants of RouterFrames are proved for these four  *)
(* kinds of step, and not again for every action.  What such a step does   *)
(* to who has a buffer, and to the order buffers are in, comes first: it   *)
(* is true of sequences of anything.                                       *)
(***************************************************************************)
EXTENDS Router, TLAPS

(***************************************************************************)
(* Division with remainder.                                                *)
(***************************************************************************)
\* Division with remainder.
LEMMA DivMod ==
  ASSUME NEW a \in Nat, NEW d \in Nat \ {0}
  PROVE  /\ a = d * (a \div d) + (a % d)
         /\ a % d \in 0 .. d - 1
         /\ a \div d \in Nat
BY SMT

\* Multiplication by a natural number is monotone.
\* One number more, of n.
LEMMA OneMore ==
  ASSUME NEW n \in Nat, NEW i \in 0 .. n, i < n
  PROVE  i \in 0 .. n - 1 /\ i + 1 \in 0 .. n /\ i + 1 \in 1 .. n /\ 1 .. i + 1 = (1 .. i) \cup {i + 1} /\ i + 1 \notin 1 .. i
OBVIOUS

LEMMA MulMonotone ==
  ASSUME NEW a \in Int, NEW b \in Int, NEW d \in Nat, a <= b
  PROVE  d * a <= d * b
BY SMT

\* Quotient and remainder are unique.
LEMMA DivUnique ==
  ASSUME NEW a \in Nat, NEW d \in Nat \ {0}, NEW q \in Int, NEW r \in 0 .. d - 1,
         a = d * q + r
  PROVE  q = a \div d /\ r = a % d
<1>1. a = d * (a \div d) + (a % d) /\ a % d \in 0 .. d - 1 /\ a \div d \in Nat
  BY DivMod, Zenon
<1>2. q <= a \div d
  <2> SUFFICES ASSUME q >= (a \div d) + 1 PROVE FALSE
    BY <1>1
  <2>1. d * q >= d * ((a \div d) + 1)
    BY <1>1, MulMonotone
  <2>2. d * ((a \div d) + 1) = d * (a \div d) + d
    BY <1>1
  <2> QED BY <1>1, <2>1, <2>2
<1>3. q >= a \div d
  <2> SUFFICES ASSUME q + 1 <= a \div d PROVE FALSE
    BY <1>1
  <2>1. d * (q + 1) <= d * (a \div d)
    BY <1>1, MulMonotone
  <2>2. d * (q + 1) = d * q + d
    BY <1>1
  <2> QED BY <1>1, <2>1, <2>2
<1> QED BY <1>1, <1>2, <1>3

\* A multiple of d leaves no remainder.
LEMMA MultipleMod ==
  ASSUME NEW d \in Nat \ {0}, NEW q \in Nat
  PROVE  (d * q) % d = 0 /\ d * q \in Nat
<1> DEFINE m == d * q
<1>1. m = d * q + 0 /\ m \in Nat /\ 0 \in 0 .. d - 1
  <2>1. d * 0 <= d * q
    BY MulMonotone
  <2> QED BY <2>1
<1> HIDE DEF m
<1>2. m % d = 0
  BY <1>1, DivUnique
<1> QED BY <1>1, <1>2, Zenon DEF m

\* The quotient of a number below d * e by d is below e.
LEMMA QuotientBound ==
  ASSUME NEW d \in Nat \ {0}, NEW e \in Nat \ {0}, NEW x \in 0 .. d * e - 1
  PROVE  x \div d \in 0 .. e - 1
<1>0. x \in Nat
  OBVIOUS
<1>1. x = d * (x \div d) + (x % d) /\ x % d \in 0 .. d - 1 /\ x \div d \in Nat
  BY <1>0, DivMod, Zenon
<1>2. SUFFICES ASSUME x \div d >= e PROVE FALSE
  BY <1>1
<1>3. d * (x \div d) >= d * e
  BY <1>1, <1>2, MulMonotone
<1> QED BY <1>1, <1>3
-----------------------------------------------------------------------------
(***************************************************************************)
(* Sequences, as far as rings and bursts need them.                        *)
(***************************************************************************)
LEMMA EmptySeq ==
  ASSUME NEW M
  PROVE  <<>> \in Seq(M) /\ Len(<<>>) = 0
OBVIOUS

LEMMA LenProperties ==
  ASSUME NEW M, NEW x \in Seq(M)
  PROVE  /\ Len(x) \in Nat /\ DOMAIN x = 1 .. Len(x) /\ \A i \in 1 .. Len(x) : x[i] \in M
         /\ x # <<>> => Len(x) >= 1
OBVIOUS

LEMMA AppendProperties ==
  ASSUME NEW M, NEW x \in Seq(M), NEW e \in M
  PROVE  /\ Append(x, e) \in Seq(M) /\ Len(Append(x, e)) = Len(x) + 1
         /\ \A i \in 1 .. Len(x) : Append(x, e)[i] = x[i]
         /\ Append(x, e)[Len(x) + 1] = e
OBVIOUS

\* x2 is x without its first k.
Shifted(x, x2, k) == Len(x2) = Len(x) - k /\ \A i \in 1 .. Len(x) - k : x2[i] = x[i + k]

\* y2 is y with the first k of x behind it.
Extended(y, y2, x, k) ==
  /\ Len(y2) = Len(y) + k
  /\ \A i \in 1 .. Len(y) : y2[i] = y[i]
  /\ \A i \in 1 .. k : y2[Len(y) + i] = x[i]

LEMMA AppendExtends ==
  ASSUME NEW M, NEW y \in Seq(M), NEW m \in M, NEW x, x[1] = m
  PROVE  Extended(y, Append(y, m), x, 1)
<1>1. \A i \in 1 .. 1 : i = 1
  OBVIOUS
<1>. QED BY <1>1, AppendProperties DEF Extended

\* The parts of what a worker is sending.
LEMMA Triple ==
  ASSUME NEW a, NEW b, NEW c, NEW s, s = <<a, b, c>>
  PROVE  s[1] = a /\ s[2] = b /\ s[3] = c /\ s = <<s[1], s[2], s[3]>>
OBVIOUS

LEMMA TailShifts ==
  ASSUME NEW M, NEW x \in Seq(M), x # <<>>
  PROVE  /\ Tail(x) \in Seq(M) /\ Shifted(x, Tail(x), 1)
         /\ Head(x) = x[1] /\ x[1] \in M /\ Len(x) \in Nat /\ Len(x) >= 1
BY DEF Shifted

LEMMA ProductInt == \A x, y \in Int : x * y \in Int
OBVIOUS

LEMMA OneOfOne == 1 \in 0 .. 1
OBVIOUS

LEMMA SubSeqShifts ==
  ASSUME NEW M, NEW x \in Seq(M), NEW k \in 0 .. Len(x)
  PROVE  SubSeq(x, k + 1, Len(x)) \in Seq(M) /\ Shifted(x, SubSeq(x, k + 1, Len(x)), k)
BY DEF Shifted

LEMMA ConcatExtends ==
  ASSUME NEW M, NEW x \in Seq(M), NEW y \in Seq(M), NEW k \in 0 .. Len(x)
  PROVE  y \o SubSeq(x, 1, k) \in Seq(M) /\ Extended(y, y \o SubSeq(x, 1, k), x, k)
<1>1. SubSeq(x, 1, k) \in Seq(M) /\ Len(SubSeq(x, 1, k)) = k /\ \A i \in 1 .. k : SubSeq(x, 1, k)[i] = x[i]
  OBVIOUS
<1>. QED BY <1>1 DEF Extended

\* Earlier elements of x are related to later ones; all of x to all of y.
Ranked(x, R) == \A i, j \in 1 .. Len(x) : i < j => <<x[i], x[j]>> \in R
Over(x, y, R) == \A i \in 1 .. Len(x), j \in 1 .. Len(y) : <<x[i], y[j]>> \in R

LEMMA ConcatIndex ==
  ASSUME NEW M, NEW x \in Seq(M), NEW y \in Seq(M)
  PROVE  /\ x \o y \in Seq(M) /\ Len(x \o y) = Len(x) + Len(y) /\ Len(x) \in Nat /\ Len(y) \in Nat
         /\ \A i \in 1 .. Len(x) : (x \o y)[i] = x[i]
         /\ \A j \in 1 .. Len(y) : (x \o y)[Len(x) + j] = y[j]
OBVIOUS

LEMMA ConcatRanked ==
  ASSUME NEW M, NEW x \in Seq(M), NEW y \in Seq(M), NEW z, NEW R
  PROVE  /\ Ranked(x, R) /\ Ranked(y, R) /\ Over(x, y, R) => Ranked(x \o y, R)
         /\ Over(x, z, R) /\ Over(y, z, R) => Over(x \o y, z, R)
<1>1. PICK l \in Nat, k \in Nat : l = Len(x) /\ k = Len(y)
  BY ConcatIndex, Zenon
<1>2. PICK w : w = x \o y
  BY Zenon
<1>3. Len(w) = l + k /\ (\A i \in 1 .. l : w[i] = x[i]) /\ \A j \in 1 .. k : w[l + j] = y[j]
  BY <1>1, <1>2, ConcatIndex
<1>4. ASSUME NEW i \in 1 .. l + k
      PROVE  \/ i \in 1 .. l /\ w[i] = x[i]
             \/ \E j \in 1 .. k : i = l + j /\ w[i] = y[j]
  <2>1. i \in 1 .. l \/ \E j \in 1 .. k : i = l + j
    <3>1. i \in 1 .. l \/ (i - l \in 1 .. k /\ i = l + (i - l))
      BY <1>1
    <3>. QED BY <3>1
  <2>. QED BY <1>3, <2>1, Zenon
<1>5. ASSUME Over(x, z, R), Over(y, z, R) PROVE Over(w, z, R)
  <2>1. SUFFICES ASSUME NEW i \in 1 .. l + k, NEW j \in 1 .. Len(z) PROVE <<w[i], z[j]>> \in R
    BY <1>3, Zenon DEF Over
  <2>2. CASE i \in 1 .. l /\ w[i] = x[i]
    BY <1>1, <1>5, <2>2, Zenon DEF Over
  <2>3. CASE \E n \in 1 .. k : i = l + n /\ w[i] = y[n]
    BY <1>1, <1>5, <2>3, Zenon DEF Over
  <2>. QED BY <1>4, <2>2, <2>3, Zenon
<1>6. ASSUME Ranked(x, R), Ranked(y, R), Over(x, y, R), NEW i \in 1 .. l + k, NEW j \in 1 .. l + k, i < j
      PROVE  <<w[i], w[j]>> \in R
  <2>1. CASE i \in 1 .. l /\ j \in 1 .. l
    BY <1>1, <1>3, <1>6, <2>1, Zenon DEF Ranked
  <2>2. CASE i \in 1 .. l /\ \E n \in 1 .. k : j = l + n /\ w[j] = y[n]
    BY <1>1, <1>3, <1>6, <2>2, ZenonT(40) DEF Over
  <2>3. ASSUME NEW n \in 1 .. k, i = l + n, w[i] = y[n] PROVE <<w[i], w[j]>> \in R
    <3>1. PICK n2 \in 1 .. k : j = l + n2 /\ w[j] = y[n2]
      <4>1. j \notin 1 .. l
        BY <1>6, <2>3
      <4>. QED BY <1>4, <4>1, Zenon
    <3>2. n < n2
      BY <1>1, <1>6, <2>3, <3>1
    <3>. QED BY <1>1, <1>6, <2>3, <3>1, <3>2, Zenon DEF Ranked
  <2>. QED BY <1>4, <2>1, <2>2, <2>3, Zenon
<1>7. Ranked(x, R) /\ Ranked(y, R) /\ Over(x, y, R) => Ranked(w, R)
  BY <1>3, <1>6, Zenon DEF Ranked
<1>. QED BY <1>2, <1>5, <1>7, Zenon
-----------------------------------------------------------------------------
(***************************************************************************)
(* Ownership.  H maps every store of S to the buffers in it, P counts how  *)
(* often a buffer is in its mempool.                                       *)
(***************************************************************************)
Positions(S, H) == UNION {{s} \X (1 .. Len(H[s])) : s \in S}
At(H, p) == H[p[1]][p[2]]

Own(M, S, H, P) ==
  /\ \A p, q \in Positions(S, H) : At(H, p) = At(H, q) => p = q
  /\ \A p \in Positions(S, H) : P[At(H, p)] = 0
  /\ \A m \in M : P[m] \in {0, 1} /\ (P[m] = 0 => \E p \in Positions(S, H) : At(H, p) = m)

LEMMA SlotIs ==
  ASSUME NEW S, NEW H
  PROVE  /\ \A p \in Positions(S, H) : p = <<p[1], p[2]>> /\ p[1] \in S /\ p[2] \in 1 .. Len(H[p[1]])
         /\ \A s \in S : \A i \in 1 .. Len(H[s]) : <<s, i>> \in Positions(S, H)
BY DEF Positions

\* Where a buffer was before the first k of store a went behind those of store b.
Back(H, a, b, k, p) ==
  IF p[1] = a
    THEN <<a, p[2] + k>>
    ELSE IF p[1] = b /\ p[2] > Len(H[b]) THEN <<a, p[2] - Len(H[b])>> ELSE p

\* The step from H to G is that move.
MoveOf(M, S, H, G, a, b, k) ==
  /\ H \in [S -> Seq(M)] /\ G \in [S -> Seq(M)]
  /\ a \in S /\ b \in S /\ a # b /\ k \in 0 .. Len(H[a])
  /\ Shifted(H[a], G[a], k) /\ Extended(H[b], G[b], H[a], k)
  /\ \A s \in S \ {a, b} : G[s] = H[s]

LEMMA BackFacts ==
  ASSUME NEW M, NEW S, NEW H, NEW G, NEW a, NEW b, NEW k, MoveOf(M, S, H, G, a, b, k)
  PROVE  /\ \A p \in Positions(S, G) : /\ Back(H, a, b, k, p) \in Positions(S, H)
                                       /\ At(G, p) = At(H, Back(H, a, b, k, p))
         /\ \A p, q \in Positions(S, G) : Back(H, a, b, k, p) = Back(H, a, b, k, q) => p = q
         /\ \A q \in Positions(S, H) : \E p \in Positions(S, G) : q = Back(H, a, b, k, p)
<1>0. /\ a \in S /\ b \in S /\ a # b /\ k \in 0 .. Len(H[a])
      /\ \A s \in S : Len(H[s]) \in Nat /\ Len(G[s]) \in Nat
      /\ \A s \in S \ {a, b} : G[s] = H[s]
  BY LenProperties, Zenon DEF MoveOf
<1>1. /\ Len(G[a]) = Len(H[a]) - k /\ \A i \in 1 .. Len(H[a]) - k : G[a][i] = H[a][i + k]
      /\ Len(G[b]) = Len(H[b]) + k
      /\ \A i \in 1 .. Len(H[b]) : G[b][i] = H[b][i]
      /\ \A i \in 1 .. k : G[b][Len(H[b]) + i] = H[a][i]
  BY Zenon DEF MoveOf, Shifted, Extended
<1>2. k \in Nat /\ k <= Len(H[a])
  BY <1>0
<1>3. ASSUME NEW p \in Positions(S, G)
      PROVE  Back(H, a, b, k, p) \in Positions(S, H) /\ At(G, p) = At(H, Back(H, a, b, k, p))
  <2>1a. PICK s \in S : s = p[1] /\ p[2] \in 1 .. Len(G[s]) /\ p = <<s, p[2]>>
    BY SlotIs, ZenonT(40)
  <2>1. PICK i \in 1 .. Len(G[s]) : p = <<s, i>>
    BY <2>1a, Zenon
  <2>2. CASE s = a
    <3>1. i + k \in 1 .. Len(H[a]) /\ G[a][i] = H[a][i + k]
      BY <1>0, <1>1, <1>2, <2>2
    <3>. QED BY <1>0, <2>1, <2>2, <3>1, SlotIs, Zenon DEF Back, At
  <2>3. CASE s = b /\ i > Len(H[b])
    <3>1. PICK j \in 1 .. k : i = Len(H[b]) + j
      <4>1. i - Len(H[b]) \in 1 .. k /\ i = Len(H[b]) + (i - Len(H[b]))
        BY <1>0, <1>1, <1>2, <2>3
      <4>. QED BY <4>1, Zenon
    <3>2. G[b][i] = H[a][j] /\ j \in 1 .. Len(H[a]) /\ i - Len(H[b]) = j
      BY <1>0, <1>1, <1>2, <3>1
    <3>. QED BY <1>0, <2>1, <2>3, <3>2, SlotIs, Zenon DEF Back, At
  <2>4. CASE s = b /\ ~(i > Len(H[b]))
    <3>1. i \in 1 .. Len(H[b])
      BY <1>0, <2>4
    <3>2. G[b][i] = H[b][i]
      BY <1>1, <3>1, Zenon
    <3>. QED BY <1>0, <2>1, <2>4, <3>1, <3>2, SlotIs, Zenon DEF Back, At
  <2>5. CASE s \notin {a, b}
    BY <1>0, <2>1, <2>5, SlotIs, Zenon DEF Back, At
  <2>. QED BY <2>2, <2>3, <2>4, <2>5, Zenon
<1>4. ASSUME NEW p \in Positions(S, G), NEW q \in Positions(S, G), Back(H, a, b, k, p) = Back(H, a, b, k, q)
      PROVE  p = q
  <2>1a. PICK s \in S : s = p[1] /\ p[2] \in 1 .. Len(G[s]) /\ p = <<s, p[2]>>
    BY SlotIs, ZenonT(40)
  <2>1. PICK i \in 1 .. Len(G[s]) : p = <<s, i>>
    BY <2>1a, Zenon
  <2>2a. PICK u \in S : u = q[1] /\ q[2] \in 1 .. Len(G[u]) /\ q = <<u, q[2]>>
    BY SlotIs, ZenonT(40)
  <2>2. PICK j \in 1 .. Len(G[u]) : q = <<u, j>>
    BY <2>2a, Zenon
  <2>3. i \in Int /\ j \in Int /\ Len(H[b]) \in Int /\ k \in Int
    BY <1>0, <1>2
  <2>4. s = a => Back(H, a, b, k, p) = <<a, i + k>>
    BY <2>1, Zenon DEF Back
  <2>5. u = a => Back(H, a, b, k, q) = <<a, j + k>>
    BY <2>2, Zenon DEF Back
  <2>6. s = b /\ i > Len(H[b]) => Back(H, a, b, k, p) = <<a, i - Len(H[b])>> /\ i - Len(H[b]) <= k
    <3>1. s = b /\ i > Len(H[b]) => Back(H, a, b, k, p) = <<a, i - Len(H[b])>>
      BY <1>0, <2>1, ZenonT(40) DEF Back
    <3>2. s = b => Len(G[s]) = Len(H[b]) + k
      BY <1>1, Zenon
    <3>3. s = b => i - Len(H[b]) <= k
      BY <2>3, <3>2
    <3>. QED BY <3>1, <3>3, Zenon
  <2>7. u = b /\ j > Len(H[b]) => Back(H, a, b, k, q) = <<a, j - Len(H[b])>> /\ j - Len(H[b]) <= k
    <3>1. u = b /\ j > Len(H[b]) => Back(H, a, b, k, q) = <<a, j - Len(H[b])>>
      BY <1>0, <2>2, ZenonT(40) DEF Back
    <3>2. u = b => Len(G[u]) = Len(H[b]) + k
      BY <1>1, Zenon
    <3>3. u = b => j - Len(H[b]) <= k
      BY <2>3, <3>2
    <3>. QED BY <3>1, <3>3, Zenon
  <2>8. s # a /\ ~(s = b /\ i > Len(H[b])) => Back(H, a, b, k, p) = <<s, i>>
    BY <2>1, Zenon DEF Back
  <2>9. u # a /\ ~(u = b /\ j > Len(H[b])) => Back(H, a, b, k, q) = <<u, j>>
    BY <2>2, Zenon DEF Back
  <2>10. s = u /\ i = j
    BY <1>0, <1>4, <2>3, <2>4, <2>5, <2>6, <2>7, <2>8, <2>9, SMTT(30)
  <2>. QED BY <2>1, <2>2, <2>10, Zenon
<1>5. ASSUME NEW q \in Positions(S, H) PROVE \E p \in Positions(S, G) : q = Back(H, a, b, k, p)
  <2>1a. PICK u \in S : u = q[1] /\ q[2] \in 1 .. Len(H[u]) /\ q = <<u, q[2]>>
    BY SlotIs, ZenonT(40)
  <2>1. PICK j \in 1 .. Len(H[u]) : q = <<u, j>>
    BY <2>1a, Zenon
  <2>2. CASE u = a /\ j <= k
    <3>1. PICK i \in 1 .. Len(G[b]) : i = Len(H[b]) + j /\ i > Len(H[b]) /\ i - Len(H[b]) = j
      <4>1. PICK x \in Nat : x = Len(H[b]) /\ Len(G[b]) = x + k
        BY <1>0, <1>1, Zenon
      <4>2. j \in 1 .. k
        BY <1>0, <1>2, <2>2
      <4>3. x + j \in 1 .. x + k /\ x + j > x /\ (x + j) - x = j
        BY <1>2, <4>2
      <4>. QED BY <1>2, <4>1, <4>3, Zenon
    <3>2. Back(H, a, b, k, <<b, i>>) = q
      BY <1>0, <2>1, <2>2, <3>1, Zenon DEF Back
    <3>. QED BY <1>0, <3>2, SlotIs, Zenon
  <2>3. CASE u = a /\ j > k
    <3>1. PICK i \in 1 .. Len(G[a]) : i + k = j
      <4>1. j - k \in 1 .. Len(G[a]) /\ (j - k) + k = j
        BY <1>0, <1>1, <1>2, <2>3
      <4>. QED BY <4>1, Zenon
    <3>2. Back(H, a, b, k, <<a, i>>) = q
      BY <2>1, <2>3, <3>1, Zenon DEF Back
    <3>. QED BY <1>0, <3>2, SlotIs, Zenon
  <2>4. CASE u = b
    <3>1. j \in 1 .. Len(G[b]) /\ ~(j > Len(H[b]))
      BY <1>0, <1>1, <1>2, <2>4
    <3>2. Back(H, a, b, k, <<b, j>>) = q
      BY <1>0, <2>1, <2>4, <3>1, Zenon DEF Back
    <3>. QED BY <1>0, <3>1, <3>2, SlotIs, Zenon
  <2>5. CASE u \notin {a, b}
    <3>1. Back(H, a, b, k, <<u, j>>) = q /\ j \in 1 .. Len(G[u])
      BY <1>0, <2>1, <2>5, Zenon DEF Back
    <3>. QED BY <3>1, SlotIs, Zenon
  <2>. QED BY <1>0, <1>2, <2>2, <2>3, <2>4, <2>5
<1>. QED BY <1>3, <1>4, <1>5, Zenon

LEMMA MoveKeepsOwn ==
  ASSUME NEW M, NEW S, NEW H, NEW G, NEW P, NEW a, NEW b, NEW k, MoveOf(M, S, H, G, a, b, k), Own(M, S, H, P)
  PROVE  Own(M, S, G, P)
<1> DEFINE Bk(p) == Back(H, a, b, k, p)
<1>1. /\ \A p \in Positions(S, G) : Bk(p) \in Positions(S, H) /\ At(G, p) = At(H, Bk(p))
      /\ \A p, q \in Positions(S, G) : Bk(p) = Bk(q) => p = q
      /\ \A q \in Positions(S, H) : \E p \in Positions(S, G) : q = Bk(p)
  BY BackFacts
<1> HIDE DEF Bk
<1>. QED BY <1>1 DEF Own

\* The step from H and P to G and Q frees the first buffer of store a.
FreeOf(M, S, H, G, P, Q, a) ==
  /\ H \in [S -> Seq(M)] /\ G \in [S -> Seq(M)]
  /\ a \in S /\ H[a] # <<>> /\ Shifted(H[a], G[a], 1)
  /\ \A s \in S \ {a} : G[s] = H[s]
  /\ DOMAIN P = M /\ Q = [P EXCEPT ![H[a][1]] = @ + 1]

\* Where a buffer was before the first of store a was freed.
Ahead(a, p) == IF p[1] = a THEN <<a, p[2] + 1>> ELSE p

FreedSlots(M, S, H, G, a) ==
  /\ H[a][1] \in M /\ <<a, 1>> \in Positions(S, H) /\ At(H, <<a, 1>>) = H[a][1]
  /\ \A p \in Positions(S, G) : /\ Ahead(a, p) \in Positions(S, H) /\ Ahead(a, p) # <<a, 1>>
                                /\ At(G, p) = At(H, Ahead(a, p))
  /\ \A p, q \in Positions(S, G) : Ahead(a, p) = Ahead(a, q) => p = q
  /\ \A q \in Positions(S, H) : q # <<a, 1>> => \E p \in Positions(S, G) : q = Ahead(a, p)

LEMMA FreeFacts ==
  ASSUME NEW M, NEW S, NEW H, NEW G, NEW P, NEW Q, NEW a, FreeOf(M, S, H, G, P, Q, a)
  PROVE  FreedSlots(M, S, H, G, a)
<1>. /\ H \in [S -> Seq(M)] /\ G \in [S -> Seq(M)]
     /\ a \in S /\ H[a] # <<>> /\ Shifted(H[a], G[a], 1)
     /\ \A s \in S \ {a} : G[s] = H[s]
     /\ DOMAIN P = M /\ Q = [P EXCEPT ![H[a][1]] = @ + 1]
  BY Zenon DEF FreeOf
<1>0. Len(H[a]) \in Nat /\ Len(H[a]) >= 1 /\ H[a][1] \in M
  BY LenProperties
<1>1. Len(G[a]) = Len(H[a]) - 1 /\ \A i \in 1 .. Len(H[a]) - 1 : G[a][i] = H[a][i + 1]
  BY Zenon DEF Shifted
<1>2. <<a, 1>> \in Positions(S, H) /\ At(H, <<a, 1>>) = H[a][1]
  <2>1. 1 \in 1 .. Len(H[a])
    BY <1>0
  <2>. QED BY <2>1, SlotIs, Zenon DEF At
<1>3. ASSUME NEW p \in Positions(S, G) PROVE Ahead(a, p) \in Positions(S, H) /\ At(G, p) = At(H, Ahead(a, p)) /\ Ahead(a, p) # <<a, 1>>
  <2>1a. PICK s \in S : s = p[1] /\ p[2] \in 1 .. Len(G[s]) /\ p = <<s, p[2]>>
    BY SlotIs, ZenonT(40)
  <2>1. PICK i \in 1 .. Len(G[s]) : p = <<s, i>>
    BY <2>1a, Zenon
  <2>2. CASE s = a
    <3>1. i + 1 \in 1 .. Len(H[a]) /\ G[a][i] = H[a][i + 1] /\ i + 1 # 1
      BY <1>0, <1>1, <2>2
    <3>. QED BY <2>1, <2>2, <3>1, SlotIs, Zenon DEF At, Ahead
  <2>3. CASE s # a
    BY <2>1, <2>3, SlotIs, Zenon DEF At, Ahead
  <2>. QED BY <2>2, <2>3, Zenon
<1>4. ASSUME NEW p \in Positions(S, G), NEW q \in Positions(S, G), Ahead(a, p) = Ahead(a, q) PROVE p = q
  <2>1a. PICK s \in S : s = p[1] /\ p[2] \in 1 .. Len(G[s]) /\ p = <<s, p[2]>>
    BY SlotIs, ZenonT(40)
  <2>1. PICK i \in 1 .. Len(G[s]) : p = <<s, i>>
    BY <2>1a, Zenon
  <2>2a. PICK u \in S : u = q[1] /\ q[2] \in 1 .. Len(G[u]) /\ q = <<u, q[2]>>
    BY SlotIs, ZenonT(40)
  <2>2. PICK j \in 1 .. Len(G[u]) : q = <<u, j>>
    BY <2>2a, Zenon
  <2>3. PICK x, y : x = (IF s = a THEN i + 1 ELSE i) /\ y = (IF u = a THEN j + 1 ELSE j)
    BY Zenon
  <2>4. Ahead(a, p) = <<s, x>> /\ Ahead(a, q) = <<u, y>>
    BY <2>1, <2>2, <2>3, Zenon DEF Ahead
  <2>5. s = u /\ x = y
    BY <1>4, <2>4 DEF Ahead
  <2>6. i = j
    BY <2>3, <2>5
  <2>. QED BY <2>1, <2>2, <2>5, <2>6, Zenon
<1>5. ASSUME NEW q \in Positions(S, H), q # <<a, 1>> PROVE \E p \in Positions(S, G) : q = Ahead(a, p)
  <2>1a. PICK u \in S : u = q[1] /\ q[2] \in 1 .. Len(H[u]) /\ q = <<u, q[2]>>
    BY SlotIs, ZenonT(40)
  <2>1. PICK j \in 1 .. Len(H[u]) : q = <<u, j>>
    BY <2>1a, Zenon
  <2>2. CASE u = a
    <3>1. PICK i \in 1 .. Len(G[a]) : i + 1 = j
      <4>1. j # 1
        BY <1>5, <2>1, <2>2, Zenon
      <4>2. j - 1 \in 1 .. Len(G[a]) /\ (j - 1) + 1 = j
        BY <1>0, <1>1, <2>2, <4>1
      <4>. QED BY <4>2, Zenon
    <3>2. Ahead(a, <<a, i>>) = q
      BY <2>1, <2>2, <3>1, Zenon DEF Ahead
    <3>. QED BY <3>2, SlotIs, Zenon
  <2>3. CASE u # a
    <3>1. Ahead(a, <<u, j>>) = q /\ j \in 1 .. Len(G[u])
      BY <2>1, <2>3, Zenon DEF Ahead
    <3>. QED BY <3>1, SlotIs, Zenon
  <2>. QED BY <2>2, <2>3, Zenon
<1>. QED BY <1>0, <1>2, <1>3, <1>4, <1>5, Zenon DEF FreedSlots

LEMMA FreeKeepsOwn ==
  ASSUME NEW M, NEW S, NEW H, NEW G, NEW P, NEW Q, NEW a, FreeOf(M, S, H, G, P, Q, a), Own(M, S, H, P)
  PROVE  Own(M, S, G, Q) /\ \A p \in Positions(S, G) : At(G, p) \in M /\ At(G, p) # H[a][1]
<1>0. FreedSlots(M, S, H, G, a)
  BY FreeFacts, Zenon
<1>1. H[a][1] \in M /\ <<a, 1>> \in Positions(S, H) /\ At(H, <<a, 1>>) = H[a][1]
  BY <1>0, Zenon DEF FreedSlots
<1>3. \A p \in Positions(S, G) : Ahead(a, p) \in Positions(S, H) /\ Ahead(a, p) # <<a, 1>> /\ At(G, p) = At(H, Ahead(a, p))
  BY <1>0, Zenon DEF FreedSlots
<1>4. \A p, q \in Positions(S, G) : Ahead(a, p) = Ahead(a, q) => p = q
  BY <1>0, Zenon DEF FreedSlots
<1>5. \A q \in Positions(S, H) : q # <<a, 1>> => \E p \in Positions(S, G) : q = Ahead(a, p)
  BY <1>0, Zenon DEF FreedSlots
<1>. /\ H \in [S -> Seq(M)] /\ G \in [S -> Seq(M)]
     /\ a \in S /\ H[a] # <<>> /\ Shifted(H[a], G[a], 1)
     /\ \A s \in S \ {a} : G[s] = H[s]
     /\ DOMAIN P = M /\ Q = [P EXCEPT ![H[a][1]] = @ + 1]
  BY Zenon DEF FreeOf
<1> DEFINE m == H[a][1]
<1>2. m \in M /\ At(H, <<a, 1>>) = m
  BY <1>1, Zenon
<1> HIDE DEF m
<1>6. P[m] = 0 /\ Q[m] = 1 /\ \A x \in M : x # m => Q[x] = P[x]
  <2>1. P[m] = 0
    BY <1>1, <1>2, Zenon DEF Own
  <2>. QED BY <1>2, <2>1 DEF m
<1>7. \A p \in Positions(S, G) : At(G, p) \in M /\ At(G, p) # m
  <2> SUFFICES ASSUME NEW p \in Positions(S, G) PROVE At(G, p) \in M /\ At(G, p) # m
    BY Zenon
  <2>1. At(G, p) # m
    BY <1>1, <1>2, <1>3, ZenonT(40) DEF Own
  <2>2a. PICK s \in S : s = p[1] /\ p[2] \in 1 .. Len(G[s]) /\ p = <<s, p[2]>>
    BY SlotIs, ZenonT(40)
  <2>2. PICK i \in 1 .. Len(G[s]) : p = <<s, i>>
    BY <2>2a, Zenon
  <2>3. At(G, p) \in M
    BY <2>2, LenProperties, Zenon DEF At
  <2>. QED BY <2>1, <2>3, Zenon
<1>8. \A p, q \in Positions(S, G) : At(G, p) = At(G, q) => p = q
  BY <1>3, <1>4 DEF Own
<1>9. \A p \in Positions(S, G) : Q[At(G, p)] = 0
  BY <1>3, <1>6, <1>7 DEF Own
<1>10. ASSUME NEW x \in M PROVE Q[x] \in {0, 1} /\ (Q[x] = 0 => \E p \in Positions(S, G) : At(G, p) = x)
  <2>1. CASE x = m
    BY <1>6, <2>1
  <2>2. CASE x # m
    <3>1. Q[x] = P[x] /\ P[x] \in {0, 1}
      BY <1>6, <2>2, Zenon DEF Own
    <3>2. ASSUME P[x] = 0 PROVE \E p \in Positions(S, G) : At(G, p) = x
      <4>1. PICK q \in Positions(S, H) : At(H, q) = x
        BY <3>2, Zenon DEF Own
      <4>2. q # <<a, 1>>
        BY <1>2, <2>2, <4>1, Zenon
      <4>. QED BY <1>3, <1>5, <4>1, <4>2, Zenon
    <3>. QED BY <3>1, <3>2, Zenon
  <2>. QED BY <2>1, <2>2, Zenon
<1>. QED BY <1>7, <1>8, <1>9, <1>10, Zenon DEF Own, m

\* The step from H and P to G and Q takes buffer m from its mempool to store a.
TakeOf(M, S, H, G, P, Q, a, m) ==
  /\ H \in [S -> Seq(M)] /\ G \in [S -> Seq(M)]
  /\ a \in S /\ m \in M /\ Extended(H[a], G[a], <<m>>, 1)
  /\ \A s \in S \ {a} : G[s] = H[s]
  /\ DOMAIN P = M /\ Q = [P EXCEPT ![m] = @ - 1] /\ P[m] > 0

\* The slots after it, new the one it fills.
TakenSlots(M, S, H, G, m, new) ==
  /\ Positions(S, G) = Positions(S, H) \cup {new} /\ new \notin Positions(S, H) /\ At(G, new) = m
  /\ \A p \in Positions(S, H) : At(G, p) = At(H, p) /\ At(H, p) \in M

LEMMA TakeFacts ==
  ASSUME NEW M, NEW S, NEW H, NEW G, NEW P, NEW Q, NEW a, NEW m, TakeOf(M, S, H, G, P, Q, a, m)
  PROVE  TakenSlots(M, S, H, G, m, <<a, Len(H[a]) + 1>>)
<1>. /\ H \in [S -> Seq(M)] /\ G \in [S -> Seq(M)]
     /\ a \in S /\ m \in M /\ Extended(H[a], G[a], <<m>>, 1)
     /\ \A s \in S \ {a} : G[s] = H[s]
     /\ DOMAIN P = M /\ Q = [P EXCEPT ![m] = @ - 1] /\ P[m] > 0
  BY Zenon DEF TakeOf
<1>0. Len(H[a]) \in Nat /\ Len(G[a]) \in Nat /\ <<m>>[1] = m
  BY LenProperties, Zenon
<1>1. /\ Len(G[a]) = Len(H[a]) + 1 /\ \A i \in 1 .. Len(H[a]) : G[a][i] = H[a][i]
      /\ G[a][Len(H[a]) + 1] = m
  BY <1>0 DEF Extended
<1> DEFINE new == <<a, Len(H[a]) + 1>>
<1>2. Positions(S, G) = Positions(S, H) \cup {new} /\ new \notin Positions(S, H)
  <2>1. ASSUME NEW p \in Positions(S, G) PROVE p \in Positions(S, H) \cup {new}
    <3>1a. PICK s \in S : s = p[1] /\ p[2] \in 1 .. Len(G[s]) /\ p = <<s, p[2]>>
      BY SlotIs, Zenon
    <3>1. PICK i \in 1 .. Len(G[s]) : p = <<s, i>>
      BY <3>1a, Zenon
    <3>2. s = a => i = Len(H[a]) + 1 \/ i \in 1 .. Len(H[a])
      BY <1>0, <1>1
    <3>. QED BY <3>1, <3>2, SlotIs, Zenon
  <2>2. ASSUME NEW p \in Positions(S, H) PROVE p \in Positions(S, G) /\ p # new
    <3>1a. PICK s \in S : s = p[1] /\ p[2] \in 1 .. Len(H[s]) /\ p = <<s, p[2]>>
      BY SlotIs, Zenon
    <3>1. PICK i \in 1 .. Len(H[s]) : p = <<s, i>>
      BY <3>1a, Zenon
    <3>2. i \in 1 .. Len(G[s]) /\ (s = a => i # Len(H[a]) + 1)
      BY <1>0, <1>1
    <3>. QED BY <3>1, <3>2, SlotIs, Zenon
  <2>3. new \in Positions(S, G)
    <3>1. Len(H[a]) + 1 \in 1 .. Len(G[a])
      BY <1>0, <1>1
    <3>. QED BY <3>1, SlotIs, Zenon
  <2> HIDE DEF new
  <2>. QED BY <2>1, <2>2, <2>3, Zenon
<1>3. At(G, new) = m
  BY <1>1, Zenon DEF At
<1> HIDE DEF new
<1>4. \A p \in Positions(S, H) : At(G, p) = At(H, p) /\ At(H, p) \in M
  <2> SUFFICES ASSUME NEW p \in Positions(S, H) PROVE At(G, p) = At(H, p) /\ At(H, p) \in M
    BY Zenon
  <2>1a. PICK s \in S : s = p[1] /\ p[2] \in 1 .. Len(H[s]) /\ p = <<s, p[2]>>
    BY SlotIs, ZenonT(40)
  <2>1. PICK i \in 1 .. Len(H[s]) : p = <<s, i>>
    BY <2>1a, Zenon
  <2>2. G[s][i] = H[s][i] /\ H[s][i] \in M
    BY <1>1, LenProperties, Zenon
  <2>. QED BY <2>1, <2>2, Zenon DEF At
<1>. QED BY <1>2, <1>3, <1>4, Zenon DEF new, TakenSlots

LEMMA TakeKeepsOwn ==
  ASSUME NEW M, NEW S, NEW H, NEW G, NEW P, NEW Q, NEW a, NEW m, TakeOf(M, S, H, G, P, Q, a, m), Own(M, S, H, P)
  PROVE  Own(M, S, G, Q)
<1>1. PICK new : new = <<a, Len(H[a]) + 1>>
  BY Zenon
<1>2. /\ Positions(S, G) = Positions(S, H) \cup {new} /\ new \notin Positions(S, H) /\ At(G, new) = m
      /\ \A p \in Positions(S, H) : At(G, p) = At(H, p) /\ At(H, p) \in M
  <2>1. TakenSlots(M, S, H, G, m, new)
    BY <1>1, TakeFacts, Zenon
  <2>. QED BY <2>1, Zenon DEF TakenSlots
<1>. /\ H \in [S -> Seq(M)] /\ G \in [S -> Seq(M)]
     /\ a \in S /\ m \in M /\ Extended(H[a], G[a], <<m>>, 1)
     /\ \A s \in S \ {a} : G[s] = H[s]
     /\ DOMAIN P = M /\ Q = [P EXCEPT ![m] = @ - 1] /\ P[m] > 0
  BY Zenon DEF TakeOf
<1>5. P[m] = 1 /\ Q[m] = 0 /\ \A x \in M : x # m => Q[x] = P[x]
  <2>1. P[m] = 1
    BY DEF Own
  <2>. QED BY <2>1
<1>6. \A p \in Positions(S, H) : At(H, p) # m
  BY <1>5 DEF Own
<1>7. \A p, q \in Positions(S, G) : At(G, p) = At(G, q) => p = q
  BY <1>2, <1>6, Zenon DEF Own
<1>8. \A p \in Positions(S, G) : Q[At(G, p)] = 0
  BY <1>2, <1>5, <1>6, ZenonT(40) DEF Own
<1>9. \A x \in M : Q[x] \in {0, 1} /\ (Q[x] = 0 => \E p \in Positions(S, G) : At(G, p) = x)
  BY <1>2, <1>5 DEF Own
<1>. QED BY <1>7, <1>8, <1>9, Zenon DEF Own
-----------------------------------------------------------------------------
(***************************************************************************)
(* Order.                                                                  *)
(***************************************************************************)
\* Of two buffers of one origin the one further on its way is related by X to the
\* other.  <<s, u>> is in Rel when what is in s is further on its way than what is in u.
InOrder(Rel, S, H, O, X) ==
  \A s, u \in S : <<s, u>> \in Rel =>
    \A i \in 1 .. Len(H[s]), j \in 1 .. Len(H[u]) :
      (s = u => i < j) /\ O[H[s][i]].ring = O[H[u][j]].ring => <<H[s][i], H[u][j]>> \in X

\* Going from a to the end of b, buffers overtake none of their origin.
Clears(Rel, S, H, O, a, b) ==
  /\ <<a, b>> \notin Rel /\ \A s \in S : <<s, s>> \in Rel
  /\ \A s \in S : <<s, b>> \in Rel => <<s, a>> \in Rel
  /\ \A u \in S \ {a, b} : <<b, u>> \in Rel =>
       <<a, u>> \in Rel \/ \A i \in 1 .. Len(H[a]), j \in 1 .. Len(H[u]) : O[H[a][i]].ring # O[H[u][j]].ring

\* Where the buffer at i of s was before k went from a to b, n being the length of b.
Source(a, b, k, n, s, i, v, l) ==
  \/ s \notin {a, b} /\ v = s /\ l = i
  \/ s = a /\ v = a /\ l = i + k
  \/ s = b /\ v = b /\ l = i /\ i <= n
  \/ s = b /\ v = a /\ l = i - n /\ l <= k /\ i > n

\* Of two buffers that come from the same store, the one in front was in front.
LEMMA SourceOrder ==
  ASSUME NEW a, NEW b, a # b, NEW k \in Nat, NEW n \in Nat, NEW i \in Nat, NEW j \in Nat \ {0}, NEW s, NEW u,
         NEW v, NEW l, NEW l2, Source(a, b, k, n, s, i, v, l), Source(a, b, k, n, u, j, v, l2),
         s = u => i < j, ~(s = a /\ u = b)
  PROVE  l < l2
<1>1. CASE s = u
  BY <1>1 DEF Source
<1>2. CASE s # u
  <2>1. s = b /\ u = a
    BY <1>2 DEF Source
  <2>2. l <= k /\ l = i - n
    BY <2>1, Zenon DEF Source
  <2>3. l2 = j + k
    BY <2>1, Zenon DEF Source
  <2>. QED BY <2>2, <2>3
<1>. QED BY <1>1, <1>2, Zenon

LEMMA SourceExists ==
  ASSUME NEW M, NEW S, NEW H, NEW G, NEW a, NEW b, NEW k, MoveOf(M, S, H, G, a, b, k),
         NEW s \in S, NEW i \in 1 .. Len(G[s])
  PROVE  \E v \in S : \E l \in 1 .. Len(H[v]) :
           G[s][i] = H[v][l] /\ Source(a, b, k, Len(H[b]), s, i, v, l)
<1>0. /\ a \in S /\ b \in S /\ a # b /\ k \in 0 .. Len(H[a])
      /\ \A x \in S : Len(H[x]) \in Nat /\ Len(G[x]) \in Nat
      /\ \A x \in S \ {a, b} : G[x] = H[x]
  BY LenProperties, Zenon DEF MoveOf
<1>1. /\ Len(G[a]) = Len(H[a]) - k /\ \A x \in 1 .. Len(H[a]) - k : G[a][x] = H[a][x + k]
      /\ Len(G[b]) = Len(H[b]) + k /\ \A x \in 1 .. Len(H[b]) : G[b][x] = H[b][x]
      /\ \A x \in 1 .. k : G[b][Len(H[b]) + x] = H[a][x]
  BY Zenon DEF MoveOf, Shifted, Extended
<1>2. PICK n \in Nat, w \in Nat : n = Len(H[b]) /\ w = Len(H[a])
  BY <1>0, Zenon
<1>3. CASE s \notin {a, b}
  <2>1. G[s][i] = H[s][i] /\ i \in 1 .. Len(H[s]) /\ Source(a, b, k, Len(H[b]), s, i, s, i)
    BY <1>0, <1>3, Zenon DEF Source
  <2>. QED BY <2>1, ZenonT(40)
<1>4. CASE s = a
  <2>1. i + k \in 1 .. w /\ i \in 1 .. w - k
    BY <1>0, <1>1, <1>2, <1>4
  <2>2. G[s][i] = H[a][i + k] /\ i + k \in 1 .. Len(H[a])
    BY <1>1, <1>2, <1>4, <2>1, Zenon
  <2>3. Source(a, b, k, Len(H[b]), s, i, a, i + k)
    BY <1>4 DEF Source
  <2>. QED BY <1>0, <2>2, <2>3, ZenonT(40)
<1>5. CASE s = b /\ i <= n
  <2>1. i \in 1 .. n
    BY <1>0, <1>5
  <2>2. G[s][i] = H[b][i] /\ i \in 1 .. Len(H[b]) /\ Source(a, b, k, Len(H[b]), s, i, b, i)
    BY <1>1, <1>2, <1>5, <2>1, Zenon DEF Source
  <2>. QED BY <1>0, <2>2, Zenon
<1>6. CASE s = b /\ i > n
  <2>1. PICK l \in 1 .. k : l = i - n /\ i = n + l
    <3>1. i \in 1 .. n + k
      BY <1>1, <1>2, <1>6, Zenon
    <3>2. i - n \in 1 .. k /\ i = n + (i - n)
      BY <1>0, <1>2, <1>6, <3>1
    <3>. QED BY <3>2
  <2>2. l \in 1 .. w
    BY ONLY <1>0, <1>2, <2>1
  <2>3. G[s][i] = H[a][l] /\ l \in 1 .. Len(H[a])
    BY <1>1, <1>2, <1>6, <2>1, <2>2, Zenon
  <2>4. Source(a, b, k, Len(H[b]), s, i, a, l)
    BY <1>2, <1>6, <2>1 DEF Source
  <2>. QED BY <1>0, <2>3, <2>4, ZenonT(40)
<1>7. i <= n \/ i > n
  BY <1>0, <1>2
<1>. QED BY <1>3, <1>4, <1>5, <1>6, <1>7, Zenon

LEMMA MoveKeepsOrder ==
  ASSUME NEW M, NEW S, NEW H, NEW G, NEW Rel, NEW O, NEW X, NEW a, NEW b, NEW k, MoveOf(M, S, H, G, a, b, k),
         Clears(Rel, S, H, O, a, b), InOrder(Rel, S, H, O, X)
  PROVE  InOrder(Rel, S, G, O, X)
<1> SUFFICES ASSUME NEW s \in S, NEW u \in S, <<s, u>> \in Rel, NEW i \in 1 .. Len(G[s]), NEW j \in 1 .. Len(G[u]),
                    s = u => i < j, O[G[s][i]].ring = O[G[u][j]].ring
             PROVE  <<G[s][i], G[u][j]>> \in X
  BY ZenonT(40) DEF InOrder
<1>1. a \in S /\ b \in S /\ a # b /\ k \in Nat /\ Len(H[b]) \in Nat /\ i \in Nat /\ j \in Nat \ {0}
  BY LenProperties DEF MoveOf
<1>1a. PICK n \in Nat : n = Len(H[b])
  BY <1>1, ZenonT(40)
<1>2a. PICK v \in S : \E l \in 1 .. Len(H[v]) : G[s][i] = H[v][l] /\ Source(a, b, k, n, s, i, v, l)
  <2>1. MoveOf(M, S, H, G, a, b, k) /\ s \in S /\ i \in 1 .. Len(G[s])
    BY Zenon
  <2>2. \E x \in S : \E y \in 1 .. Len(H[x]) : G[s][i] = H[x][y] /\ Source(a, b, k, Len(H[b]), s, i, x, y)
    BY ONLY <2>1, SourceExists
  <2>. QED BY <1>1a, <2>2, ZenonT(40)
<1>2. PICK l \in 1 .. Len(H[v]) : G[s][i] = H[v][l] /\ Source(a, b, k, n, s, i, v, l)
  BY <1>2a, Zenon
<1>3a. PICK w \in S : \E l2 \in 1 .. Len(H[w]) : G[u][j] = H[w][l2] /\ Source(a, b, k, n, u, j, w, l2)
  <2>1. MoveOf(M, S, H, G, a, b, k) /\ u \in S /\ j \in 1 .. Len(G[u])
    BY Zenon
  <2>2. \E x \in S : \E y \in 1 .. Len(H[x]) : G[u][j] = H[x][y] /\ Source(a, b, k, Len(H[b]), u, j, x, y)
    BY ONLY <2>1, SourceExists
  <2>. QED BY <1>1a, <2>2, ZenonT(40)
<1>3. PICK l2 \in 1 .. Len(H[w]) : G[u][j] = H[w][l2] /\ Source(a, b, k, n, u, j, w, l2)
  BY <1>3a, Zenon
<1>4. /\ <<a, b>> \notin Rel
      /\ \A x \in S : <<x, b>> \in Rel => <<x, a>> \in Rel
  BY Zenon DEF Clears
<1>5. (v = w => l < l2) /\ l \in Int /\ l2 \in Int
  <2>1. l \in Int /\ l2 \in Int
    OBVIOUS
  <2>2. ASSUME v = w PROVE l < l2
    <3>1. Source(a, b, k, n, s, i, v, l) /\ Source(a, b, k, n, u, j, v, l2)
      BY <1>2, <1>3, <2>2, Zenon
    <3>2. (s = u => i < j) /\ ~(s = a /\ u = b)
      BY <1>4, Zenon
    <3>. QED BY ONLY <1>1, <1>1a, <3>1, <3>2, SourceOrder
  <2>. QED BY <2>1, <2>2, Zenon
<1>6. <<v, w>> \in Rel
  <2>1. CASE s = b /\ v = a
    <3>1. CASE u \in {a, b}
      <4>1. w = a
        BY <1>1, <1>2, <1>3, <2>1, <3>1 DEF Source
      <4>. QED BY <1>1, <2>1, <4>1, ZenonT(40) DEF Clears
    <3>2. CASE u \notin {a, b}
      <4>1. w = u
        BY <1>3, <3>2, Zenon DEF Source
      <4>2. O[H[a][l]].ring = O[H[u][l2]].ring /\ l \in 1 .. Len(H[a]) /\ l2 \in 1 .. Len(H[u])
        BY <1>2, <1>3, <2>1, <4>1, Zenon
      <4>. QED BY <2>1, <3>2, <4>1, <4>2, ZenonT(40) DEF Clears
    <3>. QED BY <3>1, <3>2, Zenon
  <2>2. CASE v = s
    <3>1. CASE u = b /\ w = a
      BY <1>4, <2>2, <3>1, Zenon
    <3>2. CASE w = u
      BY <2>2, <3>2, Zenon
    <3>. QED BY <1>3, <3>1, <3>2, Zenon DEF Source
  <2>. QED BY <1>2, <2>1, <2>2, Zenon DEF Source
<1>7. <<H[v][l], H[w][l2]>> \in X
  BY <1>2, <1>3, <1>5, <1>6, Zenon DEF InOrder
<1>. QED BY <1>2, <1>3, <1>7, Zenon

\* Origins and order change for buffer m only, which goes, or comes last.
OrderWithout(M, m, O, O2, X, X2) ==
  /\ \A n \in M : n # m => O2[n] = O[n]
  /\ \A n, p \in M : <<n, p>> \in X /\ n # m /\ p # m => <<n, p>> \in X2

OrderWith(M, m, P, O, O2, X, X2) ==
  /\ \A n \in M : n # m => O2[n] = O[n]
  /\ X \subseteq X2 /\ \A n \in M : P[n] = 0 => <<n, m>> \in X2

LEMMA FreeKeepsOrder ==
  ASSUME NEW M, NEW S, NEW H, NEW G, NEW P, NEW Q, NEW a, FreeOf(M, S, H, G, P, Q, a), Own(M, S, H, P),
         NEW Rel, NEW O, NEW O2, NEW X, NEW X2, InOrder(Rel, S, H, O, X), OrderWithout(M, H[a][1], O, O2, X, X2)
  PROVE  InOrder(Rel, S, G, O2, X2)
<1> USE DEF OrderWithout
<1>1. \A p \in Positions(S, G) : At(G, p) \in M /\ At(G, p) # H[a][1]
  BY FreeKeepsOwn
<1>2. /\ a \in S /\ \A s \in S : Len(H[s]) \in Nat /\ Len(G[s]) \in Nat
      /\ Len(G[a]) = Len(H[a]) - 1 /\ \A i \in 1 .. Len(H[a]) - 1 : G[a][i] = H[a][i + 1]
      /\ \A s \in S \ {a} : G[s] = H[s]
  BY LenProperties, Zenon DEF FreeOf, Shifted
<1>3. ASSUME NEW s \in S, NEW i \in 1 .. Len(G[s])
      PROVE  /\ G[s][i] \in M /\ G[s][i] # H[a][1]
             /\ \E l \in 1 .. Len(H[s]) : G[s][i] = H[s][l] /\ l = IF s = a THEN i + 1 ELSE i
  <2>1. <<s, i>> \in Positions(S, G) /\ At(G, <<s, i>>) = G[s][i]
    BY SlotIs, Zenon DEF At
  <2>2. CASE s = a
    <3>1. i + 1 \in 1 .. Len(H[a]) /\ i \in 1 .. Len(H[a]) - 1
      BY <1>2, <2>2
    <3>. QED BY <1>1, <1>2, <2>1, <2>2, <3>1, ZenonT(40)
  <2>3. CASE s # a
    BY <1>1, <1>2, <2>1, <2>3, Zenon
  <2>. QED BY <2>2, <2>3, Zenon
<1> SUFFICES ASSUME NEW s \in S, NEW u \in S, <<s, u>> \in Rel, NEW i \in 1 .. Len(G[s]), NEW j \in 1 .. Len(G[u]),
                    s = u => i < j, O2[G[s][i]].ring = O2[G[u][j]].ring
             PROVE  <<G[s][i], G[u][j]>> \in X2
  BY ZenonT(40) DEF InOrder
<1>4. PICK l \in 1 .. Len(H[s]) : G[s][i] = H[s][l] /\ l = IF s = a THEN i + 1 ELSE i
  BY <1>3, ZenonT(40)
<1>5. PICK l2 \in 1 .. Len(H[u]) : G[u][j] = H[u][l2] /\ l2 = IF u = a THEN j + 1 ELSE j
  BY <1>3, ZenonT(40)
<1>6. PICK m \in M, n \in M : m = G[s][i] /\ n = G[u][j] /\ m # H[a][1] /\ n # H[a][1]
  <2>1. G[s][i] \in M /\ G[s][i] # H[a][1]
    BY <1>3, ZenonT(40)
  <2>2. G[u][j] \in M /\ G[u][j] # H[a][1]
    BY <1>3, ZenonT(40)
  <2>. QED BY <2>1, <2>2, Zenon
<1>7. s = u => l < l2
  <2>1. i \in Int /\ j \in Int
    OBVIOUS
  <2>2. s = u => i < j /\ l = (IF s = a THEN i + 1 ELSE i) /\ l2 = IF s = a THEN j + 1 ELSE j
    BY <1>4, <1>5, ZenonT(40)
  <2>. QED BY ONLY <2>1, <2>2
<1>8. O[m].ring = O[n].ring
  BY <1>6, Zenon
<1>9. <<m, n>> \in X
  <2>1. \A k \in 1 .. Len(H[s]), k2 \in 1 .. Len(H[u]) :
          (s = u => k < k2) /\ O[H[s][k]].ring = O[H[u][k2]].ring => <<H[s][k], H[u][k2]>> \in X
    BY Zenon DEF InOrder
  <2>2. m = H[s][l] /\ n = H[u][l2]
    BY <1>4, <1>5, <1>6, Zenon
  <2>. QED BY <1>7, <1>8, <2>1, <2>2, Zenon
<1>. QED BY <1>6, <1>9, ZenonT(40)

LEMMA TakeKeepsOrder ==
  ASSUME NEW M, NEW S, NEW H, NEW G, NEW P, NEW Q, NEW a, NEW m, TakeOf(M, S, H, G, P, Q, a, m), Own(M, S, H, P),
         NEW Rel, NEW O, NEW O2, NEW X, NEW X2, InOrder(Rel, S, H, O, X),
         \A u \in S : <<a, u>> \in Rel => u = a, OrderWith(M, m, P, O, O2, X, X2)
  PROVE  InOrder(Rel, S, G, O2, X2)
<1> USE DEF OrderWith
<1>1. /\ a \in S /\ \A s \in S : Len(H[s]) \in Nat /\ Len(G[s]) \in Nat
      /\ Len(G[a]) = Len(H[a]) + 1 /\ \A i \in 1 .. Len(H[a]) : G[a][i] = H[a][i]
      /\ \A s \in S \ {a} : G[s] = H[s]
      /\ P[m] > 0 /\ H \in [S -> Seq(M)]
  BY LenProperties, Zenon DEF TakeOf, Extended
<1>2. G[a][Len(H[a]) + 1] = m
  <2>1. <<m>>[1] = m /\ 1 \in 1 .. 1
    OBVIOUS
  <2>. QED BY <2>1, ZenonT(40) DEF TakeOf, Extended
<1>3. ASSUME NEW s \in S, NEW i \in 1 .. Len(H[s])
      PROVE  H[s][i] \in M /\ P[H[s][i]] = 0 /\ H[s][i] # m
  <2>1. <<s, i>> \in Positions(S, H) /\ At(H, <<s, i>>) = H[s][i]
    BY SlotIs, Zenon DEF At
  <2>2. H[s][i] \in M
    BY <1>1, LenProperties, Zenon
  <2>3. P[H[s][i]] = 0
    BY <2>1, ZenonT(40) DEF Own
  <2>. QED BY <1>1, <2>2, <2>3
<1>4. ASSUME NEW s \in S, NEW i \in 1 .. Len(G[s])
      PROVE  \/ i \in 1 .. Len(H[s]) /\ G[s][i] = H[s][i]
             \/ s = a /\ i = Len(H[a]) + 1
  <2>1. CASE s = a
    <3>1. i \in 1 .. Len(H[a]) \/ i = Len(H[a]) + 1
      BY <1>1, <2>1
    <3>. QED BY <1>1, <2>1, <3>1, ZenonT(40)
  <2>2. CASE s # a
    BY <1>1, <2>2, Zenon
  <2>. QED BY <2>1, <2>2, Zenon
<1> SUFFICES ASSUME NEW s \in S, NEW u \in S, <<s, u>> \in Rel, NEW i \in 1 .. Len(G[s]), NEW j \in 1 .. Len(G[u]),
                    s = u => i < j, O2[G[s][i]].ring = O2[G[u][j]].ring
             PROVE  <<G[s][i], G[u][j]>> \in X2
  BY ZenonT(40) DEF InOrder
<1>5. i \in 1 .. Len(H[s]) /\ G[s][i] = H[s][i]
  <2>1. SUFFICES ASSUME s = a, i = Len(H[a]) + 1 PROVE FALSE
    BY <1>4, Zenon
  <2>2. u = a /\ i < j
    BY <2>1, Zenon
  <2>3. j \in 1 .. Len(H[a]) + 1
    BY <1>1, <2>2, Zenon
  <2>. QED BY <1>1, <2>1, <2>2, <2>3
<1>6. CASE u = a /\ j = Len(H[a]) + 1
  BY <1>2, <1>3, <1>5, <1>6, Zenon
<1>7. CASE j \in 1 .. Len(H[u]) /\ G[u][j] = H[u][j]
  <2>1. O[H[s][i]].ring = O[H[u][j]].ring
    BY <1>3, <1>5, <1>7, Zenon
  <2>. QED BY <1>5, <1>7, <2>1, Zenon DEF InOrder
<1>. QED BY <1>4, <1>6, <1>7, Zenon
-----------------------------------------------------------------------------
(***************************************************************************)
(* The phases.                                                             *)
(***************************************************************************)
Active == {"top", "recv", "frames", "send", "sleep"}

Launched(s) == tpc[s] = "done" \/ (tpc[s] \in Active /\ lcore[s] = "RUNNING")

\* Worker i has queue i as long as the configurations exist.
OwnQueues ==
  Alive => thr_confs = [t \in Workers |-> [int_confs |-> thr_confs[t].int_confs, q_id |-> t]]

Phase ==
  /\ mpc = "configure" => \A t \in Workers : tpc[t] = "idle"
  /\ mpc = "launch" => /\ mi \in 1 .. LcoreCount
                       /\ tpc[0] = "idle"
                       /\ \A s \in Slaves : IF s < mi THEN Launched(s) ELSE tpc[s] = "idle"
  /\ mpc = "work" => \A s \in Slaves : Launched(s)
  /\ mpc = "wait" => /\ mi \in 1 .. LcoreCount
                     /\ tpc[0] = "done"
                     /\ \A s \in Slaves : Launched(s) /\ (s < mi => tpc[s] = "done")
  /\ mpc = "end" => \A t \in Workers : tpc[t] = "done"

RInv ==
  /\ tpc \in [Workers -> WorkerPhases]
  /\ lcore \in [Slaves -> {"WAIT", "RUNNING", "FINISHED"}]
  /\ OwnQueues
  /\ Phase

LEMMA WorkerSets == LcoreCount \in Nat /\ Workers = Slaves \cup {0} /\ 0 \notin Slaves /\ Slaves \subseteq Int
BY RouterAssumption DEF Workers, Slaves

LEMMA InitRInv == Init => RInv
<1> SUFFICES ASSUME Init PROVE RInv
  OBVIOUS
<1>1. tpc \in [Workers -> WorkerPhases] /\ lcore \in [Slaves -> {"WAIT", "RUNNING", "FINISHED"}]
  BY Zenon DEF Init, WorkerPhases
<1>2. OwnQueues
  BY Zenon DEF Init, OwnQueues, QId
<1>3. Phase
  BY Zenon DEF Init, Phase
<1>. QED BY <1>1, <1>2, <1>3 DEF RInv

\* What a step of a worker does to the state the invariant is about.
LEMMA WorkerStep ==
  ASSUME RInv, NEW t \in Workers, Worker(t)
  PROVE  /\ tpc[t] \in Active
         /\ thr_confs' = thr_confs /\ mi' = mi
         /\ \/ /\ mpc' = mpc /\ lcore' = lcore
               /\ \E p \in Active : tpc' = [tpc EXCEPT ![t] = p]
            \/ /\ mpc' = mpc
               /\ tpc' = [tpc EXCEPT ![t] = "done"]
               /\ lcore' = IF t \in Slaves THEN [lcore EXCEPT ![t] = "FINISHED"] ELSE lcore
            \/ mpc' = "undefined" /\ lcore' = lcore /\ tpc' = tpc
<1> USE DEF master, workers, Active
<1>0. tpc = [tpc EXCEPT ![t] = tpc[t]]
  BY DEF RInv
<1>1. CASE RoundStart(t)
  BY <1>1, Zenon DEF RoundStart
<1>2. CASE recv_from_device(t)
  BY <1>0, <1>2, Zenon DEF recv_from_device
<1>3. CASE RecvEnd(t)
  BY <1>0, <1>3, Zenon DEF RecvEnd
<1>4. CASE thread_handle_frames(t)
  BY <1>0, <1>4, Zenon DEF thread_handle_frames
<1>5. CASE FramesEnd(t)
  BY <1>5, Zenon DEF FramesEnd
<1>6. CASE rte_eth_tx_burst(t)
  BY <1>0, <1>6, Zenon DEF rte_eth_tx_burst
<1>7. CASE TransmitUnattached(t)
  BY <1>7, Zenon DEF TransmitUnattached
<1>8. CASE TransmitGivenUp(t)
  BY <1>8, Zenon DEF TransmitGivenUp
<1>9. CASE RoundEnd(t)
  BY <1>9, Zenon DEF RoundEnd
<1>10. CASE Wake(t)
  BY <1>10, Zenon DEF Wake
<1>. QED BY <1>1, <1>2, <1>3, <1>4, <1>5, <1>6, <1>7, <1>8, <1>9, <1>10, ZenonT(40) DEF Worker

LEMMA WorkerKeepsRInv ==
  ASSUME RInv, NEW t \in Workers, Worker(t)
  PROVE  RInv'
<1>0. Alive /\ tpc[t] \in Active /\ thr_confs' = thr_confs /\ mi' = mi
  BY WorkerStep, Zenon DEF Worker
<1>1. ASSUME mpc' = mpc, lcore' = lcore, NEW p \in Active, tpc' = [tpc EXCEPT ![t] = p] PROVE RInv'
  <2>1. tpc' \in [Workers -> WorkerPhases]
    BY <1>1, Zenon DEF RInv, WorkerPhases, Active
  <2>2. \A s \in Slaves : Launched(s) => Launched(s)'
    BY <1>0, <1>1, WorkerSets, Zenon DEF RInv, Launched, Active
  <2>3. Phase'
    BY <1>0, <1>1, <2>2, WorkerSets DEF RInv, Phase, Launched, Active
  <2>. QED BY <1>0, <1>1, <2>1, <2>3, Zenon DEF RInv, OwnQueues, Alive
<1>2. ASSUME mpc' = mpc, tpc' = [tpc EXCEPT ![t] = "done"],
             lcore' = IF t \in Slaves THEN [lcore EXCEPT ![t] = "FINISHED"] ELSE lcore
      PROVE  RInv'
  <2>1. tpc' \in [Workers -> WorkerPhases] /\ lcore' \in [Slaves -> {"WAIT", "RUNNING", "FINISHED"}]
    BY <1>2, ZenonT(40) DEF RInv, WorkerPhases
  <2>2. \A s \in Slaves : Launched(s) => Launched(s)'
    BY <1>0, <1>2, WorkerSets, Zenon DEF RInv, Launched, Active
  <2>3. Phase'
    BY <1>0, <1>2, <2>2, WorkerSets, ZenonT(40) DEF RInv, Phase, Launched, Active
  <2>. QED BY <1>0, <1>2, <2>1, <2>3, ZenonT(40) DEF RInv, OwnQueues, Alive
<1>3. ASSUME mpc' = "undefined", lcore' = lcore, tpc' = tpc PROVE RInv'
  BY <1>3, Zenon DEF RInv, OwnQueues, Alive, Phase
<1>. QED BY <1>1, <1>2, <1>3, WorkerStep, Zenon

LEMMA ConfigureKeepsRInv ==
  ASSUME RInv, ConfigureInterface
  PROVE  RInv'
<1> DEFINE k == ThreadOf(mi)
           list == Append(thr_confs[k].int_confs, int_confs[mi + 1])
<1>1. mpc = "configure" /\ Alive /\ mpc' = mpc /\ lcore' = lcore /\ tpc' = tpc
  BY Zenon DEF ConfigureInterface, Alive, workers
<1>2. thr_confs' = [thr_confs EXCEPT ![k].int_confs = list]
  BY Zenon DEF ConfigureInterface
<1> HIDE DEF k, list
<1>3. thr_confs = [t \in Workers |-> [int_confs |-> thr_confs[t].int_confs, q_id |-> t]]
  BY <1>1, Zenon DEF RInv, OwnQueues
<1>4. thr_confs' = [t \in Workers |-> IF t = k THEN [thr_confs[t] EXCEPT !.int_confs = list] ELSE thr_confs[t]]
  <2>1. DOMAIN thr_confs = Workers
    BY <1>3, Zenon
  <2>. QED BY <1>2, <2>1, Zenon
<1>5. ASSUME NEW t \in Workers
      PROVE  thr_confs'[t] = [int_confs |-> thr_confs'[t].int_confs, q_id |-> t]
  <2>1. thr_confs[t] = [int_confs |-> thr_confs[t].int_confs, q_id |-> t]
    BY <1>3, Zenon
  <2>2. CASE t = k
    <3>1. thr_confs'[t] = [thr_confs[t] EXCEPT !.int_confs = list]
      BY <1>4, <2>2
    <3>2. thr_confs'[t] = [int_confs |-> list, q_id |-> t]
      BY <2>1, <3>1
    <3>. QED BY <3>2
  <2>3. CASE t # k
    BY <1>4, <2>1, <2>3, Zenon
  <2>. QED BY <2>2, <2>3, Zenon
<1>6. OwnQueues'
  <2> DEFINE g == [t \in Workers |-> [int_confs |-> thr_confs'[t].int_confs, q_id |-> t]]
  <2>1. \A t \in Workers : thr_confs'[t] = g[t]
    BY <1>5, Zenon
  <2>2. thr_confs' = [t \in Workers |-> thr_confs'[t]]
    BY <1>4
  <2>3. thr_confs' = g
    BY <2>1, <2>2, Zenon
  <2>. QED BY <2>3, Zenon DEF OwnQueues
<1>. QED BY <1>1, <1>6, Zenon DEF RInv, Phase, Launched

LEMMA MasterKeepsRInv ==
  ASSUME RInv, Master
  PROVE  RInv'
<1> USE DEF workers, RInv
<1>1. CASE ConfigureInterface
  BY <1>1, ConfigureKeepsRInv, Zenon
<1>2. CASE ConfigureError
  BY <1>2, Zenon DEF ConfigureError, OwnQueues, Alive, Phase
<1>3. CASE ConfigureEnd
  <2>1. Phase'
    BY <1>3, WorkerSets, RouterAssumption DEF ConfigureEnd, Phase, Slaves
  <2>. QED BY <1>3, <2>1, Zenon DEF ConfigureEnd, OwnQueues, Alive
<1>4. CASE start_thread
  <2>1. tpc' \in [Workers -> WorkerPhases] /\ lcore' \in [Slaves -> {"WAIT", "RUNNING", "FINISHED"}]
    BY <1>4, WorkerSets, ZenonT(40) DEF start_thread, WorkerPhases
  <2>2. Phase'
    BY <1>4, WorkerSets DEF start_thread, Phase, Slaves, Launched, Active
  <2>. QED BY <1>4, <2>1, <2>2, Zenon DEF start_thread, OwnQueues, Alive
<1>5. CASE MasterWorks
  <2>1. tpc' \in [Workers -> WorkerPhases]
    BY <1>5, WorkerSets, Zenon DEF MasterWorks, WorkerPhases
  <2>2. \A s \in Slaves : Launched(s)
    BY <1>5, WorkerSets DEF MasterWorks, Phase, Slaves
  <2>3. Phase'
    BY <1>5, <2>2, WorkerSets, Zenon DEF MasterWorks, Phase, Launched
  <2>. QED BY <1>5, <2>1, <2>3, Zenon DEF MasterWorks, OwnQueues, Alive
<1>6. CASE MasterWorked
  <2>1. Phase'
    BY <1>6, WorkerSets, RouterAssumption DEF MasterWorked, Phase, Slaves, Launched
  <2>. QED BY <1>6, <2>1, Zenon DEF MasterWorked, OwnQueues, Alive
<1>7. CASE rte_eal_wait_lcore
  <2>1. tpc[mi] = "done"
    BY <1>7, ZenonT(40) DEF rte_eal_wait_lcore, Waitable, Phase, Launched
  <2>2. Phase'
    BY <1>7, <2>1, WorkerSets DEF rte_eal_wait_lcore, Phase, Slaves, Launched
  <2>. QED BY <1>7, <2>2, Zenon DEF rte_eal_wait_lcore, OwnQueues, Alive
<1>8. CASE router_finalize
  <2>1. \A t \in Workers : tpc[t] = "done"
    BY <1>8, WorkerSets DEF router_finalize, Phase, Slaves
  <2>. QED BY <1>8, <2>1, Zenon DEF router_finalize, OwnQueues, Alive, Phase
<1>. QED BY <1>1, <1>2, <1>3, <1>4, <1>5, <1>6, <1>7, <1>8, Zenon DEF Master

LEMMA OthersKeepRInv ==
  ASSUME RInv, UNCHANGED <<master, workers>>
  PROVE  RInv'
BY ZenonT(40) DEF RInv, OwnQueues, Alive, Phase, Launched, master, workers

LEMMA Inductive == Spec => []RInv
<1>1. RInv /\ [Next]_vars => RInv'
  <2> SUFFICES ASSUME RInv, [Next]_vars PROVE RInv'
    OBVIOUS
  <2>1. CASE Master
    BY <2>1, MasterKeepsRInv
  <2>2. CASE signal_handler
    BY <2>2, OthersKeepRInv DEF signal_handler
  <2>3. ASSUME NEW t \in Workers, Worker(t) PROVE RInv'
    BY <2>3, WorkerKeepsRInv
  <2>4. ASSUME NEW m \in Mbufs, NEW ring \in Rings, NEW f \in FrameSet, Arrive(m, ring, f)
        PROVE  RInv'
    BY <2>4, OthersKeepRInv, Zenon DEF Arrive
  <2>5. ASSUME NEW ring \in Rings, Depart(ring) PROVE RInv'
    BY <2>5, OthersKeepRInv, Zenon DEF Depart
  <2>6. CASE UNCHANGED vars
    BY <2>6, OthersKeepRInv DEF vars
  <2>. QED BY <2>1, <2>2, <2>3, <2>4, <2>5, <2>6, Zenon DEF Next
<1>. QED BY <1>1, InitRInv, PTL DEF Spec

-----------------------------------------------------------------------------
(***************************************************************************)
(* How the master deals out the interfaces: interface i goes to worker     *)
(* i % LcoreCount, behind those the worker has.                            *)
(***************************************************************************)
\* The interfaces the loop has been through.
Dealt == IF mpc \in {"configure", "exit"} THEN mi ELSE Len(int_confs)

\* list is what worker t has of the first n interfaces of confs.
Share(t, list, confs, n) ==
  /\ list \in Seq(Range(confs))
  /\ n <= t + LcoreCount * Len(list)
  /\ \A j \in 1 .. Len(list) :
       /\ t + LcoreCount * (j - 1) < n
       /\ list[j] = confs[t + LcoreCount * (j - 1) + 1]

DInv ==
  /\ configured \subseteq Ports
  /\ mpc \in MasterPhases
  /\ mpc \notin {"configure", "exit"} => mi \in 1 .. LcoreCount
  /\ mpc # "end" =>
       /\ int_confs \in IntConfLists
       /\ Dealt \in 0 .. Len(int_confs)
       /\ configured = {int_confs[i].int_id : i \in 1 .. Dealt}
       /\ \A i, j \in 1 .. Dealt : int_confs[i].int_id = int_confs[j].int_id => i = j
       /\ DOMAIN thr_confs = Workers
       /\ \A t \in Workers : Share(t, MyInterfaces(t), int_confs, Dealt)

LEMMA ListFacts ==
  ASSUME NEW confs \in IntConfLists
  PROVE  /\ confs \in Seq(Range(confs)) /\ Len(confs) \in Nat /\ DOMAIN confs = 1 .. Len(confs)
         /\ \A i \in 1 .. Len(confs) : confs[i].int_id \in Ports /\ confs[i] \in Range(confs)
<1>1. confs \in Seq(Range(confs)) /\ \A i \in DOMAIN confs : confs[i].int_id \in Ports
  BY TrafficAssumption, Zenon
<1>2. Len(confs) \in Nat /\ DOMAIN confs = 1 .. Len(confs)
  BY <1>1, LenProperties
<1>. QED BY <1>1, <1>2, Zenon DEF Range

LEMMA InitDInv == Init => DInv
<1> SUFFICES ASSUME Init PROVE DInv
  OBVIOUS
<1>1. int_confs \in IntConfLists /\ Dealt = 0 /\ mpc = "configure" /\ configured = {} /\ LcoreCount \in Nat
  BY RouterAssumption, Zenon DEF Init, Dealt
<1>2. \A t \in Workers : MyInterfaces(t) = <<>>
  BY Zenon DEF Init, MyInterfaces
<1>3. \A t \in Workers : Share(t, MyInterfaces(t), int_confs, Dealt)
  <2> SUFFICES ASSUME NEW t \in Workers PROVE Share(t, <<>>, int_confs, 0)
    BY <1>1, <1>2
  <2>1. t \in Nat /\ LcoreCount * 0 = 0 /\ Len(<<>>) = 0 /\ <<>> \in Seq(Range(int_confs))
    BY <1>1, EmptySeq DEF Workers
  <2>. QED BY <2>1 DEF Share
<1>4. DOMAIN thr_confs = Workers
  BY Zenon DEF Init
<1>. QED BY <1>1, <1>3, <1>4, ListFacts DEF DInv, MasterPhases

\* The next interface goes to the worker whose turn it is.
LEMMA ShareGrows ==
  ASSUME NEW t \in Workers, NEW confs \in IntConfLists, NEW n \in 0 .. Len(confs) - 1, NEW list,
         Share(t, list, confs, n)
  PROVE  IF t = ThreadOf(n)
           THEN Share(t, Append(list, confs[n + 1]), confs, n + 1)
           ELSE Share(t, list, confs, n + 1)
<1> DEFINE L == LcoreCount
           k == Len(list)
           q == n \div L
           x == confs[n + 1]
           more == Append(list, x)
<1>0. L \in Nat \ {0} /\ t \in 0 .. L - 1 /\ n \in Nat /\ Len(confs) \in Nat /\ x \in Range(confs)
  BY RouterAssumption, ListFacts DEF Workers
<1>1. n = L * q + (n % L) /\ n % L \in 0 .. L - 1 /\ q \in Nat
  BY <1>0, DivMod, Zenon
<1>2. list \in Seq(Range(confs)) /\ k \in Nat /\ n <= t + L * k
  BY LenProperties, Zenon DEF Share
<1>3. \A j \in 1 .. k : t + L * (j - 1) < n /\ list[j] = confs[t + L * (j - 1) + 1]
  BY Zenon DEF Share
<1>4. L * k \in Int /\ L * q \in Int /\ L * (q + 1) = L * q + L /\ L * (k + 1) = L * k + L
  BY <1>0, <1>1, <1>2
<1> HIDE DEF L, q
<1>5. CASE t = n % L
  <2>1. k = q
    <3>1. ~(k + 1 <= q)
      <4> SUFFICES ASSUME k + 1 <= q PROVE FALSE
        OBVIOUS
      <4>1. PICK i \in Int : i = k + 1 /\ i <= q
        BY <1>1, <1>2
      <4>2. L \in Nat /\ q \in Int
        BY <1>0, <1>1
      <4>3. L * i <= L * q
        BY ONLY <4>1, <4>2, MulMonotone
      <4>. QED BY <1>0, <1>1, <1>2, <1>4, <1>5, <4>1, <4>3, SMTT(30)
    <3>2. ~(q + 1 <= k)
      <4> SUFFICES ASSUME q + 1 <= k PROVE FALSE
        OBVIOUS
      <4>1. k \in 1 .. k /\ q <= k - 1 /\ k - 1 \in Int
        BY <1>1, <1>2
      <4>2. t + L * (k - 1) < n
        BY <1>3, <4>1, Zenon
      <4>3. PICK i \in Int : i = k - 1 /\ q <= i
        BY <4>1
      <4>4. L \in Nat /\ q \in Int
        BY <1>0, <1>1
      <4>5. L * q <= L * i
        BY ONLY <4>3, <4>4, MulMonotone
      <4>6. L * i \in Int /\ t + L * i < n
        BY <1>0, <4>2, <4>3
      <4>. QED BY <1>0, <1>1, <1>4, <1>5, <4>5, <4>6
    <3>. QED BY <1>1, <1>2, <3>1, <3>2
  <2>2. n = t + L * k
    BY <1>0, <1>1, <1>4, <1>5, <2>1
  <2>3. /\ more \in Seq(Range(confs)) /\ Len(more) = k + 1
        /\ \A i \in 1 .. k : more[i] = list[i]
        /\ more[k + 1] = x
    BY <1>0, <1>2, AppendProperties, ZenonT(40)
  <2> HIDE DEF k, more, x
  <2>4. ASSUME NEW j \in 1 .. k + 1 PROVE t + L * (j - 1) < n + 1 /\ more[j] = confs[t + L * (j - 1) + 1]
    <3>1. CASE j \in 1 .. k
      <4>1. t + L * (j - 1) < n /\ more[j] = confs[t + L * (j - 1) + 1]
        BY <1>3, <2>3, <3>1, ZenonT(40)
      <4>2. t + L * (j - 1) \in Int
        BY <1>0
      <4>. QED BY <1>0, <4>1, <4>2
    <3>2. CASE j = k + 1
      <4>1. t + L * (j - 1) = n
        BY <1>2, <2>2, <3>2
      <4>2. n < n + 1
        BY <1>0
      <4>. QED BY <2>3, <3>2, <4>1, <4>2, ZenonT(40) DEF x
    <3>. QED BY <1>2, <3>1, <3>2
  <2>5. n + 1 <= t + L * (k + 1)
    <3>1. PICK y \in Int : y = L * k
      BY <1>4, Zenon
    <3>2. L * (k + 1) = y + L /\ n = t + y
      BY <1>4, <2>2, <3>1, Zenon
    <3>3. n + 1 <= t + (y + L)
      BY <1>0, <3>2
    <3>. QED BY <3>2, <3>3, Zenon
  <2>6. Share(t, more, confs, n + 1)
    BY <2>3, <2>4, <2>5, Zenon DEF Share, L
  <2>. QED BY <1>5, <2>6, Zenon DEF ThreadOf, L, more, x
<1>6. CASE t # n % L
  <2>1. n # t + L * k
    <3> SUFFICES ASSUME n = L * k + t PROVE FALSE
      BY <1>0, <1>4
    <3> HIDE DEF k
    <3>1. L \in Nat \ {0} /\ t \in 0 .. L - 1 /\ n \in Nat /\ k \in Int
      BY <1>0, <1>2
    <3>2. t = n % L
      BY <3>1, DivUnique, Zenon
    <3>. QED BY <1>6, <3>2, Zenon
  <2>2. n + 1 <= t + L * k
    BY <1>0, <1>2, <1>4, <2>1
  <2>3. ASSUME NEW j \in 1 .. k PROVE t + L * (j - 1) < n + 1
    <3>1. t + L * (j - 1) < n
      BY <1>3, Zenon
    <3>2. PICK y : y = L * (j - 1)
      BY Zenon
    <3>3. y \in Int
      <4>1. L \in Int /\ j - 1 \in Int
        BY <1>0
      <4>. QED BY <3>2, <4>1, ProductInt, Zenon
    <3>. QED BY <1>0, <3>1, <3>2, <3>3
  <2>. QED BY <1>2, <1>3, <1>6, <2>2, <2>3, Zenon DEF Share, ThreadOf, L
<1>. QED BY <1>5, <1>6, Zenon

LEMMA ConfigureKeepsDInv ==
  ASSUME RInv, DInv, ConfigureInterface
  PROVE  DInv'
<1> DEFINE c == int_confs
           x == c[mi + 1]
<1>1. /\ mpc = "configure" /\ mpc' = mpc /\ int_confs' = c /\ mi' = mi + 1
      /\ mi < Len(c) /\ x.int_id \notin configured /\ configured' = configured \cup {x.int_id}
  BY Zenon DEF ConfigureInterface
<1>2. /\ configured \subseteq Ports /\ c \in IntConfLists /\ mi \in 0 .. Len(c)
      /\ configured = {c[i].int_id : i \in 1 .. mi}
      /\ \A i, j \in 1 .. mi : c[i].int_id = c[j].int_id => i = j
      /\ DOMAIN thr_confs = Workers
      /\ \A t \in Workers : Share(t, MyInterfaces(t), c, mi)
  BY <1>1, Zenon DEF DInv, Dealt
<1>3. Len(c) \in Nat /\ x.int_id \in Ports /\ mi \in 0 .. Len(c) - 1 /\ mi' \in 0 .. Len(c)
      /\ 1 .. mi' = (1 .. mi) \cup {mi + 1} /\ mi + 1 \notin 1 .. mi
  <2>1. Len(c) \in Nat /\ \A i \in 1 .. Len(c) : c[i].int_id \in Ports
    BY <1>2, ListFacts, ZenonT(40)
  <2>. QED BY <1>1, <1>2, <2>1, OneMore, Zenon
<1>4. configured' = {c[i].int_id : i \in 1 .. mi'} /\ configured' \subseteq Ports
  <2>1. configured' \subseteq Ports
    BY ONLY <1>1, <1>2, <1>3, ZenonT(40)
  <2>2. configured' = {c[i].int_id : i \in 1 .. mi} \cup {c[mi + 1].int_id}
    BY <1>1, <1>2, Zenon
  <2> HIDE DEF c, x
  <2>3. PICK D : D = 1 .. mi
    BY Zenon
  <2>4. {c[i].int_id : i \in D} \cup {c[mi + 1].int_id} = {c[i].int_id : i \in D \cup {mi + 1}}
    BY ONLY ZenonT(40)
  <2>. QED BY <1>3, <2>1, <2>2, <2>3, <2>4, ZenonT(40)
<1>5. \A i, j \in 1 .. mi' : c[i].int_id = c[j].int_id => i = j
  BY <1>1, <1>2, <1>3
<1>6. DOMAIN thr_confs' = Workers
  BY <1>2, Zenon DEF ConfigureInterface
<1>7. ASSUME NEW t \in Workers PROVE Share(t, MyInterfaces(t)', c, mi')
  <2>1. t # ThreadOf(mi) => MyInterfaces(t)' = MyInterfaces(t)
    BY <1>2, Zenon DEF ConfigureInterface, MyInterfaces
  <2>2. thr_confs[t] = [int_confs |-> thr_confs[t].int_confs, q_id |-> t]
    BY <1>1, Zenon DEF RInv, OwnQueues, Alive
  <2>3. t = ThreadOf(mi) => thr_confs'[t] = [thr_confs[t] EXCEPT !.int_confs = Append(@, x)]
    BY <1>2, Zenon DEF ConfigureInterface
  <2>4. t = ThreadOf(mi) => MyInterfaces(t)' = Append(MyInterfaces(t), x)
    BY <2>2, <2>3, Zenon DEF MyInterfaces
  <2>5. Share(t, MyInterfaces(t), c, mi)
    BY <1>2, Zenon
  <2> HIDE DEF x, c
  <2>6. IF t = ThreadOf(mi) THEN Share(t, Append(MyInterfaces(t), x), c, mi') ELSE Share(t, MyInterfaces(t), c, mi')
    BY <1>1, <1>2, <1>3, <2>5, ShareGrows, ZenonT(40) DEF x
  <2>. QED BY <2>1, <2>4, <2>6, Zenon
<1>8. mpc' \in MasterPhases /\ mpc' \in {"configure", "exit"} /\ Dealt' = mi'
  BY <1>1, Zenon DEF Dealt, MasterPhases
<1>9. \A t \in Workers : Share(t, MyInterfaces(t)', int_confs', Dealt')
  BY <1>1, <1>7, <1>8, Zenon
<1>10. /\ int_confs' \in IntConfLists /\ Dealt' \in 0 .. Len(int_confs')
       /\ configured' = {int_confs'[i].int_id : i \in 1 .. Dealt'}
       /\ \A i, j \in 1 .. Dealt' : int_confs'[i].int_id = int_confs'[j].int_id => i = j
  <2>1. int_confs' = c /\ Dealt' = mi'
    BY <1>1, <1>8, Zenon
  <2>2. int_confs' \in IntConfLists /\ Dealt' \in 0 .. Len(int_confs')
    BY <1>2, <1>3, <2>1, Zenon
  <2>3. configured' = {int_confs'[i].int_id : i \in 1 .. Dealt'}
    BY ONLY <1>4, <2>1, Zenon
  <2>4. \A i, j \in 1 .. Dealt' : int_confs'[i].int_id = int_confs'[j].int_id => i = j
    BY ONLY <1>5, <2>1, Zenon
  <2>. QED BY <2>2, <2>3, <2>4, Zenon
<1>. QED BY <1>4, <1>6, <1>8, <1>9, <1>10, Zenon DEF DInv

LEMMA MasterKeepsDInv ==
  ASSUME RInv, DInv, Master
  PROVE  DInv'
<1> USE DEF DInv, Dealt, MasterPhases, MyInterfaces
<1>0. LcoreCount \in Nat \ {0}
  BY RouterAssumption, Zenon
<1>1. CASE ConfigureInterface
  BY <1>1, ConfigureKeepsDInv, Zenon
<1>2. CASE ConfigureError
  BY <1>2, Zenon DEF ConfigureError
<1>3. CASE ConfigureEnd
  <2>1. 1 \in 1 .. LcoreCount
    BY <1>0
  <2>2. Dealt' = Dealt
    BY <1>3, ZenonT(40) DEF ConfigureEnd
  <2> HIDE DEF Dealt
  <2>. QED BY <1>3, <2>1, <2>2, ZenonT(40) DEF ConfigureEnd
<1>4. CASE start_thread
  BY <1>0, <1>4 DEF start_thread, Slaves
<1>5. CASE MasterWorks
  BY <1>5, ZenonT(40) DEF MasterWorks
<1>6. CASE MasterWorked
  <2>1. 1 \in 1 .. LcoreCount
    BY <1>0
  <2>. QED BY <1>6, <2>1, ZenonT(40) DEF MasterWorked
<1>7. CASE rte_eal_wait_lcore
  BY <1>0, <1>7 DEF rte_eal_wait_lcore, Slaves
<1>8. CASE router_finalize
  BY <1>8, Zenon DEF router_finalize
<1>. QED BY <1>1, <1>2, <1>3, <1>4, <1>5, <1>6, <1>7, <1>8, Zenon DEF Master

LEMMA OthersKeepDInv ==
  ASSUME DInv, UNCHANGED <<int_confs, thr_confs, mpc, mi, configured>>
  PROVE  DInv'
BY Zenon DEF DInv, Dealt, MyInterfaces

\* What no step of a worker changes, and when a worker runs.
LEMMA WorkerLeaves ==
  ASSUME RInv, NEW t \in Workers, Worker(t)
  PROVE  /\ UNCHANGED <<int_confs, thr_confs, mi, configured, force_quit>>
         /\ mpc' \in {mpc, "undefined"}
         /\ mpc \notin {"configure", "exit", "end", "undefined"}
<1>1. UNCHANGED <<int_confs, thr_confs, mi, configured, force_quit>> /\ mpc' \in {mpc, "undefined"}
  BY Zenon DEF Worker, master, workers, RoundStart, recv_from_device, RecvEnd, thread_handle_frames, FramesEnd,
         rte_eth_tx_burst, TransmitUnattached, TransmitGivenUp, RoundEnd, Wake
<1>2. tpc[t] \in Active /\ Alive
  BY WorkerStep, Zenon DEF Worker
<1>. QED BY <1>1, <1>2, Zenon DEF RInv, Phase, Active, Alive

LEMMA DealInductive == Spec => []DInv
<1>1. RInv /\ DInv /\ [Next]_vars => DInv'
  <2> SUFFICES ASSUME RInv, DInv, [Next]_vars PROVE DInv'
    OBVIOUS
  <2>1. CASE Master
    BY <2>1, MasterKeepsDInv
  <2>2. CASE signal_handler
    BY <2>2, OthersKeepDInv, Zenon DEF signal_handler, master
  <2>3. ASSUME NEW t \in Workers, Worker(t) PROVE DInv'
    BY <2>3, WorkerLeaves, Zenon DEF DInv, Dealt, MyInterfaces, MasterPhases
  <2>4. ASSUME NEW m \in Mbufs, NEW ring \in Rings, NEW f \in FrameSet, Arrive(m, ring, f) PROVE DInv'
    BY <2>4, OthersKeepDInv, Zenon DEF Arrive, master
  <2>5. ASSUME NEW ring \in Rings, Depart(ring) PROVE DInv'
    BY <2>5, OthersKeepDInv, Zenon DEF Depart, master
  <2>6. CASE UNCHANGED vars
    BY <2>6, OthersKeepDInv, Zenon DEF vars, master
  <2>. QED BY <2>1, <2>2, <2>3, <2>4, <2>5, <2>6, Zenon DEF Next
<1>. QED BY <1>1, InitDInv, Inductive, PTL DEF Spec

\* Of any number of interfaces that one run of the router attaches, each has one
\* worker and the workers' shares differ by one at most.
THEOREM SharesAreEven == Spec => []EvenlyDistributed
<1>1. DInv => EvenlyDistributed
  <2> SUFFICES ASSUME DInv, mpc \in {"launch", "work", "wait"} PROVE EvenlyDistributed!2
    BY Zenon DEF EvenlyDistributed
  <2> DEFINE L == LcoreCount
             c == int_confs
  <2>1. /\ c \in IntConfLists /\ Dealt = Len(c)
        /\ \A i, j \in 1 .. Len(c) : c[i].int_id = c[j].int_id => i = j
        /\ \A t \in Workers : Share(t, MyInterfaces(t), c, Len(c))
    BY Zenon DEF DInv, Dealt
  <2>2. L \in Nat \ {0} /\ Len(c) \in Nat /\ DOMAIN c = 1 .. Len(c) /\ Workers = 0 .. L - 1
    BY <2>1, RouterAssumption, ListFacts, Zenon DEF Workers
  <2>3. \A t \in Workers : DOMAIN MyInterfaces(t) = 1 .. Len(MyInterfaces(t)) /\ Len(MyInterfaces(t)) \in Nat
    BY <2>1, LenProperties, Zenon DEF Share
  <2>4. ASSUME NEW i \in DOMAIN c
        PROVE  \E t \in Workers : {u \in Workers : c[i] \in Range(MyInterfaces(u))} = {t}
    <3> DEFINE w == (i - 1) % L
               q == (i - 1) \div L
               W == {u \in Workers : c[i] \in Range(MyInterfaces(u))}
    <3>0. i \in 1 .. Len(c) /\ i - 1 \in Nat
      BY <2>2
    <3>1. i - 1 = L * q + w /\ w \in Workers /\ q \in Nat /\ i \in 1 .. Len(c) /\ i - 1 \in Nat
      BY <2>2, <3>0, DivMod, Zenon
    <3> HIDE DEF L, w, q, c
    <3>2. w \in W
      <4> DEFINE n == Len(MyInterfaces(w))
      <4>1. n \in Nat /\ Len(c) <= w + L * n /\ Share(w, MyInterfaces(w), c, Len(c))
        BY <2>1, <2>3, <3>1, Zenon DEF Share, L
      <4> HIDE DEF n
      <4>2. q + 1 <= n
        <5> SUFFICES ASSUME n <= q PROVE FALSE
          BY <3>1, <4>1
        <5>1. L * n <= L * q /\ L * n \in Int /\ L * q \in Int
          BY <2>2, <3>1, <4>1, MulMonotone
        <5>. QED BY <2>2, <3>1, <4>1, <5>1
      <4>3. q + 1 \in 1 .. n /\ (q + 1) - 1 = q
        BY <3>1, <4>1, <4>2
      <4>4. MyInterfaces(w)[q + 1] = c[w + L * q + 1]
        BY <4>1, <4>3 DEF Share, n, L
      <4>5. w + L * q + 1 = i
        BY <2>2, <3>1
      <4>. QED BY <2>3, <3>1, <4>3, <4>4, <4>5, Zenon DEF n, Range
    <3>3. ASSUME NEW t \in W PROVE t = w
      <4>1. PICK j \in 1 .. Len(MyInterfaces(t)) : MyInterfaces(t)[j] = c[i]
        BY <2>3, Zenon DEF Range
      <4> DEFINE p == t + L * (j - 1)
      <4>2. p < Len(c) /\ c[p + 1] = c[i]
        BY <2>1, <4>1, Zenon DEF Share, L
      <4>3. t \in 0 .. L - 1 /\ j - 1 \in Nat
        BY <2>2, <2>3
      <4>4. p \in Nat /\ p = L * (j - 1) + t
        <5>1. L * 0 <= L * (j - 1) /\ L * (j - 1) \in Int
          BY <2>2, <4>3, MulMonotone
        <5>. QED BY <2>2, <4>3, <5>1
      <4> HIDE DEF p
      <4>5. p + 1 = i
        <5>1. p + 1 \in 1 .. Len(c)
          BY <2>2, <4>2, <4>4
        <5>. QED BY <2>1, <3>1, <4>2, <5>1, ZenonT(40)
      <4> DEFINE e == j - 1
      <4>6. e \in Int /\ p = L * e + t
        BY <4>3, <4>4
      <4> HIDE DEF e
      <4>7. t = p % L
        BY <2>2, <4>3, <4>4, <4>6, DivUnique, Zenon
      <4>8. i - 1 = p
        BY <4>4, <4>5
      <4>. QED BY <4>7, <4>8, Zenon DEF w
    <3>4. W = {w}
      BY <3>2, <3>3, ZenonT(40)
    <3>. QED BY <3>1, <3>4, Zenon DEF c
  <2>5. ASSUME NEW t \in Workers, NEW u \in Workers
        PROVE  Len(MyInterfaces(t)) <= Len(MyInterfaces(u)) + 1
    <3> DEFINE a == Len(MyInterfaces(t))
               b == Len(MyInterfaces(u))
    <3>1. a \in Nat /\ b \in Nat /\ Len(c) <= u + L * b /\ (a > 0 => t + L * (a - 1) < Len(c))
      BY <2>1, <2>3 DEF Share
    <3> HIDE DEF a, b, c, L
    <3>2. SUFFICES ASSUME b + 1 <= a - 1 PROVE FALSE
      BY <3>1 DEF a, b
    <3>3. L * (b + 1) <= L * (a - 1) /\ L * (b + 1) = L * b + L /\ L * b \in Int /\ L * (a - 1) \in Int
      BY <2>2, <3>1, <3>2, MulMonotone
    <3>. QED BY <2>2, <3>1, <3>2, <3>3
  <2>. QED BY <2>4, <2>5, Zenon
<1>. QED BY <1>1, DealInductive, PTL
-----------------------------------------------------------------------------
(***************************************************************************)
(* The shape of the state of workers and cards.                            *)
(***************************************************************************)
\* sending[t] is <<mbuf, port, i>> in the transmit loop and <<>> outside it.
HandShape(t) ==
  IF tpc[t] = "send"
    THEN /\ sending[t] = <<sending[t][1], sending[t][2], sending[t][3]>>
         /\ sending[t][1] \in Mbufs /\ sending[t][3] \in 0 .. MAX_TRANSMIT_TRIAL
    ELSE sending[t] = <<>>

\* Frames are in a worker's hands only between the poll of an interface and the next.
BurstShape(t) ==
  /\ Len(bufs[t]) <= MAX_BURST_SIZE
  /\ bufs[t] # <<>> => tpc[t] \in {"recv", "frames", "send"}
  /\ tpc[t] \in {"frames", "send"} \/ bufs[t] # <<>> => OnInterface(t)

TInv ==
  /\ force_quit \in BOOLEAN
  /\ ti \in [Workers -> Nat \ {0}]
  /\ tq \in [Workers -> 0 .. LcoreCount]
  /\ received \in [Workers -> BOOLEAN]
  /\ bufs \in [Workers -> Seq(Mbufs)]
  /\ DOMAIN sending = Workers
  /\ \A t \in Workers : HandShape(t) /\ BurstShape(t)
  /\ rxq \in [Rings -> Seq(Mbufs)] /\ \A r \in Rings : Len(rxq[r]) <= RX_DESCS
  /\ txq \in [Rings -> Seq(Mbufs)] /\ \A r \in Rings : Len(txq[r]) <= TX_DESCS
  /\ DOMAIN pool = Mbufs /\ DOMAIN data = Mbufs /\ DOMAIN origin = Mbufs

LEMMA Numbers ==
  /\ LcoreCount \in Nat \ {0} /\ MAX_BURST_SIZE \in Nat \ {0} /\ MAX_TRANSMIT_TRIAL \in Nat \ {0}
  /\ RX_DESCS \in Nat \ {0} /\ TX_DESCS \in Nat \ {0}
  /\ 0 \in Workers /\ Queues = Workers
BY RouterAssumption DEF Workers, Queues

LEMMA QueueBelow ==
  ASSUME NEW n \in 0 .. LcoreCount, n < LcoreCount
  PROVE  n \in Queues
BY Numbers DEF Queues

\* The interface a worker polls is one the master attached.
LEMMA InterfaceIsAttached ==
  ASSUME DInv, TInv, mpc # "end", NEW t \in Workers, OnInterface(t)
  PROVE  /\ \E i \in 1 .. Dealt : Interface(t) = int_confs[i]
         /\ Interface(t).int_id \in Ports
         /\ DOMAIN int_confs = 1 .. Len(int_confs)
<1> DEFINE list == MyInterfaces(t)
           i == t + LcoreCount * (ti[t] - 1) + 1
<1>1. Share(t, list, int_confs, Dealt) /\ int_confs \in IntConfLists /\ Dealt \in 0 .. Len(int_confs)
  BY Zenon DEF DInv
<1>2. Len(list) \in Nat
  BY <1>1, LenProperties, ZenonT(40) DEF Share
<1>3. ti[t] \in 1 .. Len(list)
  BY <1>2 DEF OnInterface, TInv
<1>4. t + LcoreCount * (ti[t] - 1) < Dealt /\ Interface(t) = int_confs[i]
  BY <1>1, <1>3, Zenon DEF Share, Interface
<1>5. i \in 1 .. Dealt
  <2>1. t \in Nat /\ LcoreCount \in Nat /\ ti[t] - 1 \in Nat
    BY <1>2, <1>3, Numbers DEF Workers
  <2>2. LcoreCount * 0 <= LcoreCount * (ti[t] - 1) /\ LcoreCount * (ti[t] - 1) \in Int
    BY <2>1, MulMonotone
  <2>3. PICK d, m \in Int : d = Dealt /\ m = LcoreCount * (ti[t] - 1)
    BY <1>1, <2>2, ListFacts
  <2>4. 0 <= m /\ t + m < d
    BY <1>4, <2>1, <2>2, <2>3
  <2>5. t + m + 1 \in 1 .. d
    BY <2>1, <2>4
  <2>. QED BY <2>3, <2>5, Zenon
<1> HIDE DEF i
<1>6. i \in 1 .. Len(int_confs)
  BY <1>1, <1>5, ListFacts
<1>. QED BY <1>1, <1>4, <1>5, <1>6, ListFacts, Zenon

\* Steps that leave the state of cards and workers alone.
LEMMA OthersKeepTInv ==
  ASSUME TInv, UNCHANGED <<tpc, ti, tq, received, bufs, sending, rings, pool, data, origin>>,
         force_quit' \in BOOLEAN,
         \A t \in Workers : tpc[t] \in Active => thr_confs' = thr_confs
  PROVE  TInv'
BY ZenonT(40) DEF TInv, HandShape, BurstShape, OnInterface, MyInterfaces, rings, Active

LEMMA InitTInv == Init => TInv
<1> SUFFICES ASSUME Init PROVE TInv
  OBVIOUS
<1>1. <<>> \in Seq(Mbufs) /\ Len(<<>>) = 0
  BY EmptySeq
<1>2. bufs \in [Workers -> Seq(Mbufs)] /\ rxq \in [Rings -> Seq(Mbufs)] /\ txq \in [Rings -> Seq(Mbufs)]
  BY <1>1, Zenon DEF Init
<1>3. \A r \in Rings : Len(rxq[r]) <= RX_DESCS /\ Len(txq[r]) <= TX_DESCS
  <2>1. \A r \in Rings : Len(rxq[r]) = 0 /\ Len(txq[r]) = 0
    BY <1>1, Zenon DEF Init
  <2>. QED BY <2>1, Numbers
<1>4. \A t \in Workers : Len(bufs[t]) = 0 /\ bufs[t] = <<>> /\ tpc[t] = "idle" /\ sending[t] = <<>>
  BY <1>1, ZenonT(40) DEF Init
<1>5. \A t \in Workers : HandShape(t) /\ BurstShape(t)
  BY <1>4, Numbers DEF HandShape, BurstShape
<1>6. ti \in [Workers -> Nat \ {0}] /\ received \in [Workers -> BOOLEAN] /\ force_quit \in BOOLEAN
  <2>1. 1 \in Nat \ {0}
    OBVIOUS
  <2>. QED BY <2>1, Zenon DEF Init
<1>7. tq \in [Workers -> 0 .. LcoreCount]
  <2>1. 0 \in 0 .. LcoreCount
    BY ONLY Numbers
  <2>. QED BY <2>1 DEF Init, FirstQueue
<1>8. DOMAIN sending = Workers /\ DOMAIN pool = Mbufs /\ DOMAIN data = Mbufs /\ DOMAIN origin = Mbufs
  BY DEF Init
<1>. QED BY <1>2, <1>3, <1>5, <1>6, <1>7, <1>8, Zenon DEF TInv
-----------------------------------------------------------------------------
(***************************************************************************)
(* What each step does to the stores of buffers: it moves the head of one  *)
(* behind another, frees the head of one, fills one, or leaves them alone. *)
(***************************************************************************)
\* The first k buffers of store a go to the end of store b.
Moves(a, b, k) ==
  /\ a \in Stores /\ b \in Stores /\ a # b /\ k \in 0 .. Len(Held(a))
  /\ Shifted(Held(a), Held(a)', k)
  /\ Extended(Held(b), Held(b)', Held(a), k)
  /\ \A s \in Stores \ {a, b} : Held(s)' = Held(s)
  /\ UNCHANGED <<pool, origin, older>>

\* The first buffer of store a is freed.
Frees(a) ==
  /\ a \in Stores /\ Held(a) # <<>>
  /\ Shifted(Held(a), Held(a)', 1)
  /\ \A s \in Stores \ {a} : Held(s)' = Held(s)
  /\ Free(Held(a)[1])

\* Frame f arrives in buffer m at the end of receive ring r.
Takes(m, r, f) ==
  /\ pool[m] > 0
  /\ Extended(rxq[r], rxq'[r], <<m>>, 1)
  /\ \A s \in Stores \ {<<"rx", r>>} : Held(s)' = Held(s)
  /\ pool' = [pool EXCEPT ![m] = @ - 1]
  /\ data' = [data EXCEPT ![m] = f]
  /\ origin' = [origin EXCEPT ![m] = [frame |-> f, ring |-> r]]
  /\ older' = older \cup {<<n, m>> : n \in {k \in Mbufs : pool[k] = 0}}

\* Nothing moves.
Rests == (\A s \in Stores : Held(s)' = Held(s)) /\ UNCHANGED buffers

Rx(r) == <<"rx", r>>
Tx(r) == <<"tx", r>>
Burst(t) == <<"burst", t>>
Hand(t) == <<"hand", t>>

LEMMA StoreCases ==
  /\ \A s \in Stores : \/ \E r \in Rings : s = Rx(r) \/ s = Tx(r)
                       \/ \E t \in Workers : s = Burst(t) \/ s = Hand(t)
  /\ \A r \in Rings : Rx(r) \in Stores /\ Tx(r) \in Stores
  /\ \A t \in Workers : Burst(t) \in Stores /\ Hand(t) \in Stores
BY DEF Stores, Rx, Tx, Burst, Hand

LEMMA StoresDiffer ==
  ASSUME NEW x, NEW y
  PROVE  /\ Rx(x) # Tx(y) /\ Rx(x) # Burst(y) /\ Rx(x) # Hand(y)
         /\ Tx(x) # Burst(y) /\ Tx(x) # Hand(y) /\ Burst(x) # Hand(y)
         /\ Rx(x) = Rx(y) => x = y
         /\ Tx(x) = Tx(y) => x = y
         /\ Burst(x) = Burst(y) => x = y
         /\ Hand(x) = Hand(y) => x = y
BY DEF Rx, Tx, Burst, Hand

LEMMA HeldAre ==
  ASSUME NEW x
  PROVE  /\ Held(Rx(x)) = rxq[x] /\ Held(Tx(x)) = txq[x]
         /\ Held(Burst(x)) = bufs[x] /\ Held(Hand(x)) = InHand(x)
         /\ Held(Rx(x))' = rxq'[x] /\ Held(Tx(x))' = txq'[x]
         /\ Held(Burst(x))' = bufs'[x] /\ Held(Hand(x))' = InHand(x)'
BY DEF Held, Rx, Tx, Burst, Hand

LEMMA HeldTypes == TInv => \A s \in Stores : Held(s) \in Seq(Mbufs)
<1> SUFFICES ASSUME TInv, NEW s \in Stores PROVE Held(s) \in Seq(Mbufs)
  OBVIOUS
<1>1. ASSUME NEW t \in Workers PROVE InHand(t) \in Seq(Mbufs)
  <2>1. CASE tpc[t] = "send"
    BY <2>1 DEF TInv, HandShape, InHand
  <2>2. CASE tpc[t] # "send"
    BY <2>2, EmptySeq, Zenon DEF TInv, HandShape, InHand
  <2>. QED BY <2>1, <2>2, ZenonT(40)
<1>2. /\ \A r \in Rings : rxq[r] \in Seq(Mbufs) /\ txq[r] \in Seq(Mbufs)
      /\ \A t \in Workers : bufs[t] \in Seq(Mbufs)
  BY Zenon DEF TInv
<1>3. ASSUME NEW r \in Rings, s = Rx(r) \/ s = Tx(r) PROVE Held(s) \in Seq(Mbufs)
  BY <1>2, <1>3, HeldAre, Zenon
<1>4. ASSUME NEW t \in Workers, s = Burst(t) \/ s = Hand(t) PROVE Held(s) \in Seq(Mbufs)
  BY <1>1, <1>2, <1>4, HeldAre, ZenonT(40)
<1>. QED BY <1>3, <1>4, StoreCases, Zenon

\* Stores whose variable does not change hold what they held.
LEMMA OthersHeld ==
  ASSUME NEW X,
         \A r \in Rings : /\ Rx(r) \notin X => rxq'[r] = rxq[r]
                          /\ Tx(r) \notin X => txq'[r] = txq[r],
         \A t \in Workers : /\ Burst(t) \notin X => bufs'[t] = bufs[t]
                            /\ Hand(t) \notin X => InHand(t)' = InHand(t)
  PROVE  \A s \in Stores \ X : Held(s)' = Held(s)
<1> SUFFICES ASSUME NEW s \in Stores \ X PROVE Held(s)' = Held(s)
  BY Zenon
<1>1. ASSUME NEW r \in Rings, s = Rx(r) \/ s = Tx(r) PROVE Held(s)' = Held(s)
  BY <1>1, HeldAre, ZenonT(40)
<1>2. ASSUME NEW t \in Workers, s = Burst(t) \/ s = Hand(t) PROVE Held(s)' = Held(s)
  BY <1>2, HeldAre, ZenonT(40)
<1>. QED BY <1>1, <1>2, StoreCases, Zenon

LEMMA StillRests ==
  ASSUME UNCHANGED <<bufs, rings, buffers>>, \A t \in Workers : InHand(t)' = InHand(t)
  PROVE  Rests
<1>1. \A s \in Stores \ {} : Held(s)' = Held(s)
  BY OthersHeld, Zenon DEF rings
<1>. QED BY <1>1 DEF Rests

\* recv_from_device moves frames from a receive ring of the interface to the burst.
LEMMA RecvMoves ==
  ASSUME RInv, DInv, TInv, Alive, NEW t \in Workers, recv_from_device(t)
  PROVE  \E r \in Rings, k \in Nat :
           /\ r = <<Interface(t).int_id, tq[t]>> /\ OnInterface(t) /\ tpc[t] = "recv"
           /\ Moves(Rx(r), Burst(t), k)
           /\ Len(bufs[t]) + k <= MAX_BURST_SIZE
           /\ rxq' = [rxq EXCEPT ![r] = SubSeq(rxq[r], k + 1, Len(rxq[r]))] /\ k <= Len(rxq[r])
           /\ bufs' = [bufs EXCEPT ![t] = bufs[t] \o SubSeq(rxq[r], 1, k)]
           /\ tq' = [tq EXCEPT ![t] = @ + 1] /\ tq[t] < LcoreCount
           /\ UNCHANGED <<master, force_quit, tpc, ti, received, sending, buffers, txq>>
<1>1. OnInterface(t) /\ tpc[t] = "recv" /\ tq[t] < LcoreCount /\ Len(bufs[t]) < MAX_BURST_SIZE
  BY Zenon DEF recv_from_device
<1>2. PICK r \in Rings : r = <<Interface(t).int_id, tq[t]>>
  <2>1. Interface(t).int_id \in Ports
    BY <1>1, InterfaceIsAttached, ZenonT(40) DEF Alive
  <2>2. tq[t] \in Queues
    <3>1. tq[t] \in 0 .. LcoreCount
      BY Zenon DEF TInv
    <3>. QED BY <1>1, <3>1, QueueBelow, Zenon
  <2>. QED BY <2>1, <2>2, Zenon DEF Rings
<1>3. PICK n : n = IF Len(rxq[r]) < Room(t) THEN Len(rxq[r]) ELSE Room(t)
  OBVIOUS
<1>3a. /\ bufs' = [bufs EXCEPT ![t] = bufs[t] \o SubSeq(rxq[r], 1, n)]
       /\ rxq' = [rxq EXCEPT ![r] = SubSeq(rxq[r], n + 1, Len(rxq[r]))]
       /\ tq' = [tq EXCEPT ![t] = @ + 1]
       /\ UNCHANGED <<master, force_quit, tpc, ti, received, sending, buffers, txq>>
  BY <1>2, <1>3, Zenon DEF recv_from_device, Received, TInv
<1>4. n \in 0 .. Len(rxq[r]) /\ n <= Len(rxq[r]) /\ Len(bufs[t]) + n <= MAX_BURST_SIZE /\ n \in Nat
  <2>1. rxq[r] \in Seq(Mbufs) /\ bufs[t] \in Seq(Mbufs)
    BY Zenon DEF TInv
  <2> DEFINE x == Len(rxq[r])
             y == Len(bufs[t])
             room == Room(t)
  <2>2. x \in Nat /\ y \in Nat /\ room = MAX_BURST_SIZE - y /\ y < MAX_BURST_SIZE /\ n = IF x < room THEN x ELSE room
    BY <1>1, <1>3, <2>1, LenProperties, ZenonT(40) DEF Room
  <2> HIDE DEF x, y, room
  <2>3. n \in 0 .. x /\ n <= x /\ y + n <= MAX_BURST_SIZE /\ n \in Nat
    BY <2>2, Numbers
  <2>. QED BY <2>3 DEF x, y
<1>5. /\ rxq'[r] = SubSeq(rxq[r], n + 1, Len(rxq[r])) /\ \A x \in Rings : x # r => rxq'[x] = rxq[x]
      /\ bufs'[t] = bufs[t] \o SubSeq(rxq[r], 1, n) /\ \A x \in Workers : x # t => bufs'[x] = bufs[x]
      /\ \A x : InHand(x)' = InHand(x)
  BY <1>3a, ZenonT(40) DEF TInv, InHand
<1>6. /\ Shifted(rxq[r], rxq'[r], n)
      /\ Extended(bufs[t], bufs'[t], rxq[r], n)
  <2>1. rxq[r] \in Seq(Mbufs) /\ bufs[t] \in Seq(Mbufs)
    BY Zenon DEF TInv
  <2>2. Shifted(rxq[r], SubSeq(rxq[r], n + 1, Len(rxq[r])), n)
    BY <1>4, <2>1, SubSeqShifts, ZenonT(40)
  <2>3. Extended(bufs[t], bufs[t] \o SubSeq(rxq[r], 1, n), rxq[r], n)
    BY <1>4, <2>1, ConcatExtends, ZenonT(40)
  <2>. QED BY <1>5, <2>2, <2>3, Zenon
<1>7. \A s \in Stores \ {Rx(r), Burst(t)} : Held(s)' = Held(s)
  <2>1. \A x \in Rings : (Rx(x) \notin {Rx(r), Burst(t)} => rxq'[x] = rxq[x]) /\ txq'[x] = txq[x]
    BY <1>3a, <1>5, Zenon
  <2>2. \A x \in Workers : (Burst(x) \notin {Rx(r), Burst(t)} => bufs'[x] = bufs[x]) /\ InHand(x)' = InHand(x)
    BY <1>5, Zenon
  <2>. QED BY <2>1, <2>2, OthersHeld, ZenonT(40)
<1>8. Held(Rx(r)) = rxq[r] /\ Held(Rx(r))' = rxq'[r] /\ Held(Burst(t)) = bufs[t] /\ Held(Burst(t))' = bufs'[t]
  BY HeldAre, Zenon
<1>9. Moves(Rx(r), Burst(t), n)
  BY <1>3a, <1>4, <1>6, <1>7, <1>8, StoreCases, StoresDiffer, Zenon DEF Moves, buffers
<1>. QED BY <1>1, <1>2, <1>3a, <1>4, <1>9, Zenon

\* thread_handle_frames frees the first frame of the burst, or takes it in hand.
LEMMA HandleMoves ==
  ASSUME TInv, NEW t \in Workers, thread_handle_frames(t)
  PROVE  \E m \in Mbufs :
           LET verdict == thread_handle_frame(data[m], Interface(t), int_confs)
           IN  /\ tpc[t] = "frames" /\ bufs[t] # <<>> /\ m = bufs[t][1]
               /\ bufs' = [bufs EXCEPT ![t] = Tail(bufs[t])]
               /\ \/ verdict.drop /\ Frees(Burst(t)) /\ UNCHANGED <<tpc, sending>>
                  \/ /\ ~verdict.drop /\ Moves(Burst(t), Hand(t), 1) /\ Held(Hand(t)) = <<>>
                     /\ data' = [data EXCEPT ![m] = verdict.frame]
                     /\ sending' = [sending EXCEPT ![t] = <<m, verdict.port, 0>>]
                     /\ tpc' = [tpc EXCEPT ![t] = "send"]
               /\ UNCHANGED <<master, force_quit, ti, tq, received, rings>>
<1>1. tpc[t] = "frames" /\ bufs[t] # <<>> /\ UNCHANGED <<master, force_quit, ti, tq, received, rings>>
  BY Zenon DEF thread_handle_frames
<1>2. bufs[t] \in Seq(Mbufs) /\ bufs' = [bufs EXCEPT ![t] = Tail(bufs[t])]
  BY Zenon DEF thread_handle_frames, TInv
<1>3. /\ bufs'[t] = Tail(bufs[t]) /\ Shifted(bufs[t], bufs'[t], 1) /\ Head(bufs[t]) = bufs[t][1]
      /\ bufs[t][1] \in Mbufs /\ Len(bufs[t]) \in Nat /\ Len(bufs[t]) >= 1
      /\ \A x \in Workers : x # t => bufs'[x] = bufs[x]
  BY <1>1, <1>2, TailShifts, Zenon DEF TInv
<1>4. PICK m \in Mbufs : m = bufs[t][1]
  BY <1>3, Zenon
<1>5. PICK verdict : verdict = thread_handle_frame(data[m], Interface(t), int_confs)
  OBVIOUS
<1>6. Held(Burst(t)) = bufs[t] /\ Held(Burst(t))' = bufs'[t] /\ Held(Hand(t)) = InHand(t) /\ Held(Hand(t))' = InHand(t)'
  BY HeldAre, Zenon
<1>7. CASE verdict.drop
  <2>1. Free(m) /\ UNCHANGED <<tpc, sending>>
    BY <1>3, <1>4, <1>5, <1>7, Zenon DEF thread_handle_frames
  <2>2. \A x \in Workers : (Burst(x) \notin {Burst(t)} => bufs'[x] = bufs[x]) /\ InHand(x)' = InHand(x)
    BY <1>3, <2>1, Zenon DEF InHand
  <2>3. \A s \in Stores \ {Burst(t)} : Held(s)' = Held(s)
    BY <1>1, <2>2, OthersHeld, Zenon DEF rings
  <2>4. Frees(Burst(t))
    BY <1>1, <1>3, <1>4, <1>6, <2>1, <2>3, StoreCases, ZenonT(40) DEF Frees
  <2>. QED BY <1>1, <1>2, <1>4, <1>5, <1>7, <2>1, <2>4, ZenonT(40)
<1>8. CASE ~verdict.drop
  <2>1. /\ data' = [data EXCEPT ![m] = verdict.frame]
        /\ sending' = [sending EXCEPT ![t] = <<m, verdict.port, 0>>]
        /\ tpc' = [tpc EXCEPT ![t] = "send"]
        /\ UNCHANGED <<pool, origin, older>>
    BY <1>3, <1>4, <1>5, <1>8, Zenon DEF thread_handle_frames
  <2>2. sending[t] = <<>> /\ sending'[t] = <<m, verdict.port, 0>> /\ \A x \in Workers : x # t => sending'[x] = sending[x]
    BY <1>1, <2>1, ZenonT(40) DEF TInv, HandShape
  <2>3. InHand(t) = <<>> /\ InHand(t)' = <<m>> /\ \A x \in Workers : x # t => InHand(x)' = InHand(x)
    BY <2>2 DEF InHand
  <2>4. \A s \in Stores \ {Burst(t), Hand(t)} : Held(s)' = Held(s)
    <3>1. \A x \in Workers : /\ Burst(x) \notin {Burst(t), Hand(t)} => bufs'[x] = bufs[x]
                             /\ Hand(x) \notin {Burst(t), Hand(t)} => InHand(x)' = InHand(x)
      BY <1>3, <2>3, ZenonT(40)
    <3>. QED BY <1>1, <3>1, OthersHeld, Zenon DEF rings
  <2>5. Extended(InHand(t), InHand(t)', bufs[t], 1)
    <3>1. Len(InHand(t)) = 0 /\ Len(InHand(t)') = 1 /\ InHand(t)'[1] = bufs[t][1]
      BY <1>4, <2>3
    <3>. QED BY <3>1 DEF Extended
  <2>6. Moves(Burst(t), Hand(t), 1)
    <3>1. Burst(t) # Hand(t) /\ Burst(t) \in Stores /\ Hand(t) \in Stores
      BY StoreCases, StoresDiffer, ZenonT(40)
    <3>2. 1 \in 0 .. Len(bufs[t])
      BY <1>3
    <3>. QED BY <1>3, <1>6, <2>1, <2>4, <2>5, <3>1, <3>2, ZenonT(40) DEF Moves
  <2>. QED BY <1>1, <1>2, <1>4, <1>5, <1>6, <1>8, <2>1, <2>3, <2>6, ZenonT(40)
<1>. QED BY <1>7, <1>8, Zenon

LEMMA InTransmit ==
  ASSUME TInv, NEW t \in Workers, tpc[t] = "send"
  PROVE  \E m \in Mbufs : \E i \in Nat : \E p : sending[t] = <<m, p, i>>
<1>1. /\ sending[t] = <<sending[t][1], sending[t][2], sending[t][3]>>
      /\ sending[t][1] \in Mbufs /\ sending[t][3] \in 0 .. MAX_TRANSMIT_TRIAL
  BY Zenon DEF TInv, HandShape
<1>2. sending[t][3] \in Nat
  BY <1>1, Numbers
<1>3. PICK m \in Mbufs : m = sending[t][1]
  BY <1>1, Zenon
<1>4. PICK i \in Nat : i = sending[t][3]
  BY <1>2
<1>5. PICK p : p = sending[t][2]
  OBVIOUS
<1>6. sending[t] = <<m, p, i>>
  BY <1>1, <1>3, <1>4, <1>5, Zenon
<1>. QED BY <1>6

\* rte_eth_tx_burst moves the frame in hand to a transmit ring, or is tried again.
LEMMA TransmitMoves ==
  ASSUME RInv, DInv, TInv, Alive, NEW t \in Workers, rte_eth_tx_burst(t)
  PROVE  /\ tpc[t] = "send" /\ sending[t][2] \in Ports
         /\ UNCHANGED <<master, force_quit, ti, tq, received, bufs, buffers, rxq>>
         /\ \/ \E r \in Rings :
                 /\ r = <<sending[t][2], t>> /\ Moves(Hand(t), Tx(r), 1) /\ Len(txq[r]) < TX_DESCS
                 /\ txq' = [txq EXCEPT ![r] = Append(txq[r], sending[t][1])]
                 /\ sending' = [sending EXCEPT ![t] = <<>>] /\ Held(Hand(t))' = <<>>
                 /\ tpc' = [tpc EXCEPT ![t] = "frames"]
            \/ /\ Rests /\ sending[t][3] < MAX_TRANSMIT_TRIAL
               /\ sending' = [sending EXCEPT ![t] = <<sending[t][1], sending[t][2], sending[t][3] + 1>>]
               /\ UNCHANGED <<txq, tpc>>
<1>1. /\ tpc[t] = "send" /\ sending[t][3] < MAX_TRANSMIT_TRIAL /\ sending[t][2] \in configured
      /\ UNCHANGED <<master, force_quit, ti, tq, received, bufs, buffers, rxq>>
  BY Zenon DEF rte_eth_tx_burst
<1>2. PICK m \in Mbufs : \E i \in Nat : \E p : sending[t] = <<m, p, i>>
  BY <1>1, InTransmit, Zenon
<1>2a. PICK i \in Nat : \E p : sending[t] = <<m, p, i>>
  BY <1>2
<1>2b. PICK p : sending[t] = <<m, p, i>>
  BY <1>2a
<1>3. sending[t][1] = m /\ sending[t][2] = p /\ sending[t][3] = i /\ sending[t] # <<>> /\ InHand(t) = <<m>>
  BY <1>2b DEF InHand
<1>4. p \in Ports /\ thr_confs[t].q_id = t
  BY <1>1, <1>3 DEF DInv, RInv, OwnQueues
<1>5. PICK r \in Rings : r = <<p, t>>
  BY <1>4, Numbers, Zenon DEF Rings
<1>6. ASSUME Len(txq[r]) < TX_DESCS, txq' = [txq EXCEPT ![r] = Append(@, m)],
             sending' = [sending EXCEPT ![t] = <<>>], tpc' = [tpc EXCEPT ![t] = "frames"]
      PROVE  Moves(Hand(t), Tx(r), 1) /\ Held(Hand(t))' = <<>>
  <2>1. /\ sending'[t] = <<>> /\ \A x \in Workers : x # t => sending'[x] = sending[x]
        /\ txq'[r] = Append(txq[r], m) /\ \A x \in Rings : x # r => txq'[x] = txq[x]
        /\ txq[r] \in Seq(Mbufs)
    BY <1>6, Zenon DEF TInv
  <2>2. InHand(t)' = <<>> /\ \A x \in Workers : x # t => InHand(x)' = InHand(x)
    BY <2>1, ZenonT(40) DEF InHand
  <2>3. Shifted(InHand(t), InHand(t)', 1)
    <3>1. Len(InHand(t)) = 1 /\ Len(InHand(t)') = 0
      BY <1>3, <2>2, ZenonT(40)
    <3>. QED BY <3>1 DEF Shifted
  <2>4. Extended(txq[r], txq'[r], InHand(t), 1)
    <3>1. InHand(t)[1] = m
      BY <1>3
    <3>2. Extended(txq[r], Append(txq[r], m), InHand(t), 1)
      BY <2>1, <3>1, AppendExtends, ZenonT(40)
    <3>. QED BY <2>1, <3>2, ZenonT(40)
  <2>5. \A s \in Stores \ {Hand(t), Tx(r)} : Held(s)' = Held(s)
    <3>1. \A x \in Workers : (Hand(x) \notin {Hand(t), Tx(r)} => InHand(x)' = InHand(x)) /\ bufs'[x] = bufs[x]
      BY <1>1, <2>2, Zenon
    <3>2. \A x \in Rings : (Tx(x) \notin {Hand(t), Tx(r)} => txq'[x] = txq[x]) /\ rxq'[x] = rxq[x]
      BY <1>1, <2>1, Zenon
    <3>. QED BY <3>1, <3>2, OthersHeld, Zenon
  <2>6. Held(Hand(t)) = InHand(t) /\ Held(Hand(t))' = InHand(t)' /\ Held(Tx(r)) = txq[r] /\ Held(Tx(r))' = txq'[r]
    BY HeldAre, Zenon
  <2>7. Hand(t) # Tx(r) /\ Hand(t) \in Stores /\ Tx(r) \in Stores
    BY StoreCases, StoresDiffer, ZenonT(40)
  <2>8. 1 \in 0 .. Len(InHand(t))
    <3>1. Len(InHand(t)) = 1
      BY <1>3
    <3>. QED BY <3>1, OneOfOne, Zenon
  <2>. QED BY <1>1, <2>2, <2>3, <2>4, <2>5, <2>6, <2>7, <2>8, ZenonT(40) DEF Moves, buffers
<1>7. ASSUME sending' = [sending EXCEPT ![t][3] = @ + 1], UNCHANGED <<txq, tpc>>
      PROVE  Rests /\ sending' = [sending EXCEPT ![t] = <<m, p, i + 1>>]
  <2>1. sending'[t] = [sending[t] EXCEPT ![3] = i + 1] /\ \A x \in Workers : x # t => sending'[x] = sending[x]
    BY <1>3, <1>7, ZenonT(40) DEF TInv
  <2>2. sending'[t] = <<m, p, i + 1>>
    BY <1>2b, <2>1
  <2>3. sending' = [sending EXCEPT ![t] = <<m, p, i + 1>>]
    BY <1>3, <1>7, <2>2, ZenonT(40) DEF TInv
  <2>4. \A x \in Workers : InHand(x)' = InHand(x)
    BY <1>3, <2>1, <2>2 DEF InHand
  <2>. QED BY <1>1, <1>7, <2>3, <2>4, StillRests, ZenonT(40) DEF rings
<1>8. \/ /\ Len(txq[r]) < TX_DESCS /\ txq' = [txq EXCEPT ![r] = Append(@, m)]
         /\ sending' = [sending EXCEPT ![t] = <<>>] /\ tpc' = [tpc EXCEPT ![t] = "frames"]
      \/ sending' = [sending EXCEPT ![t][3] = @ + 1] /\ UNCHANGED <<txq, tpc>>
  BY <1>3, <1>4, <1>5, ZenonT(40) DEF rte_eth_tx_burst
<1>9. txq' = [txq EXCEPT ![r] = Append(@, m)] => txq' = [txq EXCEPT ![r] = Append(txq[r], m)]
  BY Zenon DEF TInv
<1>10. CASE /\ Len(txq[r]) < TX_DESCS /\ txq' = [txq EXCEPT ![r] = Append(@, m)]
            /\ sending' = [sending EXCEPT ![t] = <<>>] /\ tpc' = [tpc EXCEPT ![t] = "frames"]
  BY <1>1, <1>3, <1>4, <1>5, <1>6, <1>9, <1>10, ZenonT(40)
<1>11. CASE sending' = [sending EXCEPT ![t][3] = @ + 1] /\ UNCHANGED <<txq, tpc>>
  BY <1>1, <1>3, <1>4, <1>7, <1>11, ZenonT(40)
<1>. QED BY <1>8, <1>10, <1>11, Zenon

\* A frame whose transmission is given up is freed.
LEMMA GiveUpFrees ==
  ASSUME TInv, NEW t \in Workers, TransmitGivenUp(t)
  PROVE  /\ tpc[t] = "send" /\ Frees(Hand(t)) /\ Held(Hand(t))' = <<>>
         /\ sending' = [sending EXCEPT ![t] = <<>>] /\ tpc' = [tpc EXCEPT ![t] = "frames"]
         /\ UNCHANGED <<master, force_quit, ti, tq, received, bufs, rings>>
<1>1. /\ tpc[t] = "send" /\ Free(sending[t][1])
      /\ sending' = [sending EXCEPT ![t] = <<>>] /\ tpc' = [tpc EXCEPT ![t] = "frames"]
      /\ UNCHANGED <<master, force_quit, ti, tq, received, bufs, rings>>
  BY Zenon DEF TransmitGivenUp
<1>2. PICK m \in Mbufs : \E i \in Nat : \E p : sending[t] = <<m, p, i>>
  BY <1>1, InTransmit, ZenonT(40)
<1>2a. PICK i \in Nat : \E p : sending[t] = <<m, p, i>>
  BY <1>2
<1>2b. PICK p : sending[t] = <<m, p, i>>
  BY <1>2a
<1>3. InHand(t) = <<m>> /\ sending[t][1] = m
  BY <1>2b DEF InHand
<1>4. sending'[t] = <<>> /\ \A x \in Workers : x # t => sending'[x] = sending[x]
  BY <1>1, Zenon DEF TInv
<1>5. InHand(t)' = <<>> /\ \A x \in Workers : x # t => InHand(x)' = InHand(x)
  BY <1>4, Zenon DEF InHand
<1>6. \A s \in Stores \ {Hand(t)} : Held(s)' = Held(s)
  <2>1. \A x \in Workers : (Hand(x) \notin {Hand(t)} => InHand(x)' = InHand(x)) /\ bufs'[x] = bufs[x]
    BY <1>1, <1>5, Zenon
  <2>. QED BY <1>1, <2>1, OthersHeld, ZenonT(40) DEF rings
<1>7. Shifted(InHand(t), InHand(t)', 1) /\ InHand(t) # <<>> /\ InHand(t)[1] = m
  <2>1. Len(InHand(t)) = 1 /\ Len(InHand(t)') = 0 /\ InHand(t) # <<>> /\ InHand(t)[1] = m
    BY <1>3, <1>5
  <2>. QED BY <2>1 DEF Shifted
<1>8. Held(Hand(t)) = InHand(t) /\ Held(Hand(t))' = InHand(t)'
  BY HeldAre, Zenon
<1>9. Frees(Hand(t))
  BY <1>1, <1>3, <1>6, <1>7, <1>8, StoreCases, ZenonT(40) DEF Frees
<1>. QED BY <1>1, <1>5, <1>8, <1>9, ZenonT(40)

LEMMA DepartFrees ==
  ASSUME TInv, NEW r \in Rings, Depart(r)
  PROVE  /\ Frees(Tx(r)) /\ txq[r] # <<>> /\ txq' = [txq EXCEPT ![r] = Tail(txq[r])]
         /\ UNCHANGED <<master, force_quit, workers, rxq>>
<1>1. /\ txq[r] # <<>> /\ Free(Head(txq[r])) /\ txq' = [txq EXCEPT ![r] = Tail(txq[r])]
      /\ UNCHANGED <<master, force_quit, workers, rxq>> /\ txq[r] \in Seq(Mbufs)
  BY Zenon DEF Depart, TInv
<1>2. txq'[r] = Tail(txq[r]) /\ \A x \in Rings : x # r => txq'[x] = txq[x]
  BY <1>1, Zenon DEF TInv
<1>3. Shifted(txq[r], txq'[r], 1) /\ Head(txq[r]) = txq[r][1]
  BY <1>1, <1>2, TailShifts, Zenon
<1>4. \A s \in Stores \ {Tx(r)} : Held(s)' = Held(s)
  <2>1. \A x \in Rings : (Tx(x) \notin {Tx(r)} => txq'[x] = txq[x]) /\ rxq'[x] = rxq[x]
    BY <1>1, <1>2, Zenon
  <2>2. \A x \in Workers : InHand(x)' = InHand(x) /\ bufs'[x] = bufs[x]
    BY <1>1, Zenon DEF InHand, workers
  <2>. QED BY <2>1, <2>2, OthersHeld, ZenonT(40)
<1>5. Held(Tx(r)) = txq[r] /\ Held(Tx(r))' = txq'[r]
  BY HeldAre, Zenon
<1>6. Frees(Tx(r))
  BY <1>1, <1>3, <1>4, <1>5, StoreCases, Zenon DEF Frees
<1>. QED BY <1>1, <1>6, Zenon

LEMMA ArriveTakes ==
  ASSUME TInv, NEW m \in Mbufs, NEW r \in Rings, NEW f \in FrameSet, Arrive(m, r, f)
  PROVE  /\ Takes(m, r, f) /\ rxq' = [rxq EXCEPT ![r] = Append(rxq[r], m)] /\ Len(rxq[r]) < RX_DESCS
         /\ UNCHANGED <<master, force_quit, workers, txq>>
<1>1. /\ pool[m] > 0 /\ Len(rxq[r]) < RX_DESCS
      /\ pool' = [pool EXCEPT ![m] = @ - 1] /\ data' = [data EXCEPT ![m] = f]
      /\ origin' = [origin EXCEPT ![m] = [frame |-> f, ring |-> r]]
      /\ older' = older \cup {<<n, m>> : n \in {k \in Mbufs : pool[k] = 0}}
      /\ rxq' = [rxq EXCEPT ![r] = Append(rxq[r], m)]
      /\ UNCHANGED <<master, force_quit, workers, txq>>
  BY Zenon DEF Arrive, TInv
<1>2. rxq'[r] = Append(rxq[r], m) /\ rxq[r] \in Seq(Mbufs) /\ \A x \in Rings : x # r => rxq'[x] = rxq[x]
  BY <1>1, ZenonT(40) DEF TInv
<1>3. Extended(rxq[r], rxq'[r], <<m>>, 1)
  <2>1. <<m>>[1] = m
    OBVIOUS
  <2>. QED BY <1>2, <2>1, AppendProperties DEF Extended
<1>4. \A s \in Stores \ {Rx(r)} : Held(s)' = Held(s)
  <2>1. \A x \in Rings : (Rx(x) \notin {Rx(r)} => rxq'[x] = rxq[x]) /\ txq'[x] = txq[x]
    BY <1>1, <1>2, Zenon
  <2>2. \A x \in Workers : InHand(x)' = InHand(x) /\ bufs'[x] = bufs[x]
    BY <1>1, Zenon DEF InHand, workers
  <2>. QED BY <2>1, <2>2, OthersHeld, ZenonT(40)
<1>. QED BY <1>1, <1>3, <1>4, Zenon DEF Takes, Rx

\* A worker step that only moves the worker on.
LEMMA ControlKeepsTInv ==
  ASSUME RInv, TInv, NEW t \in Workers, RoundStart(t) \/ RecvEnd(t) \/ FramesEnd(t) \/ RoundEnd(t) \/ Wake(t)
  PROVE  /\ TInv' /\ Rests /\ UNCHANGED <<int_confs, thr_confs, mpc, configured, bufs, sending>>
         /\ \A u \in Workers : bufs[u] # <<>> => ti'[u] = ti[u]
<1>0. /\ UNCHANGED <<int_confs, thr_confs, mpc, mi, configured, force_quit, bufs, sending, buffers, rings>>
      /\ tpc \in [Workers -> WorkerPhases]
  BY Zenon DEF RoundStart, RecvEnd, FramesEnd, RoundEnd, Wake, master, workers, RInv
<1>1. ti' \in [Workers -> Nat \ {0}]
  <2>1. ti \in [Workers -> Nat \ {0}] /\ \A n \in Nat \ {0} : n + 1 \in Nat \ {0}
    BY DEF TInv
  <2>2. ti[t] + 1 \in Nat \ {0} /\ 1 \in Nat \ {0}
    BY <2>1
  <2>3. ti' = ti \/ ti' = [ti EXCEPT ![t] = 1] \/ ti' = [ti EXCEPT ![t] = ti[t] + 1]
    BY Zenon DEF RoundStart, RecvEnd, FramesEnd, RoundEnd, Wake
  <2>. QED BY <2>1, <2>2, <2>3, ZenonT(40)
<1>2. tq' \in [Workers -> 0 .. LcoreCount]
  <2>1. 0 \in 0 .. LcoreCount
    BY Numbers
  <2>. QED BY <2>1, Zenon DEF RoundStart, RecvEnd, FramesEnd, RoundEnd, Wake, TInv, FirstQueue
<1>3. received' \in [Workers -> BOOLEAN]
  BY Zenon DEF RoundStart, RecvEnd, FramesEnd, RoundEnd, Wake, TInv
<1>4. /\ tpc[t] # "send" /\ tpc'[t] # "send" /\ \A u \in Workers : u # t => tpc'[u] = tpc[u] /\ ti'[u] = ti[u]
      /\ bufs[t] # <<>> => tpc'[t] = "frames" /\ ti'[t] = ti[t]
      /\ tpc'[t] = "frames" => OnInterface(t) /\ ti'[t] = ti[t]
  BY <1>0, ZenonT(40) DEF RoundStart, RecvEnd, FramesEnd, RoundEnd, Wake, TInv, BurstShape
<1>5. ASSUME NEW u \in Workers PROVE HandShape(u)' /\ BurstShape(u)'
  <2>1. HandShape(u) /\ BurstShape(u)
    BY Zenon DEF TInv
  <2>2. CASE u = t
    BY <1>0, <1>4, <2>1, <2>2, Zenon DEF HandShape, BurstShape, OnInterface, MyInterfaces
  <2>3. CASE u # t
    BY <1>0, <1>4, <2>1, <2>3, ZenonT(40) DEF HandShape, BurstShape, OnInterface, MyInterfaces
  <2>. QED BY <2>2, <2>3
<1>6. \A x \in Workers : InHand(x)' = InHand(x)
  BY <1>0, ZenonT(40) DEF InHand
<1>7. Rests
  BY <1>0, <1>6, StillRests, Zenon
<1>8. TInv'
  BY <1>0, <1>1, <1>2, <1>3, <1>5, ZenonT(40) DEF TInv, buffers, rings
<1>. QED BY <1>0, <1>4, <1>7, <1>8, Zenon

LEMMA RecvKeepsTInv ==
  ASSUME RInv, DInv, TInv, Alive, NEW t \in Workers, recv_from_device(t)
  PROVE  TInv'
<1>1. PICK r \in Rings, k \in Nat :
        /\ OnInterface(t) /\ tpc[t] = "recv" /\ k <= Len(rxq[r])
        /\ Len(bufs[t]) + k <= MAX_BURST_SIZE
        /\ rxq' = [rxq EXCEPT ![r] = SubSeq(rxq[r], k + 1, Len(rxq[r]))]
        /\ bufs' = [bufs EXCEPT ![t] = bufs[t] \o SubSeq(rxq[r], 1, k)]
        /\ tq' = [tq EXCEPT ![t] = @ + 1] /\ tq[t] < LcoreCount
        /\ UNCHANGED <<master, force_quit, tpc, ti, received, sending, buffers, txq>>
  BY RecvMoves, Zenon
<1>2. rxq[r] \in Seq(Mbufs) /\ bufs[t] \in Seq(Mbufs) /\ Len(rxq[r]) \in Nat /\ k \in 0 .. Len(rxq[r]) /\ Len(rxq[r]) <= RX_DESCS
  <2>1. rxq[r] \in Seq(Mbufs) /\ bufs[t] \in Seq(Mbufs) /\ Len(rxq[r]) <= RX_DESCS
    BY Zenon DEF TInv
  <2>2. Len(rxq[r]) \in Nat
    BY <2>1, LenProperties, Zenon
  <2>. QED BY <1>1, <2>1, <2>2
<1>3. /\ SubSeq(rxq[r], k + 1, Len(rxq[r])) \in Seq(Mbufs) /\ Len(SubSeq(rxq[r], k + 1, Len(rxq[r]))) = Len(rxq[r]) - k
      /\ bufs[t] \o SubSeq(rxq[r], 1, k) \in Seq(Mbufs) /\ Len(bufs[t] \o SubSeq(rxq[r], 1, k)) = Len(bufs[t]) + k
  <2>1. /\ SubSeq(rxq[r], k + 1, Len(rxq[r])) \in Seq(Mbufs)
        /\ Shifted(rxq[r], SubSeq(rxq[r], k + 1, Len(rxq[r])), k)
    BY <1>2, SubSeqShifts, Zenon
  <2>2. /\ bufs[t] \o SubSeq(rxq[r], 1, k) \in Seq(Mbufs)
        /\ Extended(bufs[t], bufs[t] \o SubSeq(rxq[r], 1, k), rxq[r], k)
    BY <1>2, ConcatExtends, Zenon
  <2>. QED BY <2>1, <2>2, Zenon DEF Shifted, Extended
<1>4. rxq' \in [Rings -> Seq(Mbufs)] /\ \A x \in Rings : Len(rxq'[x]) <= RX_DESCS
  <2>1. Len(rxq[r]) - k <= RX_DESCS
    BY <1>2, Numbers
  <2>. QED BY <1>1, <1>3, <2>1, ZenonT(40) DEF TInv
<1>5. bufs' \in [Workers -> Seq(Mbufs)]
  BY <1>1, <1>3, Zenon DEF TInv
<1>6. tq' \in [Workers -> 0 .. LcoreCount]
  <2>1. PICK q \in 0 .. LcoreCount : q = tq[t]
    BY Zenon DEF TInv
  <2>2. q + 1 \in 0 .. LcoreCount
    BY <1>1, <2>1, Numbers
  <2>. QED BY <1>1, <2>1, <2>2, Zenon DEF TInv
<1>7. ASSUME NEW u \in Workers PROVE HandShape(u)' /\ BurstShape(u)'
  <2>1. HandShape(u) /\ BurstShape(u)
    BY Zenon DEF TInv
  <2>2. CASE u = t
    <3>1. Len(bufs'[t]) <= MAX_BURST_SIZE
      BY <1>1, <1>3, Zenon DEF TInv
    <3>. QED BY <1>1, <2>1, <2>2, <3>1, Zenon DEF HandShape, BurstShape, OnInterface, MyInterfaces, master
  <2>3. CASE u # t
    <3>1. bufs'[u] = bufs[u]
      BY <1>1, <2>3, Zenon DEF TInv
    <3>. QED BY <1>1, <2>1, <3>1, ZenonT(40) DEF HandShape, BurstShape, OnInterface, MyInterfaces, master
  <2>. QED BY <2>2, <2>3
<1>. QED BY <1>1, <1>4, <1>5, <1>6, <1>7, ZenonT(40) DEF TInv, buffers

LEMMA HandleKeepsTInv ==
  ASSUME RInv, TInv, NEW t \in Workers, thread_handle_frames(t)
  PROVE  TInv'
<1>1. PICK m \in Mbufs :
        LET verdict == thread_handle_frame(data[m], Interface(t), int_confs)
        IN  /\ tpc[t] = "frames" /\ bufs[t] # <<>>
            /\ bufs' = [bufs EXCEPT ![t] = Tail(bufs[t])]
            /\ \/ Frees(Burst(t)) /\ UNCHANGED <<tpc, sending>>
               \/ /\ Moves(Burst(t), Hand(t), 1)
                  /\ data' = [data EXCEPT ![m] = verdict.frame]
                  /\ sending' = [sending EXCEPT ![t] = <<m, verdict.port, 0>>]
                  /\ tpc' = [tpc EXCEPT ![t] = "send"]
            /\ UNCHANGED <<master, force_quit, ti, tq, received, rings>>
  BY HandleMoves
<1>2. PICK verdict : verdict = thread_handle_frame(data[m], Interface(t), int_confs)
  OBVIOUS
<1>3. bufs[t] \in Seq(Mbufs) /\ Len(bufs[t]) <= MAX_BURST_SIZE /\ OnInterface(t)
  BY <1>1, Zenon DEF TInv, BurstShape
<1>4. bufs' \in [Workers -> Seq(Mbufs)] /\ Len(bufs'[t]) <= MAX_BURST_SIZE
  <2>1. Tail(bufs[t]) \in Seq(Mbufs) /\ Len(Tail(bufs[t])) = Len(bufs[t]) - 1 /\ Len(bufs[t]) \in Nat
    BY <1>1, <1>3, TailShifts, Zenon DEF Shifted
  <2>2. bufs'[t] = Tail(bufs[t]) /\ bufs' \in [Workers -> Seq(Mbufs)]
    BY <1>1, <2>1, Zenon DEF TInv
  <2>3. Len(bufs[t]) - 1 <= MAX_BURST_SIZE
    BY <1>3, <2>1, Numbers
  <2>. QED BY <2>1, <2>2, <2>3, Zenon
<1>5. DOMAIN pool' = Mbufs /\ DOMAIN data' = Mbufs /\ DOMAIN origin' = Mbufs
  BY <1>1, Zenon DEF TInv, Frees, Free, Moves
<1>6. /\ DOMAIN sending' = Workers
      /\ \A u \in Workers : u # t => sending'[u] = sending[u] /\ tpc'[u] = tpc[u] /\ bufs'[u] = bufs[u]
  BY <1>1, Zenon DEF TInv, RInv
<1>7. HandShape(t)' /\ BurstShape(t)'
  <2>1. CASE UNCHANGED <<tpc, sending>>
    BY <1>1, <1>3, <1>4, <2>1, ZenonT(40) DEF TInv, HandShape, BurstShape, OnInterface, MyInterfaces, master
  <2>2. CASE sending' = [sending EXCEPT ![t] = <<m, verdict.port, 0>>] /\ tpc' = [tpc EXCEPT ![t] = "send"]
    <3>1. sending'[t] = <<m, verdict.port, 0>> /\ tpc'[t] = "send"
      BY <2>2, ZenonT(40) DEF TInv, RInv
    <3>2. HandShape(t)'
      BY <3>1, Numbers DEF HandShape
    <3>. QED BY <1>1, <1>3, <1>4, <3>1, <3>2, ZenonT(40) DEF BurstShape, OnInterface, MyInterfaces, master
  <2>. QED BY <1>1, <1>2, <2>1, <2>2, ZenonT(40)
<1>8. ASSUME NEW u \in Workers PROVE HandShape(u)' /\ BurstShape(u)'
  <2>1. CASE u # t
    BY <1>1, <1>6, <2>1, ZenonT(40) DEF TInv, HandShape, BurstShape, OnInterface, MyInterfaces, master
  <2>. QED BY <1>7, <2>1
<1>. QED BY <1>1, <1>4, <1>5, <1>6, <1>8, ZenonT(40) DEF TInv, rings

LEMMA SendKeepsTInv ==
  ASSUME RInv, DInv, TInv, Alive, NEW t \in Workers, rte_eth_tx_burst(t) \/ TransmitGivenUp(t)
  PROVE  TInv'
<1>1. /\ tpc[t] = "send" /\ UNCHANGED <<master, force_quit, ti, tq, received, bufs, rxq>>
      /\ DOMAIN pool' = Mbufs /\ DOMAIN data' = Mbufs /\ DOMAIN origin' = Mbufs
  BY Zenon DEF rte_eth_tx_burst, TransmitGivenUp, Free, TInv, buffers, rings
<1>2. txq' \in [Rings -> Seq(Mbufs)] /\ \A x \in Rings : Len(txq'[x]) <= TX_DESCS
  <2>1. CASE UNCHANGED txq
    BY <2>1, Zenon DEF TInv
  <2>2. ASSUME NEW r \in Rings, Len(txq[r]) < TX_DESCS, txq' = [txq EXCEPT ![r] = Append(txq[r], sending[t][1])]
        PROVE  txq' \in [Rings -> Seq(Mbufs)] /\ \A x \in Rings : Len(txq'[x]) <= TX_DESCS
    <3>1. txq[r] \in Seq(Mbufs) /\ sending[t][1] \in Mbufs
      BY <1>1, ZenonT(40) DEF TInv, HandShape
    <3>2. Append(txq[r], sending[t][1]) \in Seq(Mbufs) /\ Len(Append(txq[r], sending[t][1])) <= TX_DESCS
      BY <2>2, <3>1, AppendProperties, LenProperties, Numbers, SMTT(30)
    <3>. QED BY <2>2, <3>2, Zenon DEF TInv
  <2>. QED BY <2>1, <2>2, TransmitMoves, GiveUpFrees, Zenon DEF rings
<1>3. \/ sending' = [sending EXCEPT ![t] = <<>>] /\ tpc' = [tpc EXCEPT ![t] = "frames"]
      \/ /\ sending' = [sending EXCEPT ![t] = <<sending[t][1], sending[t][2], sending[t][3] + 1>>]
         /\ sending[t][3] < MAX_TRANSMIT_TRIAL /\ tpc' = tpc
  BY TransmitMoves, GiveUpFrees, Zenon
<1>4. /\ DOMAIN sending' = Workers
      /\ \A u \in Workers : u # t => sending'[u] = sending[u] /\ tpc'[u] = tpc[u]
  BY <1>3, Zenon DEF TInv, RInv
<1>5. HandShape(t) /\ BurstShape(t)
  BY Zenon DEF TInv
<1>6. HandShape(t)' /\ tpc'[t] \in {"frames", "send"}
  <2>1. CASE sending' = [sending EXCEPT ![t] = <<>>] /\ tpc' = [tpc EXCEPT ![t] = "frames"]
    BY <2>1, ZenonT(40) DEF TInv, RInv, HandShape
  <2>2. CASE /\ sending' = [sending EXCEPT ![t] = <<sending[t][1], sending[t][2], sending[t][3] + 1>>]
             /\ sending[t][3] < MAX_TRANSMIT_TRIAL /\ tpc' = tpc
    <3>1. PICK m \in Mbufs, i \in 0 .. MAX_TRANSMIT_TRIAL : m = sending[t][1] /\ i = sending[t][3]
      BY <1>1, <1>5, Zenon DEF HandShape
    <3>2. sending'[t] = <<m, sending[t][2], i + 1>> /\ tpc'[t] = "send"
      BY <1>1, <2>2, <3>1, ZenonT(40) DEF TInv
    <3>3. i + 1 \in 0 .. MAX_TRANSMIT_TRIAL
      BY <2>2, <3>1, Numbers
    <3>4. PICK q, j : q = sending[t][2] /\ j = i + 1
      BY Zenon
    <3>5. PICK s : s = sending'[t] /\ s = <<m, q, j>>
      BY <3>2, <3>4, Zenon
    <3>6. s[1] = m /\ s[3] = j /\ s = <<s[1], s[2], s[3]>>
      BY ONLY <3>5, Triple
    <3>. QED BY <3>2, <3>3, <3>4, <3>5, <3>6, ZenonT(40) DEF HandShape
  <2>. QED BY <1>3, <2>1, <2>2, Zenon
<1>7. BurstShape(t)'
  BY <1>1, <1>5, <1>6, ZenonT(40) DEF BurstShape, OnInterface, MyInterfaces, master
<1>8. ASSUME NEW u \in Workers PROVE HandShape(u)' /\ BurstShape(u)'
  <2>1. CASE u # t
    BY <1>1, <1>4, <2>1, ZenonT(40) DEF TInv, HandShape, BurstShape, OnInterface, MyInterfaces, master
  <2>. QED BY <1>6, <1>7, <2>1
<1>. QED BY <1>1, <1>2, <1>4, <1>8, Zenon DEF TInv

LEMMA CardsKeepTInv ==
  ASSUME TInv, NEW r \in Rings, Depart(r) \/ \E m \in Mbufs, f \in FrameSet : Arrive(m, r, f)
  PROVE  TInv'
<1>1. UNCHANGED <<master, force_quit, workers>> /\ rxq[r] \in Seq(Mbufs) /\ txq[r] \in Seq(Mbufs) /\ Len(txq[r]) <= TX_DESCS
  BY Zenon DEF Depart, Arrive, TInv
<1>2. DOMAIN pool' = Mbufs /\ DOMAIN data' = Mbufs /\ DOMAIN origin' = Mbufs
  BY Zenon DEF Depart, Arrive, Free, TInv
<1>3. \A t \in Workers : HandShape(t)' /\ BurstShape(t)'
  BY <1>1, Zenon DEF TInv, HandShape, BurstShape, OnInterface, MyInterfaces, master, workers
<1>4. CASE Depart(r)
  <2>1. txq' = [txq EXCEPT ![r] = Tail(txq[r])] /\ rxq' = rxq /\ txq[r] # <<>>
    BY <1>4, DepartFrees, ZenonT(40)
  <2>2. Tail(txq[r]) \in Seq(Mbufs) /\ Len(Tail(txq[r])) <= TX_DESCS
    BY <1>1, <2>1, TailShifts, Numbers DEF Shifted
  <2>3. txq' \in [Rings -> Seq(Mbufs)] /\ \A x \in Rings : Len(txq'[x]) <= TX_DESCS
    BY <2>1, <2>2, Zenon DEF TInv
  <2>. QED BY <1>1, <1>2, <1>3, <2>1, <2>3, ZenonT(40) DEF TInv, workers
<1>5. ASSUME NEW m \in Mbufs, NEW f \in FrameSet, Arrive(m, r, f) PROVE TInv'
  <2>1. rxq' = [rxq EXCEPT ![r] = Append(rxq[r], m)] /\ txq' = txq /\ Len(rxq[r]) < RX_DESCS
    BY <1>5, ArriveTakes, ZenonT(40)
  <2>2. Append(rxq[r], m) \in Seq(Mbufs) /\ Len(Append(rxq[r], m)) <= RX_DESCS
    BY <1>1, <2>1, AppendProperties, LenProperties, Numbers
  <2>3. rxq' \in [Rings -> Seq(Mbufs)] /\ \A x \in Rings : Len(rxq'[x]) <= RX_DESCS
    BY <2>1, <2>2, Zenon DEF TInv
  <2>. QED BY <1>1, <1>2, <1>3, <2>1, <2>3, ZenonT(40) DEF TInv, workers
<1>. QED BY <1>4, <1>5

\* Steps of the master, the signal and the end leave the buffers alone.
LEMMA MasterRests ==
  ASSUME RInv, TInv, Master \/ signal_handler \/ UNCHANGED vars \/ \E t \in Workers : TransmitUnattached(t)
  PROVE  TInv' /\ Rests /\ UNCHANGED <<bufs, sending, rings, buffers, ti>>
         /\ \A t \in Workers : tpc[t] \in Active => thr_confs' = thr_confs /\ tpc'[t] = tpc[t]
<1>1. UNCHANGED <<ti, tq, received, bufs, sending, rings, buffers>> /\ force_quit' \in BOOLEAN
  BY ZenonT(40) DEF Master, ConfigureInterface, ConfigureError, ConfigureEnd, start_thread, MasterWorks, MasterWorked,
         rte_eal_wait_lcore, router_finalize, signal_handler, vars, TransmitUnattached, workers, TInv
<1>2. ASSUME NEW t \in Workers
      PROVE  \/ tpc'[t] = tpc[t]
             \/ tpc[t] = "idle" /\ tpc'[t] = "top"
  <2>1. \/ tpc' = tpc
        \/ \E u \in Workers : tpc[u] = "idle" /\ tpc' = [tpc EXCEPT ![u] = "top"]
    <3>1. start_thread => mi \in Workers /\ tpc[mi] = "idle"
      <4>1. \A s \in Slaves : s \in Workers /\ ~(s < s)
        BY WorkerSets
      <4>. QED BY <4>1, Zenon DEF start_thread, RInv, Phase
    <3>2. MasterWorks => 0 \in Workers /\ tpc[0] = "idle"
      <4>1. 0 \in Workers
        BY WorkerSets, Zenon
      <4>. QED BY <4>1, Zenon DEF MasterWorks, RInv, Phase
    <3>3. start_thread \/ MasterWorks \/ tpc' = tpc
      BY ZenonT(40) DEF Master, ConfigureInterface, ConfigureError, ConfigureEnd, MasterWorked, rte_eal_wait_lcore,
                        router_finalize, signal_handler, vars, TransmitUnattached, workers
    <3>. QED BY <3>1, <3>2, <3>3, ZenonT(40) DEF start_thread, MasterWorks
  <2>2. DOMAIN tpc = Workers
    BY Zenon DEF RInv
  <2>. QED BY <2>1, <2>2, Zenon
<1>3. ASSUME NEW t \in Workers, tpc[t] \in Active PROVE thr_confs' = thr_confs
  <2>1. mpc \notin {"configure", "end"} /\ (mpc = "wait" => mi \in Slaves)
    BY <1>3, WorkerSets DEF RInv, Phase, Active, Slaves
  <2>. QED BY <2>1, ZenonT(40) DEF Master, ConfigureInterface, ConfigureError, ConfigureEnd, start_thread, MasterWorks, MasterWorked,
         rte_eal_wait_lcore, router_finalize, signal_handler, vars, TransmitUnattached, master
<1>4. ASSUME NEW t \in Workers PROVE HandShape(t)' /\ BurstShape(t)'
  <2>1. HandShape(t) /\ BurstShape(t)
    BY Zenon DEF TInv
  <2>. QED BY <1>1, <1>2, <1>3, <2>1, Zenon DEF HandShape, BurstShape, OnInterface, MyInterfaces, Active
<1>5. TInv'
  BY <1>1, <1>4, ZenonT(40) DEF TInv, rings, buffers
<1>6. Rests
  <2>1. \A t \in Workers : InHand(t)' = InHand(t)
    BY <1>1 DEF InHand
  <2>. QED BY <1>1, <2>1, StillRests, ZenonT(40)
<1>. QED BY <1>1, <1>2, <1>3, <1>5, <1>6, Zenon DEF Active

LEMMA TypesInductive == Spec => []TInv
<1>1. RInv /\ DInv /\ TInv /\ [Next]_vars => TInv'
  <2> SUFFICES ASSUME RInv, DInv, TInv, [Next]_vars PROVE TInv'
    OBVIOUS
  <2>1. CASE Master \/ signal_handler \/ UNCHANGED vars
    BY <2>1, MasterRests, Zenon
  <2>2. ASSUME NEW t \in Workers, Worker(t) PROVE TInv'
    <3>1. Alive
      BY <2>2 DEF Worker
    <3>. QED BY <2>2, <3>1, MasterRests, ControlKeepsTInv, RecvKeepsTInv, HandleKeepsTInv, SendKeepsTInv, ZenonT(40) DEF Worker
  <2>3. ASSUME NEW m \in Mbufs, NEW ring \in Rings, NEW f \in FrameSet, Arrive(m, ring, f) PROVE TInv'
    BY <2>3, CardsKeepTInv
  <2>4. ASSUME NEW ring \in Rings, Depart(ring) PROVE TInv'
    BY <2>4, CardsKeepTInv
  <2>. QED BY <2>1, <2>2, <2>3, <2>4, ZenonT(40) DEF Next
<1>. QED BY <1>1, InitTInv, Inductive, DealInductive, PTL DEF Spec
-----------------------------------------------------------------------------
\* Every step moves buffers of one store behind those of another, frees one, fills
\* one or leaves all where they are.
LEMMA StepKinds ==
  ASSUME RInv, DInv, TInv, [Next]_vars
  PROVE  \/ Rests
         \/ \E t \in Workers, r \in Rings, k \in Nat :
              Moves(Rx(r), Burst(t), k) /\ r[1] = Interface(t).int_id /\ UNCHANGED data
         \/ \E t \in Workers : Moves(Burst(t), Hand(t), 1)
         \/ \E t \in Workers, r \in Rings : Moves(Hand(t), Tx(r), 1) /\ r[2] = t /\ UNCHANGED data
         \/ \E a \in Stores : Frees(a)
         \/ \E m \in Mbufs, r \in Rings, f \in FrameSet : Takes(m, r, f)
<1>1. CASE Master \/ signal_handler \/ UNCHANGED vars
  BY <1>1, MasterRests, Zenon
<1>2. ASSUME NEW t \in Workers, Worker(t)
      PROVE  \/ Rests
             \/ \E r \in Rings, k \in Nat :
                  Moves(Rx(r), Burst(t), k) /\ r[1] = Interface(t).int_id /\ UNCHANGED data
             \/ Moves(Burst(t), Hand(t), 1)
             \/ \E r \in Rings : Moves(Hand(t), Tx(r), 1) /\ r[2] = t /\ UNCHANGED data
             \/ \E a \in Stores : Frees(a)
  <2>1. Alive
    BY <1>2 DEF Worker
  <2>2. CASE TransmitUnattached(t)
    BY <2>2, MasterRests, Zenon
  <2>3. CASE RoundStart(t) \/ RecvEnd(t) \/ FramesEnd(t) \/ RoundEnd(t) \/ Wake(t)
    BY <2>3, ControlKeepsTInv, Zenon
  <2>4. CASE recv_from_device(t)
    <3>1. PICK r \in Rings, k \in Nat :
            r = <<Interface(t).int_id, tq[t]>> /\ Moves(Rx(r), Burst(t), k) /\ UNCHANGED buffers
      BY <2>1, <2>4, RecvMoves, Zenon
    <3>. QED BY <3>1, Zenon DEF buffers
  <2>5. CASE thread_handle_frames(t)
    <3>1. Frees(Burst(t)) \/ Moves(Burst(t), Hand(t), 1)
      BY <2>5, HandleMoves, Zenon
    <3>. QED BY <3>1, StoreCases, Zenon
  <2>6. CASE rte_eth_tx_burst(t)
    <3>1. UNCHANGED data
      BY <2>1, <2>6, TransmitMoves, Zenon DEF buffers
    <3>2. Rests \/ \E r \in Rings : r = <<sending[t][2], t>> /\ Moves(Hand(t), Tx(r), 1)
      BY <2>1, <2>6, TransmitMoves, Zenon
    <3>. QED BY <3>1, <3>2, Zenon
  <2>7. CASE TransmitGivenUp(t)
    BY <2>7, GiveUpFrees, StoreCases, ZenonT(40)
  <2>. QED BY <1>2, <2>2, <2>3, <2>4, <2>5, <2>6, <2>7, ZenonT(40) DEF Worker
<1>3. ASSUME NEW m \in Mbufs, NEW r \in Rings, NEW f \in FrameSet, Arrive(m, r, f) PROVE Takes(m, r, f)
  BY <1>3, ArriveTakes, ZenonT(40)
<1>4. ASSUME NEW r \in Rings, Depart(r) PROVE Frees(Tx(r)) /\ Tx(r) \in Stores
  BY <1>4, DepartFrees, StoreCases, ZenonT(40)
<1>. QED BY <1>1, <1>2, <1>3, <1>4, Zenon DEF Next

\* The buffers in every store.
View == [s \in Stores |-> Held(s)]

OInv == Own(Mbufs, Stores, View, pool)

LEMMA ViewTypes ==
  ASSUME TInv, TInv'
  PROVE  /\ View \in [Stores -> Seq(Mbufs)] /\ View' \in [Stores -> Seq(Mbufs)]
         /\ \A s \in Stores : View[s] = Held(s) /\ View'[s] = Held(s)'
         /\ \A s \in Stores : Len(Held(s)) \in Nat /\ Len(Held(s)') \in Nat
<1>1. \A s \in Stores : Held(s) \in Seq(Mbufs)
  BY HeldTypes
<1>2. TInv' => (\A s \in Stores : Held(s) \in Seq(Mbufs))'
  BY HeldTypes, PTL
<1>3. \A s \in Stores : Held(s)' \in Seq(Mbufs)
  BY <1>2
<1>4. View = [s \in Stores |-> Held(s)] /\ View' = [s \in Stores |-> Held(s)']
  BY DEF View
<1>. QED BY <1>1, <1>3, <1>4, LenProperties

LEMMA InitOInv == Init => OInv
<1> SUFFICES ASSUME Init PROVE OInv
  OBVIOUS
<1>1. ASSUME NEW s \in Stores PROVE View[s] = <<>>
  <2>1. \A t \in Workers : bufs[t] = <<>> /\ InHand(t) = <<>>
    BY Zenon DEF Init, InHand
  <2>2. \A r \in Rings : rxq[r] = <<>> /\ txq[r] = <<>>
    BY Zenon DEF Init
  <2>3. Held(s) = <<>>
    BY <2>1, <2>2, StoreCases, HeldAre, ZenonT(40)
  <2>. QED BY <2>3 DEF View
<1>2. Positions(Stores, View) = {}
  <2>1. \A s \in Stores : 1 .. Len(View[s]) = {}
    BY <1>1, EmptySeq
  <2>. QED BY ONLY <2>1, SlotIs
<1>3. \A m \in Mbufs : pool[m] = 1
  BY Zenon DEF Init
<1>. QED BY <1>2, <1>3 DEF OInv, Own

LEMMA OwnInductive == Spec => []OInv
<1>1. RInv /\ DInv /\ TInv /\ OInv /\ [Next]_vars /\ TInv' => OInv'
  <2> SUFFICES ASSUME RInv, DInv, TInv, OInv, [Next]_vars, TInv' PROVE Own(Mbufs, Stores, View', pool')
    BY DEF OInv
  <2>0. /\ View \in [Stores -> Seq(Mbufs)] /\ View' \in [Stores -> Seq(Mbufs)]
        /\ \A s \in Stores : View[s] = Held(s) /\ View'[s] = Held(s)'
    BY ViewTypes, Zenon
  <2>1. Own(Mbufs, Stores, View, pool) /\ DOMAIN pool = Mbufs
    BY Zenon DEF OInv, TInv
  <2>2. CASE Rests
    <3>1. View' = View /\ pool' = pool
      BY <2>2 DEF Rests, View, buffers
    <3>. QED BY <2>1, <3>1
  <2>3. ASSUME NEW a, NEW b, NEW k, Moves(a, b, k) PROVE Own(Mbufs, Stores, View', pool')
    <3>1. MoveOf(Mbufs, Stores, View, View', a, b, k)
      BY <2>0, <2>3, Zenon DEF Moves, MoveOf
    <3>2. pool' = pool
      BY <2>3, Zenon DEF Moves
    <3>. QED BY <2>1, <3>1, <3>2, MoveKeepsOwn, ZenonT(40)
  <2>4. ASSUME NEW a \in Stores, Frees(a) PROVE Own(Mbufs, Stores, View', pool')
    <3>1. FreeOf(Mbufs, Stores, View, View', pool, pool', a)
      BY <2>0, <2>1, <2>4, Zenon DEF Frees, Free, FreeOf
    <3>. QED BY <2>1, <3>1, FreeKeepsOwn, Zenon
  <2>5. ASSUME NEW m \in Mbufs, NEW r \in Rings, NEW f \in FrameSet, Takes(m, r, f) PROVE Own(Mbufs, Stores, View', pool')
    <3>1. Rx(r) \in Stores /\ Held(Rx(r)) = rxq[r] /\ Held(Rx(r))' = rxq'[r] /\ Rx(r) = <<"rx", r>>
      BY StoreCases, HeldAre, Zenon DEF Rx
    <3>2. TakeOf(Mbufs, Stores, View, View', pool, pool', Rx(r), m)
      BY <2>0, <2>1, <2>5, <3>1, Zenon DEF Takes, TakeOf
    <3>. QED BY <2>1, <3>2, TakeKeepsOwn, Zenon
  <2>. QED BY <2>2, <2>3, <2>4, <2>5, StepKinds, ZenonT(40)
<1>. QED BY <1>1, InitOInv, Inductive, DealInductive, TypesInductive, PTL DEF Spec

\* Whatever workers, cards and the signal do in whatever order, no buffer is leaked,
\* freed twice or in two places.
THEOREM BuffersAreOwnedOnce == Spec => []MbufOwnedOnce
<1>1. TInv /\ OInv => MbufOwnedOnce
  <2> SUFFICES ASSUME TInv, OInv, NEW m \in Mbufs
               PROVE  \/ pool[m] = 1 /\ Places(m) = {}
                      \/ pool[m] = 0 /\ \E x \in Places(m) : Places(m) = {x}
    BY DEF MbufOwnedOnce
  <2>1. \A s \in Stores : Held(s) \in Seq(Mbufs) /\ DOMAIN Held(s) = 1 .. Len(Held(s)) /\ View[s] = Held(s)
    BY HeldTypes, LenProperties DEF View
  <2>2. \A x : x \in Places(m) <=> x \in Positions(Stores, View) /\ At(View, x) = m
    <3>1. ASSUME NEW x \in Places(m) PROVE x \in Positions(Stores, View) /\ At(View, x) = m
      BY <2>1 DEF Places, Positions, At
    <3>2. ASSUME NEW x \in Positions(Stores, View), At(View, x) = m PROVE x \in Places(m)
      BY <2>1, <3>2 DEF Places, Positions, At
    <3>. QED BY <3>1, <3>2, ZenonT(40)
  <2>3. /\ \A p, q \in Positions(Stores, View) : At(View, p) = At(View, q) => p = q
        /\ \A p \in Positions(Stores, View) : pool[At(View, p)] = 0
        /\ pool[m] \in {0, 1} /\ (pool[m] = 0 => \E p \in Positions(Stores, View) : At(View, p) = m)
    BY ZenonT(40) DEF OInv, Own
  <2>4. CASE pool[m] = 0
    <3>1. PICK x \in Positions(Stores, View) : At(View, x) = m
      BY <2>3, <2>4, Zenon
    <3>2. x \in Places(m) /\ \A y \in Places(m) : y = x
      BY <2>2, <2>3, <3>1, ZenonT(40)
    <3>3. Places(m) = {x}
      BY <3>2
    <3>. QED BY <2>4, <3>2, <3>3
  <2>5. CASE pool[m] = 1
    <3>1. \A x : x \notin Places(m)
      <4>1. pool[m] # 0
        BY ONLY <2>5
      <4>. QED BY <2>2, <2>3, <4>1, ZenonT(40)
    <3>. QED BY <2>5, <3>1
  <2>. QED BY <2>3, <2>4, <2>5, Zenon
<1>. QED BY <1>1, TypesInductive, OwnInductive, PTL
\* However routes and traffic lead the workers, no transmit queue has two of them.
THEOREM QueuesAreOwn == Spec => []TxQueueExclusive
<1>1. RInv => TxQueueExclusive
  BY DEF RInv, OwnQueues, TxQueueExclusive
<1>. QED BY <1>1, Inductive, PTL

\* Whenever the signal comes, router_finalize runs after the last worker is done.
THEOREM ConfsAreFreedLast == Spec => []ConfsOutliveWorkers
<1>1. RInv => ConfsOutliveWorkers
  BY DEF RInv, Phase, ConfsOutliveWorkers
<1>. QED BY <1>1, Inductive, PTL
=============================================================================
