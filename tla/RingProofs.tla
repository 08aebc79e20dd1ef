----------------------------- MODULE RingProofs -----------------------------
(***************************************************************************)
(* Proofs about Ring, for every number of threads and objects, every size  *)
(* of the ring and of the words that count in it.                          *)
(*                                                                         *)
(* The indexes of the ring wrap; the argument is about indexes that do     *)
(* not. The invariant says that there are numbers h, l and b the heads,    *)
(* the tails and the old_heads of the calls are the remainders of, and a   *)
(* sequence v of the objects ever put, so that position x of the ring is   *)
(* for v[x]:                                                               *)
(*   Placed  where the calls in progress are between the tails and heads,  *)
(*   Valued  which object is where.                                        *)
(* Remainders are met only where the code subtracts, compares or masks an  *)
(* index, and there the numbers are too near each other to be confused.    *)
(***************************************************************************)
EXTENDS Ring, TLAPS

LEMMA EmptySeq ==
  ASSUME NEW M
  PROVE  <<>> \in Seq(M) /\ Len(<<>>) = 0
OBVIOUS

LEMMA LenProperties ==
  ASSUME NEW M, NEW x \in Seq(M)
  PROVE  /\ Len(x) \in Nat /\ DOMAIN x = 1 .. Len(x) /\ \A i \in 1 .. Len(x) : x[i] \in M
         /\ x # <<>> => Len(x) >= 1
OBVIOUS

LEMMA MulMonotone ==
  ASSUME NEW a \in Int, NEW b \in Int, NEW d \in Nat, a <= b
  PROVE  d * a <= d * b
BY SMT

\* The multiples of d, and what is needed of them.
Multiples(d) == {d * q : q \in Int}

LEMMA MultiplesAre ==
  ASSUME NEW d \in Nat \ {0}
  PROVE  /\ Multiples(d) \subseteq Int
         /\ 0 \in Multiples(d)
         /\ \A e, f \in Multiples(d) : e + f \in Multiples(d) /\ e - f \in Multiples(d)
         /\ \A e \in Multiples(d) : e < d /\ -d < e => e = 0
<1>1. \A q \in Int : d * q \in Int
  OBVIOUS
<1>2. d * 0 = 0 /\ 0 \in Int
  OBVIOUS
<1>3. ASSUME NEW e \in Multiples(d), NEW f \in Multiples(d)
      PROVE  e + f \in Multiples(d) /\ e - f \in Multiples(d)
  <2>1. PICK p, q \in Int : e = d * p /\ f = d * q
    BY DEF Multiples
  <2>2. e + f = d * (p + q) /\ e - f = d * (p - q) /\ p + q \in Int /\ p - q \in Int
    BY <2>1
  <2>. QED BY <2>2, Zenon DEF Multiples
<1>4. ASSUME NEW e \in Multiples(d), e < d, -d < e PROVE e = 0
  <2>1. PICK q \in Int : e = d * q
    BY DEF Multiples
  <2>2. q <= 0
    <3> SUFFICES ASSUME q >= 1 PROVE FALSE
      OBVIOUS
    <3>1. d * 1 <= d * q
      BY MulMonotone
    <3>. QED BY <1>4, <2>1, <3>1
  <2>3. q >= 0
    <3> SUFFICES ASSUME q <= -1 PROVE FALSE
      OBVIOUS
    <3>1. d * q <= d * (-1) /\ d * (-1) = -d
      BY MulMonotone
    <3>. QED BY <1>4, <2>1, <3>1
  <2>. QED BY <2>1, <2>2, <2>3
<1>. QED BY <1>1, <1>2, <1>3, <1>4 DEF Multiples

\* A number is a multiple of d and its remainder, and that in one way only.
LEMMA Remainder ==
  ASSUME NEW d \in Nat \ {0}, NEW a \in Int
  PROVE  /\ a % d \in 0 .. d - 1
         /\ \E e \in Multiples(d) : a = e + (a % d)
         /\ \A e \in Multiples(d), r \in 0 .. d - 1 : a = e + r => r = a % d
<1>1. a = d * (a \div d) + (a % d) /\ a % d \in 0 .. d - 1 /\ a \div d \in Int
  BY SMT
<1>2. PICK k, m \in Int : k = d * (a \div d) /\ m = a % d
  BY <1>1
<1>3. k \in Multiples(d) /\ a = k + m /\ m \in 0 .. d - 1
  BY <1>1, <1>2 DEF Multiples
<1>4. ASSUME NEW e \in Multiples(d), NEW r \in 0 .. d - 1, a = e + r PROVE r = m
  <2>1. e \in Int /\ e - k \in Multiples(d)
    BY <1>3, MultiplesAre
  <2>2. PICK f \in Int : f = e - k
    BY <2>1
  <2>3. f < d /\ -d < f
    BY <1>3, <1>4, <2>1, <2>2
  <2>4. f = 0
    BY <2>1, <2>2, <2>3, MultiplesAre
  <2>. QED BY <1>3, <1>4, <2>1, <2>2, <2>4
<1>. QED BY <1>2, <1>3, <1>4, Zenon

\* Of numbers less than d apart the remainders tell which is which.
LEMMA NearMod ==
  ASSUME NEW d \in Nat \ {0}, NEW x \in Nat, NEW y \in Nat, x - y < d, y - x < d, x % d = y % d
  PROVE  x = y
<1>0. x \in Int /\ y \in Int
  OBVIOUS
<1>1. PICK r \in Int : r = x % d /\ r = y % d
  BY <1>0, Remainder
<1>2a. (\E e \in Multiples(d) : x = e + (x % d)) /\ (\E f \in Multiples(d) : y = f + (y % d))
  BY <1>0, Remainder, Zenon
<1>2b. PICK e, f \in Multiples(d) : x = e + (x % d) /\ y = f + (y % d)
  BY <1>2a, Zenon
<1>2. x = e + r /\ y = f + r
  BY <1>1, <1>2b, Zenon
<1>3. e \in Int /\ f \in Int /\ e - f \in Multiples(d)
  BY MultiplesAre
<1>4. PICK g \in Int : g = e - f
  BY <1>3
<1>5. g < d /\ -d < g
  BY <1>2, <1>3, <1>4
<1>6. g = 0
  BY <1>3, <1>4, <1>5, MultiplesAre
<1>. QED BY <1>2, <1>3, <1>4, <1>6

\* A remainder can be worked out after an addition, or after a subtraction.
LEMMA AddMod ==
  ASSUME NEW d \in Nat \ {0}, NEW x \in Nat, NEW n \in Nat
  PROVE  ((x % d) + n) % d = (x + n) % d
<1>0. x \in Int
  OBVIOUS
<1>1. PICK r \in Int : r = x % d
  BY <1>0, Remainder
<1>2. PICK e \in Multiples(d) : x = e + r
  BY <1>0, <1>1, Remainder, Zenon
<1>3. PICK y, z \in Int : y = r + n /\ z = x + n
  OBVIOUS
<1>4. PICK s \in 0 .. d - 1 : s = y % d
  BY Remainder, Zenon
<1>5. PICK f \in Multiples(d) : y = f + s
  BY <1>4, Remainder, Zenon
<1>6. e \in Int /\ f \in Int /\ e + f \in Multiples(d)
  BY MultiplesAre
<1>7. z = (e + f) + s
  BY <1>2, <1>3, <1>5, <1>6
<1>8. s = z % d
  BY <1>6, <1>7, Remainder, Zenon
<1>. QED BY <1>1, <1>3, <1>4, <1>8

\* m is x - y, with c added, and w is the same of their remainders.
Apart(d, x, y, c, m, w) ==
  /\ d \in Nat \ {0} /\ x \in Nat /\ y \in Nat /\ c \in Nat /\ m \in 0 .. d - 1
  /\ m = (c + x) - y /\ w = (c + (x % d)) - (y % d)

LEMMA SubMod ==
  ASSUME NEW d, NEW x, NEW y, NEW c, NEW m, NEW w, Apart(d, x, y, c, m, w)
  PROVE  w % d = m
<1>0. d \in Nat \ {0} /\ x \in Int /\ y \in Int /\ c \in Int /\ m \in Int /\ m \in 0 .. d - 1
  BY DEF Apart
<1>a. x % d \in 0 .. d - 1 /\ y % d \in 0 .. d - 1
  BY <1>0, Remainder
<1>r. PICK r \in Int : r = x % d
  BY <1>0, <1>a
<1>s. PICK s \in Int : s = y % d
  BY <1>0, <1>a
<1>1. PICK e \in Multiples(d) : x = e + r
  <2>1. \E e \in Multiples(d) : x = e + (x % d)
    BY <1>0, Remainder, Zenon
  <2>. QED BY <1>r, <2>1, Zenon
<1>2. PICK f \in Multiples(d) : y = f + s
  <2>1. \E f \in Multiples(d) : y = f + (y % d)
    BY <1>0, Remainder, Zenon
  <2>. QED BY <1>s, <2>1, Zenon
<1>3. e \in Int /\ f \in Int /\ f - e \in Multiples(d)
  BY <1>0, MultiplesAre
<1>4. m = (c + x) - y /\ w = (c + r) - s
  BY <1>r, <1>s, Zenon DEF Apart
<1>5. w = (f - e) + m /\ w \in Int
  BY ONLY <1>0, <1>1, <1>2, <1>3, <1>4, r \in Int, s \in Int
<1>. QED BY <1>0, <1>3, <1>5, Remainder, Zenon

\* The remainder by a multiple of d keeps the remainder by d.
LEMMA ModMod ==
  ASSUME NEW d \in Nat \ {0}, NEW m \in Nat \ {0}, m % d = 0, NEW x \in Int
  PROVE  (x % m) % d = x % d
<1>1. m \in Multiples(d)
  <2>1. PICK e \in Multiples(d) : m = e + (m % d)
    BY Remainder
  <2>. QED BY <2>1, MultiplesAre
<1>2. PICK k \in Int : m = d * k
  BY <1>1 DEF Multiples
<1>3. PICK r \in Int : r = x % m
  BY Remainder
<1>4. PICK e \in Multiples(m) : x = e + r
  BY <1>3, Remainder, Zenon
<1>5. e \in Multiples(d)
  <2>1. PICK q \in Int : e = m * q
    BY DEF Multiples
  <2>2. e = d * (k * q) /\ k * q \in Int
    BY <1>2, <2>1
  <2>. QED BY <2>2 DEF Multiples
<1>6. PICK s \in 0 .. d - 1 : s = r % d
  BY Remainder, Zenon
<1>7. PICK f \in Multiples(d) : r = f + s
  <2>1. \E f \in Multiples(d) : r = f + (r % d)
    BY Remainder, Zenon
  <2>. QED BY <1>6, <2>1, Zenon
<1>8. e \in Int /\ f \in Int /\ e + f \in Multiples(d)
  BY <1>5, MultiplesAre
<1>9. x = (e + f) + s
  BY <1>4, <1>7, <1>8
<1>10. s = x % d
  BY <1>8, <1>9, Remainder, Zenon
<1>. QED BY <1>3, <1>6, <1>10

\* The objects of a table are its entries.
LEMMA Entries ==
  ASSUME NEW M, NEW x \in Seq(M)
  PROVE  /\ DOMAIN x = 1 .. Len(x)
         /\ \A i \in 1 .. Len(x) : x[i] \in M /\ x[i] \in Range(x)
BY DEF Range

\* The i-th of the n numbers from p on.
LEMMA Offset ==
  ASSUME NEW p \in Nat, NEW n \in Nat, NEW i \in 1 .. n
  PROVE  /\ p + i - 1 \in Nat /\ ~(p + i - 1 < p) /\ (p + i - 1) - p + 1 = i
         /\ p + i - 1 \in p .. p + n - 1 /\ p + i - 1 < p + n
OBVIOUS

LEMMA Narrower ==
  ASSUME NEW m \in Nat, NEW n \in Nat, m <= n, NEW i \in 1 .. m
  PROVE  i \in 1 .. n
OBVIOUS

LEMMA EmptyRange == Range(<<>>) = {} /\ Len(<<>>) = 0 /\ 1 .. 0 = {}
BY DEF Range

LEMMA NoNumbers ==
  ASSUME NEW n \in Nat
  PROVE  n .. n - 1 = {}
OBVIOUS

\* Of the numbers from a on, those before p and the n from p on.
LEMMA Grown ==
  ASSUME NEW a \in Nat, NEW p \in Nat, NEW n \in Nat, NEW x \in a .. p + n - 1
  PROVE  x \in Nat /\ (x < p => x \in a .. p - 1) /\ (~(x < p) => x - p + 1 \in 1 .. n)
OBVIOUS

LEMMA Before ==
  ASSUME NEW p \in Nat, NEW q \in Nat, NEW r \in Nat, p <= q, q <= r, NEW i \in 1 .. q - p
  PROVE  p + i - 1 \in Nat /\ p + i - 1 < r
OBVIOUS


\* A sequence is the function of its entries.
LEMMA SameEntries ==
  ASSUME NEW M, NEW r \in Seq(M), NEW v, NEW p \in Nat, NEW k \in Nat, Len(r) = k,
         \A i \in 1 .. k : r[i] = v[p + i - 1]
  PROVE  r = [i \in 1 .. k |-> v[p + i - 1]]
OBVIOUS
-----------------------------------------------------------------------------
(***************************************************************************)
(* The invariant.                                                          *)
(***************************************************************************)
\* In a call that has not moved the head yet, or gave up.
Calling == {"head", "room", "move"}

Typed ==
  /\ head \in [Sides -> Nat] /\ tail \in [Sides -> Nat]
  /\ DOMAIN ring = 0 .. capacity
  /\ held \in [Threads -> SUBSET Objects]
  /\ pc \in [Threads -> Calling \cup {"idle", "copy", "refused"}]
  /\ call \in [Threads -> [side : Sides, n : Nat, obj_table : Seq(Objects), old_head : Nat, copied : Nat]]
  /\ \A t \in Threads : pc[t] \in Calling \cup {"copy"} => call[t].n \in Bulks

Fits(h, l, s, n) == IF s = "prod" THEN h["prod"] + n <= l["cons"] + capacity
                                  ELSE h["cons"] + n <= l["prod"]

\* The tails are behind the heads, and these at most a ring apart.
Ordered(h, l) ==
  /\ \A s \in Sides : head[s] = h[s] % UINT /\ tail[s] = l[s] % UINT
  /\ l["cons"] <= h["cons"] /\ h["cons"] <= l["prod"] /\ l["prod"] <= h["prod"]
  /\ h["prod"] <= l["cons"] + capacity

\* A call that read a head is not a lap behind it; if the head has not moved since
\* there is the room it saw; once it moved the head its slots are its own.
Located(h, l, b, t) ==
  LET s == call[t].side
      n == call[t].n
  IN  /\ pc[t] \in {"room", "move", "copy"} => call[t].old_head = b[t] % UINT
      /\ pc[t] \in {"room", "move"} => b[t] <= h[s] /\ h[s] <= b[t] + UINT - size
      /\ pc[t] = "move" /\ b[t] = h[s] => Fits(h, l, s, n)
      /\ pc[t] = "copy" => l[s] <= b[t] /\ b[t] + n <= h[s]

Distinct(b, t, u) ==
  pc[t] = "copy" /\ pc[u] = "copy" /\ call[t].side = call[u].side =>
    b[t] + call[t].n <= b[u] \/ b[u] + call[u].n <= b[t]

Tiled(h, l, b, s) ==
  \A x \in l[s] .. h[s] - 1 : \E t \in Threads :
    pc[t] = "copy" /\ call[t].side = s /\ x \in b[t] .. b[t] + call[t].n - 1

Placed(h, l, b) ==
  /\ Ordered(h, l)
  /\ \A t \in Threads : Located(h, l, b, t)
  /\ \A t, u \in Threads : t # u => Distinct(b, t, u)
  /\ \A s \in Sides : Tiled(h, l, b, s)

\* The objects a thread holds, or is to put but has no place for yet.
Mine(t) == held[t] \cup IF pc[t] \in Calling THEN Range(call[t].obj_table) ELSE {}

\* What is in the table of a call c of a thread at p that holds the objects o, if
\* the first slot of the call is for position x.
Tabled(p, c, o, rg, x, v) ==
  /\ p = "idle" => c.obj_table = <<>>
  /\ p = "refused" => Range(c.obj_table) \subseteq o
  /\ p \in Calling =>
       /\ c.copied = 0
       /\ c.side = "cons" => c.obj_table = <<>>
       /\ c.side = "prod" => Len(c.obj_table) = c.n /\ IsInjective(c.obj_table)
                              /\ Range(c.obj_table) \cap o = {}
  /\ p = "copy" =>
       /\ c.copied <= c.n
       /\ Len(c.obj_table) = IF c.side = "prod" THEN c.n ELSE c.copied
       /\ \A i \in 1 .. Len(c.obj_table) : c.obj_table[i] = v[x + i - 1]
       /\ c.side = "prod" => \A i \in 1 .. c.copied : rg[(x + i - 1) % size] = v[x + i - 1]

Table(b, v, t) == Tabled(pc[t], call[t], held[t], ring, b[t], v)

\* The copies of a put are in the slots.
LEMMA TableRewritten ==
  ASSUME NEW p, NEW c, NEW o, NEW rg, NEW nr, NEW x, NEW v, Tabled(p, c, o, rg, x, v),
         p = "copy" /\ c.side = "prod" => \A i \in 1 .. c.copied : nr[(x + i - 1) % size] = v[x + i - 1]
  PROVE  Tabled(p, c, o, nr, x, v)
BY Zenon DEF Tabled

LEMMA TableCopied ==
  ASSUME NEW c, NEW o, NEW rg, NEW x, NEW v, c.copied <= c.n, c.side = "prod", Len(c.obj_table) = c.n,
         \A i \in 1 .. c.n : c.obj_table[i] = v[x + i - 1],
         \A i \in 1 .. c.copied : rg[(x + i - 1) % size] = v[x + i - 1]
  PROVE  Tabled("copy", c, o, rg, x, v)
BY Zenon DEF Tabled, Calling

Valued(h, l, b, v) ==
  /\ \A x \in l["cons"] .. l["prod"] - 1 : ring[x % size] = v[x]
  /\ \A x \in l["cons"] .. h["prod"] - 1 : v[x] \in Objects /\ \A t \in Threads : v[x] \notin Mine(t)
  /\ \A x, y \in l["cons"] .. h["prod"] - 1 : v[x] = v[y] => x = y
  /\ \A t, u \in Threads : t # u => Mine(t) \cap Mine(u) = {}
  /\ \A t \in Threads : Table(b, v, t)

GInv == \E h, l \in [Sides -> Nat], b \in [Threads -> Nat] : \E v : Placed(h, l, b) /\ Valued(h, l, b, v)
-----------------------------------------------------------------------------
(***************************************************************************)
(* Indexes of the ring, for positions x and y that do not wrap.            *)
(***************************************************************************)
LEMMA Sizes ==
  /\ size \in Nat \ {0} /\ UINT \in Nat \ {0} /\ UINT >= 2 * size /\ UINT % size = 0
  /\ capacity \in Nat /\ capacity = size - 1
BY RingAssumption DEF capacity

LEMMA BulksAre == \A n \in Bulks : n \in Nat /\ n >= 1
BY RingAssumption

\* What the compare-and-set and the wait for the tail rely on.
LEMMA SameIndex ==
  ASSUME NEW x \in Nat, NEW y \in Nat, x % UINT = y % UINT, x - y < UINT, y - x < UINT
  PROVE  x = y
BY Sizes, NearMod, Zenon

LEMMA IndexIs ==
  ASSUME NEW x \in Nat
  PROVE  x % UINT \in 0 .. UINT - 1 /\ x % UINT \in Nat
<1>1. x \in Int
  OBVIOUS
<1>2. x % UINT \in 0 .. UINT - 1
  BY <1>1, Sizes, Remainder
<1>. QED BY <1>2, Sizes

LEMMA PlusIs ==
  ASSUME Typed, NEW t \in Threads
  PROVE  Plus(call[t].old_head, call[t].n) \in Nat
<1>1. PICK i, n \in Nat : i = call[t].old_head /\ n = call[t].n
  BY Zenon DEF Typed
<1>2. i + n \in Nat
  OBVIOUS
<1>3. (i + n) % UINT \in Nat
  BY <1>2, IndexIs
<1>. QED BY <1>1, <1>3, Zenon DEF Plus

LEMMA IndexPlus ==
  ASSUME NEW x \in Nat, NEW n \in Nat
  PROVE  Plus(x % UINT, n) = (x + n) % UINT
BY Sizes, AddMod, ZenonT(40) DEF Plus

LEMMA IndexMinus ==
  ASSUME NEW x \in Nat, NEW y \in Nat, x - y \in 0 .. UINT - 1
  PROVE  Minus(x % UINT, y % UINT) = x - y
<1>1. PICK r \in Int : r = x % UINT
  BY IndexIs
<1>2. PICK s \in Int : s = y % UINT
  BY IndexIs
<1>3. PICK c \in Nat : c = 0
  OBVIOUS
<1>4. PICK m \in 0 .. UINT - 1 : m = x - y
  OBVIOUS
<1>5. PICK w \in Int : w = r - s
  OBVIOUS
<1>6. Apart(UINT, x, y, c, m, w)
  <2>1. m = (c + x) - y /\ w = (c + r) - s
    BY <1>3, <1>4, <1>5
  <2>. QED BY <1>1, <1>2, <2>1, Sizes, Zenon DEF Apart
<1>7. w % UINT = m
  BY <1>6, SubMod
<1>. QED BY <1>1, <1>2, <1>4, <1>5, <1>7 DEF Minus

LEMMA IndexRoom ==
  ASSUME NEW x \in Nat, NEW y \in Nat, capacity + x - y \in 0 .. UINT - 1
  PROVE  Minus(capacity + (x % UINT), y % UINT) = capacity + x - y
<1>1. PICK r \in Int : r = x % UINT
  BY IndexIs
<1>2. PICK s \in Int : s = y % UINT
  BY IndexIs
<1>3. PICK c \in Nat : c = capacity
  BY Sizes
<1>4. PICK m \in 0 .. UINT - 1 : m = (c + x) - y
  BY <1>3
<1>5. PICK w \in Int : w = (c + r) - s
  OBVIOUS
<1>6. Apart(UINT, x, y, c, m, w)
  BY <1>1, <1>2, <1>4, <1>5, Sizes, Zenon DEF Apart
<1>7. w % UINT = m
  BY <1>6, SubMod
<1>. QED BY <1>1, <1>2, <1>3, <1>4, <1>5, <1>7 DEF Minus

LEMMA SlotOf ==
  ASSUME NEW x \in Nat
  PROVE  Slot(x % UINT) = x % size /\ x % size \in 0 .. capacity
<1>1. x \in Int
  OBVIOUS
<1>2. x % size \in 0 .. size - 1
  BY <1>1, Sizes, Remainder
<1>. QED BY <1>1, <1>2, Sizes, ModMod, Zenon DEF Slot

\* What keeps calls off each other's slots.
LEMMA SlotsDiffer ==
  ASSUME NEW x \in Nat, NEW y \in Nat, x # y, x - y < size, y - x < size
  PROVE  x % size # y % size
BY Sizes, NearMod, Zenon
-----------------------------------------------------------------------------
(***************************************************************************)
(* The start.                                                              *)
(***************************************************************************)
\* A number below d is its own remainder.
LEMMA SmallMod ==
  ASSUME NEW d \in Nat \ {0}, NEW x \in 0 .. d - 1
  PROVE  x % d = x
<1>1. PICK e \in Multiples(d) : e = 0
  BY MultiplesAre
<1>2. x = e + x /\ x \in Int
  BY <1>1
<1>. QED BY <1>2, Remainder

\* Where Init writes the objects stored.
LEMMA FirstSlots ==
  ASSUME NEW i \in 0 .. capacity
  PROVE  Minus((FirstIndex + i) % size, FirstIndex) % size = i
<1>1. PICK f \in Int : f = FirstIndex
  BY RingAssumption
<1>2. PICK x \in Int : x = f + i
  OBVIOUS
<1>3. x % size \in 0 .. size - 1
  BY Sizes, Remainder
<1>4. PICK e \in Multiples(size) : x = e + (x % size)
  BY Sizes, Remainder, Zenon
<1>5. e \in Int /\ 0 - e \in Multiples(size)
  BY Sizes, MultiplesAre
<1>6. PICK s \in Int : s = x % size
  BY <1>3
<1>7. PICK w \in Int : w = s - f
  OBVIOUS
<1>8. w = (0 - e) + i /\ i \in 0 .. size - 1
  BY <1>2, <1>4, <1>5, <1>6, <1>7, Sizes
<1>9. w % size = i
  BY <1>5, <1>8, Sizes, Remainder, Zenon
<1>10. (w % UINT) % size = i
  BY <1>9, Sizes, ModMod, ZenonT(40)
<1>. QED BY <1>1, <1>2, <1>6, <1>7, <1>10 DEF Minus

LEMMA InitInv == Init => Typed /\ GInv
<1> SUFFICES ASSUME Init PROVE Typed /\ GInv
  OBVIOUS
<1>0. FirstIndex \in Nat /\ Len(Stored) \in Nat /\ Len(Stored) <= capacity /\ FirstIndex \in 0 .. UINT - 1
  BY RingAssumption, Sizes, LenProperties
<1>1. PICK f, n \in Nat : f = FirstIndex /\ n = Len(Stored)
  BY <1>0
<1>2. PICK h : h = [s \in Sides |-> IF s = "prod" THEN f + n ELSE f]
  BY Zenon
<1>3. h \in [Sides -> Nat] /\ h["prod"] = f + n /\ h["cons"] = f
  BY <1>2 DEF Sides
<1>4. PICK b : b = [t \in Threads |-> 0]
  BY Zenon
<1>5. b \in [Threads -> Nat]
  BY <1>4
<1>6. PICK v : v = [x \in Nat |-> Stored[x - f + 1]]
  BY Zenon
<1>7. ASSUME NEW x \in f .. f + n - 1 PROVE v[x] = Stored[x - f + 1] /\ x - f + 1 \in 1 .. n /\ v[x] \in Range(Stored)
  <2>1. x \in Nat /\ x - f + 1 \in 1 .. n
    OBVIOUS
  <2>2. Stored[x - f + 1] \in Range(Stored)
    BY <1>1, <2>1, RingAssumption, LenProperties DEF Range
  <2>. QED BY <1>6, <2>1, <2>2
<1>8. \A t \in Threads : Mine(t) = held[t] /\ held[t] \subseteq Objects \ Range(Stored) /\ pc[t] = "idle"
  BY Zenon DEF Init, Mine, Calling
<1>9. Typed
  <2>1. head \in [Sides -> Nat]
    <3>1. Plus(FirstIndex, Len(Stored)) \in Nat
      <4>1. FirstIndex + Len(Stored) \in Nat
        BY <1>0
      <4>2. (FirstIndex + Len(Stored)) % UINT \in Nat
        BY <4>1, IndexIs
      <4>. QED BY <4>2, Zenon DEF Plus
    <3>. QED BY <1>0, <3>1 DEF Init, Sides
  <2>2. NoCall \in [side : Sides, n : Nat, obj_table : Seq(Objects), old_head : Nat, copied : Nat]
    BY EmptySeq DEF NoCall, Sides
  <2>3. call \in [Threads -> [side : Sides, n : Nat, obj_table : Seq(Objects), old_head : Nat, copied : Nat]]
    BY <2>2, Zenon DEF Init
  <2>4. DOMAIN ring = 0 .. capacity /\ tail = head /\ pc \in [Threads -> {"idle"}] /\ held \in [Threads -> SUBSET Objects]
    BY Zenon DEF Init
  <2>. QED BY <2>1, <2>3, <2>4 DEF Typed, Calling
<1>10. Placed(h, h, b)
  <2>1. \A s \in Sides : head[s] = h[s] % UINT /\ tail[s] = h[s] % UINT
    <3>1. f % UINT = f
      BY <1>0, <1>1, Sizes, SmallMod
    <3>. QED BY <1>1, <1>3, <3>1 DEF Init, Sides, Plus
  <2>2. \A t \in Threads : pc[t] = "idle"
    BY <1>8
  <2>3. \A s \in Sides : h[s] .. h[s] - 1 = {}
    BY <1>3
  <2>4. n <= capacity /\ capacity \in Nat
    BY <1>0, <1>1, Sizes
  <2>. QED BY <1>3, <2>1, <2>2, <2>3, <2>4 DEF Placed, Ordered, Located, Distinct, Tiled
<1>11. Valued(h, h, b, v)
  <2>1. ASSUME NEW x \in f .. f + n - 1 PROVE ring[x % size] = v[x]
    <3>1. PICK i \in 0 .. capacity : i = x - f /\ x = f + i
      BY <1>0, <1>1, Sizes
    <3>2. i < n
      BY <3>1
    <3>3. x \in Nat
      OBVIOUS
    <3>4. x % size \in 0 .. capacity
      BY <3>3, SlotOf
    <3>5. Minus(x % size, FirstIndex) % size = i
      BY <1>1, <3>1, FirstSlots
    <3>6. ring[x % size] = Stored[i + 1]
      BY <1>1, <3>2, <3>4, <3>5, ZenonT(40) DEF Init
    <3>. QED BY <1>7, <3>1, <3>6, Zenon
  <2>2. \A x \in f .. f + n - 1 : v[x] \in Objects /\ \A t \in Threads : v[x] \notin Mine(t)
    <3>1. Range(Stored) \subseteq Objects
      BY RingAssumption, LenProperties DEF Range
    <3>. QED BY <1>7, <1>8, <3>1
  <2>3. ASSUME NEW x \in f .. f + n - 1, NEW y \in f .. f + n - 1, v[x] = v[y] PROVE x = y
    <3>1. DOMAIN Stored = 1 .. n
      BY <1>1, RingAssumption, LenProperties
    <3>2. x - f + 1 = y - f + 1
      BY <1>7, <2>3, <3>1, RingAssumption DEF IsInjective
    <3>. QED BY <3>2
  <2>4. \A t, u \in Threads : t # u => Mine(t) \cap Mine(u) = {}
    BY <1>8 DEF Init
  <2>5. \A t \in Threads : Table(b, v, t)
    BY <1>8, Zenon DEF Init, Table, Tabled, NoCall, Calling
  <2>6. h["cons"] = f /\ h["prod"] = f + n /\ \A x \in f .. f + n - 1 : x \in f .. f + n - 1
    BY <1>3
  <2>7. /\ \A x \in h["cons"] .. h["prod"] - 1 : ring[x % size] = v[x]
        /\ \A x \in h["cons"] .. h["prod"] - 1 : v[x] \in Objects /\ \A t \in Threads : v[x] \notin Mine(t)
        /\ \A x, y \in h["cons"] .. h["prod"] - 1 : v[x] = v[y] => x = y
    BY <1>3, <2>1, <2>2, <2>3
  <2>. QED BY <2>4, <2>5, <2>7, Zenon DEF Valued
<1>. QED BY <1>3, <1>5, <1>9, <1>10, <1>11 DEF GInv
-----------------------------------------------------------------------------
(***************************************************************************)
(* Placed is kept.                                                         *)
(***************************************************************************)
Others(t) ==
  /\ \A u \in Threads : u # t => pc'[u] = pc[u] /\ call'[u] = call[u] /\ held'[u] = held[u]
  /\ DOMAIN pc' = Threads /\ DOMAIN call' = Threads /\ DOMAIN held' = Threads

\* A step touches one thread.
LEMMA OthersStay ==
  ASSUME Typed, NEW t \in Threads, mp_enqueue_bulk(t) \/ mc_dequeue_bulk(t) \/ Step(t)
  PROVE  Others(t)
<1>1. CASE mp_enqueue_bulk(t) \/ mc_dequeue_bulk(t)
  BY <1>1, ZenonT(40) DEF Typed, Others, mp_enqueue_bulk, mc_dequeue_bulk, Starts
<1>2. CASE ReadHead(t) \/ ReadRoom(t) \/ MoveHead(t)
  BY <1>2, Zenon DEF Typed, Others, ReadHead, ReadRoom, MoveHead
<1>3. CASE ENQUEUE_PTRS(t) \/ DEQUEUE_PTRS(t)
  BY <1>3, Zenon DEF Typed, Others, ENQUEUE_PTRS, DEQUEUE_PTRS
<1>4. CASE update_tail(t) \/ Refused(t)
  BY <1>4, ZenonT(40) DEF Typed, Others, update_tail, Refused
<1>. QED BY <1>1, <1>2, <1>3, <1>4 DEF Step

LEMMA CallTypes ==
  ASSUME Typed, NEW t \in Threads
  PROVE  /\ call[t].side \in Sides /\ call[t].n \in Nat /\ call[t].copied \in Nat
         /\ call[t].obj_table \in Seq(Objects) /\ Len(call[t].obj_table) \in Nat
         /\ DOMAIN call[t].obj_table = 1 .. Len(call[t].obj_table)
         /\ pc[t] \in Calling \cup {"copy"} => call[t].n \in Bulks /\ call[t].n >= 1
<1>1. /\ call[t] \in [side : Sides, n : Nat, obj_table : Seq(Objects), old_head : Nat, copied : Nat]
      /\ pc[t] \in Calling \cup {"copy"} => call[t].n \in Bulks
  BY DEF Typed
<1>. QED BY <1>1, BulksAre, LenProperties, Zenon

\* What the copy of one object out of the ring does to the call.
LEMMA DequeueIs ==
  ASSUME Typed, NEW t \in Threads, DEQUEUE_PTRS(t)
  PROVE  /\ Others(t)
         /\ call'[t].obj_table = Append(call[t].obj_table, ring[Here(t)])
         /\ call'[t].copied = call[t].copied + 1
         /\ call'[t].side = call[t].side /\ call'[t].n = call[t].n /\ call'[t].old_head = call[t].old_head
<1>1. Others(t)
  BY OthersStay DEF Step
<1>2. PICK c : c = [call[t] EXCEPT !.obj_table = Append(call[t].obj_table, ring[Here(t)])]
  BY Zenon
<1>3. /\ c.obj_table = Append(call[t].obj_table, ring[Here(t)]) /\ c.copied = call[t].copied
      /\ c.side = call[t].side /\ c.n = call[t].n /\ c.old_head = call[t].old_head
      /\ DOMAIN c = {"side", "n", "obj_table", "old_head", "copied"}
  BY <1>2 DEF Typed
<1>4. PICK d : d = [call EXCEPT ![t] = c]
  BY Zenon
<1>5. d[t] = c /\ DOMAIN d = Threads
  BY <1>4 DEF Typed
<1>6. call' = [d EXCEPT ![t] = [d[t] EXCEPT !.copied = call[t].copied + 1]]
  BY <1>2, <1>4, Zenon DEF DEQUEUE_PTRS
<1>7. call'[t] = [c EXCEPT !.copied = call[t].copied + 1]
  BY <1>5, <1>6
<1>. QED BY <1>1, <1>3, <1>7, Zenon

\* A step that moves no head and no tail, and lets no call advance to the next
\* stage of its move.
Quiet ==
  /\ head' = head /\ tail' = tail
  /\ \A u \in Threads :
       /\ pc[u] = "copy" => pc'[u] = "copy"
       /\ pc'[u] \in {"room", "move", "copy"} =>
            /\ pc'[u] = pc[u] /\ call'[u].old_head = call[u].old_head
            /\ call'[u].side = call[u].side /\ call'[u].n = call[u].n

LEMMA QuietSteps ==
  ASSUME Typed, NEW t \in Threads,
         \/ mp_enqueue_bulk(t) \/ mc_dequeue_bulk(t) \/ ENQUEUE_PTRS(t) \/ DEQUEUE_PTRS(t) \/ Refused(t)
         \/ (ReadRoom(t) /\ pc'[t] # "move") \/ (MoveHead(t) /\ ~Cmpset(t))
  PROVE  Quiet
<1>1. CASE mp_enqueue_bulk(t) \/ mc_dequeue_bulk(t)
  BY <1>1, ZenonT(40) DEF Typed, Quiet, mp_enqueue_bulk, mc_dequeue_bulk, Starts
<1>2. CASE (ReadRoom(t) /\ pc'[t] # "move") \/ (MoveHead(t) /\ ~Cmpset(t))
  BY <1>2, Zenon DEF Typed, Quiet, ReadRoom, MoveHead
<1>3. CASE ENQUEUE_PTRS(t)
  BY <1>3, ZenonT(40) DEF Typed, Quiet, ENQUEUE_PTRS
<1>3a. CASE DEQUEUE_PTRS(t)
  BY <1>3a, DequeueIs, ZenonT(40) DEF Quiet, Others, DEQUEUE_PTRS
<1>4. CASE Refused(t)
  BY <1>4, Zenon DEF Typed, Quiet, Refused
<1>. QED BY <1>1, <1>2, <1>3, <1>3a, <1>4

LEMMA QuietPlaced ==
  ASSUME Typed, Quiet, NEW h \in [Sides -> Nat], NEW l \in [Sides -> Nat], NEW b \in [Threads -> Nat], Placed(h, l, b)
  PROVE  Placed(h, l, b)'
<1>1. Ordered(h, l)'
  BY Zenon DEF Quiet, Placed, Ordered
<1>2. ASSUME NEW u \in Threads PROVE Located(h, l, b, u)'
  <2>1. Located(h, l, b, u)
    BY DEF Placed
  <2>. QED BY <2>1, Zenon DEF Quiet, Located
<1>3. ASSUME NEW u \in Threads, NEW w \in Threads, u # w PROVE Distinct(b, u, w)'
  <2>1. Distinct(b, u, w)
    BY <1>3 DEF Placed
  <2>. QED BY <2>1, Zenon DEF Quiet, Distinct
<1>4. ASSUME NEW s \in Sides PROVE Tiled(h, l, b, s)'
  <2>1. Tiled(h, l, b, s)
    BY DEF Placed
  <2>. QED BY <2>1 DEF Quiet, Tiled
<1>. QED BY <1>1, <1>2, <1>3, <1>4 DEF Placed

LEMMA ReadHeadPlaced ==
  ASSUME Typed, NEW t \in Threads, ReadHead(t),
         NEW h \in [Sides -> Nat], NEW l \in [Sides -> Nat], NEW b \in [Threads -> Nat], Placed(h, l, b),
         NEW c, c = [b EXCEPT ![t] = h[call[t].side]]
  PROVE  c \in [Threads -> Nat] /\ Placed(h, l, c)'
<1>1. Others(t)
  BY OthersStay DEF Step
<1>2. /\ head' = head /\ tail' = tail /\ pc[t] = "head" /\ pc'[t] = "room"
      /\ call'[t].old_head = head[call[t].side] /\ call'[t].side = call[t].side /\ call'[t].n = call[t].n
  BY DEF ReadHead, Typed
<1>3. PICK s \in Sides : s = call[t].side
  BY CallTypes, Zenon
<1>4. PICK k \in Nat : k = h[s]
  BY <1>3
<1>5. c \in [Threads -> Nat] /\ c[t] = k /\ \A u \in Threads : u # t => c[u] = b[u]
  BY <1>3, <1>4, Zenon
<1>6. Ordered(h, l)'
  BY <1>2, Zenon DEF Placed, Ordered
<1>7. ASSUME NEW u \in Threads PROVE Located(h, l, c, u)'
  <2>1. Located(h, l, b, u)
    BY ZenonT(40) DEF Placed
  <2>2. CASE u = t
    <3>1. head[s] = k % UINT /\ k <= k + UINT - size
      BY <1>4, Sizes DEF Placed, Ordered
    <3>. QED BY <1>2, <1>3, <1>4, <1>5, <2>2, <3>1 DEF Located
  <2>3. CASE u # t
    BY <1>1, <1>5, <2>1, <2>3, Zenon DEF Others, Located
  <2>. QED BY <2>2, <2>3, Zenon
<1>8. ASSUME NEW u \in Threads, NEW w \in Threads, u # w PROVE Distinct(c, u, w)'
  <2>1. Distinct(b, u, w)
    BY <1>8, ZenonT(40) DEF Placed
  <2>. QED BY <1>1, <1>2, <1>5, <2>1, ZenonT(40) DEF Others, Distinct
<1>9. ASSUME NEW r \in Sides PROVE Tiled(h, l, c, r)'
  <2>1. Tiled(h, l, b, r)
    BY Zenon DEF Placed
  <2>. QED BY <1>1, <1>2, <1>5, <2>1 DEF Others, Tiled
<1>. QED BY <1>5, <1>6, <1>7, <1>8, <1>9, Zenon DEF Placed

\* What a call takes for the room there is, as a number that does not wrap: more
\* than there is if the head has moved on, never less.
LEMMA RoomIs ==
  ASSUME Typed, NEW t \in Threads, pc[t] = "room",
         NEW h \in [Sides -> Nat], NEW l \in [Sides -> Nat], NEW b \in [Threads -> Nat], Placed(h, l, b)
  PROVE  Room(t) = IF call[t].side = "prod" THEN capacity + l["cons"] - b[t] ELSE l["prod"] - b[t]
<1>1. PICK hp, hc, lp, lc, x \in Nat : hp = h["prod"] /\ hc = h["cons"] /\ lp = l["prod"] /\ lc = l["cons"] /\ x = b[t]
  BY DEF Sides
<1>2. /\ call[t].old_head = x % UINT
      /\ x <= h[call[t].side] /\ h[call[t].side] <= x + UINT - size
  BY <1>1, Zenon DEF Placed, Located
<1>3. /\ lc <= hc /\ hc <= lp /\ lp <= hp /\ hp <= lc + capacity
      /\ tail["cons"] = lc % UINT /\ tail["prod"] = lp % UINT
  BY <1>1, Zenon DEF Placed, Ordered, Sides
<1>4. CASE call[t].side = "prod"
  <2>1. capacity + lc - x \in 0 .. UINT - 1
    BY <1>1, <1>2, <1>3, <1>4, Sizes
  <2>2. Minus(capacity + (lc % UINT), x % UINT) = capacity + lc - x
    BY <2>1, IndexRoom
  <2>. QED BY <1>1, <1>2, <1>3, <1>4, <2>2, ZenonT(40) DEF Room, free_entries
<1>5. CASE call[t].side = "cons"
  <2>1. lp - x \in 0 .. UINT - 1
    BY <1>1, <1>2, <1>3, <1>5, Sizes
  <2>2. Minus(lp % UINT, x % UINT) = lp - x
    BY <2>1, IndexMinus
  <2>. QED BY <1>1, <1>2, <1>3, <1>5, <2>2, ZenonT(40) DEF Room, entries
<1>. QED BY <1>4, <1>5, CallTypes, Zenon DEF Sides

LEMMA ReadRoomPlaced ==
  ASSUME Typed, NEW t \in Threads, ReadRoom(t), pc'[t] = "move",
         NEW h \in [Sides -> Nat], NEW l \in [Sides -> Nat], NEW b \in [Threads -> Nat], Placed(h, l, b)
  PROVE  Placed(h, l, b)'
<1>1. Others(t)
  BY OthersStay DEF Step
<1>2. head' = head /\ tail' = tail /\ pc[t] = "room" /\ call' = call /\ ~(call[t].n > Room(t))
  BY Zenon DEF ReadRoom, Typed
<1>3. PICK n \in Nat : n = call[t].n
  BY CallTypes, Zenon
<1>4. b[t] = h[call[t].side] => Fits(h, l, call[t].side, n)
  <2>1. PICK hp, hc, lp, lc, x \in Nat : hp = h["prod"] /\ hc = h["cons"] /\ lp = l["prod"] /\ lc = l["cons"] /\ x = b[t]
    BY DEF Sides
  <2>2. CASE call[t].side = "prod"
    <3>1. ~(n > capacity + lc - x)
      BY <1>2, <1>3, <2>1, <2>2, RoomIs, ZenonT(40)
    <3>. QED BY <2>1, <2>2, <3>1, Sizes DEF Fits
  <2>3. CASE call[t].side = "cons"
    <3>1. ~(n > lp - x)
      BY <1>2, <1>3, <2>1, <2>3, RoomIs, ZenonT(40)
    <3>. QED BY <2>1, <2>3, <3>1 DEF Fits
  <2>. QED BY <2>2, <2>3, CallTypes, Zenon DEF Sides
<1>5. Ordered(h, l)'
  BY <1>2, Zenon DEF Placed, Ordered
<1>6. ASSUME NEW u \in Threads PROVE Located(h, l, b, u)'
  <2>1. Located(h, l, b, u)
    BY ZenonT(40) DEF Placed
  <2>2. CASE u = t
    BY <1>2, <1>3, <1>4, <2>1, <2>2 DEF Located
  <2>3. CASE u # t
    BY <1>1, <2>1, <2>3, Zenon DEF Others, Located
  <2>. QED BY <2>2, <2>3
<1>7. ASSUME NEW u \in Threads, NEW w \in Threads, u # w PROVE Distinct(b, u, w)'
  <2>1. Distinct(b, u, w)
    BY <1>7 DEF Placed
  <2>. QED BY <1>1, <1>2, <2>1, Zenon DEF Others, Distinct
<1>8. ASSUME NEW r \in Sides PROVE Tiled(h, l, b, r)'
  <2>1. Tiled(h, l, b, r)
    BY DEF Placed
  <2>. QED BY <1>1, <1>2, <2>1, ZenonT(40) DEF Others, Tiled
<1>. QED BY <1>5, <1>6, <1>7, <1>8, Zenon DEF Placed

\* The compare-and-set succeeds only on the head the call has read.
LEMMA CmpsetIs ==
  ASSUME Typed, NEW t \in Threads, pc[t] = "move", Cmpset(t),
         NEW h \in [Sides -> Nat], NEW l \in [Sides -> Nat], NEW b \in [Threads -> Nat], Placed(h, l, b)
  PROVE  b[t] = h[call[t].side] /\ Fits(h, l, call[t].side, call[t].n)
<1>1. PICK s \in Sides : s = call[t].side
  BY CallTypes, Zenon
<1>2. PICK x, y \in Nat : x = h[s] /\ y = b[t]
  BY <1>1
<1>3. x % UINT = y % UINT /\ y <= x /\ x <= y + UINT - size
  BY <1>1, <1>2, ZenonT(40) DEF Placed, Ordered, Located, Cmpset
<1>4. x - y < UINT /\ y - x < UINT
  BY <1>3, Sizes
<1>5. x = y
  BY <1>3, <1>4, SameIndex
<1>. QED BY <1>1, <1>2, <1>5, Zenon DEF Placed, Located

\* A call waits until the tail is where it has started.
LEMMA MyTurnIs ==
  ASSUME Typed, NEW t \in Threads, pc[t] = "copy", MyTurn(t),
         NEW h \in [Sides -> Nat], NEW l \in [Sides -> Nat], NEW b \in [Threads -> Nat], Placed(h, l, b)
  PROVE  b[t] = l[call[t].side]
<1>1. PICK s \in Sides : s = call[t].side
  BY CallTypes, Zenon
<1>2. PICK x, y, z, n \in Nat : x = h[s] /\ y = b[t] /\ z = l[s] /\ n = call[t].n
  BY <1>1, CallTypes, ZenonT(40)
<1>3. z % UINT = y % UINT /\ z <= y /\ y + n <= x
  BY <1>1, <1>2, ZenonT(40) DEF Placed, Ordered, Located, MyTurn
<1>4. x <= z + capacity
  <2>1. PICK hp, hc, lp, lc \in Nat : hp = h["prod"] /\ hc = h["cons"] /\ lp = l["prod"] /\ lc = l["cons"]
    BY DEF Sides
  <2>2. lc <= hc /\ hc <= lp /\ lp <= hp /\ hp <= lc + capacity
    BY <2>1, ZenonT(40) DEF Placed, Ordered
  <2>. QED BY <1>1, <1>2, <2>1, <2>2, Sizes DEF Sides
<1>5. z - y < UINT /\ y - z < UINT
  BY <1>3, <1>4, Sizes
<1>6. z = y
  BY <1>3, <1>5, SameIndex
<1>. QED BY <1>1, <1>2, <1>6, Zenon

LEMMA MoveHeadPlaced ==
  ASSUME Typed, NEW t \in Threads, MoveHead(t), Cmpset(t),
         NEW h \in [Sides -> Nat], NEW l \in [Sides -> Nat], NEW b \in [Threads -> Nat], Placed(h, l, b),
         NEW g, g = [h EXCEPT ![call[t].side] = @ + call[t].n]
  PROVE  g \in [Sides -> Nat] /\ Placed(g, l, b)'
<1>1. Others(t)
  BY OthersStay, Zenon DEF Step
<1>2. PICK s \in Sides, n \in Nat : s = call[t].side /\ n = call[t].n
  BY CallTypes, ZenonT(40)
<1>3. PICK x, y \in Nat : x = h[s] /\ y = x + n
  BY <1>2
<1>4. g \in [Sides -> Nat] /\ g[s] = y /\ \A r \in Sides : r # s => g[r] = h[r]
  BY <1>2, <1>3, Zenon
<1>5. /\ tail' = tail /\ pc[t] = "move" /\ pc'[t] = "copy" /\ call' = call /\ NoLap(t)
      /\ head' = [head EXCEPT ![s] = Plus(call[t].old_head, n)]
  BY <1>2, Zenon DEF MoveHead, Typed
<1>6. b[t] = x /\ Fits(h, l, s, n)
  BY <1>2, <1>3, <1>5, CmpsetIs, ZenonT(40)
<1>7. n >= 1
  BY <1>2, <1>5, CallTypes, Zenon DEF Calling
<1>8. \A r \in Sides : head[r] = h[r] % UINT /\ tail[r] = l[r] % UINT
  BY Zenon DEF Placed, Ordered
<1>9. /\ l["cons"] <= h["cons"] /\ h["cons"] <= l["prod"] /\ l["prod"] <= h["prod"]
      /\ h["prod"] <= l["cons"] + capacity
  BY Zenon DEF Placed, Ordered
<1>10. Ordered(g, l)'
  <2>1. head'[s] = y % UINT
    <3>1. call[t].old_head = x % UINT
      BY <1>5, <1>6, Zenon DEF Placed, Located
    <3>2. Plus(x % UINT, n) = y % UINT
      BY <1>3, IndexPlus, Zenon
    <3>. QED BY <1>5, <3>1, <3>2, ZenonT(40) DEF Typed
  <2>2. \A r \in Sides : head'[r] = g[r] % UINT /\ tail'[r] = l[r] % UINT
    BY <1>4, <1>5, <1>8, <2>1, ZenonT(40) DEF Typed
  <2>3. PICK hp, hc, lp, lc \in Nat : hp = h["prod"] /\ hc = h["cons"] /\ lp = l["prod"] /\ lc = l["cons"]
    BY Zenon DEF Sides
  <2>4. /\ l["cons"] <= g["cons"] /\ g["cons"] <= l["prod"] /\ l["prod"] <= g["prod"]
        /\ g["prod"] <= l["cons"] + capacity
    <3>1. CASE s = "prod"
      <4>1. g["prod"] = hp + n /\ g["cons"] = hc /\ hp + n <= lc + capacity
        BY <1>3, <1>4, <1>6, <2>3, <3>1, ZenonT(40) DEF Fits, Sides
      <4>. QED BY <1>9, <2>3, <4>1
    <3>2. CASE s = "cons"
      <4>1. g["cons"] = hc + n /\ g["prod"] = hp /\ hc + n <= lp
        BY <1>3, <1>4, <1>6, <2>3, <3>2, ZenonT(40) DEF Fits, Sides
      <4>. QED BY <1>9, <2>3, <4>1
    <3>. QED BY <3>1, <3>2, ZenonT(40) DEF Sides
  <2>. QED BY <2>2, <2>4, Zenon DEF Ordered
<1>11. \A r \in Sides : l[r] <= h[r]
  <2>1. PICK hp, hc, lp, lc \in Nat : hp = h["prod"] /\ hc = h["cons"] /\ lp = l["prod"] /\ lc = l["cons"]
    BY Zenon DEF Sides
  <2>. QED BY <1>9, <2>1, ZenonT(40) DEF Sides
<1>12. ASSUME NEW u \in Threads PROVE Located(g, l, b, u)'
  <2>1. Located(h, l, b, u)
    BY Zenon DEF Placed
  <2>2. CASE u = t
    <3>1. l[s] <= b[t] /\ b[t] + n <= g[s]
      BY <1>2, <1>3, <1>4, <1>6, <1>11
    <3>. QED BY <1>2, <1>5, <2>1, <2>2, <3>1, ZenonT(40) DEF Located
  <2>3. CASE u # t /\ call[u].side # s
    <3>1. call[u].side \in Sides /\ g[call[u].side] = h[call[u].side]
      BY <1>4, <2>3, CallTypes, ZenonT(40)
    <3>2. \A m : Fits(g, l, call[u].side, m) <=> Fits(h, l, call[u].side, m)
      BY <3>1, Zenon DEF Fits, Sides
    <3>. QED BY <1>1, <2>1, <2>3, <3>1, <3>2, ZenonT(40) DEF Others, Located
  <2>4. CASE u # t /\ call[u].side = s
    <3>1. pc'[u] = pc[u] /\ call'[u] = call[u]
      BY <1>1, <2>4, Zenon DEF Others
    <3>2. PICK z, m \in Nat : z = b[u] /\ m = call[u].n
      BY CallTypes, ZenonT(40)
    <3>3. CASE pc[u] \in {"room", "move"}
      <4>1. z <= x /\ x <= z + UINT - size /\ call[u].old_head = z % UINT
        BY <1>3, <2>1, <2>4, <3>2, <3>3, ZenonT(40) DEF Located
      <4>2. x - z \in 0 .. UINT - 1
        BY <4>1, Sizes
      <4>3. Minus(head[s], call[u].old_head) = x - z
        BY <1>3, <1>8, <4>1, <4>2, IndexMinus
      <4>4. (x - z) + n <= UINT - size
        BY <1>2, <2>4, <3>3, <1>5, <4>3, ZenonT(40) DEF NoLap
      <4>5. z <= y /\ y <= z + UINT - size /\ z # y
        BY <1>3, <1>7, <4>1, <4>4, Sizes, SMTT(30)
      <4>. QED BY <1>4, <2>4, <3>1, <3>2, <3>3, <4>1, <4>5, ZenonT(40) DEF Located
    <3>4. CASE pc[u] = "copy"
      <4>1. l[s] <= z /\ z + m <= x /\ call[u].old_head = z % UINT
        BY <1>3, <2>1, <2>4, <3>2, <3>4, ZenonT(40) DEF Located
      <4>2. z + m <= y
        BY <1>3, <4>1
      <4>. QED BY <1>4, <2>4, <3>1, <3>2, <3>4, <4>1, <4>2 DEF Located
    <3>. QED BY <3>1, <3>3, <3>4, Zenon DEF Located
  <2>. QED BY <2>2, <2>3, <2>4, ZenonT(40)
<1>13. ASSUME NEW u \in Threads, u # t PROVE Distinct(b, u, t)' /\ Distinct(b, t, u)'
  <2>1. Located(h, l, b, u)
    BY Zenon DEF Placed
  <2>2. pc'[u] = pc[u]
    BY <1>1, <1>13, Zenon DEF Others
  <2>. QED BY <1>2, <1>3, <1>5, <1>6, <2>1, <2>2, Zenon DEF Distinct, Located
<1>14. ASSUME NEW u \in Threads, NEW w \in Threads, u # w PROVE Distinct(b, u, w)'
  <2>1. CASE u # t /\ w # t
    <3>1. Distinct(b, u, w)
      BY <1>14, Zenon DEF Placed
    <3>. QED BY <1>1, <2>1, <3>1, Zenon DEF Others, Distinct
  <2>. QED BY <1>13, <1>14, <2>1, Zenon
<1>15. ASSUME NEW r \in Sides, NEW i \in l[r] .. g[r] - 1
       PROVE  \E u \in Threads : pc'[u] = "copy" /\ call'[u].side = r /\ i \in b[u] .. b[u] + call'[u].n - 1
  <2>1. CASE i \in l[r] .. h[r] - 1
    <3>1. PICK u \in Threads : pc[u] = "copy" /\ call[u].side = r /\ i \in b[u] .. b[u] + call[u].n - 1
      BY <2>1, Zenon DEF Placed, Tiled
    <3>2. u # t
      BY <1>5, <3>1, Zenon
    <3>. QED BY <1>1, <3>1, <3>2, Zenon DEF Others
  <2>2. CASE i \notin l[r] .. h[r] - 1
    <3>1. r = s /\ i \in x .. x + n - 1
      BY <1>3, <1>4, <2>2
    <3>. QED BY <1>2, <1>5, <1>6, <3>1, ZenonT(40)
  <2>. QED BY <2>1, <2>2, Zenon
<1>16. \A r \in Sides : Tiled(g, l, b, r)'
  BY <1>15, Zenon DEF Tiled
<1>. QED BY <1>4, <1>10, <1>12, <1>14, <1>16, ZenonT(40) DEF Placed

LEMMA UpdateTailPlaced ==
  ASSUME Typed, NEW t \in Threads, update_tail(t),
         NEW h \in [Sides -> Nat], NEW l \in [Sides -> Nat], NEW b \in [Threads -> Nat], Placed(h, l, b),
         NEW m, m = [l EXCEPT ![call[t].side] = @ + call[t].n]
  PROVE  m \in [Sides -> Nat] /\ Placed(h, m, b)'
<1>1. Others(t)
  BY OthersStay, Zenon DEF Step
<1>2. PICK s \in Sides, n \in Nat : s = call[t].side /\ n = call[t].n
  BY CallTypes, Zenon
<1>3. PICK x, y \in Nat : x = l[s] /\ y = x + n
  BY <1>2
<1>4. m \in [Sides -> Nat] /\ m[s] = y /\ \A r \in Sides : r # s => m[r] = l[r]
  BY <1>2, <1>3, Zenon
<1>5. /\ head' = head /\ pc[t] = "copy" /\ pc'[t] = "idle" /\ MyTurn(t)
      /\ tail' = [tail EXCEPT ![s] = Plus(call[t].old_head, n)]
  BY <1>2, Zenon DEF update_tail, Typed
<1>6. b[t] = x
  BY <1>2, <1>3, <1>5, MyTurnIs, Zenon
<1>7. y <= h[s] /\ call[t].old_head = x % UINT
  BY <1>2, <1>3, <1>5, <1>6, Zenon DEF Placed, Located
<1>8. \A r \in Sides : head[r] = h[r] % UINT /\ tail[r] = l[r] % UINT
  BY Zenon DEF Placed, Ordered
<1>9. /\ l["cons"] <= h["cons"] /\ h["cons"] <= l["prod"] /\ l["prod"] <= h["prod"]
      /\ h["prod"] <= l["cons"] + capacity
  BY Zenon DEF Placed, Ordered
<1>10. Ordered(h, m)'
  <2>1. tail'[s] = y % UINT
    <3>1. Plus(x % UINT, n) = y % UINT
      BY <1>3, IndexPlus, Zenon
    <3>. QED BY <1>5, <1>7, <3>1, Zenon DEF Typed
  <2>2. \A r \in Sides : head'[r] = h[r] % UINT /\ tail'[r] = m[r] % UINT
    BY <1>4, <1>5, <1>8, <2>1, ZenonT(40) DEF Typed
  <2>3. PICK hp, hc, lp, lc \in Nat : hp = h["prod"] /\ hc = h["cons"] /\ lp = l["prod"] /\ lc = l["cons"]
    BY Zenon DEF Sides
  <2>4. /\ m["cons"] <= h["cons"] /\ h["cons"] <= m["prod"] /\ m["prod"] <= h["prod"]
        /\ h["prod"] <= m["cons"] + capacity
    <3>1. CASE s = "prod"
      <4>1. m["prod"] = lp + n /\ m["cons"] = lc /\ lp + n <= hp
        BY <1>3, <1>4, <1>7, <2>3, <3>1, ZenonT(40) DEF Sides
      <4>. QED BY <1>9, <2>3, <4>1, Sizes
    <3>2. CASE s = "cons"
      <4>1. m["cons"] = lc + n /\ m["prod"] = lp /\ lc + n <= hc
        BY <1>3, <1>4, <1>7, <2>3, <3>2, ZenonT(40) DEF Sides
      <4>. QED BY <1>9, <2>3, <4>1, Sizes
    <3>. QED BY <3>1, <3>2, ZenonT(40) DEF Sides
  <2>. QED BY <2>2, <2>4, Zenon DEF Ordered
<1>11. ASSUME NEW r \in Sides, NEW k \in Nat, Fits(h, l, r, k) PROVE Fits(h, m, r, k)
  <2>1. PICK hp, hc, lp, lc \in Nat : hp = h["prod"] /\ hc = h["cons"] /\ lp = l["prod"] /\ lc = l["cons"]
    BY ZenonT(40) DEF Sides
  <2>2. PICK mp, mc \in Nat : mp = m["prod"] /\ mc = m["cons"] /\ lp <= mp /\ lc <= mc
    BY <1>3, <1>4, <2>1 DEF Sides
  <2>. QED BY <1>11, <2>1, <2>2, Sizes DEF Fits
<1>12. ASSUME NEW u \in Threads PROVE Located(h, m, b, u)'
  <2>1. Located(h, l, b, u) /\ call[u].side \in Sides /\ call[u].n \in Nat
    BY CallTypes, Zenon DEF Placed
  <2>2. CASE u = t
    BY <1>5, <2>2, Zenon DEF Located
  <2>3. CASE u # t
    <3>1. pc'[u] = pc[u] /\ call'[u] = call[u]
      BY <1>1, <2>3, Zenon DEF Others
    <3>2. pc[u] = "copy" => m[call[u].side] <= b[u]
      <4> SUFFICES ASSUME pc[u] = "copy" PROVE m[call[u].side] <= b[u]
        BY Zenon
      <4>1. l[call[u].side] <= b[u]
        BY <2>1, Zenon DEF Located
      <4>2. CASE call[u].side = s
        <5>1. PICK z, k \in Nat : z = b[u] /\ k = call[u].n /\ k >= 1
          BY CallTypes, Zenon DEF Calling
        <5>2. x + n <= z \/ z + k <= x
          BY <1>2, <1>5, <1>6, <2>3, <4>2, <5>1, Zenon DEF Placed, Distinct
        <5>3. x <= z
          BY <1>3, <4>1, <4>2, <5>1, Zenon
        <5>. QED BY <1>3, <1>4, <4>2, <5>1, <5>2, <5>3
      <4>. QED BY <1>4, <2>1, <4>1, <4>2, Zenon
    <3>. QED BY <1>11, <2>1, <3>1, <3>2, Zenon DEF Located
  <2>. QED BY <2>2, <2>3, Zenon
<1>13. ASSUME NEW u \in Threads, NEW w \in Threads, u # w PROVE Distinct(b, u, w)'
  <2>1. Distinct(b, u, w)
    BY <1>13, Zenon DEF Placed
  <2>. QED BY <1>1, <1>5, <2>1, ZenonT(40) DEF Others, Distinct
<1>14. ASSUME NEW r \in Sides, NEW i \in m[r] .. h[r] - 1
       PROVE  \E u \in Threads : pc'[u] = "copy" /\ call'[u].side = r /\ i \in b[u] .. b[u] + call'[u].n - 1
  <2>1. i \in l[r] .. h[r] - 1
    BY <1>3, <1>4
  <2>2. PICK u \in Threads : pc[u] = "copy" /\ call[u].side = r /\ i \in b[u] .. b[u] + call[u].n - 1
    BY <2>1, ZenonT(40) DEF Placed, Tiled
  <2>3. u # t
    BY <1>2, <1>3, <1>4, <1>6, <2>2
  <2>. QED BY <1>1, <2>2, <2>3, ZenonT(40) DEF Others
<1>15. \A r \in Sides : Tiled(h, m, b, r)'
  BY <1>14, Zenon DEF Tiled
<1>. QED BY <1>4, <1>10, <1>12, <1>13, <1>15, Zenon DEF Placed
-----------------------------------------------------------------------------
(***************************************************************************)
(* Valued is kept.                                                         *)
(***************************************************************************)
\* The table of a thread.
LEMMA TableOf ==
  ASSUME NEW h, NEW l, NEW b, NEW v, Valued(h, l, b, v), NEW t \in Threads
  PROVE  Table(b, v, t)
BY Zenon DEF Valued

\* A step that writes no slot leaves the table and the objects of the threads it
\* does not touch as they are.
LEMMA SameThread ==
  ASSUME NEW b, NEW v, NEW u, ring' = ring, pc'[u] = pc[u], call'[u] = call[u], held'[u] = held[u]
  PROVE  /\ Table(b, v, u) => Table(b, v, u)'
         /\ Mine(u)' = Mine(u)
<1>1. Mine(u)' = Mine(u)
  BY Zenon DEF Mine
<1>2. Table(b, v, u) => Table(b, v, u)'
  BY Zenon DEF Table
<1>. QED BY <1>1, <1>2, Zenon

LEMMA OtherThread ==
  ASSUME NEW t \in Threads, Others(t), NEW u \in Threads, u # t
  PROVE  pc'[u] = pc[u] /\ call'[u] = call[u] /\ held'[u] = held[u]
BY Zenon DEF Others

\* A step of t that writes no slot, and after which t has the same objects.
LEMMA KeepValued ==
  ASSUME NEW t \in Threads, Others(t), NEW h, NEW l, NEW b, NEW v, Valued(h, l, b, v),
         NEW g, g["prod"] = h["prod"], NEW c, \A u \in Threads : u # t => c[u] = b[u],
         ring' = ring, Mine(t)' = Mine(t), Table(c, v, t)'
  PROVE  Valued(g, l, c, v)'
<1>1. \A u \in Threads : Mine(u)' = Mine(u)
  BY Zenon DEF Others, Mine
<1>2. \A u \in Threads : u # t => Table(c, v, u)'
  BY TableOf, OtherThread, ZenonT(40) DEF Table
<1>3. \A u \in Threads : Table(c, v, u)'
  BY <1>2, Zenon
<1>. QED BY <1>1, <1>3, ZenonT(40) DEF Valued

LEMMA SameValues ==
  ASSUME NEW h, NEW l, NEW b, NEW v, Valued(h, l, b, v), UNCHANGED vars
  PROVE  Valued(h, l, b, v)'
<1>1. UNCHANGED <<ring, pc, call, held>>
  BY Zenon DEF vars
<1>2. \A u \in Threads : Mine(u)' = Mine(u) /\ Table(b, v, u)'
  BY <1>1, TableOf, SameThread, Zenon
<1>. QED BY <1>1, <1>2, ZenonT(40) DEF Valued

LEMMA EnqueueStarts ==
  ASSUME Typed, NEW t \in Threads, mp_enqueue_bulk(t),
         NEW h, NEW l, NEW b, NEW v, Valued(h, l, b, v)
  PROVE  Typed' /\ Valued(h, l, b, v)' /\ Mine(t)' = Mine(t)
<1>1. Others(t)
  BY OthersStay
<1>2. PICK n \in Bulks : \E objs \in [1 .. n -> held[t]] : IsInjective(objs) /\ Starts(t, "prod", n, objs)
  BY DEF mp_enqueue_bulk
<1>3. PICK objs \in [1 .. n -> held[t]] : IsInjective(objs) /\ Starts(t, "prod", n, objs)
  BY <1>2
<1>4. n \in Nat /\ held[t] \subseteq Objects
  BY BulksAre, ZenonT(40) DEF Typed
<1>5. objs \in Seq(Objects) /\ Len(objs) = n /\ Range(objs) \subseteq held[t]
  BY <1>4 DEF Range
<1>6. PICK c : c = [NoCall EXCEPT !.side = "prod", !.n = n, !.obj_table = objs]
  OBVIOUS
<1>7. /\ c.side = "prod" /\ c.n = n /\ c.obj_table = objs /\ c.copied = 0
      /\ c \in [side : Sides, n : Nat, obj_table : Seq(Objects), old_head : Nat, copied : Nat]
  BY <1>4, <1>5, <1>6, Zenon DEF NoCall, Sides
<1>8. /\ pc[t] = "idle" /\ pc' = [pc EXCEPT ![t] = "head"] /\ call' = [call EXCEPT ![t] = c]
      /\ held' = [held EXCEPT ![t] = held[t] \ Range(objs)] /\ UNCHANGED <<head, tail, ring>>
  BY <1>3, <1>6 DEF Starts
<1>9. pc'[t] = "head" /\ call'[t] = c /\ held'[t] = held[t] \ Range(objs)
  BY <1>8, Zenon DEF Typed
<1>10. Typed'
  BY <1>7, <1>8, Zenon DEF Typed, Calling
<1>11. Mine(t)' = Mine(t)
  BY <1>5, <1>7, <1>8, <1>9, Zenon DEF Mine, Calling
<1>12. Table(b, v, t)'
  BY <1>3, <1>5, <1>7, <1>9, Zenon DEF Table, Tabled, Calling
<1>. QED BY <1>1, <1>8, <1>10, <1>11, <1>12, KeepValued

LEMMA DequeueStarts ==
  ASSUME Typed, NEW t \in Threads, mc_dequeue_bulk(t),
         NEW h, NEW l, NEW b, NEW v, Valued(h, l, b, v)
  PROVE  Typed' /\ Valued(h, l, b, v)' /\ Mine(t)' = Mine(t)
<1>1. Others(t)
  BY OthersStay
<1>2. PICK n \in Bulks : Starts(t, "cons", n, <<>>)
  BY DEF mc_dequeue_bulk
<1>4. n \in Nat /\ held[t] \subseteq Objects /\ <<>> \in Seq(Objects)
  BY BulksAre DEF Typed
<1>6. PICK c : c = [NoCall EXCEPT !.side = "cons", !.n = n, !.obj_table = <<>>]
  OBVIOUS
<1>7. /\ c.side = "cons" /\ c.n = n /\ c.obj_table = <<>> /\ c.copied = 0
      /\ c \in [side : Sides, n : Nat, obj_table : Seq(Objects), old_head : Nat, copied : Nat]
  BY <1>4, <1>6, Zenon DEF NoCall, Sides
<1>8. /\ pc[t] = "idle" /\ pc' = [pc EXCEPT ![t] = "head"] /\ call' = [call EXCEPT ![t] = c]
      /\ held' = [held EXCEPT ![t] = held[t] \ Range(<<>>)] /\ UNCHANGED <<head, tail, ring>>
  BY <1>2, <1>6 DEF Starts
<1>9. pc'[t] = "head" /\ call'[t] = c /\ held'[t] = held[t]
  BY <1>8, EmptyRange, Zenon DEF Typed
<1>10. Typed'
  BY <1>7, <1>8, Zenon DEF Typed, Calling
<1>11. Mine(t)' = Mine(t)
  BY <1>7, <1>8, <1>9, EmptyRange, Zenon DEF Mine, Calling
<1>12. Table(b, v, t)'
  BY <1>7, <1>9, Zenon DEF Table, Tabled, Calling
<1>. QED BY <1>1, <1>8, <1>10, <1>11, <1>12, KeepValued, Zenon

LEMMA ReadHeadValued ==
  ASSUME Typed, NEW t \in Threads, ReadHead(t),
         NEW h, NEW l, NEW b \in [Threads -> Nat], NEW v, Valued(h, l, b, v),
         NEW c, c = [b EXCEPT ![t] = h[call[t].side]]
  PROVE  Typed' /\ Valued(h, l, c, v)' /\ Mine(t)' = Mine(t)
<1>1. Others(t)
  BY OthersStay DEF Step
<1>2. /\ pc[t] = "head" /\ pc' = [pc EXCEPT ![t] = "room"]
      /\ call' = [call EXCEPT ![t] = [call[t] EXCEPT !.old_head = head[call[t].side]]]
      /\ UNCHANGED <<head, tail, ring, held, moved>>
  BY DEF ReadHead
<1>3. head[call[t].side] \in Nat
  BY CallTypes, Zenon DEF Typed
<1>4. Typed'
  BY <1>2, <1>3, ZenonT(40) DEF Typed, Calling
<1>5. /\ pc'[t] = "room" /\ call'[t].side = call[t].side /\ call'[t].n = call[t].n
      /\ call'[t].obj_table = call[t].obj_table /\ call'[t].copied = call[t].copied
  BY <1>2 DEF Typed
<1>6. Mine(t)' = Mine(t)
  BY <1>2, <1>5, Zenon DEF Mine, Calling
<1>7. Table(c, v, t)'
  BY <1>2, <1>5, TableOf DEF Table, Tabled, Calling
<1>8. \A u \in Threads : u # t => c[u] = b[u]
  OBVIOUS
<1>. QED BY <1>1, <1>2, <1>4, <1>6, <1>7, <1>8, KeepValued, ZenonT(40)

LEMMA ReadRoomValued ==
  ASSUME Typed, NEW t \in Threads, ReadRoom(t), NEW h, NEW l, NEW b, NEW v, Valued(h, l, b, v)
  PROVE  Typed' /\ Valued(h, l, b, v)' /\ Mine(t)' = Mine(t)
<1>1. Others(t)
  BY OthersStay DEF Step
<1>2. /\ pc[t] = "room" /\ UNCHANGED <<head, tail, ring, call, moved>>
      /\ \/ pc' = [pc EXCEPT ![t] = "refused"] /\ held' = [held EXCEPT ![t] = held[t] \cup Range(call[t].obj_table)]
         \/ pc' = [pc EXCEPT ![t] = "move"] /\ held' = held
  BY Zenon DEF ReadRoom
<1>3. Range(call[t].obj_table) \subseteq Objects
  BY CallTypes DEF Range
<1>4. Typed'
  <2>1. held' \in [Threads -> SUBSET Objects]
    BY <1>2, <1>3, ZenonT(40) DEF Typed
  <2>2. pc' \in [Threads -> Calling \cup {"idle", "copy", "refused"}]
    BY <1>2, Zenon DEF Typed, Calling
  <2>3. \A u \in Threads : pc'[u] \in Calling \cup {"copy"} => pc[u] \in Calling \cup {"copy"}
    BY <1>1, <1>2, Zenon DEF Others, Calling
  <2>. QED BY <1>2, <2>1, <2>2, <2>3, Zenon DEF Typed
<1>5. \/ pc'[t] = "refused" /\ held'[t] = held[t] \cup Range(call[t].obj_table)
      \/ pc'[t] = "move" /\ held'[t] = held[t]
  BY <1>2, Zenon DEF Typed
<1>6. Mine(t)' = Mine(t)
  BY <1>2, <1>5, Zenon DEF Mine, Calling
<1>7. Table(b, v, t)'
  BY <1>2, <1>5, TableOf, ZenonT(40) DEF Table, Tabled, Calling
<1>. QED BY <1>1, <1>2, <1>4, <1>6, <1>7, KeepValued, Zenon

LEMMA LosesValued ==
  ASSUME Typed, NEW t \in Threads, MoveHead(t), ~Cmpset(t), NEW h, NEW l, NEW b, NEW v, Valued(h, l, b, v)
  PROVE  Typed' /\ Valued(h, l, b, v)' /\ Mine(t)' = Mine(t)
<1>1. Others(t)
  BY OthersStay DEF Step
<1>2. pc[t] = "move" /\ UNCHANGED <<head, tail, ring, held, call, moved>> /\ pc' = [pc EXCEPT ![t] = "head"]
  BY DEF MoveHead
<1>3. Typed' /\ pc'[t] = "head"
  BY <1>2, Zenon DEF Typed, Calling
<1>4. Mine(t)' = Mine(t)
  BY <1>2, <1>3 DEF Mine, Calling
<1>5. Table(b, v, t)'
  BY <1>2, <1>3, TableOf, Zenon DEF Table, Tabled, Calling
<1>. QED BY <1>1, <1>2, <1>3, <1>4, <1>5, KeepValued, ZenonT(40)

LEMMA RefusedValued ==
  ASSUME Typed, NEW t \in Threads, Refused(t), NEW h, NEW l, NEW b, NEW v, Valued(h, l, b, v)
  PROVE  Typed' /\ Valued(h, l, b, v)' /\ Mine(t)' = Mine(t)
<1>1. Others(t)
  BY OthersStay DEF Step
<1>2. /\ pc[t] = "refused" /\ UNCHANGED <<head, tail, ring, held, moved>> /\ pc' = [pc EXCEPT ![t] = "idle"]
      /\ call' = [call EXCEPT ![t] = NoCall]
  BY DEF Refused
<1>3. NoCall \in [side : Sides, n : Nat, obj_table : Seq(Objects), old_head : Nat, copied : Nat]
  BY EmptySeq DEF NoCall, Sides
<1>4. Typed' /\ pc'[t] = "idle" /\ call'[t] = NoCall
  BY <1>2, <1>3, ZenonT(40) DEF Typed, Calling
<1>5. Mine(t)' = Mine(t)
  BY <1>2, <1>4, ZenonT(40) DEF Mine, Calling
<1>6. Table(b, v, t)'
  BY <1>4 DEF Table, Tabled, Calling, NoCall
<1>. QED BY <1>1, <1>2, <1>4, <1>5, <1>6, KeepValued, ZenonT(40)

\* The positions between the consumers' tail and the producers' head have slots of
\* their own, and those of a call in progress are among them.
LEMMA Window ==
  ASSUME Typed, NEW h \in [Sides -> Nat], NEW l \in [Sides -> Nat], NEW b \in [Threads -> Nat], Placed(h, l, b)
  PROVE  /\ \A x, y \in l["cons"] .. h["prod"] - 1 : x # y => x % size # y % size
         /\ \A x \in l["cons"] .. h["prod"] - 1 : x \in Nat /\ x % size \in 0 .. capacity
         /\ \A t \in Threads : pc[t] = "copy" => \A x \in b[t] .. b[t] + call[t].n - 1 :
              /\ x \in l["cons"] .. h["prod"] - 1
              /\ call[t].side = "prod" => x >= l["prod"]
              /\ call[t].side = "cons" => x < h["cons"] /\ x < l["prod"]
<1>1. PICK hp, hc, lp, lc \in Nat : hp = h["prod"] /\ hc = h["cons"] /\ lp = l["prod"] /\ lc = l["cons"]
  BY DEF Sides
<1>2. lc <= hc /\ hc <= lp /\ lp <= hp /\ hp <= lc + capacity
  BY <1>1, Zenon DEF Placed, Ordered
<1>3. ASSUME NEW x \in lc .. hp - 1, NEW y \in lc .. hp - 1, x # y PROVE x % size # y % size
  <2>1. x \in Nat /\ y \in Nat /\ x - y < size /\ y - x < size
    BY <1>2, Sizes
  <2>. QED BY <1>3, <2>1, SlotsDiffer
<1>4. ASSUME NEW x \in lc .. hp - 1 PROVE x \in Nat /\ x % size \in 0 .. capacity
  <2>1. x \in Nat
    BY <1>2
  <2>. QED BY <2>1, SlotOf
<1>5. ASSUME NEW t \in Threads, pc[t] = "copy", NEW x \in b[t] .. b[t] + call[t].n - 1
      PROVE  /\ x \in lc .. hp - 1
             /\ call[t].side = "prod" => x >= lp
             /\ call[t].side = "cons" => x < hc /\ x < lp
  <2>1. PICK y, n \in Nat : y = b[t] /\ n = call[t].n
    BY CallTypes, Zenon
  <2>2. l[call[t].side] <= y /\ y + n <= h[call[t].side]
    BY <1>5, <2>1, Zenon DEF Placed, Located
  <2>3. CASE call[t].side = "prod"
    BY <1>1, <1>2, <2>1, <2>2, <2>3
  <2>4. CASE call[t].side = "cons"
    BY <1>1, <1>2, <2>1, <2>2, <2>4
  <2>. QED BY <2>3, <2>4, CallTypes, Zenon DEF Sides
<1>. QED BY <1>1, <1>3, <1>4, <1>5, Zenon

\* The slot a copy is at.
LEMMA HereIs ==
  ASSUME Typed, NEW h \in [Sides -> Nat], NEW l \in [Sides -> Nat], NEW b \in [Threads -> Nat], Placed(h, l, b),
         NEW t \in Threads, pc[t] = "copy", NEW i \in 0 .. call[t].n - 1
  PROVE  Slot(Plus(call[t].old_head, i)) = (b[t] + i) % size
<1>1. PICK x, k \in Nat : x = b[t] /\ k = i
  BY CallTypes
<1>2. call[t].old_head = x % UINT
  BY <1>1, Zenon DEF Placed, Located
<1>3. Plus(x % UINT, k) = (x + k) % UINT
  BY IndexPlus
<1>4. x + k \in Nat
  OBVIOUS
<1>5. Slot((x + k) % UINT) = (x + k) % size
  BY <1>4, SlotOf, ZenonT(40)
<1>. QED BY <1>1, <1>2, <1>3, <1>5, ZenonT(40)

LEMMA EnqueueValued ==
  ASSUME Typed, NEW t \in Threads, ENQUEUE_PTRS(t),
         NEW h \in [Sides -> Nat], NEW l \in [Sides -> Nat], NEW b \in [Threads -> Nat], Placed(h, l, b),
         NEW v, Valued(h, l, b, v)
  PROVE  Typed' /\ Valued(h, l, b, v)' /\ Mine(t)' = Mine(t)
<1>1. Others(t)
  BY OthersStay DEF Step
<1>2. PICK k, n, z \in Nat : k = call[t].copied /\ n = call[t].n /\ z = b[t]
  BY CallTypes, Zenon
<1>3. PICK x \in Nat : x = z + k
  OBVIOUS
<1>4. /\ pc[t] = "copy" /\ call[t].side = "prod" /\ k < n
      /\ ring' = [ring EXCEPT ![Here(t)] = call[t].obj_table[k + 1]]
      /\ call' = [call EXCEPT ![t] = [call[t] EXCEPT !.copied = k + 1]]
      /\ UNCHANGED <<head, tail, held, pc, moved>>
  BY <1>2, Zenon DEF ENQUEUE_PTRS
<1>5. x \in l["cons"] .. h["prod"] - 1 /\ x >= l["prod"]
  BY <1>2, <1>3, <1>4, Window, SMTT(30)
<1>6. Here(t) = x % size /\ x % size \in 0 .. capacity
  <2>1. k \in 0 .. n - 1
    BY <1>4
  <2>. QED BY <1>2, <1>3, <1>4, <1>5, <2>1, HereIs, Window, SMTT(30) DEF Here
<1>7. call[t].obj_table[k + 1] = v[x]
  <2>1. Len(call[t].obj_table) = n /\ \A i \in 1 .. n : call[t].obj_table[i] = v[z + i - 1]
    BY <1>2, <1>4, TableOf DEF Table, Tabled
  <2>2. k + 1 \in 1 .. n /\ z + (k + 1) - 1 = x
    BY <1>3, <1>4
  <2>. QED BY <2>1, <2>2, Zenon
<1>8. ring' = [ring EXCEPT ![x % size] = v[x]] /\ DOMAIN ring = 0 .. capacity
  BY <1>4, <1>6, <1>7, Zenon DEF Typed
<1>9. ASSUME NEW y \in l["cons"] .. h["prod"] - 1 PROVE ring'[y % size] = IF y = x THEN v[y] ELSE ring[y % size]
  <2>1. y # x => y % size # x % size
    BY <1>5, Window, Zenon
  <2>2. y % size \in 0 .. capacity
    BY Window, Zenon
  <2>. QED BY <1>6, <1>8, <2>1, <2>2, ZenonT(40)
<1>10. /\ call'[t].copied = k + 1 /\ call'[t].side = "prod" /\ call'[t].n = n
       /\ call'[t].obj_table = call[t].obj_table
  BY <1>2, <1>4, ZenonT(40) DEF Typed
<1>11. Typed'
  <2>1. /\ call' \in [Threads -> [side : Sides, n : Nat, obj_table : Seq(Objects), old_head : Nat, copied : Nat]]
        /\ \A u \in Threads : call'[u].n = call[u].n
    <3>1. /\ call \in [Threads -> [side : Sides, n : Nat, obj_table : Seq(Objects), old_head : Nat, copied : Nat]]
          /\ k + 1 \in Nat
      BY DEF Typed
    <3>2. call[t] \in [side : Sides, n : Nat, obj_table : Seq(Objects), old_head : Nat, copied : Nat]
      BY <3>1
    <3>3. /\ [call[t] EXCEPT !.copied = k + 1]
                \in [side : Sides, n : Nat, obj_table : Seq(Objects), old_head : Nat, copied : Nat]
          /\ [call[t] EXCEPT !.copied = k + 1].n = call[t].n
      BY ONLY <3>1, <3>2, Zenon
    <3>. QED BY <1>4, <3>1, <3>3, ZenonT(40)
  <2>2. DOMAIN ring' = 0 .. capacity
    BY <1>8
  <2>. QED BY <1>4, <2>1, <2>2, Zenon DEF Typed
<1>12. \A u \in Threads : Mine(u)' = Mine(u)
  BY <1>1, <1>4, <1>10, Zenon DEF Mine, Others, Calling
<1>13. ASSUME NEW u \in Threads, pc[u] = "copy", NEW i \in 1 .. call[u].n
       PROVE  b[u] + i - 1 \in l["cons"] .. h["prod"] - 1
  <2>1. PICK y, m \in Nat : y = b[u] /\ m = call[u].n
    BY CallTypes, Zenon
  <2>2. y + i - 1 \in y .. y + m - 1
    BY <2>1, Offset, Zenon
  <2>. QED BY <1>13, <2>1, <2>2, Window, Zenon
<1>14. ASSUME NEW u \in Threads PROVE Table(b, v, u)'
  <2>1. Table(b, v, u) /\ call[u].copied \in Nat /\ call[u].n \in Nat
    BY TableOf, CallTypes, Zenon
  <2>2. CASE u # t
    <3>1. pc'[u] = pc[u] /\ call'[u] = call[u] /\ held'[u] = held[u]
      BY <1>1, <2>2, Zenon DEF Others
    <3>2. ASSUME pc[u] = "copy", call[u].side = "prod", NEW i \in 1 .. call[u].copied
          PROVE  ring'[(b[u] + i - 1) % size] = v[b[u] + i - 1]
      <4>1. i \in 1 .. call[u].n /\ ring[(b[u] + i - 1) % size] = v[b[u] + i - 1]
        <5>1. /\ call[u].copied <= call[u].n
              /\ \A j \in 1 .. call[u].copied : ring[(b[u] + j - 1) % size] = v[b[u] + j - 1]
          BY <2>1, <3>2, Zenon DEF Table, Tabled
        <5>. QED BY <2>1, <5>1, Narrower, Zenon
      <4>. QED BY <1>9, <1>13, <3>2, <4>1, ZenonT(40)
    <3>3. Tabled(pc[u], call[u], held[u], ring, b[u], v)
      BY <2>1, Zenon DEF Table
    <3>4. Tabled(pc[u], call[u], held[u], ring', b[u], v)
      BY ONLY <3>2, <3>3, TableRewritten, Zenon
    <3>. QED BY <3>1, <3>4, Zenon DEF Table
  <2>3. CASE u = t
    <3>1. ASSUME NEW i \in 1 .. k + 1 PROVE ring'[(z + i - 1) % size] = v[z + i - 1]
      <4>1. i \in 1 .. n /\ (i = k + 1 => z + i - 1 = x) /\ (i # k + 1 => i \in 1 .. k)
        BY <1>3, <1>4
      <4>2. z + i - 1 \in l["cons"] .. h["prod"] - 1
        BY <1>2, <1>4, <1>13, <4>1, Zenon
      <4>3. i \in 1 .. k => ring[(z + i - 1) % size] = v[z + i - 1]
        BY <1>2, <1>4, <2>1, <2>3, Zenon DEF Table, Tabled
      <4>4. CASE i = k + 1
        BY <1>9, <4>1, <4>2, <4>4, ZenonT(40)
      <4>5. CASE i \in 1 .. k
        BY <1>9, <4>2, <4>3, <4>5, Zenon
      <4>. QED BY <4>1, <4>4, <4>5, Zenon
    <3>2. k + 1 <= n
      BY <1>4
    <3>3. /\ Len(call[t].obj_table) = n
          /\ \A i \in 1 .. n : call[t].obj_table[i] = v[z + i - 1]
      BY <1>2, <1>4, <2>1, <2>3, Zenon DEF Table, Tabled
    <3>4. Tabled("copy", call'[t], held'[t], ring', z, v)
      <4>1. call'[t].copied <= call'[t].n /\ call'[t].side = "prod" /\ Len(call'[t].obj_table) = call'[t].n
        BY <1>10, <3>2, <3>3, Zenon
      <4>2. \A i \in 1 .. call'[t].n : call'[t].obj_table[i] = v[z + i - 1]
        BY <1>10, <3>3, Zenon
      <4>3. \A i \in 1 .. call'[t].copied : ring'[(z + i - 1) % size] = v[z + i - 1]
        BY <1>10, <3>1, Zenon
      <4>. QED BY ONLY <4>1, <4>2, <4>3, TableCopied, Zenon
    <3>. QED BY <1>2, <1>4, <2>3, <3>4, Zenon DEF Table
  <2>. QED BY <2>2, <2>3
<1>15. ASSUME NEW y \in l["cons"] .. l["prod"] - 1 PROVE ring'[y % size] = v[y]
  <2>1. y # x /\ y \in l["cons"] .. h["prod"] - 1
    <3>1. PICK hp, lp, lc \in Nat : hp = h["prod"] /\ lp = l["prod"] /\ lc = l["cons"]
      BY DEF Sides
    <3>2. lp <= hp
      BY <3>1, Zenon DEF Placed, Ordered
    <3>. QED BY <1>5, <3>1, <3>2
  <2>. QED BY <1>9, <2>1, ZenonT(40) DEF Valued
<1>. QED BY <1>11, <1>12, <1>14, <1>15, SMTT(30) DEF Valued

LEMMA DequeueValued ==
  ASSUME Typed, NEW t \in Threads, DEQUEUE_PTRS(t),
         NEW h \in [Sides -> Nat], NEW l \in [Sides -> Nat], NEW b \in [Threads -> Nat], Placed(h, l, b),
         NEW v, Valued(h, l, b, v)
  PROVE  Typed' /\ Valued(h, l, b, v)' /\ Mine(t)' = Mine(t)
<1>1. Others(t)
  BY OthersStay DEF Step
<1>2. PICK k, n, z \in Nat : k = call[t].copied /\ n = call[t].n /\ z = b[t]
  BY CallTypes, Zenon
<1>3. PICK x \in Nat : x = z + k
  OBVIOUS
<1>4. pc[t] = "copy" /\ call[t].side = "cons" /\ k < n /\ UNCHANGED <<head, tail, ring, held, pc, moved>>
  BY <1>2, ZenonT(40) DEF DEQUEUE_PTRS
<1>5. x \in l["cons"] .. h["prod"] - 1 /\ x < l["prod"]
  BY <1>2, <1>3, <1>4, Window
<1>6. Here(t) = x % size
  <2>1. k \in 0 .. n - 1
    BY <1>4
  <2>. QED BY <1>2, <1>3, <1>4, <2>1, HereIs, ZenonT(40) DEF Here
<1>7. ring[x % size] = v[x] /\ v[x] \in Objects
  <2>1. x \in l["cons"] .. l["prod"] - 1
    <3>1. PICK lp, lc \in Nat : lp = l["prod"] /\ lc = l["cons"]
      BY DEF Sides
    <3>. QED BY <1>5, <3>1
  <2>. QED BY <1>5, <2>1, Zenon DEF Valued
<1>8. PICK old, new : old = call[t].obj_table /\ new = Append(old, v[x])
  BY Zenon
<1>9. old \in Seq(Objects) /\ Len(old) = k /\ \A i \in 1 .. k : old[i] = v[z + i - 1]
  <2>1. Table(b, v, t) /\ call[t].obj_table \in Seq(Objects)
    BY CallTypes, TableOf, Zenon
  <2>. QED BY <1>2, <1>4, <1>8, <2>1, Zenon DEF Table, Tabled
<1>10. new \in Seq(Objects) /\ Len(new) = k + 1 /\ \A i \in 1 .. k + 1 : new[i] = v[z + i - 1]
  <2>1. /\ new \in Seq(Objects) /\ Len(new) = k + 1 /\ new[k + 1] = v[x]
        /\ \A i \in 1 .. k : new[i] = old[i]
    <3>1. PICK e \in Objects : e = v[x]
      BY <1>7, Zenon
    <3>2. /\ Append(old, e) \in Seq(Objects) /\ Len(Append(old, e)) = Len(old) + 1
          /\ Append(old, e)[Len(old) + 1] = e /\ \A i \in 1 .. Len(old) : Append(old, e)[i] = old[i]
      BY <1>9
    <3>. QED BY <1>8, <1>9, <3>1, <3>2, Zenon
  <2>2. z + (k + 1) - 1 = x /\ \A i \in 1 .. k + 1 : i = k + 1 \/ i \in 1 .. k
    BY <1>3
  <2>. QED BY <1>9, <2>1, <2>2, Zenon
<1>11. /\ call'[t].obj_table = new /\ call'[t].copied = k + 1
       /\ call'[t].side = "cons" /\ call'[t].n = n /\ call'[t].old_head = call[t].old_head
  BY <1>2, <1>4, <1>6, <1>7, <1>8, DequeueIs, ZenonT(40)
<1>12. Typed'
  <2>1. call' = [call EXCEPT ![t].obj_table = new, ![t].copied = k + 1]
    BY <1>2, <1>6, <1>7, <1>8 DEF DEQUEUE_PTRS
  <2>2. call' \in [Threads -> [side : Sides, n : Nat, obj_table : Seq(Objects), old_head : Nat, copied : Nat]]
    <3>1. PICK c : c = [call EXCEPT ![t].obj_table = new]
      BY Zenon
    <3>2. c \in [Threads -> [side : Sides, n : Nat, obj_table : Seq(Objects), old_head : Nat, copied : Nat]]
      <4>1. call \in [Threads -> [side : Sides, n : Nat, obj_table : Seq(Objects), old_head : Nat, copied : Nat]]
        BY Zenon DEF Typed
      <4>2. call[t] \in [side : Sides, n : Nat, obj_table : Seq(Objects), old_head : Nat, copied : Nat]
        BY <4>1, Zenon
      <4>3. [call[t] EXCEPT !.obj_table = new]
                \in [side : Sides, n : Nat, obj_table : Seq(Objects), old_head : Nat, copied : Nat]
        BY ONLY <1>10, <4>2, Zenon
      <4>. QED BY <3>1, <4>1, <4>3, Zenon
    <3>3. call' = [c EXCEPT ![t] = [c[t] EXCEPT !.copied = k + 1]]
      BY <2>1, <3>1
    <3>4. [c[t] EXCEPT !.copied = k + 1] \in [side : Sides, n : Nat, obj_table : Seq(Objects), old_head : Nat, copied : Nat]
      <4>1. c[t] \in [side : Sides, n : Nat, obj_table : Seq(Objects), old_head : Nat, copied : Nat] /\ k + 1 \in Nat
        BY <3>2
      <4>. QED BY ONLY <4>1, Zenon
    <3>. QED BY <3>2, <3>3, <3>4, Zenon
  <2>3. \A u \in Threads : call'[u].n = call[u].n
    BY <1>1, <1>2, <1>11, ZenonT(40) DEF Others
  <2>. QED BY <1>4, <2>2, <2>3, Zenon DEF Typed
<1>13. Mine(t)' = Mine(t)
  BY <1>4 DEF Mine, Calling
<1>14. Table(b, v, t)'
  <2>1. k + 1 <= n
    BY <1>4
  <2>. QED BY <1>2, <1>4, <1>10, <1>11, <2>1, ZenonT(40) DEF Table, Tabled, Calling
<1>. QED BY <1>1, <1>4, <1>12, <1>13, <1>14, KeepValued, Zenon

\* The objects ever put, with those of tab put next.
Longer(w, v, p, tab) == w = [x \in Nat |-> IF x < p THEN v[x] ELSE tab[x - p + 1]]

LEMMA TakeValued ==
  ASSUME Typed, NEW t \in Threads, MoveHead(t), Cmpset(t), call[t].side = "cons",
         NEW h \in [Sides -> Nat], NEW l \in [Sides -> Nat], NEW b \in [Threads -> Nat],
         NEW v, Valued(h, l, b, v),
         NEW g, g = [h EXCEPT ![call[t].side] = @ + call[t].n]
  PROVE  Typed' /\ Valued(g, l, b, v)' /\ Mine(t)' = Mine(t)
<1>1. Others(t)
  BY OthersStay DEF Step
<1>2. /\ pc[t] = "move" /\ head' = [head EXCEPT !["cons"] = Plus(call[t].old_head, call[t].n)]
      /\ pc' = [pc EXCEPT ![t] = "copy"] /\ UNCHANGED <<tail, ring, held, call, moved>>
  BY Zenon DEF MoveHead
<1>3. Plus(call[t].old_head, call[t].n) \in Nat
  BY PlusIs, Zenon
<1>4. Typed' /\ pc'[t] = "copy" /\ call' = call
  BY <1>2, <1>3, Zenon DEF Typed, Calling
<1>5. call[t].obj_table = <<>> /\ call[t].copied = 0
  BY <1>2, TableOf, Zenon DEF Table, Tabled, Calling
<1>6. Mine(t)' = Mine(t)
  BY <1>2, <1>4, <1>5, EmptyRange, Zenon DEF Mine, Calling
<1>7. Table(b, v, t)'
  <2>1. 0 <= call[t].n
    BY CallTypes
  <2>. QED BY <1>2, <1>4, <1>5, <2>1, EmptyRange, ZenonT(40) DEF Table, Tabled, Calling
<1>8. g["prod"] = h["prod"]
  BY ZenonT(40) DEF Sides
<1>. QED BY <1>1, <1>2, <1>4, <1>6, <1>7, <1>8, KeepValued, ZenonT(40)

\* The table of another thread only speaks of objects that were put before.
LEMMA OtherTable ==
  ASSUME Typed, NEW t \in Threads, Others(t), ring' = ring, NEW u \in Threads, u # t,
         NEW b, NEW v, NEW w, Table(b, v, u),
         pc[u] = "copy" => \A i \in 1 .. call[u].n : w[b[u] + i - 1] = v[b[u] + i - 1]
  PROVE  Table(b, w, u)'
<1>1. pc'[u] = pc[u] /\ call'[u] = call[u] /\ held'[u] = held[u] /\ call[u].copied \in Nat /\ call[u].n \in Nat
  BY OtherThread, CallTypes, Zenon
<1>2. ASSUME pc[u] = "copy"
      PROVE  /\ \A i \in 1 .. Len(call[u].obj_table) : call[u].obj_table[i] = w[b[u] + i - 1]
             /\ call[u].side = "prod" => \A i \in 1 .. call[u].copied : ring[(b[u] + i - 1) % size] = w[b[u] + i - 1]
  <2>1. /\ call[u].copied <= call[u].n
        /\ Len(call[u].obj_table) = IF call[u].side = "prod" THEN call[u].n ELSE call[u].copied
        /\ \A i \in 1 .. Len(call[u].obj_table) : call[u].obj_table[i] = v[b[u] + i - 1]
        /\ call[u].side = "prod" => \A i \in 1 .. call[u].copied : ring[(b[u] + i - 1) % size] = v[b[u] + i - 1]
    BY <1>2, Zenon DEF Table, Tabled
  <2>2. \A i \in 1 .. call[u].copied : i \in 1 .. call[u].n
    BY <1>1, <2>1, Narrower, ZenonT(40)
  <2>3. \A i \in 1 .. Len(call[u].obj_table) : i \in 1 .. call[u].n
    BY <2>1, <2>2, Zenon
  <2>. QED BY <1>2, <2>1, <2>2, <2>3, Zenon
<1>. QED BY <1>1, <1>2 DEF Table, Tabled

\* A thread that has reserved its slots, and put nothing in them yet.
LEMMA NewTable ==
  ASSUME NEW u, NEW b, NEW w, NEW p \in Nat, NEW n \in Nat, NEW tab,
         pc'[u] = "copy", tab = call'[u].obj_table, call'[u].n = n, call'[u].copied = 0, call'[u].side = "prod",
         b[u] = p, Len(tab) = n, IsInjective(tab),
         \A x \in Nat : ~(x < p) => w[x] = tab[x - p + 1]
  PROVE  Table(b, w, u)'
<1>1. ASSUME NEW i \in 1 .. n PROVE tab[i] = w[p + i - 1]
  <2>1. p + i - 1 \in Nat /\ ~(p + i - 1 < p) /\ (p + i - 1) - p + 1 = i
    OBVIOUS
  <2>. QED BY <2>1, ZenonT(40)
<1>2. 0 <= n /\ 1 .. 0 = {}
  OBVIOUS
<1>. QED BY <1>1, <1>2, Zenon DEF Table, Tabled, Calling

LEMMA PutValued ==
  ASSUME Typed, NEW t \in Threads, MoveHead(t), Cmpset(t), call[t].side = "prod",
         NEW h \in [Sides -> Nat], NEW l \in [Sides -> Nat], NEW b \in [Threads -> Nat], Placed(h, l, b),
         NEW v, Valued(h, l, b, v),
         NEW g, g = [h EXCEPT ![call[t].side] = @ + call[t].n],
         NEW w, Longer(w, v, h["prod"], call[t].obj_table)
  PROVE  Typed' /\ Valued(g, l, b, w)' /\ Mine(t)' = held[t] /\ Mine(t) = held[t] \cup Range(call[t].obj_table)
<1>1. Others(t)
  BY OthersStay, Zenon DEF Step
<1>2. /\ pc[t] = "move" /\ head' = [head EXCEPT !["prod"] = Plus(call[t].old_head, call[t].n)]
      /\ pc' = [pc EXCEPT ![t] = "copy"] /\ UNCHANGED <<tail, ring, held, call, moved>>
  BY Zenon DEF MoveHead
<1>3. Plus(call[t].old_head, call[t].n) \in Nat
  BY PlusIs, Zenon
<1>4. Typed' /\ pc'[t] = "copy" /\ call' = call
  BY <1>2, <1>3, Zenon DEF Typed, Calling
<1>5. PICK hp, lp, lc, n \in Nat : hp = h["prod"] /\ lp = l["prod"] /\ lc = l["cons"] /\ n = call[t].n
  BY CallTypes, ZenonT(40) DEF Sides
<1>6. lc <= lp /\ lp <= hp /\ g["prod"] = hp + n /\ b[t] = hp
  <2>1. l["cons"] <= h["cons"] /\ h["cons"] <= l["prod"] /\ l["prod"] <= h["prod"] /\ h["cons"] \in Nat
    BY Zenon DEF Placed, Ordered, Sides
  <2>2. b[t] = h[call[t].side]
    BY <1>2, CmpsetIs, Zenon
  <2>. QED BY <1>5, <2>1, <2>2 DEF Sides
<1>7. PICK tab \in Seq(Objects) : tab = call[t].obj_table
  BY CallTypes, Zenon
<1>8. /\ Len(tab) = n /\ IsInjective(tab) /\ Range(tab) \cap held[t] = {} /\ call[t].copied = 0
  BY <1>2, <1>5, <1>7, TableOf, ZenonT(40) DEF Table, Tabled, Calling
<1>9. \A i \in 1 .. n : tab[i] \in Objects /\ tab[i] \in Range(tab)
  BY <1>8, Entries, Zenon
<1>10. Range(tab) \subseteq Mine(t)
  BY <1>2, <1>7, Zenon DEF Mine, Calling
<1>11. \A x \in Nat : (x < hp => w[x] = v[x]) /\ (~(x < hp) => w[x] = tab[x - hp + 1])
  BY <1>5, <1>7, Zenon DEF Longer
<1>12. Mine(t)' = held[t] /\ held[t] \subseteq Mine(t) /\ \A u \in Threads : u # t => Mine(u)' = Mine(u)
  BY <1>1, <1>2, <1>4, Zenon DEF Mine, Others, Calling
<1>13. \A u \in Threads : Mine(u)' \subseteq Mine(u)
  BY <1>12, Zenon
<1>14. ASSUME NEW x \in lc .. hp + n - 1
       PROVE  /\ x \in Nat
              /\ x < hp => x \in lc .. hp - 1 /\ w[x] = v[x]
              /\ ~(x < hp) => x - hp + 1 \in 1 .. n /\ w[x] = tab[x - hp + 1]
  BY <1>11, Grown, Zenon
<1>15. /\ \A x \in lc .. hp - 1 : v[x] \in Objects /\ \A u \in Threads : v[x] \notin Mine(u)
       /\ \A x, y \in lc .. hp - 1 : v[x] = v[y] => x = y
       /\ \A u, s \in Threads : u # s => Mine(u) \cap Mine(s) = {}
       /\ \A x \in lc .. lp - 1 : ring[x % size] = v[x]
  BY <1>5, Zenon DEF Valued
<1>16. ASSUME NEW x \in lc .. hp + n - 1 PROVE w[x] \in Objects /\ \A u \in Threads : w[x] \notin Mine(u)'
  <2>1. CASE x < hp
    BY <1>13, <1>14, <1>15, <2>1, ZenonT(40)
  <2>2. CASE ~(x < hp)
    <3>1. w[x] \in Objects /\ w[x] \in Range(tab) /\ w[x] \in Mine(t)
      BY <1>9, <1>10, <1>14, <2>2, Zenon
    <3>2. w[x] \notin Mine(t)'
      BY <1>8, <1>12, <3>1, Zenon
    <3>3. \A u \in Threads : u # t => w[x] \notin Mine(u)'
      <4>1. \A u \in Threads : u # t => Mine(t) \cap Mine(u) = {}
        BY <1>15, Zenon
      <4>. QED BY <1>12, <3>1, <4>1, ZenonT(40)
    <3>. QED BY <3>1, <3>2, <3>3, Zenon
  <2>. QED BY <2>1, <2>2, Zenon
<1>17. ASSUME NEW x \in lc .. hp + n - 1, NEW y \in lc .. hp + n - 1, w[x] = w[y] PROVE x = y
  <2>1. CASE x < hp /\ y < hp
    <3>1. x \in lc .. hp - 1 /\ y \in lc .. hp - 1 /\ v[x] = v[y]
      BY <1>14, <1>17, <2>1, ZenonT(40)
    <3>. QED BY <1>15, <3>1, Zenon
  <2>2. CASE ~(x < hp) /\ ~(y < hp)
    <3>1. PICK i, j \in 1 .. n : i = x - hp + 1 /\ j = y - hp + 1
      BY <1>14, <2>2, Zenon
    <3>2. tab[i] = tab[j]
      BY <1>14, <1>17, <2>2, <3>1, Zenon
    <3>3. i = j
      <4>1. DOMAIN tab = 1 .. n
        BY <1>8, Entries, Zenon
      <4>. QED BY <1>8, <3>2, <4>1, Zenon DEF IsInjective
    <3>. QED BY <1>14, <3>1, <3>3
  <2>3. CASE x < hp /\ ~(y < hp)
    <3>1. x \in lc .. hp - 1 /\ w[x] = v[x] /\ y - hp + 1 \in 1 .. n /\ w[y] = tab[y - hp + 1]
      BY <1>14, <2>3, Zenon
    <3>2. v[x] \notin Mine(t) /\ w[y] \in Mine(t)
      BY <1>9, <1>10, <1>15, <3>1, Zenon
    <3>. QED BY <1>17, <3>1, <3>2, Zenon
  <2>4. CASE ~(x < hp) /\ y < hp
    <3>1. y \in lc .. hp - 1 /\ w[y] = v[y] /\ x - hp + 1 \in 1 .. n /\ w[x] = tab[x - hp + 1]
      BY <1>14, <2>4, Zenon
    <3>2. v[y] \notin Mine(t) /\ w[x] \in Mine(t)
      BY <1>9, <1>10, <1>15, <3>1, ZenonT(40)
    <3>. QED BY <1>17, <3>1, <3>2, Zenon
  <2>. QED BY <2>1, <2>2, <2>3, <2>4, ZenonT(40)
<1>18. ASSUME NEW x \in lc .. lp - 1 PROVE ring'[x % size] = w[x]
  <2>1. x < hp /\ x \in Nat
    BY <1>6
  <2>. QED BY <1>2, <1>11, <1>15, <2>1, ZenonT(40)
<1>19. ASSUME NEW u \in Threads, u # t, pc[u] = "copy", NEW i \in 1 .. call[u].n PROVE w[b[u] + i - 1] = v[b[u] + i - 1]
  <2>1. PICK y, m \in Nat : y = b[u] /\ m = call[u].n
    BY CallTypes, Zenon
  <2>2. y + i - 1 \in y .. y + m - 1
    BY <2>1, Offset, Zenon
  <2>3. y + i - 1 \in lc .. hp - 1
    BY <1>5, <1>19, <2>1, <2>2, Window, ZenonT(40)
  <2>4. y + i - 1 \in Nat /\ y + i - 1 < hp
    BY <2>3
  <2>. QED BY <1>11, <2>1, <2>4, Zenon
<1>20. ASSUME NEW u \in Threads PROVE Table(b, w, u)'
  <2>1. CASE u # t
    <3>1. ring' = ring /\ Table(b, v, u)
      BY <1>2, TableOf, Zenon
    <3>. QED BY <1>1, <1>19, <2>1, <3>1, OtherTable, ZenonT(40)
  <2>2. CASE u = t
    <3>1. /\ pc'[u] = "copy" /\ tab = call'[u].obj_table /\ call'[u].n = n /\ call'[u].copied = 0
          /\ call'[u].side = "prod" /\ b[u] = hp
      BY <1>4, <1>5, <1>6, <1>7, <1>8, <2>2, ZenonT(40)
    <3>2. \A x \in Nat : ~(x < hp) => w[x] = tab[x - hp + 1]
      BY <1>11, Zenon
    <3>. QED BY <1>8, <3>1, <3>2, NewTable, ZenonT(40)
  <2>. QED BY <2>1, <2>2, Zenon
<1>21. \A u, s \in Threads : u # s => Mine(u)' \cap Mine(s)' = {}
  BY <1>13, <1>15, Zenon
<1>22. \A x, y \in lc .. hp + n - 1 : w[x] = w[y] => x = y
  BY <1>17, Zenon
<1>23. /\ \A x \in l["cons"] .. l["prod"] - 1 : ring'[x % size] = w[x]
       /\ \A x \in l["cons"] .. g["prod"] - 1 : w[x] \in Objects /\ \A u \in Threads : w[x] \notin Mine(u)'
       /\ \A x, y \in l["cons"] .. g["prod"] - 1 : w[x] = w[y] => x = y
  <2>1. l["cons"] .. l["prod"] - 1 = lc .. lp - 1 /\ l["cons"] .. g["prod"] - 1 = lc .. hp + n - 1
    BY <1>5, <1>6
  <2>2. \A x \in lc .. hp + n - 1 : w[x] \in Objects /\ \A u \in Threads : w[x] \notin Mine(u)'
    BY <1>16, Zenon
  <2>3. \A x \in lc .. lp - 1 : ring'[x % size] = w[x]
    BY <1>18, Zenon
  <2>. QED BY <1>22, <2>1, <2>2, <2>3, ZenonT(40)
<1>24. Mine(t)' = held[t] /\ Mine(t) = held[t] \cup Range(call[t].obj_table)
  BY <1>2, <1>12, Zenon DEF Mine, Calling
<1>25. Valued(g, l, b, w)'
  BY <1>20, <1>21, <1>23, ZenonT(40) DEF Valued
<1>. QED BY <1>4, <1>24, <1>25, Zenon

\* Nothing is in the table of a call that has returned.
LEMMA ReturnedIs ==
  ASSUME Typed, NEW t \in Threads, update_tail(t)
  PROVE  /\ Others(t) /\ Typed' /\ UNCHANGED ring
         /\ pc[t] = "copy" /\ call[t].copied = call[t].n /\ MyTurn(t)
         /\ held'[t] = held[t] \cup IF call[t].side = "cons" THEN Range(call[t].obj_table) ELSE {}
         /\ Mine(t) = held[t] /\ Mine(t)' = held'[t]
         /\ \A b, v : Table(b, v, t)'
<1>1. Others(t)
  BY OthersStay DEF Step
<1>2. /\ pc[t] = "copy" /\ call[t].copied = call[t].n /\ MyTurn(t)
      /\ tail' = [tail EXCEPT ![call[t].side] = Plus(call[t].old_head, call[t].n)]
      /\ held' = IF call[t].side = "cons" THEN [held EXCEPT ![t] = held[t] \cup Range(call[t].obj_table)] ELSE held
      /\ pc' = [pc EXCEPT ![t] = "idle"] /\ call' = [call EXCEPT ![t] = NoCall] /\ UNCHANGED <<head, ring, moved>>
  BY Zenon DEF update_tail
<1>3. Plus(call[t].old_head, call[t].n) \in Nat
  BY PlusIs, Zenon
<1>4. NoCall \in [side : Sides, n : Nat, obj_table : Seq(Objects), old_head : Nat, copied : Nat]
  BY EmptySeq DEF NoCall, Sides
<1>5. Range(call[t].obj_table) \subseteq Objects
  BY CallTypes DEF Range
<1>6. held' \in [Threads -> SUBSET Objects]
  BY <1>2, <1>5, Zenon DEF Typed
<1>7. tail' \in [Sides -> Nat]
  BY <1>2, <1>3, Zenon DEF Typed
<1>8. /\ call' \in [Threads -> [side : Sides, n : Nat, obj_table : Seq(Objects), old_head : Nat, copied : Nat]]
      /\ pc' \in [Threads -> Calling \cup {"idle", "copy", "refused"}]
      /\ pc'[t] = "idle" /\ call'[t] = NoCall
  BY <1>2, <1>4, Zenon DEF Typed, Calling
<1>9. \A u \in Threads : pc'[u] \in Calling \cup {"copy"} => call'[u].n \in Bulks
  BY <1>1, <1>8, Zenon DEF Typed, Others, Calling
<1>10. Typed'
  BY <1>2, <1>6, <1>7, <1>8, <1>9, Zenon DEF Typed
<1>11. held'[t] = held[t] \cup IF call[t].side = "cons" THEN Range(call[t].obj_table) ELSE {}
  BY <1>2, Zenon DEF Typed
<1>12. Mine(t) = held[t] /\ Mine(t)' = held'[t]
  BY <1>2, <1>8, ZenonT(40) DEF Mine, Calling
<1>13. \A b, v : Table(b, v, t)'
  BY <1>8 DEF Table, Tabled, Calling, NoCall
<1>. QED BY <1>1, <1>2, <1>10, <1>11, <1>12, <1>13

LEMMA PublishValued ==
  ASSUME Typed, NEW t \in Threads, update_tail(t), call[t].side = "prod",
         NEW h \in [Sides -> Nat], NEW l \in [Sides -> Nat], NEW b \in [Threads -> Nat], Placed(h, l, b),
         NEW v, Valued(h, l, b, v),
         NEW m, m = [l EXCEPT ![call[t].side] = @ + call[t].n]
  PROVE  Typed' /\ Valued(h, m, b, v)' /\ Mine(t)' = Mine(t)
<1>1. PICK lp, lc, n \in Nat : lp = l["prod"] /\ lc = l["cons"] /\ n = call[t].n
  BY CallTypes, Zenon DEF Sides
<1>2. m["prod"] = lp + n /\ m["cons"] = lc
  BY <1>1 DEF Sides
<1>3. b[t] = lp
  <2>1. pc[t] = "copy" /\ MyTurn(t)
    BY ReturnedIs, Zenon
  <2>2. b[t] = l[call[t].side]
    BY <2>1, MyTurnIs, ZenonT(40)
  <2>. QED BY <1>1, <2>2, Zenon
<1>4. \A u \in Threads : Mine(u)' = Mine(u)
  <2>1. Others(t) /\ ring' = ring /\ Mine(t)' = Mine(t)
    BY ReturnedIs, ZenonT(40)
  <2>2. ASSUME NEW u \in Threads, u # t PROVE Mine(u)' = Mine(u)
    <3>1. pc'[u] = pc[u] /\ call'[u] = call[u] /\ held'[u] = held[u]
      BY <2>1, <2>2, OtherThread, Zenon
    <3>. QED BY <2>1, <3>1, SameThread, Zenon
  <2>. QED BY <2>1, <2>2, Zenon
<1>5. ASSUME NEW u \in Threads PROVE Table(b, v, u)'
  <2>1. CASE u # t
    <3>1. Table(b, v, u) /\ Others(t) /\ ring' = ring
      BY TableOf, ReturnedIs, Zenon
    <3>2. pc'[u] = pc[u] /\ call'[u] = call[u] /\ held'[u] = held[u]
      BY <2>1, <3>1, OtherThread, Zenon
    <3>. QED BY <3>1, <3>2, SameThread, Zenon
  <2>. QED BY <2>1, ReturnedIs, Zenon
<1>6. ASSUME NEW x \in lc .. lp + n - 1 PROVE ring[x % size] = v[x]
  <2>1. CASE x < lp
    BY <1>1, <2>1 DEF Valued
  <2>2. CASE ~(x < lp)
    <3>1. PICK i \in 1 .. n : x = lp + i - 1
      <4>1. x - lp + 1 \in 1 .. n /\ x = lp + (x - lp + 1) - 1
        BY <2>2
      <4>. QED BY <4>1
    <3>2. \A j \in 1 .. n : ring[(lp + j - 1) % size] = v[lp + j - 1]
      <4>1. Table(b, v, t) /\ pc[t] = "copy" /\ call[t].copied = call[t].n
        BY ReturnedIs, TableOf, Zenon
      <4>. QED BY <1>1, <1>3, <4>1, Zenon DEF Table, Tabled
    <3>. QED BY <3>1, <3>2, ZenonT(40)
  <2>. QED BY <2>1, <2>2, ZenonT(40)
<1>7. Typed' /\ ring' = ring
  BY ReturnedIs, Zenon
<1>8. Valued(h, m, b, v)'
  <2>0. m["cons"] .. m["prod"] - 1 = lc .. lp + n - 1 /\ m["cons"] .. h["prod"] - 1 = l["cons"] .. h["prod"] - 1
    BY <1>1, <1>2
  <2>1. \A x \in m["cons"] .. m["prod"] - 1 : ring'[x % size] = v[x]
    BY <1>6, <1>7, <2>0, ZenonT(40)
  <2>2. /\ \A x \in m["cons"] .. h["prod"] - 1 : v[x] \in Objects /\ \A u \in Threads : v[x] \notin Mine(u)'
        /\ \A x, y \in m["cons"] .. h["prod"] - 1 : v[x] = v[y] => x = y
    <3>1. /\ \A x \in l["cons"] .. h["prod"] - 1 : v[x] \in Objects /\ \A u \in Threads : v[x] \notin Mine(u)
          /\ \A x, y \in l["cons"] .. h["prod"] - 1 : v[x] = v[y] => x = y
      BY Zenon DEF Valued
    <3>. QED BY <1>4, <2>0, <3>1
  <2>3. \A u, s \in Threads : u # s => Mine(u)' \cap Mine(s)' = {}
    BY <1>4, ZenonT(40) DEF Valued
  <2>. QED BY <1>5, <2>1, <2>2, <2>3, ZenonT(40) DEF Valued
<1>. QED BY <1>4, <1>7, <1>8, Zenon

LEMMA TakenValued ==
  ASSUME Typed, NEW t \in Threads, update_tail(t), call[t].side = "cons",
         NEW h \in [Sides -> Nat], NEW l \in [Sides -> Nat], NEW b \in [Threads -> Nat], Placed(h, l, b),
         NEW v, Valued(h, l, b, v),
         NEW m, m = [l EXCEPT ![call[t].side] = @ + call[t].n]
  PROVE  Typed' /\ Valued(h, m, b, v)' /\ Mine(t)' = Mine(t) \cup Range(call[t].obj_table)
<1>1. PICK hp, lp, lc, n \in Nat : hp = h["prod"] /\ lp = l["prod"] /\ lc = l["cons"] /\ n = call[t].n
  BY CallTypes, Zenon DEF Sides
<1>2. m["prod"] = lp /\ m["cons"] = lc + n
  BY <1>1 DEF Sides
<1>3. b[t] = lc
  <2>1. pc[t] = "copy" /\ MyTurn(t)
    BY ReturnedIs, Zenon
  <2>2. b[t] = l[call[t].side]
    BY <2>1, MyTurnIs, ZenonT(40)
  <2>. QED BY <1>1, <2>2, Zenon
<1>4. ASSUME NEW u \in Threads, u # t PROVE Mine(u)' = Mine(u)
  <2>1. Others(t) /\ ring' = ring
    BY ReturnedIs, Zenon
  <2>2. pc'[u] = pc[u] /\ call'[u] = call[u] /\ held'[u] = held[u]
    BY <1>4, <2>1, OtherThread, ZenonT(40)
  <2>. QED BY <2>1, <2>2, SameThread, Zenon
<1>5. ASSUME NEW u \in Threads PROVE Table(b, v, u)'
  <2>1. CASE u # t
    <3>1. Table(b, v, u) /\ Others(t) /\ ring' = ring
      BY TableOf, ReturnedIs, Zenon
    <3>2. pc'[u] = pc[u] /\ call'[u] = call[u] /\ held'[u] = held[u]
      BY <2>1, <3>1, OtherThread, Zenon
    <3>. QED BY <3>1, <3>2, SameThread, Zenon
  <2>. QED BY <2>1, ReturnedIs, Zenon
<1>6. /\ \A x \in lc .. hp - 1 : v[x] \in Objects /\ \A u \in Threads : v[x] \notin Mine(u)
      /\ \A x, y \in lc .. hp - 1 : v[x] = v[y] => x = y
      /\ \A u, s \in Threads : u # s => Mine(u) \cap Mine(s) = {}
      /\ \A x \in lc .. lp - 1 : ring[x % size] = v[x]
  BY <1>1, Zenon DEF Valued
<1>7. ASSUME NEW o \in Range(call[t].obj_table) PROVE \E x \in lc .. hp - 1 : x < lc + n /\ o = v[x]
  <2>1. Len(call[t].obj_table) = n /\ \A i \in 1 .. n : call[t].obj_table[i] = v[lc + i - 1]
    <3>1. Table(b, v, t) /\ pc[t] = "copy" /\ call[t].copied = call[t].n
      BY ReturnedIs, TableOf, ZenonT(40)
    <3>2. "cons" # "prod"
      OBVIOUS
    <3>. QED BY <1>1, <1>3, <3>1, <3>2, ZenonT(40) DEF Table, Tabled
  <2>2. PICK i \in 1 .. n : o = call[t].obj_table[i]
    BY <2>1, CallTypes, Zenon DEF Range
  <2>3. lc + i - 1 \in lc .. lc + n - 1 /\ lc + i - 1 < lc + n
    BY Offset, Zenon
  <2>4. lc + i - 1 \in lc .. hp - 1
    <3>1. pc[t] = "copy"
      BY ReturnedIs, Zenon
    <3>. QED BY <1>1, <1>3, <2>3, <3>1, Window, ZenonT(40)
  <2>5. PICK x \in lc .. hp - 1 : x = lc + i - 1
    BY <2>4, Zenon
  <2>6. x < lc + n /\ o = v[x]
    BY <2>1, <2>2, <2>3, <2>5, Zenon
  <2>. QED BY <2>6, Zenon
<1>8. Mine(t)' = Mine(t) \cup Range(call[t].obj_table)
  BY ReturnedIs, ZenonT(40)
<1>9. ASSUME NEW x \in lc + n .. hp - 1, NEW u \in Threads PROVE v[x] \in Objects /\ v[x] \notin Mine(u)'
  <2>1. x \in lc .. hp - 1 /\ ~(x < lc + n)
    OBVIOUS
  <2>2. v[x] \in Objects /\ v[x] \notin Mine(u)
    BY <1>6, <2>1, Zenon
  <2>3. v[x] \notin Range(call[t].obj_table)
    <3> SUFFICES ASSUME v[x] \in Range(call[t].obj_table) PROVE FALSE
      BY Zenon
    <3>1. PICK y \in lc .. hp - 1 : y < lc + n /\ v[x] = v[y]
      BY <1>7, Zenon
    <3>. QED BY <1>6, <2>1, <3>1, Zenon
  <2>4. CASE u = t
    BY <1>8, <2>2, <2>3, <2>4, Zenon
  <2>5. CASE u # t
    BY <1>4, <2>2, <2>5, Zenon
  <2>. QED BY <2>4, <2>5, ZenonT(40)
<1>10. \A u, s \in Threads : u # s => Mine(u)' \cap Mine(s)' = {}
  <2>1. \A u \in Threads : u # t => Mine(t)' \cap Mine(u)' = {}
    BY <1>4, <1>6, <1>7, <1>8
  <2>. QED BY <1>4, <1>6, <2>1, ZenonT(40)
<1>11. ASSUME NEW x \in lc + n .. lp - 1 PROVE ring'[x % size] = v[x]
  <2>1. x \in lc .. lp - 1
    OBVIOUS
  <2>2. ring' = ring
    BY ReturnedIs, Zenon
  <2>. QED BY <1>6, <2>1, <2>2, ZenonT(40)
<1>12. \A x, y \in lc + n .. hp - 1 : v[x] = v[y] => x = y
  <2>1. \A x \in lc + n .. hp - 1 : x \in lc .. hp - 1
    OBVIOUS
  <2>. QED BY <1>6, <2>1, ZenonT(40)
<1>13. Valued(h, m, b, v)'
  BY <1>1, <1>2, <1>5, <1>9, <1>10, <1>11, <1>12, ZenonT(40) DEF Valued
<1>14. Typed'
  BY ReturnedIs, Zenon
<1>. QED BY <1>8, <1>13, <1>14, Zenon
-----------------------------------------------------------------------------
(***************************************************************************)
(* The invariant is inductive.                                             *)
(***************************************************************************)
LEMMA Found ==
  ASSUME NEW h \in [Sides -> Nat], NEW l \in [Sides -> Nat], NEW b \in [Threads -> Nat], NEW v,
         Placed(h, l, b)', Valued(h, l, b, v)'
  PROVE  GInv'
BY DEF GInv

LEMMA MoveHeadInv ==
  ASSUME Typed, GInv, NEW t \in Threads, MoveHead(t)
  PROVE  Typed' /\ GInv'
<1>1. PICK h, l \in [Sides -> Nat], b \in [Threads -> Nat] : \E v : Placed(h, l, b) /\ Valued(h, l, b, v)
  BY DEF GInv
<1>2. PICK v : Placed(h, l, b) /\ Valued(h, l, b, v)
  BY <1>1
<1>3. CASE ~Cmpset(t)
  <2>1. Quiet
    BY <1>3, QuietSteps, ZenonT(40)
  <2>2. Placed(h, l, b)'
    BY <1>2, <2>1, QuietPlaced, ZenonT(40)
  <2>3. Typed' /\ Valued(h, l, b, v)'
    BY <1>2, <1>3, LosesValued
  <2>. QED BY <2>2, <2>3, Found
<1>4. CASE Cmpset(t)
  <2>1. PICK g : g = [h EXCEPT ![call[t].side] = @ + call[t].n]
    BY Zenon
  <2>2. g \in [Sides -> Nat] /\ Placed(g, l, b)'
    BY <1>2, <1>4, <2>1, MoveHeadPlaced, ZenonT(40)
  <2>3. CASE call[t].side = "cons"
    <3>1. Typed' /\ Valued(g, l, b, v)'
      BY <1>2, <1>4, <2>1, <2>3, TakeValued, ZenonT(40)
    <3>. QED BY <2>2, <3>1, Found
  <2>4. CASE call[t].side = "prod"
    <3>1. PICK w : Longer(w, v, h["prod"], call[t].obj_table)
      BY Zenon DEF Longer
    <3>2. Typed' /\ Valued(g, l, b, w)'
      BY <1>2, <1>4, <2>1, <2>4, <3>1, PutValued, ZenonT(40)
    <3>. QED BY <2>2, <3>2, Found
  <2>. QED BY <2>3, <2>4, CallTypes, Zenon DEF Sides
<1>. QED BY <1>3, <1>4

LEMMA UpdateTailInv ==
  ASSUME Typed, GInv, NEW t \in Threads, update_tail(t)
  PROVE  Typed' /\ GInv'
<1>1. PICK h, l \in [Sides -> Nat], b \in [Threads -> Nat] : \E v : Placed(h, l, b) /\ Valued(h, l, b, v)
  BY DEF GInv
<1>2. PICK v : Placed(h, l, b) /\ Valued(h, l, b, v)
  BY <1>1
<1>3. PICK m : m = [l EXCEPT ![call[t].side] = @ + call[t].n]
  BY Zenon
<1>4. m \in [Sides -> Nat] /\ Placed(h, m, b)'
  BY <1>2, <1>3, UpdateTailPlaced, ZenonT(40)
<1>5. Typed' /\ Valued(h, m, b, v)'
  <2>1. CASE call[t].side = "prod"
    BY <1>2, <1>3, <2>1, PublishValued, Zenon
  <2>2. CASE call[t].side = "cons"
    BY <1>2, <1>3, <2>2, TakenValued, ZenonT(40)
  <2>. QED BY <2>1, <2>2, CallTypes, ZenonT(40) DEF Sides
<1>. QED BY <1>4, <1>5, Found

LEMMA NextInv ==
  ASSUME Typed, GInv, [Next]_vars
  PROVE  Typed' /\ GInv'
<1>1. PICK h, l \in [Sides -> Nat], b \in [Threads -> Nat] : \E v : Placed(h, l, b) /\ Valued(h, l, b, v)
  BY DEF GInv
<1>2. PICK v : Placed(h, l, b) /\ Valued(h, l, b, v)
  BY <1>1
<1>3. ASSUME NEW t \in Threads, mp_enqueue_bulk(t) PROVE Typed' /\ GInv'
  <2>1. Placed(h, l, b)'
    BY <1>2, <1>3, QuietSteps, QuietPlaced
  <2>2. Typed' /\ Valued(h, l, b, v)'
    BY <1>2, <1>3, EnqueueStarts, ZenonT(40)
  <2>. QED BY <2>1, <2>2, Found
<1>4. ASSUME NEW t \in Threads, mc_dequeue_bulk(t) PROVE Typed' /\ GInv'
  <2>1. Placed(h, l, b)'
    BY <1>2, <1>4, QuietSteps, QuietPlaced, ZenonT(40)
  <2>2. Typed' /\ Valued(h, l, b, v)'
    BY <1>2, <1>4, DequeueStarts, ZenonT(40)
  <2>. QED BY <2>1, <2>2, Found
<1>5. ASSUME NEW t \in Threads, ReadHead(t) PROVE Typed' /\ GInv'
  <2>1. PICK c : c = [b EXCEPT ![t] = h[call[t].side]]
    BY Zenon
  <2>2. c \in [Threads -> Nat] /\ Placed(h, l, c)'
    BY <1>2, <1>5, <2>1, ReadHeadPlaced, Zenon
  <2>3. Typed' /\ Valued(h, l, c, v)'
    BY <1>2, <1>5, <2>1, ReadHeadValued, ZenonT(40)
  <2>. QED BY <2>2, <2>3, Found
<1>6. ASSUME NEW t \in Threads, ReadRoom(t) PROVE Typed' /\ GInv'
  <2>1. Placed(h, l, b)'
    <3>1. CASE pc'[t] = "move"
      BY <1>2, <1>6, <3>1, ReadRoomPlaced, ZenonT(40)
    <3>2. CASE pc'[t] # "move"
      BY <1>2, <1>6, <3>2, QuietSteps, QuietPlaced, ZenonT(40)
    <3>. QED BY <3>1, <3>2
  <2>2. Typed' /\ Valued(h, l, b, v)'
    BY <1>2, <1>6, ReadRoomValued
  <2>. QED BY <2>1, <2>2, Found
<1>7. ASSUME NEW t \in Threads, ENQUEUE_PTRS(t) PROVE Typed' /\ GInv'
  <2>1. Placed(h, l, b)'
    BY <1>2, <1>7, QuietSteps, QuietPlaced
  <2>2. Typed' /\ Valued(h, l, b, v)'
    BY <1>2, <1>7, EnqueueValued, ZenonT(40)
  <2>. QED BY <2>1, <2>2, Found
<1>8. ASSUME NEW t \in Threads, DEQUEUE_PTRS(t) PROVE Typed' /\ GInv'
  <2>1. Placed(h, l, b)'
    BY <1>2, <1>8, QuietSteps, QuietPlaced, ZenonT(40)
  <2>2. Typed' /\ Valued(h, l, b, v)'
    BY <1>2, <1>8, DequeueValued
  <2>. QED BY <2>1, <2>2, Found
<1>9. ASSUME NEW t \in Threads, Refused(t) PROVE Typed' /\ GInv'
  <2>1. Placed(h, l, b)'
    BY <1>2, <1>9, QuietSteps, QuietPlaced, ZenonT(40)
  <2>2. Typed' /\ Valued(h, l, b, v)'
    BY <1>2, <1>9, RefusedValued
  <2>. QED BY <2>1, <2>2, Found
<1>10. CASE UNCHANGED vars
  <2>1. Typed' /\ Placed(h, l, b)'
    BY <1>2, <1>10, ZenonT(40) DEF vars, Typed, Placed, Ordered, Located, Distinct, Tiled
  <2>2. Valued(h, l, b, v)'
    BY <1>2, <1>10, SameValues, Zenon
  <2>. QED BY <2>1, <2>2, Found
<1>. QED BY <1>3, <1>4, <1>5, <1>6, <1>7, <1>8, <1>9, <1>10, MoveHeadInv, UpdateTailInv, ZenonT(40) DEF Next, Step

\* Spec => [](Typed /\ GInv): what the calls of rte_ring.h in progress keep between
\* the heads and the tails, whatever the order of their steps.
THEOREM RingIsOrdered == Spec => [](Typed /\ GInv)
<1>1. Init => Typed /\ GInv
  BY InitInv
<1>2. Typed /\ GInv /\ [Next]_vars => (Typed /\ GInv)'
  BY NextInv
<1>. QED BY <1>1, <1>2, PTL DEF Spec
-----------------------------------------------------------------------------
(***************************************************************************)
(* Copies work on slots of their own.                                      *)
(***************************************************************************)
\* What consumers may come for is between the consumers' head and the producers' tail.
LEMMA PublishedIs ==
  ASSUME Typed, NEW h \in [Sides -> Nat], NEW l \in [Sides -> Nat], NEW b \in [Threads -> Nat], Placed(h, l, b),
         NEW k \in Nat, NEW p \in Nat, p = h["cons"], p + k = l["prod"]
  PROVE  /\ Minus(tail["prod"], head["cons"]) = k
         /\ \A i \in Nat : Slot(Plus(head["cons"], i)) = (p + i) % size
<1>1. PICK q, hp, lc \in Nat : q = l["prod"] /\ hp = h["prod"] /\ lc = l["cons"]
  BY Zenon DEF Sides
<1>2. lc <= p /\ p <= q /\ q <= hp /\ hp <= lc + capacity
  BY <1>1, Zenon DEF Placed, Ordered
<1>3. head["cons"] = p % UINT /\ tail["prod"] = q % UINT
  BY <1>1, ZenonT(40) DEF Placed, Ordered, Sides
<1>4. q - p \in 0 .. UINT - 1 /\ q - p = k
  BY <1>1, <1>2, Sizes
<1>5. Minus(q % UINT, p % UINT) = q - p
  BY <1>4, IndexMinus, Zenon
<1>6. ASSUME NEW i \in Nat PROVE Slot(Plus(p % UINT, i)) = (p + i) % size
  <2>1. p + i \in Nat
    OBVIOUS
  <2>2. Plus(p % UINT, i) = (p + i) % UINT
    BY IndexPlus, Zenon
  <2>. QED BY <2>1, <2>2, SlotOf, Zenon
<1>. QED BY <1>3, <1>4, <1>5, <1>6, Zenon

LEMMA ReservedAre ==
  ASSUME Typed, NEW h \in [Sides -> Nat], NEW l \in [Sides -> Nat], NEW b \in [Threads -> Nat], Placed(h, l, b),
         NEW t \in Threads, NEW s \in Reserved(t)
  PROVE  pc[t] = "copy" /\ \E x \in b[t] .. b[t] + call[t].n - 1 : s = x % size
<1>1. pc[t] = "copy"
  BY Zenon DEF Reserved
<1>2. PICK i \in 0 .. call[t].n - 1 : s = Slot(Plus(call[t].old_head, i))
  BY <1>1, Zenon DEF Reserved
<1>3. PICK y, n \in Nat : y = b[t] /\ n = call[t].n
  BY CallTypes, Zenon
<1>4. s = (y + i) % size
  BY <1>1, <1>2, <1>3, HereIs, ZenonT(40)
<1>5. y + i \in y .. y + n - 1
  BY <1>2, <1>3
<1>. QED BY <1>1, <1>3, <1>4, <1>5, ZenonT(40)

LEMMA ExclusiveIs == Typed /\ GInv => SlotExclusive
<1> SUFFICES ASSUME Typed, GInv PROVE SlotExclusive
  BY Zenon
<1>1. PICK h, l \in [Sides -> Nat], b \in [Threads -> Nat] : \E v : Placed(h, l, b) /\ Valued(h, l, b, v)
  BY Zenon DEF GInv
<1>2. Placed(h, l, b)
  BY <1>1, Zenon
<1>3. PICK hp, hc, lp, lc \in Nat : hp = h["prod"] /\ hc = h["cons"] /\ lp = l["prod"] /\ lc = l["cons"]
  BY Zenon DEF Sides
<1>4. lc <= hc /\ hc <= lp /\ lp <= hp
  BY <1>2, <1>3, Zenon DEF Placed, Ordered
<1>5. ASSUME NEW s \in Published PROVE \E x \in lc .. hp - 1 : hc <= x /\ x < lp /\ s = x % size
  <2>1. PICK k \in Nat : hc + k = lp
    <3>1. lp - hc \in Nat /\ hc + (lp - hc) = lp
      BY <1>4
    <3>. QED BY <3>1, Zenon
  <2>2. /\ Minus(tail["prod"], head["cons"]) = k
        /\ \A i \in Nat : Slot(Plus(head["cons"], i)) = (hc + i) % size
    BY <1>2, <1>3, <2>1, PublishedIs
  <2>3. PICK i \in 0 .. k - 1 : s = Slot(Plus(head["cons"], i))
    BY <2>2, ZenonT(40) DEF Published
  <2>4. s = (hc + i) % size
    BY <2>2, <2>3
  <2>5. hc + i \in lc .. hp - 1 /\ hc <= hc + i /\ hc + i < lp
    BY <1>4, <2>1
  <2>. QED BY <2>4, <2>5, ZenonT(40)
<1>6. ASSUME NEW t \in Threads, NEW s \in Reserved(t)
      PROVE  \E x \in lc .. hp - 1 :
               /\ pc[t] = "copy" /\ s = x % size /\ x \in b[t] .. b[t] + call[t].n - 1
               /\ call[t].side = "prod" => x >= lp
               /\ call[t].side = "cons" => x < hc /\ x < lp
  <2>1. PICK x \in b[t] .. b[t] + call[t].n - 1 : pc[t] = "copy" /\ s = x % size
    BY <1>2, ReservedAre
  <2>2. /\ x \in lc .. hp - 1
        /\ call[t].side = "prod" => x >= lp
        /\ call[t].side = "cons" => x < hc /\ x < lp
    BY <1>2, <1>3, <2>1, Window, ZenonT(40)
  <2>. QED BY <2>1, <2>2, ZenonT(40)
<1>7. \A x, y \in lc .. hp - 1 : x # y => x % size # y % size
  BY <1>2, <1>3, Window
<1>8. ASSUME NEW t \in Threads, NEW s \in Reserved(t), s \in Published PROVE FALSE
  <2>1. PICK x \in lc .. hp - 1 : /\ s = x % size
                                  /\ call[t].side = "prod" => x >= lp
                                  /\ call[t].side = "cons" => x < hc
    BY <1>6, Zenon
  <2>2. PICK y \in lc .. hp - 1 : hc <= y /\ y < lp /\ s = y % size
    BY <1>5, <1>8, Zenon
  <2>3. x = y
    BY <1>7, <2>1, <2>2, ZenonT(40)
  <2>4. call[t].side = "prod" \/ call[t].side = "cons"
    BY CallTypes, ZenonT(40) DEF Sides
  <2>. QED BY <2>1, <2>2, <2>3, <2>4
<1>9. ASSUME NEW t \in Threads, NEW u \in Threads, t # u, NEW s \in Reserved(t), s \in Reserved(u) PROVE FALSE
  <2>1. PICK x \in lc .. hp - 1 : /\ pc[t] = "copy" /\ s = x % size /\ x \in b[t] .. b[t] + call[t].n - 1
                                  /\ call[t].side = "prod" => x >= lp
                                  /\ call[t].side = "cons" => x < lp
    BY <1>6, ZenonT(40)
  <2>2. PICK y \in lc .. hp - 1 : /\ pc[u] = "copy" /\ s = y % size /\ y \in b[u] .. b[u] + call[u].n - 1
                                  /\ call[u].side = "prod" => y >= lp
                                  /\ call[u].side = "cons" => y < lp
    BY <1>6, <1>9, Zenon
  <2>3. x = y
    BY <1>7, <2>1, <2>2, ZenonT(40)
  <2>4. call[t].side \in Sides /\ call[u].side \in Sides
    BY CallTypes, ZenonT(40)
  <2>5. call[t].side = call[u].side
    BY <2>1, <2>2, <2>3, <2>4, SMTT(30) DEF Sides
  <2>6. b[t] + call[t].n <= b[u] \/ b[u] + call[u].n <= b[t]
    BY <1>2, <1>9, <2>1, <2>2, <2>5, ZenonT(40) DEF Placed, Distinct
  <2>7. PICK p, q, m, n \in Nat : p = b[t] /\ q = b[u] /\ m = call[t].n /\ n = call[u].n
    BY CallTypes, Zenon
  <2>. QED BY <2>1, <2>2, <2>3, <2>6, <2>7
<1>. QED BY <1>8, <1>9, Zenon DEF SlotExclusive

\* The copies of rte_ring.h's calls in progress work on slots of their own, and on
\* none that a consumer may come for.
THEOREM SlotsAreExclusive == Spec => []SlotExclusive
BY RingIsOrdered, ExclusiveIs, PTL

-----------------------------------------------------------------------------
(***************************************************************************)
(* The ring is a bounded queue.                                            *)
(***************************************************************************)
\* What a call has reserved, and what is to be dequeued.
Reaches(b, v, t) == IF pc[t] = "copy" THEN {v[x] : x \in b[t] .. b[t] + call[t].n - 1} ELSE {}
Queue(h, l, v) == [i \in 1 .. l["prod"] - h["cons"] |-> v[h["cons"] + i - 1]]

LEMMA ContentsAre ==
  ASSUME Typed, NEW h \in [Sides -> Nat], NEW l \in [Sides -> Nat], NEW b \in [Threads -> Nat], Placed(h, l, b),
         NEW v, Valued(h, l, b, v)
  PROVE  Contents = Queue(h, l, v)
<1>1. PICK hp, hc, lp, lc \in Nat : hp = h["prod"] /\ hc = h["cons"] /\ lp = l["prod"] /\ lc = l["cons"]
  BY Zenon DEF Sides
<1>2. lc <= hc /\ hc <= lp /\ lp <= hp
  BY <1>1, Zenon DEF Placed, Ordered
<1>3. PICK k \in Nat : hc + k = lp /\ k = lp - hc
  <2>1. lp - hc \in Nat /\ hc + (lp - hc) = lp
    BY <1>2
  <2>. QED BY <2>1, Zenon
<1>4. /\ Minus(tail["prod"], head["cons"]) = k
      /\ \A i \in Nat : Slot(Plus(head["cons"], i)) = (hc + i) % size
  BY <1>1, <1>3, PublishedIs
<1>5. ASSUME NEW i \in 1 .. k PROVE ring[Slot(Plus(head["cons"], i - 1))] = v[hc + i - 1]
  <2>1. i - 1 \in Nat /\ hc + (i - 1) \in lc .. lp - 1 /\ hc + (i - 1) = hc + i - 1
    BY <1>2, <1>3
  <2>2. ring[(hc + (i - 1)) % size] = v[hc + (i - 1)]
    BY <1>1, <2>1, ZenonT(40) DEF Valued
  <2>. QED BY <1>4, <2>1, <2>2, ZenonT(40)
<1>. QED BY <1>1, <1>3, <1>4, <1>5, ZenonT(40) DEF Contents, Queue

LEMMA OwnedAre ==
  ASSUME Typed, NEW h \in [Sides -> Nat], NEW l \in [Sides -> Nat], NEW b \in [Threads -> Nat], Placed(h, l, b),
         NEW v, Valued(h, l, b, v), NEW t \in Threads
  PROVE  Owned(t) = Mine(t) \cup Reaches(b, v, t)
<1>1. Table(b, v, t)
  BY TableOf, Zenon
<1>2. CASE pc[t] # "copy"
  <2>1. pc[t] \in Calling \cup {"idle", "refused"}
    BY <1>2, Zenon DEF Typed
  <2>2. pc[t] \notin Calling => Range(call[t].obj_table) \subseteq held[t]
    BY <1>1, <2>1, EmptyRange, Zenon DEF Table, Tabled
  <2>. QED BY <1>2, <2>2, Zenon DEF Owned, Mine, Reaches
<1>3. CASE pc[t] = "copy"
  <2>1. PICK y, n, c \in Nat : y = b[t] /\ n = call[t].n /\ c = call[t].copied
    BY CallTypes, Zenon
  <2>2. PICK tab \in Seq(Objects) : tab = call[t].obj_table
    BY CallTypes, Zenon
  <2>3. /\ c <= n /\ Len(tab) = IF call[t].side = "prod" THEN n ELSE c
        /\ \A i \in 1 .. Len(tab) : tab[i] = v[y + i - 1]
    BY <1>1, <1>3, <2>1, <2>2, ZenonT(40) DEF Table, Tabled
  <2>4. Len(tab) \in Nat /\ Len(tab) <= n /\ DOMAIN tab = 1 .. Len(tab)
    BY <2>3
  <2>5. \A o : o \in Range(tab) <=> \E i \in 1 .. Len(tab) : o = v[y + i - 1]
    <3>1. \A o : o \in Range(tab) <=> \E i \in 1 .. Len(tab) : o = tab[i]
      BY <2>4, Zenon DEF Range
    <3>. QED BY <2>3, <3>1, ZenonT(40)
  <2>6. \A o : o \in Range(tab) <=> \E x \in y .. y + Len(tab) - 1 : o = v[x]
    <3>1. ASSUME NEW o, NEW i \in 1 .. Len(tab), o = v[y + i - 1] PROVE \E x \in y .. y + Len(tab) - 1 : o = v[x]
      <4>1. y + i - 1 \in y .. y + Len(tab) - 1
        BY <2>4
      <4>. QED BY <3>1, <4>1, Zenon
    <3>2. ASSUME NEW o, NEW x \in y .. y + Len(tab) - 1, o = v[x] PROVE \E i \in 1 .. Len(tab) : o = v[y + i - 1]
      <4>1. x - y + 1 \in 1 .. Len(tab) /\ y + (x - y + 1) - 1 = x
        BY <2>4
      <4>. QED BY <3>2, <4>1, Zenon
    <3>. QED BY <2>5, <3>1, <3>2, Zenon
  <2>7. Mine(t) = held[t] /\ Reaches(b, v, t) = {v[x] : x \in y .. y + n - 1}
    BY <1>3, <2>1, Zenon DEF Mine, Calling, Reaches
  <2>8. CASE call[t].side = "prod"
    <3>1. Owned(t) = held[t] \cup Range(tab)
      BY <2>2, <2>8, Zenon DEF Owned
    <3>2. Range(tab) = {v[x] : x \in y .. y + n - 1}
      BY <2>3, <2>6, <2>8, Zenon
    <3>. QED BY <2>7, <3>1, <3>2, Zenon
  <2>9. CASE call[t].side = "cons"
    <3>1. PICK R : R = {ring[Slot(Plus(call[t].old_head, i))] : i \in c .. n - 1}
      BY Zenon
    <3>2. Owned(t) = held[t] \cup (Range(tab) \cup R)
      BY <1>3, <2>1, <2>2, <2>9, <3>1, ZenonT(40) DEF Owned
    <3>3. ASSUME NEW i \in c .. n - 1 PROVE ring[Slot(Plus(call[t].old_head, i))] = v[y + i]
      <4>1. i \in 0 .. n - 1 /\ y + i \in y .. y + n - 1
        OBVIOUS
      <4>2. Slot(Plus(call[t].old_head, i)) = (y + i) % size
        BY <1>3, <2>1, <4>1, HereIs, ZenonT(40)
      <4>3. y + i \in l["cons"] .. h["prod"] - 1 /\ y + i < l["prod"]
        BY <1>3, <2>1, <2>9, <4>1, Window, ZenonT(40)
      <4>4. y + i \in l["cons"] .. l["prod"] - 1
        <5>1. PICK lp, lc \in Nat : lp = l["prod"] /\ lc = l["cons"]
          BY Zenon DEF Sides
        <5>. QED BY <4>3, <5>1
      <4>. QED BY <4>2, <4>4, ZenonT(40) DEF Valued
    <3>4. \A o : o \in R <=> \E x \in y + c .. y + n - 1 : o = v[x]
      <4>1. \A o : o \in R <=> \E i \in c .. n - 1 : o = v[y + i]
        BY <3>1, <3>3, Zenon
      <4>2. ASSUME NEW o, NEW i \in c .. n - 1, o = v[y + i] PROVE \E x \in y + c .. y + n - 1 : o = v[x]
        <5>1. y + i \in y + c .. y + n - 1
          OBVIOUS
        <5>. QED BY <4>2, <5>1, ZenonT(40)
      <4>3. ASSUME NEW o, NEW x \in y + c .. y + n - 1, o = v[x] PROVE \E i \in c .. n - 1 : o = v[y + i]
        <5>1. x - y \in c .. n - 1 /\ y + (x - y) = x
          OBVIOUS
        <5>. QED BY <4>3, <5>1, ZenonT(40)
      <4>. QED BY <4>1, <4>2, <4>3, Zenon
    <3>5. Len(tab) = c /\ \A x : x \in y .. y + n - 1 <=> x \in y .. y + c - 1 \/ x \in y + c .. y + n - 1
      BY <2>3, <2>9
    <3>6. \A o : o \in Range(tab) \cup R <=> \E x \in y .. y + n - 1 : o = v[x]
      BY <2>6, <3>4, <3>5, ZenonT(40)
    <3>. QED BY <2>7, <3>2, <3>6, ZenonT(40)
  <2>. QED BY <2>8, <2>9, CallTypes, Zenon DEF Sides
<1>. QED BY <1>2, <1>3, Zenon

\* What the abstract queue sees of a state.
Seen(h, l, b, v) ==
  /\ Contents = Queue(h, l, v)
  /\ \A t \in Threads : Owned(t) = Mine(t) \cup Reaches(b, v, t)

LEMMA SeenIs ==
  ASSUME Typed, NEW h \in [Sides -> Nat], NEW l \in [Sides -> Nat], NEW b \in [Threads -> Nat], Placed(h, l, b),
         NEW v, Valued(h, l, b, v)
  PROVE  Seen(h, l, b, v)
BY ContentsAre, OwnedAre DEF Seen

AllSeen ==
  \A h, l \in [Sides -> Nat], b \in [Threads -> Nat] : \A v :
    Typed /\ Placed(h, l, b) /\ Valued(h, l, b, v) => Seen(h, l, b, v)

LEMMA AlwaysSeen == AllSeen
BY SeenIs, Zenon DEF AllSeen

LEMMA SeenIsNext ==
  ASSUME Typed', NEW h \in [Sides -> Nat], NEW l \in [Sides -> Nat], NEW b \in [Threads -> Nat], Placed(h, l, b)',
         NEW v, Valued(h, l, b, v)'
  PROVE  Seen(h, l, b, v)'
<1>1. AllSeen'
  BY AlwaysSeen, PTL
<1>. QED BY <1>1, Zenon DEF AllSeen

LEMMA Unseen ==
  ASSUME NEW h, NEW l, NEW b, NEW v, Seen(h, l, b, v), NEW g, NEW m, NEW c, NEW w, Seen(g, m, c, w)',
         Queue(g, m, w) = Queue(h, l, v),
         \A u \in Threads : Mine(u)' \cup Reaches(c, w, u)' = Mine(u) \cup Reaches(b, v, u)
  PROVE  UNCHANGED Abstract!vars
<1>1. Contents' = Contents
  BY Zenon DEF Seen
<1>2. \A u \in Threads : Owned(u)' = Owned(u)
  BY Zenon DEF Seen
<1>. QED BY <1>1, <1>2, Zenon DEF Abstract!vars

\* A step of a call that has not moved the head, or copies.
LEMMA StepsUnseen ==
  ASSUME Typed, Typed', NEW t \in Threads, Others(t), Mine(t)' = Mine(t),
         NEW h \in [Sides -> Nat], NEW l \in [Sides -> Nat], NEW b \in [Threads -> Nat], Placed(h, l, b),
         NEW v, Valued(h, l, b, v),
         NEW c \in [Threads -> Nat], Placed(h, l, c)', Valued(h, l, c, v)',
         \A u \in Threads : u # t => c[u] = b[u],
         \/ pc[t] # "copy" /\ pc'[t] # "copy"
         \/ pc[t] = "copy" /\ pc'[t] = "copy" /\ call'[t].n = call[t].n /\ c[t] = b[t]
  PROVE  UNCHANGED Abstract!vars
<1>1. Seen(h, l, b, v) /\ Seen(h, l, c, v)'
  BY SeenIs, SeenIsNext, Zenon
<1>2. \A u \in Threads : u # t => Mine(u)' = Mine(u) /\ Reaches(c, v, u)' = Reaches(b, v, u)
  BY Zenon DEF Others, Mine, Reaches
<1>3. Reaches(c, v, t)' = Reaches(b, v, t)
  BY Zenon DEF Reaches
<1>4. \A u \in Threads : Mine(u)' \cup Reaches(c, v, u)' = Mine(u) \cup Reaches(b, v, u)
  BY <1>2, <1>3, Zenon
<1>. QED BY <1>1, <1>4, Unseen, ZenonT(40)

LEMMA TakenUnseen ==
  ASSUME Typed, NEW t \in Threads, update_tail(t), call[t].side = "cons",
         NEW h \in [Sides -> Nat], NEW l \in [Sides -> Nat], NEW b \in [Threads -> Nat], Placed(h, l, b),
         NEW v, Valued(h, l, b, v)
  PROVE  UNCHANGED Abstract!vars
<1>1. PICK m : m = [l EXCEPT ![call[t].side] = @ + call[t].n]
  BY Zenon
<1>2. m \in [Sides -> Nat] /\ Placed(h, m, b)'
  BY <1>1, UpdateTailPlaced, ZenonT(40)
<1>3. Typed' /\ Valued(h, m, b, v)' /\ Mine(t)' = Mine(t) \cup Range(call[t].obj_table)
  BY <1>1, TakenValued, Zenon
<1>4. Seen(h, l, b, v) /\ Seen(h, m, b, v)'
  BY <1>2, <1>3, SeenIs, SeenIsNext, ZenonT(40)
<1>5. m["prod"] = l["prod"]
  BY <1>1, Zenon DEF Sides
<1>6. Queue(h, m, v) = Queue(h, l, v)
  BY <1>5, Zenon DEF Queue
<1>7. \A u \in Threads : u # t => Mine(u)' = Mine(u) /\ Reaches(b, v, u)' = Reaches(b, v, u)
  BY ReturnedIs, OtherThread, ZenonT(40) DEF Mine, Reaches
<1>8. Reaches(b, v, t)' = {}
  BY ReturnedIs, ZenonT(40) DEF Reaches, update_tail, Typed
<1>9. Mine(t) \cup Range(call[t].obj_table) = Mine(t) \cup Reaches(b, v, t)
  <2>1. Owned(t) = Mine(t) \cup Reaches(b, v, t)
    BY <1>4, Zenon DEF Seen
  <2>2. PICK n \in Nat : n = call[t].n /\ n = call[t].copied
    BY ReturnedIs, CallTypes, Zenon
  <2>3. n .. n - 1 = {}
    BY NoNumbers, Zenon
  <2>4. Owned(t) = held[t] \cup Range(call[t].obj_table)
    BY <2>2, <2>3, ReturnedIs, ZenonT(40) DEF Owned
  <2>. QED BY <2>1, <2>4, ReturnedIs, ZenonT(40)
<1>10. \A u \in Threads : Mine(u)' \cup Reaches(b, v, u)' = Mine(u) \cup Reaches(b, v, u)
  BY <1>3, <1>7, <1>8, <1>9, ZenonT(40)
<1>11. Contents' = Contents
  BY <1>4, <1>6, Zenon DEF Seen
<1>12. \A u \in Threads : Owned(u)' = Owned(u)
  BY <1>4, <1>10, Zenon DEF Seen
<1>. QED BY <1>11, <1>12, ZenonT(40) DEF Abstract!vars

LEMMA PutUnseen ==
  ASSUME Typed, NEW t \in Threads, MoveHead(t), Cmpset(t), call[t].side = "prod",
         NEW h \in [Sides -> Nat], NEW l \in [Sides -> Nat], NEW b \in [Threads -> Nat], Placed(h, l, b),
         NEW v, Valued(h, l, b, v)
  PROVE  UNCHANGED Abstract!vars
<1>1. PICK g : g = [h EXCEPT ![call[t].side] = @ + call[t].n]
  BY Zenon
<1>2. PICK w : Longer(w, v, h["prod"], call[t].obj_table)
  BY Zenon DEF Longer
<1>3. g \in [Sides -> Nat] /\ Placed(g, l, b)'
  BY <1>1, MoveHeadPlaced, ZenonT(40)
<1>4. /\ Typed' /\ Valued(g, l, b, w)'
      /\ Mine(t)' = held[t] /\ Mine(t) = held[t] \cup Range(call[t].obj_table)
  BY <1>1, <1>2, PutValued, Zenon
<1>5. Seen(h, l, b, v) /\ Seen(g, l, b, w)'
  BY <1>3, <1>4, SeenIs, SeenIsNext, ZenonT(40)
<1>6. PICK hp, hc, lp, lc, n \in Nat : /\ hp = h["prod"] /\ hc = h["cons"] /\ lp = l["prod"] /\ lc = l["cons"]
                                       /\ n = call[t].n
  BY CallTypes, Zenon DEF Sides
<1>7. lc <= hc /\ hc <= lp /\ lp <= hp /\ g["cons"] = hc
  BY <1>1, <1>6, Zenon DEF Placed, Ordered, Sides
<1>8. \A x \in Nat : (x < hp => w[x] = v[x]) /\ (~(x < hp) => w[x] = call[t].obj_table[x - hp + 1])
  BY <1>2, <1>6, ZenonT(40) DEF Longer
<1>9. Queue(g, l, w) = Queue(h, l, v)
  <2>1. ASSUME NEW i \in 1 .. lp - hc PROVE w[hc + i - 1] = v[hc + i - 1]
    <3>1. hc + i - 1 \in Nat /\ hc + i - 1 < hp
      BY <1>7, Before, Zenon
    <3>. QED BY <1>8, <3>1, Zenon
  <2>. QED BY <1>6, <1>7, <2>1, Zenon DEF Queue
<1>10. /\ Others(t) /\ pc[t] = "move" /\ pc'[t] = "copy" /\ call' = call /\ b[t] = hp
  <2>1. Others(t)
    BY OthersStay, Zenon DEF Step
  <2>2. pc[t] = "move" /\ pc'[t] = "copy" /\ call' = call
    BY Zenon DEF MoveHead, Typed
  <2>3. b[t] = hp
    BY <1>6, <2>2, CmpsetIs, ZenonT(40)
  <2>. QED BY <2>1, <2>2, <2>3, Zenon
<1>11. ASSUME NEW u \in Threads, u # t PROVE Mine(u)' = Mine(u) /\ Reaches(b, w, u)' = Reaches(b, v, u)
  <2>1. pc'[u] = pc[u] /\ call'[u] = call[u] /\ held'[u] = held[u]
    BY <1>10, <1>11, Zenon DEF Others
  <2>2. pc[u] = "copy" => \A x \in b[u] .. b[u] + call[u].n - 1 : w[x] = v[x]
    <3> SUFFICES ASSUME pc[u] = "copy", NEW x \in b[u] .. b[u] + call[u].n - 1 PROVE w[x] = v[x]
      BY Zenon
    <3>1. x \in lc .. hp - 1
      BY <1>6, Window, ZenonT(40)
    <3>2. x \in Nat /\ x < hp
      BY <3>1
    <3>. QED BY <1>8, <3>2, ZenonT(40)
  <2>. QED BY <2>1, <2>2, Zenon DEF Mine, Reaches
<1>12. Reaches(b, v, t) = {} /\ Reaches(b, w, t)' = {w[x] : x \in hp .. hp + n - 1}
  BY <1>6, <1>10, ZenonT(40) DEF Reaches
<1>13. \A o : o \in Range(call[t].obj_table) <=> \E x \in hp .. hp + n - 1 : o = w[x]
  <2>1. PICK tab \in Seq(Objects) : tab = call[t].obj_table
    BY CallTypes, ZenonT(40)
  <2>2. Len(tab) = n /\ DOMAIN tab = 1 .. n
    <3>1. Table(b, v, t)
      BY TableOf, Zenon
    <3>2. Len(tab) = n
      BY <1>6, <1>10, <2>1, <3>1, ZenonT(40) DEF Table, Tabled, Calling
    <3>. QED BY <3>2
  <2>3. \A o : o \in Range(tab) <=> \E i \in 1 .. n : o = tab[i]
    BY <2>2, Zenon DEF Range
  <2>4. ASSUME NEW i \in 1 .. n PROVE hp + i - 1 \in hp .. hp + n - 1 /\ w[hp + i - 1] = tab[i]
    <3>1. hp + i - 1 \in Nat /\ ~(hp + i - 1 < hp) /\ (hp + i - 1) - hp + 1 = i /\ hp + i - 1 \in hp .. hp + n - 1
      OBVIOUS
    <3>. QED BY <1>8, <2>1, <3>1, ZenonT(40)
  <2>5. ASSUME NEW x \in hp .. hp + n - 1 PROVE x - hp + 1 \in 1 .. n /\ w[x] = tab[x - hp + 1]
    <3>1. x \in Nat /\ ~(x < hp) /\ x - hp + 1 \in 1 .. n
      OBVIOUS
    <3>. QED BY <1>8, <2>1, <3>1, ZenonT(40)
  <2>6. ASSUME NEW o, NEW i \in 1 .. n, o = tab[i] PROVE \E x \in hp .. hp + n - 1 : o = w[x]
    BY <2>4, <2>6, Zenon
  <2>7. ASSUME NEW o, NEW x \in hp .. hp + n - 1, o = w[x] PROVE \E i \in 1 .. n : o = tab[i]
    BY <2>5, <2>7, Zenon
  <2>8. \A o : (\E i \in 1 .. n : o = tab[i]) <=> (\E x \in hp .. hp + n - 1 : o = w[x])
    BY ONLY <2>6, <2>7, Zenon
  <2>9. Range(tab) = Range(call[t].obj_table)
    BY <2>1, Zenon
  <2>. QED BY ONLY <2>3, <2>8, <2>9, ZenonT(40)
<1>14. Mine(t)' \cup Reaches(b, w, t)' = Mine(t) \cup Reaches(b, v, t)
  <2>1. {w[x] : x \in hp .. hp + n - 1} = Range(call[t].obj_table)
    BY <1>13, Zenon
  <2>. QED BY <1>4, <1>12, <2>1, ZenonT(40)
<1>15. \A u \in Threads : Mine(u)' \cup Reaches(b, w, u)' = Mine(u) \cup Reaches(b, v, u)
  BY <1>11, <1>14, Zenon
<1>16. Contents' = Contents
  BY <1>5, <1>9, Zenon DEF Seen
<1>17. \A u \in Threads : Owned(u)' = Owned(u)
  BY <1>5, <1>15, Zenon DEF Seen
<1>. QED BY <1>16, <1>17, Zenon DEF Abstract!vars

LEMMA SameTerms == \A f : Abstract!Range(f) = Range(f) /\ (Abstract!IsInjective(f) <=> IsInjective(f))
BY ZenonT(40) DEF Abstract!Range, Range, Abstract!IsInjective, IsInjective

\* z is x, then y.
Joined(z, x, y) == /\ Len(z) = Len(x) + Len(y)
                   /\ \A i \in 1 .. Len(x) : z[i] = x[i]
                   /\ \A j \in 1 .. Len(y) : z[Len(x) + j] = y[j]

LEMMA ConcatJoins ==
  ASSUME NEW M, NEW x \in Seq(M), NEW y \in Seq(M)
  PROVE  Joined(x \o y, x, y)
BY DEF Joined

LEMMA SubSeqIs ==
  ASSUME NEW M, NEW x \in Seq(M), NEW k \in 0 .. Len(x)
  PROVE  /\ SubSeq(x, k + 1, Len(x)) \in Seq(M) /\ Len(SubSeq(x, k + 1, Len(x))) = Len(x) - k
         /\ \A i \in 1 .. Len(x) - k : SubSeq(x, k + 1, Len(x))[i] = x[i + k]
OBVIOUS

\* q is the k objects put from position p on.
From(q, v, p, k) == q \in Seq(Objects) /\ Len(q) = k /\ \A i \in 1 .. k : q[i] = v[p + i - 1]

LEMMA QueueIs ==
  ASSUME Typed, NEW h \in [Sides -> Nat], NEW l \in [Sides -> Nat], NEW b \in [Threads -> Nat], Placed(h, l, b),
         NEW v, Valued(h, l, b, v)
  PROVE  \A k, p \in Nat : p = h["cons"] /\ p + k = l["prod"] => From(Queue(h, l, v), v, p, k)
<1> SUFFICES ASSUME NEW k \in Nat, NEW p \in Nat, p = h["cons"], p + k = l["prod"]
             PROVE  From(Queue(h, l, v), v, p, k)
  BY Zenon
<1>1. PICK hp, lp, lc \in Nat : hp = h["prod"] /\ lp = l["prod"] /\ lc = l["cons"]
  BY Zenon DEF Sides
<1>2. lc <= p /\ lp <= hp /\ p + k = lp
  BY <1>1, Zenon DEF Placed, Ordered
<1>3. \A i \in 1 .. k : v[p + i - 1] \in Objects
  <2>1. ASSUME NEW i \in 1 .. k PROVE v[p + i - 1] \in Objects
    <3>1. p + i - 1 \in lc .. hp - 1
      BY <1>2
    <3>. QED BY <1>1, <3>1, ZenonT(40) DEF Valued
  <2>. QED BY <2>1, Zenon
<1>4. Queue(h, l, v) = [i \in 1 .. k |-> v[p + i - 1]]
  BY <1>1, <1>2 DEF Queue
<1>. QED BY <1>3, <1>4 DEF From

LEMMA DequeueSeen ==
  ASSUME Typed, NEW t \in Threads, MoveHead(t), Cmpset(t), call[t].side = "cons",
         NEW h \in [Sides -> Nat], NEW l \in [Sides -> Nat], NEW b \in [Threads -> Nat], Placed(h, l, b),
         NEW v, Valued(h, l, b, v)
  PROVE  Abstract!Next
<1>1. PICK g : g = [h EXCEPT ![call[t].side] = @ + call[t].n]
  BY Zenon
<1>3. g \in [Sides -> Nat] /\ Placed(g, l, b)'
  BY <1>1, MoveHeadPlaced, Zenon
<1>4. Typed' /\ Valued(g, l, b, v)' /\ Mine(t)' = Mine(t)
  BY <1>1, TakeValued, Zenon
<1>5. Seen(h, l, b, v) /\ Seen(g, l, b, v)'
  BY <1>3, <1>4, SeenIs, SeenIsNext, ZenonT(40)
<1>6. PICK hc, lp, n \in Nat : hc = h["cons"] /\ lp = l["prod"] /\ n = call[t].n
  BY CallTypes, Zenon DEF Sides
<1>7. /\ Others(t) /\ pc[t] = "move" /\ pc'[t] = "copy" /\ call' = call /\ b[t] = hc /\ hc + n <= lp /\ n \in Bulks
  <2>1. Others(t)
    BY OthersStay, Zenon DEF Step
  <2>2. pc[t] = "move" /\ pc'[t] = "copy" /\ call' = call
    BY ZenonT(40) DEF MoveHead, Typed
  <2>3. b[t] = hc /\ hc + n <= lp
    BY <1>6, <2>2, CmpsetIs DEF Fits
  <2>4. n \in Bulks
    BY <1>6, <2>2, CallTypes, Zenon DEF Calling
  <2>. QED BY <2>1, <2>2, <2>3, <2>4, ZenonT(40)
<1>8. PICK k \in Nat : hc + n + k = lp
  <2>1. lp - hc - n \in Nat /\ hc + n + (lp - hc - n) = lp
    BY <1>7
  <2>. QED BY <2>1, ZenonT(40)
<1>9. PICK q : q = Contents
  BY Zenon
<1>10. q \in Seq(Objects) /\ Len(q) = n + k /\ \A i \in 1 .. n + k : q[i] = v[hc + i - 1]
  <2>1. n + k \in Nat /\ hc + (n + k) = lp /\ q = Queue(h, l, v)
    BY <1>5, <1>8, <1>9 DEF Seen
  <2>2. From(q, v, hc, n + k)
    BY <1>6, <2>1, QueueIs, Zenon
  <2>. QED BY <2>2, ZenonT(40) DEF From
<1>11. Contents' = SubSeq(q, n + 1, Len(q))
  <2>1. g["cons"] = hc + n /\ Contents' = Queue(g, l, v)
    BY <1>1, <1>5, <1>6, Zenon DEF Seen, Sides
  <2>2. Queue(g, l, v) = [i \in 1 .. k |-> v[hc + n + i - 1]]
    <3>1. lp - (hc + n) = k
      BY <1>8
    <3>. QED BY <1>6, <2>1, <3>1, ZenonT(40) DEF Queue
  <2>3. n \in 0 .. Len(q)
    BY <1>10
  <2>4. PICK r : r = SubSeq(q, n + 1, Len(q))
    BY ZenonT(40)
  <2>5. r \in Seq(Objects) /\ Len(r) = k /\ \A i \in 1 .. k : r[i] = q[i + n]
    BY <1>10, <2>3, <2>4, SubSeqIs
  <2>6. \A i \in 1 .. k : q[i + n] = v[hc + n + i - 1]
    <3>1. ASSUME NEW i \in 1 .. k PROVE q[i + n] = v[hc + n + i - 1]
      <4>1. i + n \in 1 .. n + k /\ hc + (i + n) - 1 = hc + n + i - 1
        OBVIOUS
      <4>2. q[i + n] = v[hc + (i + n) - 1]
        BY <1>10, <4>1, ZenonT(40)
      <4>. QED BY <4>1, <4>2, ZenonT(40)
    <3>. QED BY <3>1, Zenon
  <2>7. r = [i \in 1 .. k |-> v[hc + n + i - 1]]
    <3>1. hc + n \in Nat /\ k \in Nat
      OBVIOUS
    <3>2. r \in Seq(Objects) /\ Len(r) = k /\ \A i \in 1 .. k : r[i] = v[hc + n + i - 1]
      BY <2>5, <2>6, Zenon
    <3>. QED BY ONLY <3>1, <3>2, SameEntries
  <2>. QED BY <2>1, <2>2, <2>4, <2>7, ZenonT(40)
<1>12. Range(SubSeq(q, 1, n)) = {v[x] : x \in hc .. hc + n - 1}
  <2>1. PICK r : r = SubSeq(q, 1, n)
    BY Zenon
  <2>2. Len(r) = n /\ DOMAIN r = 1 .. n /\ \A i \in 1 .. n : r[i] = v[hc + i - 1]
    <3>1. Len(r) = n /\ DOMAIN r = 1 .. n /\ \A i \in 1 .. n : r[i] = q[i]
      BY <1>10, <2>1
    <3>2. \A i \in 1 .. n : i \in 1 .. n + k
      OBVIOUS
    <3>. QED BY <1>10, <3>1, <3>2, ZenonT(40)
  <2>3. \A o : o \in Range(r) <=> \E i \in 1 .. n : o = v[hc + i - 1]
    BY <2>2, ZenonT(40) DEF Range
  <2>4. ASSUME NEW i \in 1 .. n PROVE hc + i - 1 \in hc .. hc + n - 1
    OBVIOUS
  <2>5. ASSUME NEW x \in hc .. hc + n - 1 PROVE \E i \in 1 .. n : x = hc + i - 1
    <3>1. x - hc + 1 \in 1 .. n /\ x = hc + (x - hc + 1) - 1
      OBVIOUS
    <3>. QED BY <3>1, ZenonT(40)
  <2>. QED BY <2>1, <2>3, <2>4, <2>5, ZenonT(40)
<1>13. \A u \in Threads : u # t => Owned(u)' = Owned(u)
  <2>1. \A u \in Threads : u # t => Mine(u)' = Mine(u) /\ Reaches(b, v, u)' = Reaches(b, v, u)
    BY <1>7, Zenon DEF Others, Mine, Reaches
  <2>. QED BY <1>5, <2>1, ZenonT(40) DEF Seen
<1>14. Owned(t)' = Owned(t) \cup Range(SubSeq(q, 1, n))
  <2>1. Reaches(b, v, t) = {} /\ Reaches(b, v, t)' = {v[x] : x \in hc .. hc + n - 1}
    BY <1>6, <1>7, ZenonT(40) DEF Reaches
  <2>2. Owned(t)' = Mine(t)' \cup Reaches(b, v, t)' /\ Owned(t) = Mine(t) \cup Reaches(b, v, t)
    BY <1>5, Zenon DEF Seen
  <2>. QED BY <1>4, <1>12, <2>1, <2>2, ZenonT(40)
<1>15. Abstract!Dequeue(t, n)
  <2>1. n <= Len(q)
    BY <1>10
  <2>2. [u \in Threads |-> Owned(u)]' =
          [[u \in Threads |-> Owned(u)] EXCEPT ![t] = @ \cup Range(SubSeq(q, 1, n))]
    BY <1>13, <1>14, Zenon
  <2>. QED BY <1>9, <1>11, <2>1, <2>2, SameTerms, ZenonT(40) DEF Abstract!Dequeue
<1>. QED BY <1>7, <1>15, Zenon DEF Abstract!Next

LEMMA EnqueueSeen ==
  ASSUME Typed, NEW t \in Threads, update_tail(t), call[t].side = "prod",
         NEW h \in [Sides -> Nat], NEW l \in [Sides -> Nat], NEW b \in [Threads -> Nat], Placed(h, l, b),
         NEW v, Valued(h, l, b, v)
  PROVE  Abstract!Next
<1>1. PICK m : m = [l EXCEPT ![call[t].side] = @ + call[t].n]
  BY Zenon
<1>2. m \in [Sides -> Nat] /\ Placed(h, m, b)'
  BY <1>1, UpdateTailPlaced, Zenon
<1>3. Typed' /\ Valued(h, m, b, v)' /\ Mine(t)' = Mine(t)
  BY <1>1, PublishValued, Zenon
<1>4. Seen(h, l, b, v) /\ Seen(h, m, b, v)'
  BY <1>2, <1>3, SeenIs, SeenIsNext, ZenonT(40)
<1>5. PICK hp, hc, lp, lc, n \in Nat : /\ hp = h["prod"] /\ hc = h["cons"] /\ lp = l["prod"] /\ lc = l["cons"]
                                       /\ n = call[t].n
  BY CallTypes, Zenon DEF Sides
<1>6. lc <= hc /\ hc <= lp /\ lp <= hp /\ hp <= lc + capacity
  BY <1>5, Zenon DEF Placed, Ordered
<1>7. /\ pc[t] = "copy" /\ pc'[t] # "copy" /\ b[t] = lp /\ lp + n <= hp /\ n \in Bulks
      /\ Others(t) /\ Mine(t) = held[t] /\ Mine(t)' = Mine(t)
  <2>1. pc[t] = "copy" /\ pc'[t] # "copy"
    BY Zenon DEF update_tail, Typed
  <2>2. b[t] = lp
    <3>1. MyTurn(t)
      BY ReturnedIs, ZenonT(40)
    <3>2. b[t] = l[call[t].side]
      BY <2>1, <3>1, MyTurnIs, ZenonT(40)
    <3>. QED BY <1>5, <3>2, ZenonT(40)
  <2>3. lp + n <= hp
    BY <1>5, <2>1, <2>2, ZenonT(40) DEF Placed, Located
  <2>4. n \in Bulks
    BY <1>5, <2>1, CallTypes, ZenonT(40)
  <2>. QED BY <1>3, <2>1, <2>2, <2>3, <2>4, ReturnedIs, ZenonT(40)
<1>8. PICK k \in Nat : hc + k = lp
  <2>1. lp - hc \in Nat /\ hc + (lp - hc) = lp
    BY <1>6
  <2>. QED BY <2>1, ZenonT(40)
<1>9. PICK q : q = Contents
  BY Zenon
<1>10. q \in Seq(Objects) /\ Len(q) = k /\ \A i \in 1 .. k : q[i] = v[hc + i - 1]
  <2>1. q = Queue(h, l, v)
    BY <1>4, <1>9, ZenonT(40) DEF Seen
  <2>2. From(q, v, hc, k)
    BY <1>5, <1>8, <2>1, QueueIs, ZenonT(40)
  <2>. QED BY <2>2, Zenon DEF From
<1>11. PICK tab \in Seq(Objects) : tab = call[t].obj_table
  BY CallTypes, ZenonT(40)
<1>12. Len(tab) = n /\ DOMAIN tab = 1 .. n /\ \A i \in 1 .. n : tab[i] = v[lp + i - 1]
  <2>1. Table(b, v, t)
    BY TableOf, Zenon
  <2>2. Len(tab) = n /\ \A i \in 1 .. n : tab[i] = v[lp + i - 1]
    BY <1>5, <1>7, <1>11, <2>1, ZenonT(40) DEF Table, Tabled
  <2>. QED BY <2>2
<1>13. Contents' = q \o tab
  <2>1. m["prod"] = lp + n /\ Contents' = Queue(h, m, v)
    BY <1>1, <1>4, <1>5, ZenonT(40) DEF Seen, Sides
  <2>2. Queue(h, m, v) = [i \in 1 .. k + n |-> v[hc + i - 1]]
    <3>1. (lp + n) - hc = k + n
      BY <1>8
    <3>2. m["prod"] - h["cons"] = k + n /\ h["cons"] = hc
      BY <1>5, <2>1, <3>1, ZenonT(40)
    <3>. QED BY <3>2, ZenonT(40) DEF Queue
  <2>3. PICK r : r = q \o tab
    BY Zenon
  <2>4. /\ r \in Seq(Objects) /\ Len(r) = k + n
        /\ \A i \in 1 .. k : r[i] = q[i]
        /\ \A j \in 1 .. n : r[k + j] = tab[j]
    <3>1. q \in Seq(Objects) /\ tab \in Seq(Objects)
      BY <1>10, Zenon
    <3>2. Joined(q \o tab, q, tab)
      BY ONLY <3>1, ConcatJoins, ZenonT(40)
    <3>3. r \in Seq(Objects)
      BY ONLY <2>3, <3>1
    <3>. QED BY <1>10, <1>12, <2>3, <3>2, <3>3, ZenonT(40) DEF Joined
  <2>5. ASSUME NEW i \in 1 .. k + n PROVE r[i] = v[hc + i - 1]
    <3>1. CASE i <= k
      <4>1. i \in 1 .. k
        BY <3>1
      <4>. QED BY <1>10, <2>4, <4>1, ZenonT(40)
    <3>2. CASE ~(i <= k)
      <4>1. PICK j \in 1 .. n : i = k + j
        <5>1. i - k \in 1 .. n /\ i = k + (i - k)
          BY <3>2
        <5>. QED BY <5>1, ZenonT(40)
      <4>2. r[i] = v[lp + j - 1]
        BY <1>12, <2>4, <4>1, ZenonT(40)
      <4>3. lp + j - 1 = hc + i - 1
        BY ONLY <1>8, <4>1
      <4>. QED BY <4>2, <4>3, ZenonT(40)
    <3>. QED BY <3>1, <3>2, ZenonT(40)
  <2>6. r = [i \in 1 .. k + n |-> v[hc + i - 1]]
    <3>1. k + n \in Nat /\ hc \in Nat
      OBVIOUS
    <3>2. r \in Seq(Objects) /\ Len(r) = k + n /\ \A i \in 1 .. k + n : r[i] = v[hc + i - 1]
      BY <2>4, <2>5, ZenonT(40)
    <3>. QED BY ONLY <3>1, <3>2, SameEntries, SMTT(30)
  <2>. QED BY <2>1, <2>2, <2>3, <2>6, ZenonT(40)
<1>14. \A i \in 1 .. n : lp + i - 1 \in lp .. lp + n - 1 /\ lp + i - 1 \in lc .. hp - 1
  BY <1>6, <1>7
<1>15. IsInjective(tab)
  <2>1. ASSUME NEW i \in 1 .. n, NEW j \in 1 .. n, tab[i] = tab[j] PROVE i = j
    <3>1. PICK x, y \in lc .. hp - 1 : x = lp + i - 1 /\ y = lp + j - 1 /\ v[x] = v[y]
      BY <1>12, <1>14, <2>1, ZenonT(40)
    <3>2. x = y
      BY <1>5, <3>1, Zenon DEF Valued
    <3>. QED BY <3>1, <3>2
  <2>. QED BY <1>12, <2>1, ZenonT(40) DEF IsInjective
<1>16. Reaches(b, v, t) = Range(tab)
  <2>1. Reaches(b, v, t) = {v[x] : x \in lp .. lp + n - 1}
    BY <1>5, <1>7, ZenonT(40) DEF Reaches
  <2>2. \A o : o \in Range(tab) <=> \E i \in 1 .. n : o = v[lp + i - 1]
    BY <1>12, Zenon DEF Range
  <2>3. ASSUME NEW x \in lp .. lp + n - 1 PROVE \E i \in 1 .. n : x = lp + i - 1
    <3>1. x - lp + 1 \in 1 .. n /\ x = lp + (x - lp + 1) - 1
      OBVIOUS
    <3>. QED BY <3>1, ZenonT(40)
  <2>4. \A o : o \in Range(tab) => o \in {v[x] : x \in lp .. lp + n - 1}
    BY <1>14, <2>2, ZenonT(40)
  <2>5. ASSUME NEW x \in lp .. lp + n - 1 PROVE v[x] \in Range(tab)
    BY <2>2, <2>3, ZenonT(40)
  <2>. QED BY ONLY <2>1, <2>4, <2>5, ZenonT(40)
<1>17. Range(tab) \cap Mine(t) = {}
  <2>1. ASSUME NEW i \in 1 .. n PROVE v[lp + i - 1] \notin Mine(t)
    <3>1. lp + i - 1 \in lc .. hp - 1
      BY <1>14, ZenonT(40)
    <3>. QED BY <1>5, <3>1, ZenonT(40) DEF Valued
  <2>2. \A o : o \in Range(tab) <=> \E i \in 1 .. n : o = v[lp + i - 1]
    BY <1>12, Zenon DEF Range
  <2>3. \A o : o \in Range(tab) => o \notin Mine(t)
    BY ONLY <2>1, <2>2, ZenonT(40)
  <2>. QED BY ONLY <2>3, Zenon
<1>18. Owned(t) = Mine(t) \cup Range(tab) /\ Owned(t)' = Mine(t)
  <2>1. Reaches(b, v, t)' = {}
    BY <1>7, Zenon DEF Reaches
  <2>2. Owned(t)' = Mine(t)' \cup Reaches(b, v, t)' /\ Owned(t) = Mine(t) \cup Reaches(b, v, t)
    BY <1>4, ZenonT(40) DEF Seen
  <2>. QED BY <1>7, <1>16, <2>1, <2>2, ZenonT(40)
<1>19. Owned(t)' = Owned(t) \ Range(tab)
  BY <1>17, <1>18, ZenonT(40)
<1>20. \A u \in Threads : u # t => Owned(u)' = Owned(u)
  <2>1. \A u \in Threads : u # t => Mine(u)' = Mine(u) /\ Reaches(b, v, u)' = Reaches(b, v, u)
    BY <1>7, ZenonT(40) DEF Others, Mine, Reaches
  <2>. QED BY <1>4, <2>1, ZenonT(40) DEF Seen
<1>21. Abstract!Enqueue(t, tab)
  <2>1. Len(q) + Len(tab) <= capacity
    <3>1. k + n <= capacity
      BY <1>6, <1>7, <1>8, Sizes
    <3>2. Len(q) = k /\ Len(tab) = n
      BY <1>10, <1>12, ZenonT(40)
    <3>. QED BY <3>1, <3>2, ZenonT(40)
  <2>2. [u \in Threads |-> Owned(u)]' = [[u \in Threads |-> Owned(u)] EXCEPT ![t] = @ \ Range(tab)]
    BY <1>19, <1>20, ZenonT(40)
  <2>. QED BY <1>9, <1>13, <2>1, <2>2, SameTerms, ZenonT(40) DEF Abstract!Enqueue
<1>22. tab \in [1 .. n -> [u \in Threads |-> Owned(u)][t]]
  <2>1. \A i \in 1 .. n : tab[i] \in Range(tab)
    BY <1>12, Zenon DEF Range
  <2>2. \A i \in 1 .. n : tab[i] \in Owned(t)
    BY <1>18, <2>1, ZenonT(40)
  <2>. QED BY <1>12, <2>2
<1>. QED BY <1>7, <1>15, <1>21, <1>22, SameTerms, ZenonT(40) DEF Abstract!Next

LEMMA InitSeen == Init => Abstract!Init
<1> SUFFICES ASSUME Init PROVE Abstract!Init
  BY Zenon
<1>1. Typed /\ GInv
  BY InitInv, Zenon
<1>2. PICK h, l \in [Sides -> Nat], b \in [Threads -> Nat] : \E v : Placed(h, l, b) /\ Valued(h, l, b, v)
  BY <1>1, Zenon DEF GInv
<1>3. PICK v : Placed(h, l, b) /\ Valued(h, l, b, v)
  BY <1>2, Zenon
<1>4. PICK n \in Nat : n = Len(Stored) /\ n <= capacity /\ DOMAIN Stored = 1 .. n
  BY ONLY RingAssumption, Sizes, LenProperties
<1>5. PICK f \in Nat : f = FirstIndex /\ f < UINT
  BY RingAssumption, Sizes
<1>6. f % UINT = f
  BY <1>5, Sizes, SmallMod
<1>7. head["cons"] = f % UINT /\ tail["prod"] = (f + n) % UINT
  BY <1>4, <1>5, <1>6, Zenon DEF Init, Plus
<1>8. Minus(tail["prod"], head["cons"]) = n
  <2>1. (f + n) - f \in 0 .. UINT - 1 /\ f + n \in Nat /\ (f + n) - f = n
    <3>1. n <= capacity
      BY <1>4, ZenonT(40)
    <3>2. f + n \in Nat /\ (f + n) - f = n
      OBVIOUS
    <3>3. n \in 0 .. UINT - 1
      BY <3>1, Sizes
    <3>. QED BY <3>2, <3>3, Zenon
  <2>2. Minus((f + n) % UINT, f % UINT) = (f + n) - f
    BY <2>1, IndexMinus, Zenon
  <2>. QED BY <1>7, <2>1, <2>2, Zenon
<1>9. ASSUME NEW i \in 1 .. n PROVE ring[Slot(Plus(head["cons"], i - 1))] = Stored[i]
  <2>1. i - 1 \in Nat /\ f + (i - 1) \in Nat /\ i - 1 \in 0 .. capacity /\ i - 1 < n /\ (i - 1) + 1 = i
    BY <1>4, Sizes
  <2>2. PICK x \in Nat : x = f + (i - 1)
    BY <2>1, Zenon
  <2>3. Slot(Plus(head["cons"], i - 1)) = x % size /\ x % size \in 0 .. capacity
    BY <1>7, <2>1, <2>2, IndexPlus, SlotOf, ZenonT(40)
  <2>4. Minus(x % size, FirstIndex) % size = i - 1
    BY <1>5, <2>1, <2>2, FirstSlots, ZenonT(40)
  <2>. QED BY <1>4, <2>1, <2>3, <2>4, ZenonT(40) DEF Init
<1>10. Contents = Stored
  <2>1. Stored = [i \in 1 .. n |-> Stored[i]]
    BY <1>4, RingAssumption
  <2>2. Contents = [i \in 1 .. n |-> ring[Slot(Plus(head["cons"], i - 1))]]
    BY <1>8, Zenon DEF Contents
  <2>. QED BY <1>9, <2>1, <2>2, ZenonT(40)
<1>11. \A t \in Threads : Owned(t) = held[t]
  BY EmptyRange, Zenon DEF Init, Owned, NoCall
<1>12. /\ held \in [Threads -> SUBSET (Objects \ Range(Stored))]
       /\ \A o \in Objects \ Range(Stored) : \E t \in Threads : \A u \in Threads : o \in held[u] <=> u = t
  BY Zenon DEF Init
<1>13. PICK w : w = [t \in Threads |-> Owned(t)]
  BY Zenon
<1>14. w = held
  BY <1>11, <1>12, <1>13, ZenonT(40)
<1>15. Stored \in Seq(Objects) /\ Len(Stored) <= capacity /\ Abstract!IsInjective(Stored) /\ Abstract!Range(Stored) = Range(Stored)
  BY <1>4, RingAssumption, SameTerms, Zenon
<1>. QED BY <1>10, <1>12, <1>13, <1>14, <1>15, SMTT(30) DEF Abstract!Init

LEMMA NextSeen ==
  ASSUME Typed, GInv, [Next]_vars
  PROVE  [Abstract!Next]_(Abstract!vars)
<1>1. PICK h, l \in [Sides -> Nat], b \in [Threads -> Nat] : \E v : Placed(h, l, b) /\ Valued(h, l, b, v)
  BY Zenon DEF GInv
<1>2. PICK v : Placed(h, l, b) /\ Valued(h, l, b, v)
  BY <1>1, Zenon
<1>3. ASSUME NEW t \in Threads, mp_enqueue_bulk(t) PROVE UNCHANGED Abstract!vars
  <2>1. Placed(h, l, b)' /\ Others(t)
    BY <1>2, <1>3, QuietSteps, QuietPlaced, OthersStay, ZenonT(40)
  <2>2. Typed' /\ Valued(h, l, b, v)' /\ Mine(t)' = Mine(t)
    BY <1>2, <1>3, EnqueueStarts, ZenonT(40)
  <2>3. pc[t] # "copy" /\ pc'[t] # "copy"
    BY <1>3, ZenonT(40) DEF mp_enqueue_bulk, Starts, Typed
  <2>. QED BY <1>2, <2>1, <2>2, <2>3, StepsUnseen, ZenonT(40)
<1>4. ASSUME NEW t \in Threads, mc_dequeue_bulk(t) PROVE UNCHANGED Abstract!vars
  <2>1. Placed(h, l, b)' /\ Others(t)
    BY <1>2, <1>4, QuietSteps, QuietPlaced, OthersStay, ZenonT(40)
  <2>2. Typed' /\ Valued(h, l, b, v)' /\ Mine(t)' = Mine(t)
    BY <1>2, <1>4, DequeueStarts, Zenon
  <2>3. pc[t] # "copy" /\ pc'[t] # "copy"
    BY <1>4, Zenon DEF mc_dequeue_bulk, Starts, Typed
  <2>. QED BY <1>2, <2>1, <2>2, <2>3, StepsUnseen, Zenon
<1>5. ASSUME NEW t \in Threads, ReadHead(t) PROVE UNCHANGED Abstract!vars
  <2>1. PICK c : c = [b EXCEPT ![t] = h[call[t].side]]
    BY Zenon
  <2>2. c \in [Threads -> Nat] /\ Placed(h, l, c)'
    BY <1>2, <1>5, <2>1, ReadHeadPlaced, Zenon
  <2>3. Typed' /\ Valued(h, l, c, v)' /\ Mine(t)' = Mine(t)
    BY <1>2, <1>5, <2>1, ReadHeadValued, ZenonT(40)
  <2>4. pc[t] # "copy" /\ pc'[t] # "copy" /\ Others(t) /\ \A u \in Threads : u # t => c[u] = b[u]
    BY <1>5, <2>1, OthersStay, ZenonT(40) DEF ReadHead, Typed, Step
  <2>. QED BY <1>2, <2>2, <2>3, <2>4, StepsUnseen, ZenonT(40)
<1>6. ASSUME NEW t \in Threads, ReadRoom(t) PROVE UNCHANGED Abstract!vars
  <2>1. Placed(h, l, b)'
    <3>1. CASE pc'[t] = "move"
      BY <1>2, <1>6, <3>1, ReadRoomPlaced, ZenonT(40)
    <3>2. CASE pc'[t] # "move"
      BY <1>2, <1>6, <3>2, QuietSteps, QuietPlaced, ZenonT(40)
    <3>. QED BY <3>1, <3>2, ZenonT(40)
  <2>2. Typed' /\ Valued(h, l, b, v)' /\ Mine(t)' = Mine(t)
    BY <1>2, <1>6, ReadRoomValued, Zenon
  <2>3. pc[t] # "copy" /\ pc'[t] # "copy" /\ Others(t)
    BY <1>6, OthersStay, ZenonT(40) DEF ReadRoom, Typed, Step
  <2>. QED BY <1>2, <2>1, <2>2, <2>3, StepsUnseen, ZenonT(40)
<1>7. ASSUME NEW t \in Threads, ENQUEUE_PTRS(t) PROVE UNCHANGED Abstract!vars
  <2>1. Placed(h, l, b)' /\ Others(t)
    BY <1>2, <1>7, QuietSteps, QuietPlaced, OthersStay, ZenonT(40) DEF Step
  <2>2. Typed' /\ Valued(h, l, b, v)' /\ Mine(t)' = Mine(t)
    BY <1>2, <1>7, EnqueueValued, ZenonT(40)
  <2>3. pc[t] = "copy" /\ pc'[t] = "copy" /\ call'[t].n = call[t].n
    BY <1>7, Zenon DEF ENQUEUE_PTRS, Typed
  <2>. QED BY <1>2, <2>1, <2>2, <2>3, StepsUnseen, ZenonT(40)
<1>8. ASSUME NEW t \in Threads, DEQUEUE_PTRS(t) PROVE UNCHANGED Abstract!vars
  <2>1. Placed(h, l, b)' /\ Others(t)
    BY <1>2, <1>8, QuietSteps, QuietPlaced, OthersStay, ZenonT(40) DEF Step
  <2>2. Typed' /\ Valued(h, l, b, v)' /\ Mine(t)' = Mine(t)
    BY <1>2, <1>8, DequeueValued, Zenon
  <2>3. pc[t] = "copy" /\ pc'[t] = "copy"
    BY <1>8, Zenon DEF DEQUEUE_PTRS
  <2>4. call'[t].n = call[t].n
    BY <1>8, DequeueIs, ZenonT(40)
  <2>. QED BY <1>2, <2>1, <2>2, <2>3, <2>4, StepsUnseen, ZenonT(40)
<1>9. ASSUME NEW t \in Threads, Refused(t) PROVE UNCHANGED Abstract!vars
  <2>1. Placed(h, l, b)' /\ Others(t)
    BY <1>2, <1>9, QuietSteps, QuietPlaced, OthersStay, ZenonT(40) DEF Step
  <2>2. Typed' /\ Valued(h, l, b, v)' /\ Mine(t)' = Mine(t)
    BY <1>2, <1>9, RefusedValued, Zenon
  <2>3. pc[t] # "copy" /\ pc'[t] # "copy"
    BY <1>9, ZenonT(40) DEF Refused, Typed
  <2>. QED BY <1>2, <2>1, <2>2, <2>3, StepsUnseen, Zenon
<1>10. ASSUME NEW t \in Threads, MoveHead(t) PROVE Abstract!Next \/ UNCHANGED Abstract!vars
  <2>1. CASE ~Cmpset(t)
    <3>1. Placed(h, l, b)' /\ Others(t)
      BY <1>2, <1>10, <2>1, QuietSteps, QuietPlaced, OthersStay, ZenonT(40) DEF Step
    <3>2. Typed' /\ Valued(h, l, b, v)' /\ Mine(t)' = Mine(t)
      BY <1>2, <1>10, <2>1, LosesValued, ZenonT(40)
    <3>3. pc[t] # "copy" /\ pc'[t] # "copy"
      BY <1>10, <2>1, ZenonT(40) DEF MoveHead, Typed
    <3>. QED BY <1>2, <3>1, <3>2, <3>3, StepsUnseen, ZenonT(40)
  <2>2. CASE Cmpset(t) /\ call[t].side = "prod"
    BY <1>2, <1>10, <2>2, PutUnseen, ZenonT(40)
  <2>3. CASE Cmpset(t) /\ call[t].side = "cons"
    BY <1>2, <1>10, <2>3, DequeueSeen, ZenonT(40)
  <2>. QED BY <2>1, <2>2, <2>3, CallTypes, ZenonT(40) DEF Sides
<1>11. ASSUME NEW t \in Threads, update_tail(t) PROVE Abstract!Next \/ UNCHANGED Abstract!vars
  <2>1. CASE call[t].side = "prod"
    BY <1>2, <1>11, <2>1, EnqueueSeen, ZenonT(40)
  <2>2. CASE call[t].side = "cons"
    BY <1>2, <1>11, <2>2, TakenUnseen, ZenonT(40)
  <2>. QED BY <2>1, <2>2, CallTypes, ZenonT(40) DEF Sides
<1>12. CASE UNCHANGED vars
  BY <1>12 DEF vars, Abstract!vars, Contents, Owned
<1>13. CASE Next
  BY <1>3, <1>4, <1>5, <1>6, <1>7, <1>8, <1>9, <1>10, <1>11, <1>13, ZenonT(40) DEF Next, Step
<1>. QED BY <1>12, <1>13, Zenon

\* The calls of rte_ring.h implement the bounded queue: a bulk leaves the queue when
\* its call moves cons.head and enters it when update_tail releases prod.tail, and no
\* other step of a call can be seen.
THEOREM RingIsFifo == Spec => ImplementsFifo
<1>1. Init => Abstract!Init
  BY InitSeen, Zenon
<1>2. Typed /\ GInv /\ [Next]_vars => [Abstract!Next]_(Abstract!vars)
  BY NextSeen, Zenon
<1>. QED BY <1>1, <1>2, RingIsOrdered, PTL DEF Spec, ImplementsFifo, Abstract!Spec
-----------------------------------------------------------------------------
(***************************************************************************)
(* The room for a put.                                                     *)
(***************************************************************************)
\* Had a producer less room than objects to put, there would be more places than
\* slots: those of its table, and those between the consumers' tail and the
\* producers' head, with a different object f[i] in each.
LEMMA Crowded ==
  ASSUME Typed, GInv, NEW t \in Threads, pc[t] = "room", call[t].side = "prod", call[t].n > Room(t)
  PROVE  \E m \in Nat : \E f \in [1 .. m -> Objects] :
           m > capacity /\ \A i, j \in 1 .. m : f[i] = f[j] => i = j
<1>1. PICK h, l \in [Sides -> Nat], b \in [Threads -> Nat] : \E v : Placed(h, l, b) /\ Valued(h, l, b, v)
  BY DEF GInv
<1>2. PICK v : Placed(h, l, b) /\ Valued(h, l, b, v)
  BY <1>1
<1>3. PICK hp, hc, lp, lc, y, n \in Nat : /\ hp = h["prod"] /\ hc = h["cons"] /\ lp = l["prod"] /\ lc = l["cons"]
                                          /\ y = b[t] /\ n = call[t].n
  BY CallTypes, ZenonT(40) DEF Sides
<1>4. lc <= hp /\ y <= hp
  <2>1. lc <= hc /\ hc <= lp /\ lp <= hp
    BY <1>2, <1>3, ZenonT(40) DEF Placed, Ordered
  <2>2. y <= hp
    BY <1>2, <1>3, ZenonT(40) DEF Placed, Located
  <2>. QED BY <2>1, <2>2
<1>5. Room(t) = capacity + lc - y
  BY <1>2, <1>3, RoomIs, ZenonT(40)
<1>6. n > capacity + lc - hp
  <2>1. capacity \in Nat /\ n > capacity + lc - y
    BY <1>3, <1>5, Sizes, ZenonT(40)
  <2>. QED BY <1>4, <2>1
<1>7. PICK tab \in Seq(Objects) : tab = call[t].obj_table
  BY CallTypes, ZenonT(40)
<1>8. Len(tab) = n /\ IsInjective(tab) /\ DOMAIN tab = 1 .. n
  <2>1. Table(b, v, t)
    BY <1>2, TableOf, ZenonT(40)
  <2>2. Len(tab) = n /\ IsInjective(tab)
    BY <1>3, <1>7, <2>1, ZenonT(40) DEF Table, Tabled, Calling
  <2>. QED BY <2>2
<1>9. \A i \in 1 .. n : tab[i] \in Objects /\ tab[i] \in Mine(t)
  <2>1. Range(tab) \subseteq Mine(t)
    BY <1>7, Zenon DEF Mine, Calling
  <2>2. \A i \in 1 .. n : tab[i] \in Objects /\ tab[i] \in Range(tab)
    BY <1>8, Entries, ZenonT(40)
  <2>. QED BY <2>1, <2>2, Zenon
<1>10. /\ \A x \in lc .. hp - 1 : v[x] \in Objects /\ v[x] \notin Mine(t)
       /\ \A x, z \in lc .. hp - 1 : v[x] = v[z] => x = z
  BY <1>2, <1>3, ZenonT(40) DEF Valued
<1>11. PICK k \in Nat : lc + k = hp
  <2>1. hp - lc \in Nat /\ lc + (hp - lc) = hp
    BY <1>4
  <2>. QED BY <2>1
<1>12. PICK f : f = [i \in 1 .. n + k |-> IF i <= n THEN tab[i] ELSE v[lc + i - n - 1]]
  BY Zenon
<1>13. ASSUME NEW i \in 1 .. n + k
       PROVE  /\ i <= n => i \in 1 .. n /\ f[i] = tab[i]
              /\ ~(i <= n) => lc + i - n - 1 \in lc .. hp - 1 /\ f[i] = v[lc + i - n - 1]
  <2>1. /\ i <= n => i \in 1 .. n
        /\ ~(i <= n) => lc + i - n - 1 \in lc .. hp - 1
    BY <1>11
  <2>. QED BY <1>12, <2>1, ZenonT(40)
<1>14. f \in [1 .. n + k -> Objects]
  <2>1. \A i \in 1 .. n + k : f[i] \in Objects
    BY <1>9, <1>10, <1>13, ZenonT(40)
  <2>. QED BY <1>12, <2>1, ZenonT(40)
<1>15. ASSUME NEW i \in 1 .. n + k, NEW j \in 1 .. n + k, f[i] = f[j] PROVE i = j
  <2>1. CASE i <= n /\ j <= n
    <3>1. i \in 1 .. n /\ j \in 1 .. n /\ tab[i] = tab[j]
      BY <1>13, <1>15, <2>1, ZenonT(40)
    <3>. QED BY <1>8, <3>1, ZenonT(40) DEF IsInjective
  <2>2. CASE ~(i <= n) /\ ~(j <= n)
    <3>1. PICK x \in lc .. hp - 1 : x = lc + i - n - 1 /\ f[i] = v[x]
      BY <1>13, <2>2, Zenon
    <3>2. PICK z \in lc .. hp - 1 : z = lc + j - n - 1 /\ f[j] = v[z]
      BY <1>13, <2>2, Zenon
    <3>3. x = z
      BY <1>10, <1>15, <3>1, <3>2, ZenonT(40)
    <3>. QED BY <3>1, <3>2, <3>3
  <2>3. CASE i <= n /\ ~(j <= n)
    <3>1. f[i] \in Mine(t)
      BY <1>9, <1>13, <2>3, ZenonT(40)
    <3>2. f[j] \notin Mine(t)
      BY <1>10, <1>13, <2>3, ZenonT(40)
    <3>. QED BY <1>15, <3>1, <3>2, ZenonT(40)
  <2>4. CASE ~(i <= n) /\ j <= n
    <3>1. f[j] \in Mine(t)
      BY <1>9, <1>13, <2>4, ZenonT(40)
    <3>2. f[i] \notin Mine(t)
      BY <1>10, <1>13, <2>4, ZenonT(40)
    <3>. QED BY <1>15, <3>1, <3>2, ZenonT(40)
  <2>. QED BY <2>1, <2>2, <2>3, <2>4, ZenonT(40)
<1>16. n + k \in Nat /\ n + k > capacity
  BY <1>6, <1>11, Sizes
<1>17. \A i, j \in 1 .. n + k : f[i] = f[j] => i = j
  BY <1>15, Zenon
<1>. QED BY <1>14, <1>16, <1>17, ZenonT(40)

\* A call gives up where it has compared the room with what it asks for.
LEMMA RefusedIs ==
  ASSUME Typed, [Next]_vars, NEW u \in Threads, pc'[u] = "refused"
  PROVE  /\ call'[u] = call[u]
         /\ pc[u] = "refused" \/ (pc[u] = "room" /\ call[u].n > Room(u))
<1>1. CASE UNCHANGED vars
  BY <1>1, Zenon DEF vars
<1>2. ASSUME NEW t \in Threads, mp_enqueue_bulk(t) \/ mc_dequeue_bulk(t) \/ Step(t), u # t
      PROVE  pc'[u] = pc[u] /\ call'[u] = call[u]
  BY <1>2, OthersStay, OtherThread, ZenonT(40)
<1>3. ASSUME mp_enqueue_bulk(u) \/ mc_dequeue_bulk(u) \/ Step(u)
      PROVE  ReadRoom(u)
  BY <1>3, ZenonT(40) DEF mp_enqueue_bulk, mc_dequeue_bulk, Starts, Step, ReadHead, MoveHead, ENQUEUE_PTRS,
                     DEQUEUE_PTRS, update_tail, Refused, Typed
<1>4. ReadRoom(u) => pc[u] = "room" /\ call' = call /\ call[u].n > Room(u)
  BY Zenon DEF ReadRoom, Typed
<1>. QED BY <1>1, <1>2, <1>3, <1>4, ZenonT(40) DEF Next
=============================================================================
