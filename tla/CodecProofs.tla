----------------------------- MODULE CodecProofs -----------------------------
(***************************************************************************)
(* Every type that can be built, to any depth: what is written is read, a   *)
(* cut encoding is refused, and for the types without sets and maps nothing *)
(* else is accepted.  The three facts go from the parts of a type to the    *)
(* type, and so from level to level.                                        *)
(***************************************************************************)
EXTENDS Codec, SequenceTheorems, FiniteSetTheorems, WellFoundedInduction, TLAPS

(* The writer w and the reader r agree about the values V: ...              *)
Reads(V, w, r) ==
    \A v \in V : /\ w[v] \in Cells
                 /\ \A rest \in Cells : r[w[v] \o rest] = Got(v, rest)

(* ... a proper beginning of an encoding is no encoding, ...                *)
Refuses(V, w, r) ==
    \A v \in V : \A p, q \in Cells :
        p \o q = w[v] /\ q # <<>> => r[p].out = "malformed"

(* ... and what is read was written like that.                              *)
Exact(V, w, r) ==
    \A in \in Cells :
        Ok(r[in]) => /\ r[in].val \in V /\ r[in].rest \in Cells
                     /\ in = w[r[in].val] \o r[in].rest

Agree(V, w, r) == Reads(V, w, r) /\ Refuses(V, w, r)

-----------------------------------------------------------------------------
(* Numbers and sequences *)
LEMMA CountUp ==
    ASSUME NEW n \in Nat, NEW T, 0 \in T, \A k \in 1..n : k - 1 \in T => k \in T
    PROVE  \A k \in 0..n : k \in T
<1> DEFINE R == OpToRel(<, Nat)
           U == {k \in 0..n : k \notin T}
<1>1. IsWellFoundedOn(R, Nat)
  BY NatLessThanWellFounded
<1>2. R = {s \in Nat \X Nat : s[1] < s[2]}
  BY DEF OpToRel
<1> HIDE DEF R
<1>3. U = {}
  <2> SUFFICES ASSUME U # {} PROVE FALSE
    OBVIOUS
  <2>1. PICK k \in U : \A y \in U : ~(<<y, k>> \in R)
    <3>1. U \subseteq Nat
      OBVIOUS
    <3> HIDE DEF U
    <3> QED BY <1>1, <3>1, WFMin
  <2>2. k \in 1..n /\ k - 1 \in 0..n /\ <<k - 1, k>> \in Nat \X Nat /\ k - 1 < k
    OBVIOUS
  <2>3. k - 1 \in T
    BY <1>2, <2>1, <2>2
  <2> QED BY <2>1, <2>2, <2>3
<1> QED BY <1>3

LEMMA CellsAre ==
    ASSUME NEW a \in Cells, NEW b \in Cells
    PROVE  /\ Len(a) \in Nat /\ a \o b \in Cells /\ Len(a \o b) = Len(a) + Len(b)
           /\ <<>> \in Cells /\ Len(<<>>) = 0 /\ (a \o <<>> = a) /\ (<<>> \o a = a)
           /\ (Len(a) = 0 <=> a = <<>>)
<1>1. /\ Len(a) \in Nat /\ a \o b \in Cells /\ Len(a \o b) = Len(a) + Len(b)
  BY LenProperties, ConcatProperties DEF Cells
<1>2. <<>> \in Cells /\ Len(<<>>) = 0 /\ (Len(a) = 0 <=> a = <<>>)
  BY EmptySeq DEF Cells
<1>3. (a \o <<>> = a) /\ (<<>> \o a = a)
  BY ConcatEmptySeq DEF Cells
<1> QED BY <1>1, <1>2, <1>3

LEMMA Regroup ==
    ASSUME NEW a \in Cells, NEW b \in Cells, NEW c \in Cells
    PROVE  (a \o b) \o c = a \o (b \o c)
  BY ConcatAssociative, SMTT(30) DEF Cells

LEMMA OneCell ==
    ASSUME NEW n \in Nat
    PROVE  <<n>> \in Cells /\ Len(<<n>>) = 1 /\ <<n>>[1] = n
  BY DEF Cells

(* A sequence can be cut anywhere, ... *)
LEMMA CutAt ==
    ASSUME NEW in \in Cells, NEW n \in Nat, n <= Len(in)
    PROVE  /\ SubSeq(in, 1, n) \in Cells /\ Len(SubSeq(in, 1, n)) = n
           /\ SubSeq(in, n + 1, Len(in)) \in Cells
           /\ SubSeq(in, 1, n) \o SubSeq(in, n + 1, Len(in)) = in
<1>1. in \in Seq(Nat) /\ Len(in) \in Nat
  BY LenProperties DEF Cells
<1>2. SubSeq(in, 1, n) \in Seq(Nat) /\ Len(SubSeq(in, 1, n)) = n
  <2>1. \A i \in 1..n : in[i] \in Nat
    BY <1>1, ElementOfSeq
  <2>2. /\ SubSeq(in, 1, n) \in Seq(Nat)
        /\ Len(SubSeq(in, 1, n)) = IF 1 <= n THEN n - 1 + 1 ELSE 0
    BY <2>1, SubSeqProperties
  <2> QED BY <2>2
<1>3. SubSeq(in, n + 1, Len(in)) \in Seq(Nat)
  <2>1. n + 1 \in Int /\ Len(in) \in Int /\ \A i \in (n + 1)..Len(in) : in[i] \in Nat
    BY <1>1, ElementOfSeq
  <2> QED BY <2>1, SubSeqProperties
<1>4. SubSeq(in, 1, n) \o SubSeq(in, n + 1, Len(in)) = in
  <2>1. 1 \in 1..(Len(in) + 1) /\ n \in (1 - 1)..Len(in) /\ Len(in) \in n..Len(in)
    BY <1>1
  <2>2. SubSeq(in, 1, n) \o SubSeq(in, n + 1, Len(in)) = SubSeq(in, 1, Len(in))
    BY <1>1, <2>1, ConcatAdjacentSubSeq
  <2> QED BY <1>1, <2>2, SubSeqFull
<1> QED BY <1>2, <1>3, <1>4 DEF Cells

(* ... in only one way at each place. *)
LEMMA CutOnce ==
    ASSUME NEW p \in Cells, NEW q \in Cells, NEW a \in Cells, NEW b \in Cells,
           p \o q = a \o b, Len(p) = Len(a)
    PROVE  p = a /\ q = b
<1>1. /\ p \in Seq(Nat) /\ q \in Seq(Nat) /\ a \in Seq(Nat) /\ b \in Seq(Nat)
      /\ Len(p) \in Nat /\ Len(q) \in Nat
  BY LenProperties DEF Cells
<1>2. /\ \A i \in 1..(Len(p) + Len(q)) : (p \o q)[i] = IF i <= Len(p) THEN p[i] ELSE q[i - Len(p)]
      /\ \A i \in 1..(Len(a) + Len(b)) : (a \o b)[i] = IF i <= Len(a) THEN a[i] ELSE b[i - Len(a)]
      /\ Len(p \o q) = Len(p) + Len(q) /\ Len(a \o b) = Len(a) + Len(b)
  BY <1>1, ConcatProperties
<1>3. Len(q) = Len(b)
  <2>1. Len(b) \in Nat
    BY <1>1, LenProperties
  <2> QED BY <1>1, <1>2, <2>1
<1>4. \A i \in 1..Len(p) : p[i] = a[i]
  <2> SUFFICES ASSUME NEW i \in 1..Len(p) PROVE p[i] = a[i]
    OBVIOUS
  <2>1. i \in 1..(Len(p) + Len(q)) /\ i <= Len(p)
    BY <1>1
  <2> QED BY <1>2, <1>3, <2>1
<1>5. p = a
  BY <1>1, <1>4, SeqEqual
<1>6. \A i \in 1..Len(q) : q[i] = b[i]
  <2> SUFFICES ASSUME NEW i \in 1..Len(q) PROVE q[i] = b[i]
    OBVIOUS
  <2>1. /\ Len(p) + i \in 1..(Len(p) + Len(q)) /\ ~(Len(p) + i <= Len(p))
        /\ Len(p) + i - Len(p) = i
    BY <1>1
  <2>2. (p \o q)[Len(p) + i] = q[i]
    BY ONLY <1>2, <2>1
  <2>3. (a \o b)[Len(p) + i] = b[i]
    BY ONLY <1>2, <1>3, <2>1, Len(p) = Len(a)
  <2> QED BY <2>2, <2>3
<1> QED BY <1>1, <1>3, <1>5, <1>6, SeqEqual

(* Cut in two ways, the first cut is inside the first part or behind it. *)
Inside(p, a)       == \E y \in Cells : y # <<>> /\ p \o y = a
Behind(p, q, a, b) == \E y \in Cells : p = a \o y /\ y \o q = b

LEMMA CutBoth ==
    ASSUME NEW p \in Cells, NEW q \in Cells, NEW a \in Cells, NEW b \in Cells, p \o q = a \o b
    PROVE  Inside(p, a) \/ Behind(p, q, a, b)
<1>1. Len(p) \in Nat /\ Len(a) \in Nat
  BY CellsAre
<1>2. CASE Len(a) <= Len(p)
  <2> DEFINE x == SubSeq(p, 1, Len(a))
             y == SubSeq(p, Len(a) + 1, Len(p))
  <2>1. x \in Cells /\ y \in Cells /\ Len(x) = Len(a) /\ x \o y = p
    BY <1>1, <1>2, CutAt, Zenon
  <2> HIDE DEF x, y
  <2>2. y \o q \in Cells
    BY <2>1, CellsAre
  <2>3. x \o (y \o q) = a \o b
    <3>1. x \in Cells /\ y \in Cells /\ q \in Cells
      BY <2>1
    <3>2. (x \o y) \o q = x \o (y \o q)
      BY ONLY <3>1, Regroup, SMTT(30)
    <3> QED BY <2>1, <3>2, Zenon
  <2>4. x = a /\ y \o q = b
    BY <2>1, <2>2, <2>3, CutOnce
  <2> QED BY <2>1, <2>4 DEF Behind
<1>3. CASE Len(p) < Len(a)
  <2> DEFINE x == SubSeq(a, 1, Len(p))
             y == SubSeq(a, Len(p) + 1, Len(a))
  <2>1. x \in Cells /\ y \in Cells /\ Len(x) = Len(p) /\ x \o y = a
    <3>1. Len(p) <= Len(a)
      BY <1>1, <1>3
    <3> QED BY <1>1, <3>1, CutAt, Zenon
  <2> HIDE DEF x, y
  <2>2. y \o b \in Cells
    BY <2>1, CellsAre
  <2>3. p \o q = x \o (y \o b)
    <3>1. x \in Cells /\ y \in Cells /\ b \in Cells
      BY <2>1
    <3>2. (x \o y) \o b = x \o (y \o b)
      BY ONLY <3>1, Regroup, SMTT(30)
    <3> QED BY <2>1, <3>2, Zenon
  <2>4. p = x
    BY <2>1, <2>2, <2>3, CutOnce
  <2>5. y # <<>>
    <3>1. Len(a) = Len(p) + Len(y) /\ Len(y) \in Nat /\ Len(<<>>) = 0
      BY <2>1, <2>4, CellsAre
    <3> QED BY <1>1, <1>3, <3>1
  <2> QED BY <2>1, <2>4, <2>5 DEF Inside
<1>4. Len(a) <= Len(p) \/ Len(p) < Len(a)
  BY <1>1
<1> QED BY <1>2, <1>3, <1>4, Zenon

-----------------------------------------------------------------------------
(* Cells as they are read *)
LEMMA TakeFront ==
    ASSUME NEW a \in Cells, NEW rest \in Cells
    PROVE  Take(a \o rest, Len(a)) = Got(a, rest)
<1> DEFINE in == a \o rest
           n == Len(a)
           x == SubSeq(in, 1, n)
           y == SubSeq(in, n + 1, Len(in))
<1>1. /\ in \in Cells /\ n \in Nat /\ n <= Len(in) /\ ~(n > Len(in))
  <2>1. in \in Cells /\ n \in Nat /\ Len(in) = n + Len(rest) /\ Len(rest) \in Nat
    BY CellsAre
  <2> HIDE DEF in, n
  <2> QED BY <2>1
<1>2. x \in Cells /\ Len(x) = n /\ y \in Cells /\ x \o y = in
  <2> HIDE DEF in, n
  <2> QED BY <1>1, CutAt, Zenon
<1>3. x = a /\ y = rest
  <2> HIDE DEF x, y
  <2> QED BY <1>2, CutOnce
<1> QED BY <1>1, <1>3, Zenon DEF Take

LEMMA TakeGets ==
    ASSUME NEW in \in Cells, NEW n \in Nat
    PROVE  \/ Len(in) < n /\ Take(in, n) = Fails("malformed")
           \/ /\ n <= Len(in) /\ Ok(Take(in, n))
              /\ Take(in, n).val \in Cells /\ Len(Take(in, n).val) = n
              /\ Take(in, n).rest \in Cells
              /\ in = Take(in, n).val \o Take(in, n).rest
<1>1. Len(in) \in Nat
  BY CellsAre
<1>2. CASE n <= Len(in)
  <2> DEFINE x == SubSeq(in, 1, n)
             y == SubSeq(in, n + 1, Len(in))
  <2>1. x \in Cells /\ Len(x) = n /\ y \in Cells /\ x \o y = in
    BY <1>2, CutAt, Zenon
  <2>2. ~(n > Len(in))
    BY <1>1, <1>2
  <2>3. Take(in, n) = Got(x, y)
    BY <2>2, Zenon DEF Take
  <2> HIDE DEF x, y
  <2>4. Got(x, y).out = "value" /\ Got(x, y).val = x /\ Got(x, y).rest = y
    BY DEF Got
  <2> QED BY <1>2, <2>1, <2>3, <2>4 DEF Ok
<1>3. CASE Len(in) < n
  <2>1. n > Len(in)
    BY <1>1, <1>3
  <2> QED BY <1>3, <2>1, Zenon DEF Take
<1>4. n <= Len(in) \/ Len(in) < n
  BY <1>1
<1> QED BY <1>2, <1>3, <1>4, Zenon

(* A size is one cell. *)
LEMMA TakeSize ==
    ASSUME NEW n \in Nat, NEW rest \in Cells
    PROVE  /\ Take(<<n>> \o rest, 1) = Got(<<n>>, rest)
           /\ Ok(Take(<<n>> \o rest, 1)) /\ Take(<<n>> \o rest, 1).val[1] = n
           /\ Take(<<n>> \o rest, 1).rest = rest
<1>1. Take(<<n>> \o rest, 1) = Got(<<n>>, rest)
  BY OneCell, TakeFront
<1> QED BY <1>1, OneCell DEF Got, Ok

LEMMA CellIsNat ==
    ASSUME NEW a \in Cells, Len(a) = 1
    PROVE  a[1] \in Nat /\ a = <<a[1]>>
<1>1. a \in Seq(Nat) /\ a[1] \in Nat
  <2>1. a \in Seq(Nat) /\ 1 \in 1..Len(a)
    BY DEF Cells
  <2> QED BY <2>1, ElementOfSeq
<1>2. <<a[1]>> \in Seq(Nat) /\ Len(<<a[1]>>) = 1 /\ <<a[1]>>[1] = a[1]
  BY <1>1
<1>3. \A i \in 1..Len(a) : a[i] = <<a[1]>>[i]
  BY <1>2
<1> QED BY <1>1, <1>2, <1>3, SeqEqual

LEMMA SizeGets ==
    ASSUME NEW in \in Cells, Ok(Take(in, 1))
    PROVE  /\ Take(in, 1).val[1] \in Nat /\ Take(in, 1).rest \in Cells
           /\ in = <<Take(in, 1).val[1]>> \o Take(in, 1).rest
<1>1. ~(Take(in, 1) = Fails("malformed"))
  BY DEF Fails, Ok
<1>2. /\ Take(in, 1).val \in Cells /\ Len(Take(in, 1).val) = 1 /\ Take(in, 1).rest \in Cells
      /\ in = Take(in, 1).val \o Take(in, 1).rest
  BY <1>1, TakeGets
<1> QED BY <1>2, CellIsNat

(* What was cut off one cell and what follows it: nothing is left, or the   *)
(* cell is whole.                                                           *)
LEMMA CutCell ==
    ASSUME NEW n \in Nat, NEW b \in Cells, NEW p \in Cells, NEW q \in Cells, p \o q = <<n>> \o b
    PROVE  Take(p, 1) = Fails("malformed") \/ Behind(p, q, <<n>>, b)
<1>1. CASE Inside(p, <<n>>)
  <2>1. PICK y \in Cells : y # <<>> /\ p \o y = <<n>>
    BY <1>1 DEF Inside
  <2>2. Len(p) + Len(y) = 1 /\ Len(y) # 0 /\ Len(p) \in Nat /\ Len(y) \in Nat
    BY <2>1, OneCell, CellsAre
  <2>3. ~(1 <= Len(p))
    BY <2>2
  <2> QED BY <2>3, TakeGets
<1>2. Inside(p, <<n>>) \/ Behind(p, q, <<n>>, b)
  <2>1. <<n>> \in Cells
    BY OneCell
  <2> QED BY <2>1, CutBoth
<1> QED BY <1>1, <1>2

-----------------------------------------------------------------------------
(* The loops: each is a function with its equation. *)
Tails(f, ws, vs, n) ==
    /\ f[n + 1] = <<>>
    /\ \A i \in 1..n : f[i] = ws[i][vs[i]] \o f[i + 1]
    /\ WriteSeq(ws, vs) = f[1]

LEMMA WriteSeqIs ==
    ASSUME NEW n \in Nat, NEW ws, NEW vs, Len(vs) = n
    PROVE  \E f : Tails(f, ws, vs, n)
<1> DEFINE Step(f, i) == IF i > n THEN <<>> ELSE ws[i][vs[i]] \o f[i + 1]
           From(k) == (n + 1 - k)..(n + 1)
           Good(f, k) == f = [i \in From(k) |-> Step(f, i)]
           T == {k \in 0..n : \E f : Good(f, k)}
<1>1. 0 \in T
  <2> DEFINE f == [i \in From(0) |-> <<>>]
  <2>1. \A i \in From(0) : Step(f, i) = <<>>
    OBVIOUS
  <2> HIDE DEF Step, From
  <2>2. Good(f, 0)
    BY <2>1
  <2> HIDE DEF Good
  <2> QED BY <2>2
<1>2. ASSUME NEW k \in 1..n, k - 1 \in T PROVE k \in T
  <2> DEFINE m == n + 1 - k
  <2>1. /\ From(k) = From(k - 1) \cup {m} /\ m \notin From(k - 1) /\ m \in 1..n /\ m + 1 \in From(k - 1)
        /\ ~(m > n) /\ \A i \in From(k - 1) : ~(i > n) => i + 1 \in From(k - 1)
    OBVIOUS
  <2>2. PICK g : Good(g, k - 1)
    BY <1>2
  <2>3. \A i \in From(k - 1) : g[i] = Step(g, i)
    <3> HIDE DEF Step, From
    <3> QED BY <2>2
  <2> DEFINE new == ws[m][vs[m]] \o g[m + 1]
             f == [i \in From(k) |-> IF i = m THEN new ELSE g[i]]
  <2> HIDE DEF From, m
  <2>4. /\ f = [i \in From(k) |-> f[i]] /\ f[m] = new
        /\ \A i \in From(k - 1) : f[i] = g[i]
    <3> HIDE DEF new
    <3> QED BY <2>1
  <2> HIDE DEF f
  <2>5. f[m] = Step(f, m)
    BY <2>1, <2>4
  <2>6. \A i \in From(k - 1) : f[i] = Step(f, i)
    <3> SUFFICES ASSUME NEW i \in From(k - 1) PROVE f[i] = Step(f, i)
      OBVIOUS
    <3>1. f[i] = g[i] /\ g[i] = Step(g, i)
      BY <2>3, <2>4
    <3>2. CASE i > n
      BY <3>1, <3>2
    <3>3. CASE ~(i > n)
      <4>1. f[i + 1] = g[i + 1]
        BY <2>1, <2>4, <3>3
      <4> QED BY <3>1, <3>3, <4>1
    <3> QED BY <3>2, <3>3
  <2> HIDE DEF Step
  <2>7. \A i \in From(k) : f[i] = Step(f, i)
    BY <2>1, <2>5, <2>6
  <2>8. Good(f, k)
    BY <2>4, <2>7
  <2> HIDE DEF Good
  <2> QED BY <2>8
<1>3. \E f : Good(f, n)
  <2> HIDE DEF Good
  <2>1. \A k \in 0..n : k \in T
    <3> HIDE DEF T
    <3> QED BY <1>1, <1>2, CountUp
  <2> QED BY <2>1
<1>4. From(n) = 1..(n + 1)
  OBVIOUS
<1> DEFINE F == CHOOSE f : f = [i \in 1..(n + 1) |-> Step(f, i)]
<1>5. F = [i \in 1..(n + 1) |-> Step(F, i)]
  <2> HIDE DEF Step, From
  <2> QED BY <1>3, <1>4
<1>6. WriteSeq(ws, vs) = F[1]
  BY DEF WriteSeq
<1> HIDE DEF F
<1>7. \A i \in 1..(n + 1) : F[i] = Step(F, i)
  <2> HIDE DEF Step
  <2> QED BY <1>5
<1>8. F[n + 1] = <<>> /\ \A i \in 1..n : F[i] = ws[i][vs[i]] \o F[i + 1]
  <2>1. n + 1 \in 1..(n + 1) /\ n + 1 > n /\ \A i \in 1..n : i \in 1..(n + 1) /\ ~(i > n)
    OBVIOUS
  <2> QED BY <1>7, <2>1
<1> QED BY <1>6, <1>8 DEF Tails

States(f, rs, n, in) ==
    /\ f[0] = Got(<<>>, in)
    /\ \A i \in 1..n : f[i] = ReadNext(f[i - 1], rs[i])
    /\ ReadSeq(rs, n, in) = f[n]

LEMMA ReadSeqIs ==
    ASSUME NEW n \in Nat, NEW rs, NEW in
    PROVE  \E f : States(f, rs, n, in)
<1> DEFINE Step(f, i) == IF i = 0 THEN Got(<<>>, in) ELSE ReadNext(f[i - 1], rs[i])
           Good(f, k) == f = [i \in 0..k |-> Step(f, i)]
           T == {k \in 0..n : \E f : Good(f, k)}
<1>1. 0 \in T
  <2> DEFINE f == [i \in 0..0 |-> Got(<<>>, in)]
  <2>1. \A i \in 0..0 : Step(f, i) = Got(<<>>, in)
    OBVIOUS
  <2> HIDE DEF Step
  <2>2. Good(f, 0)
    BY <2>1
  <2> HIDE DEF Good
  <2> QED BY <2>2
<1>2. ASSUME NEW k \in 1..n, k - 1 \in T PROVE k \in T
  <2>1. /\ 0..k = 0..(k - 1) \cup {k} /\ k \notin 0..(k - 1) /\ k # 0 /\ k - 1 \in 0..(k - 1)
        /\ \A i \in 0..(k - 1) : i # 0 => i - 1 \in 0..(k - 1)
    OBVIOUS
  <2>2. PICK g : Good(g, k - 1)
    BY <1>2
  <2>3. \A i \in 0..(k - 1) : g[i] = Step(g, i)
    <3> HIDE DEF Step
    <3> QED BY <2>2
  <2> DEFINE new == ReadNext(g[k - 1], rs[k])
             f == [i \in 0..k |-> IF i = k THEN new ELSE g[i]]
  <2>4. /\ f = [i \in 0..k |-> f[i]] /\ f[k] = new
        /\ \A i \in 0..(k - 1) : f[i] = g[i]
    <3> HIDE DEF new
    <3> QED BY <2>1
  <2> HIDE DEF f
  <2>5. f[k] = Step(f, k)
    BY <2>1, <2>4
  <2>6. \A i \in 0..(k - 1) : f[i] = Step(f, i)
    <3> SUFFICES ASSUME NEW i \in 0..(k - 1) PROVE f[i] = Step(f, i)
      OBVIOUS
    <3>1. f[i] = g[i] /\ g[i] = Step(g, i)
      BY <2>3, <2>4
    <3>2. CASE i = 0
      BY <3>1, <3>2
    <3>3. CASE i # 0
      <4>1. f[i - 1] = g[i - 1]
        BY <2>1, <2>4, <3>3
      <4> QED BY <3>1, <3>3, <4>1
    <3> QED BY <3>2, <3>3
  <2> HIDE DEF Step
  <2>7. \A i \in 0..k : f[i] = Step(f, i)
    BY <2>1, <2>5, <2>6
  <2>8. Good(f, k)
    BY <2>4, <2>7
  <2> HIDE DEF Good
  <2> QED BY <2>8
<1>3. \E f : Good(f, n)
  <2> HIDE DEF Good
  <2>1. \A k \in 0..n : k \in T
    <3> HIDE DEF T
    <3> QED BY <1>1, <1>2, CountUp
  <2> QED BY <2>1
<1> DEFINE F == CHOOSE f : f = [i \in 0..n |-> Step(f, i)]
<1>4. F = [i \in 0..n |-> Step(F, i)]
  <2> HIDE DEF Step
  <2> QED BY <1>3
<1>5. ReadSeq(rs, n, in) = F[n]
  BY DEF ReadSeq
<1> HIDE DEF F
<1>6. \A i \in 0..n : F[i] = Step(F, i)
  <2> HIDE DEF Step
  <2> QED BY <1>4
<1>7. F[0] = Got(<<>>, in) /\ \A i \in 1..n : F[i] = ReadNext(F[i - 1], rs[i])
  <2>1. 0 \in 0..n /\ \A i \in 1..n : i \in 0..n /\ i # 0
    OBVIOUS
  <2> QED BY <1>6, <2>1
<1> QED BY <1>5, <1>7 DEF States

LEMMA TailsAreCells ==
    ASSUME NEW n \in Nat, NEW ws, NEW vs, NEW f, Tails(f, ws, vs, n),
           \A i \in 1..n : ws[i][vs[i]] \in Cells
    PROVE  \A i \in 1..(n + 1) : f[i] \in Cells
<1> DEFINE T == {k \in 0..n : f[n + 1 - k] \in Cells}
<1>1. 0 \in T
  <2>1. n + 1 - 0 = n + 1 /\ f[n + 1] = <<>> /\ <<>> \in Cells
    BY DEF Tails, Cells
  <2> QED BY <2>1
<1>2. ASSUME NEW k \in 1..n, k - 1 \in T PROVE k \in T
  <2> DEFINE m == n + 1 - k
  <2>1. m \in 1..n /\ m + 1 = n + 1 - (k - 1)
    OBVIOUS
  <2>2. f[m + 1] \in Cells
    BY <1>2, <2>1, Zenon
  <2>3. f[m] \in Cells
    <3> HIDE DEF m
    <3>1. f[m] = ws[m][vs[m]] \o f[m + 1] /\ ws[m][vs[m]] \in Cells
      BY <2>1 DEF Tails
    <3> QED BY <2>2, <3>1, CellsAre
  <2> QED BY <2>3
<1>3. \A k \in 0..n : k \in T
  <2> HIDE DEF T
  <2> QED BY <1>1, <1>2, CountUp
<1> SUFFICES ASSUME NEW i \in 1..(n + 1) PROVE f[i] \in Cells
  OBVIOUS
<1>4. n + 1 - i \in 0..n /\ n + 1 - (n + 1 - i) = i
  OBVIOUS
<1> QED BY <1>3, <1>4

(* What is put at the end of what was read *)
LEMMA AppendIs ==
    ASSUME NEW S, NEW s \in Seq(S), NEW e \in S
    PROVE  /\ Append(s, e) \in Seq(S) /\ Len(Append(s, e)) = Len(s) + 1 /\ Len(s) \in Nat
           /\ Append(s, e)[Len(s) + 1] = e /\ \A i \in 1..Len(s) : Append(s, e)[i] = s[i]
  BY AppendProperties, LenProperties

LEMMA FrontIs ==
    ASSUME NEW S, NEW s \in Seq(S), NEW k \in 1..Len(s)
    PROVE  SubSeq(s, 1, k) = Append(SubSeq(s, 1, k - 1), s[k])
<1> DEFINE a == SubSeq(s, 1, k - 1)
           b == SubSeq(s, 1, k)
<1>1. Len(s) \in Nat /\ s[k] \in S /\ \A i \in 1..Len(s) : s[i] \in S
  BY LenProperties, ElementOfSeq
<1>2. a \in Seq(S) /\ Len(a) = k - 1 /\ \A i \in 1..(k - 1) : a[i] = s[i]
  <2>1. 1 \in Int /\ k - 1 \in Int /\ \A i \in 1..(k - 1) : s[i] \in S
    BY <1>1
  <2>2. /\ a \in Seq(S) /\ Len(a) = IF 1 <= k - 1 THEN (k - 1) - 1 + 1 ELSE 0
        /\ \A i \in 1..((k - 1) - 1 + 1) : a[i] = s[1 + i - 1]
    BY <2>1, SubSeqProperties
  <2> QED BY <2>2
<1>3. b \in Seq(S) /\ Len(b) = k /\ \A i \in 1..k : b[i] = s[i]
  <2>1. 1 \in Int /\ k \in Int /\ \A i \in 1..k : s[i] \in S
    BY <1>1
  <2>2. /\ b \in Seq(S) /\ Len(b) = IF 1 <= k THEN k - 1 + 1 ELSE 0
        /\ \A i \in 1..(k - 1 + 1) : b[i] = s[1 + i - 1]
    BY <2>1, SubSeqProperties
  <2> QED BY <2>2
<1> HIDE DEF a, b
<1>4. /\ Append(a, s[k]) \in Seq(S) /\ Len(Append(a, s[k])) = k /\ Append(a, s[k])[k] = s[k]
      /\ \A i \in 1..(k - 1) : Append(a, s[k])[i] = s[i]
  BY <1>1, <1>2, AppendIs
<1>5. \A i \in 1..k : Append(a, s[k])[i] = b[i]
  BY <1>3, <1>4
<1>6. Append(a, s[k]) = b
  BY <1>3, <1>4, <1>5, SeqEqual
<1> QED BY <1>6 DEF a, b

-----------------------------------------------------------------------------
(* The loops of two that agree about each element *)
GotIs(r, v, rest) == Ok(r) /\ r.val = v /\ r.rest = rest

LEMMA GotHas ==
    ASSUME NEW v, NEW rest
    PROVE  Ok(Got(v, rest)) /\ Got(v, rest).val = v /\ Got(v, rest).rest = rest
  BY DEF Ok, Got

LEMMA MalformedIs ==
    ASSUME NEW r, r.out = "malformed"
    PROVE  ~Ok(r)
  BY DEF Ok

LEMMA LoopWrites ==
    ASSUME NEW n \in Nat, NEW S, NEW vs \in Seq(S), Len(vs) = n, NEW ws,
           \A i \in 1..n : ws[i][vs[i]] \in Cells
    PROVE  WriteSeq(ws, vs) \in Cells
<1>1. PICK f : Tails(f, ws, vs, n)
  BY WriteSeqIs
<1>2. f[1] \in Cells
  BY <1>1, TailsAreCells
<1> QED BY <1>1, <1>2 DEF Tails

ReadsParts(n, vs, ws, rs) == \A i \in 1..n : Reads({vs[i]}, ws[i], rs[i])
AgreeParts(n, vs, ws, rs) == \A i \in 1..n : Agree({vs[i]}, ws[i], rs[i])

LEMMA LoopReads ==
    ASSUME NEW n \in Nat, NEW S, NEW vs \in Seq(S), Len(vs) = n, NEW ws, NEW rs,
           ReadsParts(n, vs, ws, rs), NEW rest \in Cells
    PROVE  ReadSeq(rs, n, WriteSeq(ws, vs) \o rest) = Got(vs, rest)
<1>1. \A i \in 1..n : /\ ws[i][vs[i]] \in Cells
                      /\ \A e \in Cells : rs[i][ws[i][vs[i]] \o e] = Got(vs[i], e)
  BY DEF ReadsParts, Reads
<1>2. PICK f : Tails(f, ws, vs, n)
  BY WriteSeqIs
<1>3. \A i \in 1..(n + 1) : f[i] \in Cells
  BY <1>1, <1>2, TailsAreCells
<1>4. PICK g : States(g, rs, n, WriteSeq(ws, vs) \o rest)
  BY ReadSeqIs
<1> DEFINE T == {k \in 0..n : g[k] = Got(SubSeq(vs, 1, k), f[k + 1] \o rest)}
<1>5. 0 \in T
  <2>1. g[0] = Got(<<>>, f[1] \o rest) /\ SubSeq(vs, 1, 0) = <<>>
    BY <1>2, <1>4, SubSeqEmpty DEF Tails, States
  <2>2. 0 \in 0..n /\ 0 + 1 = 1
    OBVIOUS
  <2> QED BY <2>1, <2>2
<1>6. ASSUME NEW k \in 1..n, k - 1 \in T PROVE k \in T
  <2> DEFINE s == SubSeq(vs, 1, k - 1)
             w == ws[k][vs[k]]
  <2>1. g[k - 1] = Got(s, f[k] \o rest) /\ f[k] = w \o f[k + 1] /\ g[k] = ReadNext(g[k - 1], rs[k])
    <3>1. k - 1 + 1 = k
      OBVIOUS
    <3> QED BY <1>2, <1>4, <1>6, <3>1 DEF Tails, States
  <2>2. w \in Cells /\ f[k + 1] \in Cells /\ f[k + 1] \o rest \in Cells
    BY <1>1, <1>3, CellsAre
  <2>3. (w \o f[k + 1]) \o rest = w \o (f[k + 1] \o rest)
    <3>1. w \in Cells /\ f[k + 1] \in Cells /\ rest \in Cells
      BY <2>2
    <3> QED BY ONLY <3>1, Regroup, Zenon
  <2>4. rs[k][w \o (f[k + 1] \o rest)] = Got(vs[k], f[k + 1] \o rest)
    BY <1>1, <2>2, Zenon
  <2>5. Append(s, vs[k]) = SubSeq(vs, 1, k)
    BY FrontIs
  <2> HIDE DEF s, w
  <2>6. g[k] = Got(Append(s, vs[k]), f[k + 1] \o rest)
    <3> DEFINE y == f[k] \o rest
               z == f[k + 1] \o rest
    <3>1. rs[k][y] = Got(vs[k], z) /\ g[k - 1] = Got(s, y)
      BY <2>1, <2>3, <2>4, Zenon
    <3> HIDE DEF y, z
    <3>2. ReadNext(Got(s, y), rs[k]) = Got(Append(s, vs[k]), z)
      BY <3>1, GotHas DEF ReadNext
    <3> QED BY <2>1, <3>1, <3>2 DEF z
  <2> QED BY <2>5, <2>6
<1>7. n \in T
  <2> HIDE DEF T
  <2>1. \A k \in 0..n : k \in T
    BY <1>5, <1>6, CountUp
  <2> QED BY <2>1
<1>8. g[n] = Got(SubSeq(vs, 1, n), f[n + 1] \o rest) /\ SubSeq(vs, 1, n) = vs
  <2>1. SubSeq(vs, 1, n) = vs
    BY SubSeqFull
  <2> QED BY <1>7, <2>1
<1>9. f[n + 1] \o rest = rest
  BY <1>2, CellsAre DEF Tails
<1> QED BY <1>4, <1>8, <1>9 DEF States

LEMMA LoopRefuses ==
    ASSUME NEW n \in Nat, NEW S, NEW vs \in Seq(S), Len(vs) = n, NEW ws, NEW rs,
           AgreeParts(n, vs, ws, rs),
           NEW p \in Cells, NEW q \in Cells, q # <<>>, p \o q = WriteSeq(ws, vs)
    PROVE  ReadSeq(rs, n, p).out = "malformed"
<1>1. \A i \in 1..n : /\ ws[i][vs[i]] \in Cells
                      /\ \A e \in Cells : rs[i][ws[i][vs[i]] \o e] = Got(vs[i], e)
                      /\ \A x, y \in Cells :
                            x \o y = ws[i][vs[i]] /\ y # <<>> => rs[i][x].out = "malformed"
  BY DEF AgreeParts, Agree, Reads, Refuses
<1>2. PICK f : Tails(f, ws, vs, n)
  BY WriteSeqIs
<1>3. \A i \in 1..(n + 1) : f[i] \in Cells
  BY <1>1, <1>2, TailsAreCells
<1>4. PICK g : States(g, rs, n, p)
  BY ReadSeqIs
<1> DEFINE Left(k, x) == x \in Cells /\ Ok(g[k]) /\ g[k].rest = x /\ x \o q = f[k + 1]
           T == {k \in 0..n : g[k].out = "malformed" \/ \E x \in Cells : Left(k, x)}
<1>5. 0 \in T
  <2>1. g[0] = Got(<<>>, p) /\ p \o q = f[0 + 1]
    BY <1>2, <1>4 DEF Tails, States
  <2>2. Left(0, p)
    BY <2>1, GotHas
  <2> HIDE DEF Left
  <2> QED BY <2>2
<1>6. ASSUME NEW k \in 1..n, k - 1 \in T PROVE k \in T
  <2>0. g[k] = ReadNext(g[k - 1], rs[k])
    BY <1>4 DEF States
  <2>1. CASE g[k - 1].out = "malformed"
    <3>1. g[k] = g[k - 1]
      BY <2>0, <2>1, MalformedIs DEF ReadNext
    <3> QED BY <2>1, <3>1
  <2>2. CASE \E x \in Cells : Left(k - 1, x)
    <3>1. PICK x \in Cells : Left(k - 1, x)
      BY <2>2
    <3> DEFINE w == ws[k][vs[k]]
    <3>2. w \in Cells /\ f[k + 1] \in Cells /\ x \o q = w \o f[k + 1]
      <4>1. k - 1 + 1 = k /\ k \in 1..(n + 1) /\ k + 1 \in 1..(n + 1)
        OBVIOUS
      <4>2. x \o q = f[k] /\ f[k] = w \o f[k + 1]
        BY <1>2, <3>1, <4>1 DEF Tails
      <4> QED BY <1>1, <1>3, <4>1, <4>2
    <3>3. CASE Inside(x, w)
      <4>1. rs[k][x].out = "malformed"
        BY <1>1, <3>3 DEF Inside
      <4>2. g[k] = rs[k][x]
        BY <2>0, <3>1, <4>1, MalformedIs DEF ReadNext
      <4> QED BY <4>1, <4>2
    <3>4. CASE Behind(x, q, w, f[k + 1])
      <4>1. PICK y \in Cells : x = w \o y /\ y \o q = f[k + 1]
        BY <3>4, Zenon DEF Behind
      <4>2. rs[k][x] = Got(vs[k], y)
        BY <1>1, <4>1, Zenon
      <4>3. Ok(g[k]) /\ g[k].rest = y
        BY <2>0, <3>1, <4>2, GotHas DEF ReadNext
      <4>4. Left(k, y)
        BY <4>1, <4>3
      <4> HIDE DEF Left
      <4> QED BY <4>1, <4>4
    <3> HIDE DEF w
    <3> QED BY <3>2, <3>3, <3>4, CutBoth
  <2> QED BY <1>6, <2>1, <2>2
<1>7. n \in T
  <2> HIDE DEF T
  <2>1. \A k \in 0..n : k \in T
    BY <1>5, <1>6, CountUp
  <2> QED BY <2>1
<1>8. ASSUME NEW x \in Cells, Left(n, x) PROVE FALSE
  <2>1. x \o q = <<>>
    BY <1>2, <1>8 DEF Tails
  <2>2. Len(x) + Len(q) = 0 /\ Len(x) \in Nat /\ Len(q) \in Nat /\ Len(q) # 0
    BY <2>1, CellsAre
  <2> QED BY <2>2
<1> QED BY <1>4, <1>7, <1>8 DEF States

(* Whatever the loop accepts was written element by element. *)
LEMMA NextOk ==
    ASSUME NEW b, NEW r, Ok(ReadNext(b, r))
    PROVE  /\ Ok(b) /\ Ok(r[b.rest])
           /\ ReadNext(b, r).val = Append(b.val, r[b.rest].val)
           /\ ReadNext(b, r).rest = r[b.rest].rest
<1>1. Ok(b)
  BY DEF ReadNext
<1>2. Ok(r[b.rest])
  BY <1>1 DEF ReadNext
<1>3. ReadNext(b, r) = Got(Append(b.val, r[b.rest].val), r[b.rest].rest)
  BY <1>1, <1>2 DEF ReadNext
<1>4. /\ ReadNext(b, r).val = Append(b.val, r[b.rest].val)
      /\ ReadNext(b, r).rest = r[b.rest].rest
  <2> DEFINE x == Append(b.val, r[b.rest].val)
             y == r[b.rest].rest
  <2>1. ReadNext(b, r) = Got(x, y)
    BY <1>3
  <2> HIDE DEF x, y
  <2>2. ReadNext(b, r).val = x /\ ReadNext(b, r).rest = y
    BY <2>1, GotHas
  <2> QED BY <2>2 DEF x, y
<1> QED BY <1>1, <1>2, <1>4

ExactParts(n, S, Vs, ws, rs) ==
    \A i \in 1..n : /\ Vs[i] \subseteq S /\ Reads(Vs[i], ws[i], rs[i])
                    /\ Exact(Vs[i], ws[i], rs[i])

Written(r, in, n, S, Vs, ws) ==
    /\ r.val \in Seq(S) /\ Len(r.val) = n /\ \A i \in 1..n : r.val[i] \in Vs[i]
    /\ r.rest \in Cells /\ in = WriteSeq(ws, r.val) \o r.rest

LEMMA LoopExact ==
    ASSUME NEW n \in Nat, NEW S, NEW Vs, NEW ws, NEW rs, ExactParts(n, S, Vs, ws, rs),
           NEW in \in Cells, Ok(ReadSeq(rs, n, in))
    PROVE  Written(ReadSeq(rs, n, in), in, n, S, Vs, ws)
<1>0. \A i \in 1..n : /\ Vs[i] \subseteq S /\ Reads(Vs[i], ws[i], rs[i])
                      /\ Exact(Vs[i], ws[i], rs[i])
  BY DEF ExactParts
<1>1. PICK g : States(g, rs, n, in)
  BY ReadSeqIs
<1>2. Ok(g[n])
  BY <1>1 DEF States
<1>3. \A i \in 1..n : Ok(g[i]) =>
        /\ Ok(g[i - 1]) /\ Ok(rs[i][g[i - 1].rest])
        /\ g[i].val = Append(g[i - 1].val, rs[i][g[i - 1].rest].val)
        /\ g[i].rest = rs[i][g[i - 1].rest].rest
  <2> SUFFICES ASSUME NEW i \in 1..n, Ok(g[i])
               PROVE  /\ Ok(g[i - 1]) /\ Ok(rs[i][g[i - 1].rest])
                      /\ g[i].val = Append(g[i - 1].val, rs[i][g[i - 1].rest].val)
                      /\ g[i].rest = rs[i][g[i - 1].rest].rest
    OBVIOUS
  <2> DEFINE b == g[i - 1]
             r == rs[i]
  <2>1. g[i] = ReadNext(b, r)
    BY <1>1 DEF States
  <2> HIDE DEF b, r
  <2>2. /\ Ok(b) /\ Ok(r[b.rest]) /\ g[i].val = Append(b.val, r[b.rest].val)
        /\ g[i].rest = r[b.rest].rest
    BY <2>1, NextOk
  <2> QED BY <2>2 DEF b, r
<1> DEFINE Up(k) == /\ g[k].val \in Seq(S) /\ Len(g[k].val) = k
                    /\ \A i \in 1..k : g[k].val[i] \in Vs[i]
                    /\ g[k].rest \in Cells
           T == {k \in 0..n : Ok(g[k]) => Up(k)}
<1>4. 0 \in T
  <2>1. g[0].val = <<>> /\ g[0].rest = in
    BY <1>1, GotHas DEF States
  <2>2. Up(0)
    BY <2>1
  <2> HIDE DEF Up
  <2> QED BY <2>2
<1>5. ASSUME NEW k \in 1..n, k - 1 \in T PROVE k \in T
  <2> SUFFICES ASSUME Ok(g[k]) PROVE Up(k)
    OBVIOUS
  <2> DEFINE e == rs[k][g[k - 1].rest]
             s == g[k - 1].val
  <2>1. Ok(e) /\ g[k].val = Append(s, e.val) /\ g[k].rest = e.rest /\ Ok(g[k - 1])
    BY <1>3
  <2>2. s \in Seq(S) /\ Len(s) = k - 1 /\ \A i \in 1..(k - 1) : s[i] \in Vs[i]
    BY <1>5, <2>1
  <2>3. g[k - 1].rest \in Cells
    BY <1>5, <2>1
  <2>4. e.val \in Vs[k] /\ e.val \in S /\ e.rest \in Cells
    BY <1>0, <2>1, <2>3, Zenon DEF Exact
  <2> HIDE DEF e, s
  <2>5. /\ Append(s, e.val) \in Seq(S) /\ Len(Append(s, e.val)) = k
        /\ Append(s, e.val)[k] = e.val /\ \A i \in 1..(k - 1) : Append(s, e.val)[i] = s[i]
    BY <2>2, <2>4, AppendIs
  <2>6. \A i \in 1..k : Append(s, e.val)[i] \in Vs[i]
    <3>1. \A i \in 1..k : i = k \/ i \in 1..(k - 1)
      OBVIOUS
    <3> QED BY <2>2, <2>4, <2>5, <3>1
  <2> QED BY <2>1, <2>4, <2>5, <2>6
<1>6. \A k \in 0..n : Ok(g[k]) => Up(k)
  <2> HIDE DEF T, Up
  <2>1. \A k \in 0..n : k \in T
    BY <1>4, <1>5, CountUp
  <2> QED BY <2>1 DEF T
<1> DEFINE val == g[n].val
           last == g[n].rest
<1>7. Up(n)
  BY <1>2, <1>6
<1>8. PICK f : Tails(f, ws, val, n)
  BY <1>7, WriteSeqIs
<1> DEFINE Down(k) == /\ Ok(g[k]) /\ \A i \in 1..k : g[k].val[i] = val[i]
                      /\ f[k + 1] \in Cells /\ g[k].rest = f[k + 1] \o last
           D == {j \in 0..n : Down(n - j)}
<1>9. 0 \in D
  <2>1. f[n + 1] = <<>> /\ <<>> \in Cells /\ <<>> \o last = last
    BY <1>7, <1>8, CellsAre DEF Tails
  <2>2. Down(n)
    BY <1>2, <2>1
  <2> HIDE DEF Down
  <2>3. n - 0 = n /\ 0 \in 0..n
    OBVIOUS
  <2> QED BY <2>2, <2>3
<1>10. ASSUME NEW j \in 1..n, j - 1 \in D PROVE j \in D
  <2> DEFINE k == n - (j - 1)
  <2>1. k \in 1..n /\ n - j = k - 1 /\ k - 1 + 1 = k /\ k \in 0..n /\ k - 1 \in 0..n
    OBVIOUS
  <2>2. Down(k)
    BY <1>10
  <2> HIDE DEF k
  <2> DEFINE e == rs[k][g[k - 1].rest]
             s == g[k - 1].val
  <2>3. Ok(e) /\ g[k].val = Append(s, e.val) /\ g[k].rest = e.rest /\ Ok(g[k - 1])
    BY <1>3, <2>1, <2>2
  <2>4. s \in Seq(S) /\ Len(s) = k - 1 /\ g[k - 1].rest \in Cells
    BY <1>6, <2>1, <2>3
  <2>5. /\ e.val \in Vs[k] /\ e.val \in S /\ e.rest \in Cells
        /\ g[k - 1].rest = ws[k][e.val] \o e.rest
    BY <1>0, <2>1, <2>3, <2>4, Zenon DEF Exact
  <2>6. /\ g[k].val[k] = e.val
        /\ \A i \in 1..(k - 1) : g[k].val[i] = s[i]
    <3> HIDE DEF e, s
    <3> QED BY <2>1, <2>3, <2>4, <2>5, AppendIs
  <2>7. val[k] = e.val /\ \A i \in 1..(k - 1) : s[i] = val[i]
    BY <2>1, <2>2, <2>6
  <2>8. f[k] = ws[k][e.val] \o f[k + 1] /\ ws[k][e.val] \in Cells /\ f[k + 1] \in Cells
    <3>1. f[k] = ws[k][val[k]] \o f[k + 1]
      BY <1>8, <2>1, Zenon DEF Tails
    <3>2. ws[k][e.val] \in Cells
      BY <1>0, <2>1, <2>5, Zenon DEF Reads
    <3> QED BY <2>2, <2>7, <3>1, <3>2, Zenon
  <2>9. f[k] \in Cells /\ g[k - 1].rest = f[k] \o last
    <3> DEFINE w == ws[k][e.val]
               t == f[k + 1]
    <3>1. w \in Cells /\ t \in Cells /\ last \in Cells /\ e.rest = t \o last
      BY <1>7, <2>2, <2>3, <2>8, Zenon
    <3>2. (w \o t) \o last = w \o (t \o last) /\ w \o t \in Cells
      <4> HIDE DEF w, t, last
      <4> QED BY ONLY <3>1, Regroup, CellsAre, SMTT(30)
    <3> QED BY <2>5, <2>8, <3>1, <3>2, Zenon
  <2>10. Down(k - 1)
    BY <2>1, <2>3, <2>7, <2>9
  <2> HIDE DEF Down
  <2> QED BY <2>1, <2>10
<1>11. Down(0)
  <2> HIDE DEF D, Down
  <2>1. n \in D
    <3>1. \A j \in 0..n : j \in D
      BY <1>9, <1>10, CountUp
    <3> QED BY <3>1
  <2>2. n - n = 0
    OBVIOUS
  <2> QED BY <2>1, <2>2 DEF D
<1>12. in = WriteSeq(ws, val) \o last
  <2>1. g[0].rest = in /\ f[0 + 1] = WriteSeq(ws, val)
    BY <1>1, <1>8, GotHas DEF States, Tails
  <2> QED BY <1>11, <2>1
<1>13. ReadSeq(rs, n, in) = g[n]
  BY <1>1 DEF States
<1> QED BY <1>7, <1>12, <1>13 DEF Written

-----------------------------------------------------------------------------
(* Lists of values of one type *)
LEMMA MadeIs ==
    ASSUME NEW r, NEW v
    PROVE  /\ Ok(r) => Made(r, v) = Got(v, r.rest)
           /\ ~Ok(r) => Made(r, v) = r
           /\ Ok(Made(r, v)) => Ok(r)
  BY DEF Made

LEMMA WholeIs ==
    ASSUME NEW r
    PROVE  /\ Ok(r) /\ r.rest = <<>> => Whole(r) = r
           /\ ~Ok(r) => Whole(r) = r
           /\ Ok(Whole(r)) => Ok(r) /\ r.rest = <<>>
<1>1. ~Ok(Fails("malformed"))
  BY DEF Fails, Ok
<1> QED BY <1>1 DEF Whole

LEMMA EachWrites ==
    ASSUME NEW V, NEW w, \A v \in V : w[v] \in Cells, NEW vs \in Seq(V)
    PROVE  WriteEach(w, vs) \in Cells
<1> DEFINE ws == [i \in DOMAIN vs |-> w]
<1>1. DOMAIN vs = 1..Len(vs) /\ Len(vs) \in Nat /\ \A i \in 1..Len(vs) : vs[i] \in V
  BY LenProperties, ElementOfSeq
<1>2. \A i \in 1..Len(vs) : ws[i][vs[i]] \in Cells
  BY <1>1
<1> HIDE DEF ws
<1>3. WriteSeq(ws, vs) \in Cells
  BY <1>1, <1>2, LoopWrites
<1> QED BY <1>3 DEF WriteEach, ws

LEMMA EachReads ==
    ASSUME NEW V, NEW w, NEW r, Reads(V, w, r), NEW vs \in Seq(V), NEW n, n = Len(vs),
           NEW rest \in Cells
    PROVE  ReadEach(r, n, WriteEach(w, vs) \o rest) = Got(vs, rest)
<1> DEFINE ws == [i \in DOMAIN vs |-> w]
           rs == [i \in 1..n |-> r]
<1>1. DOMAIN vs = 1..n /\ n \in Nat /\ \A i \in 1..n : vs[i] \in V
  BY LenProperties, ElementOfSeq
<1>2. \A i \in 1..n : ws[i] = w /\ rs[i] = r
  BY <1>1
<1>3. ReadsParts(n, vs, ws, rs)
  BY <1>1, <1>2 DEF ReadsParts, Reads
<1> HIDE DEF ws, rs
<1>4. ReadSeq(rs, n, WriteSeq(ws, vs) \o rest) = Got(vs, rest)
  BY <1>1, <1>3, LoopReads
<1> QED BY <1>4 DEF ReadEach, WriteEach, ws, rs

LEMMA EachRefuses ==
    ASSUME NEW V, NEW w, NEW r, Agree(V, w, r), NEW vs \in Seq(V), NEW n, n = Len(vs),
           NEW p \in Cells, NEW q \in Cells, q # <<>>, p \o q = WriteEach(w, vs)
    PROVE  ReadEach(r, n, p).out = "malformed"
<1> DEFINE ws == [i \in DOMAIN vs |-> w]
           rs == [i \in 1..n |-> r]
<1>1. DOMAIN vs = 1..n /\ n \in Nat /\ \A i \in 1..n : vs[i] \in V
  BY LenProperties, ElementOfSeq
<1>2. \A i \in 1..n : ws[i] = w /\ rs[i] = r
  BY <1>1
<1>3. AgreeParts(n, vs, ws, rs)
  <2>1. \A v \in V : Agree({v}, w, r)
    BY DEF Agree, Reads, Refuses
  <2> QED BY <1>1, <1>2, <2>1 DEF AgreeParts
<1>4. p \o q = WriteSeq(ws, vs)
  BY DEF WriteEach
<1> HIDE DEF ws, rs
<1>5. ReadSeq(rs, n, p).out = "malformed"
  BY <1>1, <1>3, <1>4, LoopRefuses, Zenon
<1> QED BY <1>5 DEF ReadEach, rs

WrittenEach(r, in, n, V, w) ==
    /\ r.val \in Seq(V) /\ Len(r.val) = n
    /\ r.rest \in Cells /\ in = WriteEach(w, r.val) \o r.rest

LEMMA EachExact ==
    ASSUME NEW V, NEW w, NEW r, Reads(V, w, r), Exact(V, w, r), NEW n \in Nat,
           NEW in \in Cells, Ok(ReadEach(r, n, in))
    PROVE  WrittenEach(ReadEach(r, n, in), in, n, V, w)
<1> DEFINE Vs == [i \in 1..n |-> V]
           ws == [i \in 1..n |-> w]
           rs == [i \in 1..n |-> r]
           res == ReadSeq(rs, n, in)
<1>1. \A i \in 1..n : Vs[i] = V /\ ws[i] = w /\ rs[i] = r
  OBVIOUS
<1>2. ReadEach(r, n, in) = res
  BY DEF ReadEach
<1>3. Ok(ReadSeq(rs, n, in))
  BY <1>2
<1> HIDE DEF ws, rs, Vs
<1>4. ExactParts(n, V, Vs, ws, rs)
  BY <1>1 DEF ExactParts
<1>5. Written(ReadSeq(rs, n, in), in, n, V, Vs, ws)
  BY <1>3, <1>4, LoopExact
<1> HIDE DEF res
<1>6. /\ res.val \in Seq(V) /\ Len(res.val) = n /\ res.rest \in Cells
      /\ in = WriteSeq(ws, res.val) \o res.rest
  BY <1>5 DEF Written, res
<1>7. DOMAIN res.val = 1..n
  BY <1>6, LenProperties
<1>8. WriteEach(w, res.val) = WriteSeq(ws, res.val)
  BY <1>7 DEF WriteEach, ws
<1> QED BY <1>2, <1>6, <1>8 DEF WrittenEach

(* read_value() makes a list of them. *)
LEMMA ListsAre ==
    ASSUME NEW r, NEW n, NEW in
    PROVE  ReadLists(r, n, in) = Made(ReadEach(r, n, in), List(ReadEach(r, n, in).val))
  BY DEF ReadLists, ReadList, ReadEach

LEMMA ListsRead ==
    ASSUME NEW V, NEW w, NEW r, Reads(V, w, r), NEW vs \in Seq(V), NEW n, n = Len(vs),
           NEW rest \in Cells
    PROVE  ReadLists(r, n, WriteEach(w, vs) \o rest) = Got(List(vs), rest)
<1> DEFINE in == WriteEach(w, vs) \o rest
           e == ReadEach(r, n, in)
<1>1. e = Got(vs, rest)
  BY EachReads
<1>2. ReadLists(r, n, in) = Made(e, List(e.val))
  BY ListsAre
<1> HIDE DEF in, e
<1> QED BY <1>1, <1>2, MadeIs, GotHas DEF in

LEMMA ListsRefuse ==
    ASSUME NEW V, NEW w, NEW r, Agree(V, w, r), NEW vs \in Seq(V), NEW n, n = Len(vs),
           NEW p \in Cells, NEW q \in Cells, q # <<>>, p \o q = WriteEach(w, vs)
    PROVE  ReadLists(r, n, p).out = "malformed"
<1>1. ReadEach(r, n, p).out = "malformed"
  BY EachRefuses
<1> QED BY <1>1, ListsAre, MadeIs, MalformedIs

IsList(v, V, n) == \E vs \in Seq(V) : Len(vs) = n /\ v = List(vs)

WrittenLists(r, in, n, V, w) ==
    /\ IsList(r.val, V, n)
    /\ r.rest \in Cells /\ in = WriteEach(w, r.val.list) \o r.rest

LEMMA ListsExact ==
    ASSUME NEW V, NEW w, NEW r, Reads(V, w, r), Exact(V, w, r), NEW n \in Nat,
           NEW in \in Cells, Ok(ReadLists(r, n, in))
    PROVE  WrittenLists(ReadLists(r, n, in), in, n, V, w)
<1> DEFINE e == ReadEach(r, n, in)
<1>1. ReadLists(r, n, in) = Made(e, List(e.val))
  BY ListsAre
<1>2. Ok(ReadEach(r, n, in))
  BY <1>1, MadeIs
<1>3. WrittenEach(ReadEach(r, n, in), in, n, V, w)
  BY <1>2, EachExact
<1> HIDE DEF e
<1>4. e.val \in Seq(V) /\ Len(e.val) = n /\ e.rest \in Cells /\ in = WriteEach(w, e.val) \o e.rest
  BY <1>3 DEF WrittenEach, e
<1>5. Ok(e)
  BY <1>2 DEF e
<1>6. ReadLists(r, n, in).val = List(e.val) /\ ReadLists(r, n, in).rest = e.rest
  BY <1>1, <1>5, MadeIs, GotHas
<1>7. List(e.val).list = e.val /\ IsList(List(e.val), V, n)
  BY <1>4 DEF List, IsList
<1> QED BY <1>4, <1>6, <1>7 DEF WrittenLists

-----------------------------------------------------------------------------
(* A size, and what it counts *)
LEMMA SizedIs ==
    ASSUME NEW n \in Nat, NEW b \in Cells, NEW rest \in Cells
    PROVE  <<n>> \o b \in Cells /\ (<<n>> \o b) \o rest = <<n>> \o (b \o rest) /\ b \o rest \in Cells
<1>1. <<n>> \in Cells
  BY OneCell
<1> QED BY <1>1, CellsAre, Regroup

LEMMA ReadSizeIs ==
    ASSUME NEW n \in Nat, n <= AllocMax, NEW rest \in Cells
    PROVE  ReadSize(<<n>> \o rest) = Got(<<n>>, rest)
<1> DEFINE r == Take(<<n>> \o rest, 1)
<1>1. r = Got(<<n>>, rest) /\ r.val[1] = n
  BY TakeSize
<1>2. AllocMax \in Nat /\ ~(n > AllocMax)
  BY CodecAssumption
<1> HIDE DEF r
<1>3. ReadSize(<<n>> \o rest) = IF Ok(r) /\ r.val[1] > AllocMax THEN Fails("allocation") ELSE r
  BY DEF ReadSize, r
<1> QED BY <1>1, <1>2, <1>3

LEMMA ReadSizeRefuses ==
    ASSUME NEW p, Take(p, 1) = Fails("malformed")
    PROVE  ReadSize(p) = Fails("malformed") /\ ~Ok(ReadSize(p)) /\ ReadSize(p).out = "malformed"
  BY DEF ReadSize, Fails, Ok

LEMMA ReadSizeExact ==
    ASSUME NEW in \in Cells, Ok(ReadSize(in))
    PROVE  /\ ReadSize(in).val[1] \in Nat /\ ReadSize(in).val[1] <= AllocMax
           /\ ReadSize(in).rest \in Cells
           /\ in = <<ReadSize(in).val[1]>> \o ReadSize(in).rest
<1> DEFINE r == Take(in, 1)
<1>1. ReadSize(in) = IF Ok(r) /\ r.val[1] > AllocMax THEN Fails("allocation") ELSE r
  BY DEF ReadSize
<1>2. Ok(r)
  BY <1>1 DEF Fails, Ok
<1>3. r.val[1] \in Nat /\ r.rest \in Cells /\ in = <<r.val[1]>> \o r.rest
  BY <1>2, SizeGets
<1> HIDE DEF r
<1>4. ~(r.val[1] > AllocMax)
  BY <1>1, <1>2 DEF Fails, Ok
<1>5. AllocMax \in Nat
  BY CodecAssumption
<1>6. r.val[1] <= AllocMax
  BY <1>3, <1>4, <1>5
<1>7. ReadSize(in) = r
  BY <1>1, <1>4
<1> QED BY <1>3, <1>6, <1>7

LEMMA StringReads ==
    ASSUME NEW b \in Cells, Len(b) <= AllocMax
    PROVE  /\ WriteString(b) \in Cells
           /\ \A rest \in Cells : ReadString(WriteString(b) \o rest) = Got(b, rest)
<1>1. Len(b) \in Nat
  BY CellsAre
<1>2. WriteString(b) \in Cells
  BY <1>1, SizedIs, CellsAre DEF WriteString
<1> SUFFICES ASSUME NEW rest \in Cells PROVE ReadString(WriteString(b) \o rest) = Got(b, rest)
  BY <1>2
<1> DEFINE in == WriteString(b) \o rest
           size == ReadSize(in)
<1>3. in = <<Len(b)>> \o (b \o rest) /\ b \o rest \in Cells
  BY <1>1, SizedIs DEF WriteString
<1>4. size = Got(<<Len(b)>>, b \o rest)
  BY <1>1, <1>3, ReadSizeIs
<1>5. Take(b \o rest, Len(b)) = Got(b, rest)
  BY TakeFront
<1>6. ReadString(in) = IF Ok(size) THEN Take(size.rest, size.val[1]) ELSE size
  BY DEF ReadString
<1> HIDE DEF size, in
<1>7. Ok(size) /\ size.rest = b \o rest /\ size.val[1] = Len(b)
  <2>1. <<Len(b)>>[1] = Len(b)
    BY <1>1, OneCell
  <2> QED BY <1>4, <2>1, GotHas
<1>8. ReadString(in) = Got(b, rest)
  BY <1>5, <1>6, <1>7
<1> QED BY <1>8 DEF in

LEMMA StringRefuses ==
    ASSUME NEW b \in Cells, Len(b) <= AllocMax,
           NEW p \in Cells, NEW q \in Cells, q # <<>>, p \o q = WriteString(b)
    PROVE  ReadString(p).out = "malformed"
<1>1. Len(b) \in Nat /\ p \o q = <<Len(b)>> \o b
  BY CellsAre DEF WriteString
<1>2. CASE Take(p, 1) = Fails("malformed")
  BY <1>2, ReadSizeRefuses DEF ReadString
<1>3. CASE Behind(p, q, <<Len(b)>>, b)
  <2>1. PICK y \in Cells : p = <<Len(b)>> \o y /\ y \o q = b
    BY <1>3, Zenon DEF Behind
  <2> DEFINE size == ReadSize(p)
  <2>2. size = Got(<<Len(b)>>, y)
    BY <1>1, <2>1, ReadSizeIs
  <2>3. Len(y) < Len(b)
    <3>1. Len(b) = Len(y) + Len(q) /\ Len(q) # 0 /\ Len(q) \in Nat /\ Len(y) \in Nat
      BY <2>1, CellsAre
    <3> QED BY <3>1
  <2>4. Take(y, Len(b)) = Fails("malformed")
    <3>1. ~(Len(b) <= Len(y)) /\ Len(b) \in Nat
      BY <1>1, <2>3, CellsAre
    <3> QED BY <3>1, TakeGets
  <2>5. ReadString(p) = IF Ok(size) THEN Take(size.rest, size.val[1]) ELSE size
    BY DEF ReadString
  <2> HIDE DEF size
  <2>6. Ok(size) /\ size.rest = y /\ size.val[1] = Len(b)
    <3>1. <<Len(b)>>[1] = Len(b)
      BY <1>1, OneCell
    <3> QED BY <2>2, <3>1, GotHas
  <2>7. ReadString(p) = Fails("malformed")
    BY <2>4, <2>5, <2>6
  <2> QED BY <2>7 DEF Fails
<1> QED BY <1>1, <1>2, <1>3, CutCell

WrittenString(r, in) ==
    /\ r.val \in Cells /\ Len(r.val) <= AllocMax /\ r.rest \in Cells
    /\ in = WriteString(r.val) \o r.rest

LEMMA StringExact ==
    ASSUME NEW in \in Cells, Ok(ReadString(in))
    PROVE  WrittenString(ReadString(in), in)
<1> DEFINE size == ReadSize(in)
           n == size.val[1]
           b == Take(size.rest, n)
<1>1. ReadString(in) = IF Ok(size) THEN b ELSE size
  BY DEF ReadString
<1>2. Ok(ReadSize(in))
  BY <1>1
<1>3. n \in Nat /\ n <= AllocMax /\ size.rest \in Cells /\ in = <<n>> \o size.rest
  BY <1>2, ReadSizeExact
<1>4. Ok(b) /\ ReadString(in) = b
  BY <1>1, <1>2
<1> HIDE DEF n
<1>5. ~(b = Fails("malformed"))
  BY <1>4 DEF Fails, Ok
<1>6. b.val \in Cells /\ Len(b.val) = n /\ b.rest \in Cells /\ size.rest = b.val \o b.rest
  <2> HIDE DEF size
  <2> QED BY <1>3, <1>5, TakeGets
<1> HIDE DEF size, b
<1>7. in = (<<n>> \o b.val) \o b.rest
  <2> DEFINE x == b.val
             y == b.rest
  <2>1. x \in Cells /\ y \in Cells /\ n \in Nat
    BY <1>3, <1>6
  <2>2. (<<n>> \o x) \o y = <<n>> \o (x \o y)
    <3> HIDE DEF x, y
    <3> QED BY ONLY <2>1, SizedIs
  <2> QED BY <1>3, <1>6, <2>2, Zenon
<1>8. WriteString(b.val) = <<n>> \o b.val
  BY <1>6 DEF WriteString
<1> QED BY <1>3, <1>4, <1>6, <1>7, <1>8 DEF WrittenString

-----------------------------------------------------------------------------
(* One type: what write_value() and read_value() of it have to do with each *)
(* other, given those of its parts in inner.                                *)
ReadsBack(t, v, inner) ==
    /\ WriteValue(t, v, inner) \in Cells
    /\ \A rest \in Cells : ReadValue(t, WriteValue(t, v, inner) \o rest, inner) = Got(v, rest)

RefusesCut(t, v, inner) ==
    \A p, q \in Cells : p \o q = WriteValue(t, v, inner) /\ q # <<>> =>
        ReadValue(t, p, inner).out = "malformed"

AcceptsNoOther(t, S, inner) ==
    \A in \in Cells : Ok(ReadValue(t, in, inner)) =>
        /\ ReadValue(t, in, inner).val \in S /\ ReadValue(t, in, inner).rest \in Cells
        /\ in = WriteValue(t, ReadValue(t, in, inner).val, inner) \o ReadValue(t, in, inner).rest

Sound(inner) == \A k \in DOMAIN inner : Agree(inner[k].values, inner[k].write, inner[k].read)

SoundPart(k, inner) ==
    /\ Reads(inner[k].values, inner[k].write, inner[k].read)
    /\ Exact(inner[k].values, inner[k].write, inner[k].read)

LEMMA ListIs ==
    ASSUME NEW S, NEW v \in [list : S]
    PROVE  v.list \in S /\ v = List(v.list)
  BY DEF List

LEMMA CellsOf ==
    ASSUME NEW v \in [cells : Cells]
    PROVE  v.cells \in Cells /\ v = Scalars(v.cells)
  BY DEF Scalars

LEMMA FlagOf ==
    ASSUME NEW v \in [flag : BOOLEAN]
    PROVE  v.flag \in BOOLEAN /\ v = Flag(v.flag)
  BY DEF Flag

(* raw: the cells as they are *)
LEMMA RawAgrees ==
    ASSUME NEW t, t.kind = "raw", t.cells \in Nat \ {0}, NEW V, NEW inner,
           NEW v \in ValuesOf(t, V, inner)
    PROVE  ReadsBack(t, v, inner) /\ RefusesCut(t, v, inner)
<1>1. v \in [cells : Cells] /\ Len(v.cells) = t.cells
  BY DEF ValuesOf
<1>2. v.cells \in Cells /\ v = Scalars(v.cells)
  BY <1>1, CellsOf
<1>3. WriteValue(t, v, inner) = v.cells
  BY DEF WriteValue, Custom
<1>4. \A in : ReadValue(t, in, inner) = Made(Take(in, t.cells), Scalars(Take(in, t.cells).val))
  BY DEF ReadValue, Custom
<1>5. ASSUME NEW rest \in Cells PROVE ReadValue(t, v.cells \o rest, inner) = Got(v, rest)
  <2> DEFINE r == Take(v.cells \o rest, t.cells)
  <2>1. r = Got(v.cells, rest)
    BY <1>1, <1>2, TakeFront
  <2>2. ReadValue(t, v.cells \o rest, inner) = Made(r, Scalars(r.val))
    BY <1>4
  <2> HIDE DEF r
  <2> QED BY <1>2, <2>1, <2>2, MadeIs, GotHas
<1>6. ASSUME NEW p \in Cells, NEW q \in Cells, p \o q = v.cells, q # <<>>
      PROVE  ReadValue(t, p, inner).out = "malformed"
  <2>1. Len(v.cells) = Len(p) + Len(q) /\ Len(p) \in Nat /\ Len(q) \in Nat /\ Len(q) # 0
    BY <1>6, CellsAre, SMTT(30)
  <2>2. ~(t.cells <= Len(p)) /\ t.cells \in Nat
    BY <1>1, <2>1
  <2>3. Take(p, t.cells) = Fails("malformed")
    BY <2>2, TakeGets
  <2>4. ReadValue(t, p, inner) = Fails("malformed")
    BY <1>4, <2>3 DEF Made, Ok, Fails
  <2> QED BY <2>4 DEF Fails
<1> QED BY <1>2, <1>3, <1>5, <1>6 DEF ReadsBack, RefusesCut

LEMMA RawExact ==
    ASSUME NEW t, t.kind = "raw", t.cells \in Nat \ {0}, NEW V, NEW inner
    PROVE  AcceptsNoOther(t, ValuesOf(t, V, inner), inner)
<1> SUFFICES ASSUME NEW in \in Cells, Ok(ReadValue(t, in, inner))
             PROVE  /\ ReadValue(t, in, inner).val \in ValuesOf(t, V, inner)
                    /\ ReadValue(t, in, inner).rest \in Cells
                    /\ in = WriteValue(t, ReadValue(t, in, inner).val, inner)
                            \o ReadValue(t, in, inner).rest
  BY DEF AcceptsNoOther
<1> DEFINE r == Take(in, t.cells)
           v == Scalars(r.val)
<1>1. ReadValue(t, in, inner) = Made(r, v)
  BY DEF ReadValue, Custom
<1>2. Ok(r)
  BY <1>1, MadeIs
<1>3. ~(r = Fails("malformed"))
  BY <1>2 DEF Ok, Fails
<1>4. r.val \in Cells /\ Len(r.val) = t.cells /\ r.rest \in Cells /\ in = r.val \o r.rest
  BY <1>3, TakeGets
<1> HIDE DEF r
<1>5. v \in [cells : Cells] /\ v.cells = r.val
  BY <1>4 DEF Scalars
<1> HIDE DEF v
<1>6. ReadValue(t, in, inner).val = v /\ ReadValue(t, in, inner).rest = r.rest
  BY <1>1, <1>2, MadeIs, GotHas
<1>7. v \in ValuesOf(t, V, inner) /\ WriteValue(t, v, inner) = v.cells
  BY <1>4, <1>5 DEF ValuesOf, WriteValue, Custom
<1> QED BY <1>4, <1>5, <1>6, <1>7

(* a bool is one cell that is 0 or 1 *)
LEMMA BoolIs ==
    ASSUME NEW b \in BOOLEAN
    PROVE  WriteBool(b) \in Cells /\ Len(WriteBool(b)) = 1
           /\ \E n \in {0, 1} : WriteBool(b) = <<n>> /\ (b <=> n = 1) /\ n \in Nat
<1>1. CASE b = TRUE
  BY <1>1, OneCell DEF WriteBool
<1>2. CASE b = FALSE
  BY <1>2, OneCell DEF WriteBool
<1> QED BY <1>1, <1>2

LEMMA BoolReads ==
    ASSUME NEW b \in BOOLEAN, NEW rest \in Cells
    PROVE  ReadBool(WriteBool(b) \o rest) = Got(b, rest)
<1>1. PICK n \in {0, 1} : WriteBool(b) = <<n>> /\ (b <=> n = 1) /\ n \in Nat
  BY BoolIs
<1> DEFINE c == Take(WriteBool(b) \o rest, 1)
<1>2. Ok(c) /\ c.val[1] = n /\ c.rest = rest
  BY <1>1, TakeSize
<1>3. ReadBool(WriteBool(b) \o rest) =
        IF ~Ok(c) THEN c
        ELSE IF c.val[1] \in {0, 1} THEN Got(c.val[1] = 1, c.rest) ELSE Fails("undefined")
  BY DEF ReadBool
<1> HIDE DEF c
<1>4. ReadBool(WriteBool(b) \o rest) = Got(n = 1, rest)
  BY <1>2, <1>3
<1>5. b = (n = 1)
  BY <1>1
<1> QED BY <1>4, <1>5

LEMMA BoolRefuses ==
    ASSUME NEW p, Take(p, 1) = Fails("malformed")
    PROVE  ReadBool(p).out = "malformed"
  BY DEF ReadBool, Fails, Ok

WrittenBool(r, in) == r.val \in BOOLEAN /\ r.rest \in Cells /\ in = WriteBool(r.val) \o r.rest

LEMMA BoolExact ==
    ASSUME NEW in \in Cells, Ok(ReadBool(in))
    PROVE  WrittenBool(ReadBool(in), in)
<1> DEFINE c == Take(in, 1)
<1>1. ReadBool(in) =
        IF ~Ok(c) THEN c
        ELSE IF c.val[1] \in {0, 1} THEN Got(c.val[1] = 1, c.rest) ELSE Fails("undefined")
  BY DEF ReadBool
<1>2. Ok(c) /\ c.val[1] \in {0, 1}
  BY <1>1 DEF Ok, Fails
<1>3. c.rest \in Cells /\ in = <<c.val[1]>> \o c.rest
  BY <1>2, SizeGets
<1> HIDE DEF c
<1>4. ReadBool(in) = Got(c.val[1] = 1, c.rest)
  BY <1>1, <1>2
<1>5. (c.val[1] = 1) \in BOOLEAN /\ WriteBool(c.val[1] = 1) = <<c.val[1]>>
  BY <1>2 DEF WriteBool
<1>6. ReadBool(in).val = (c.val[1] = 1) /\ ReadBool(in).rest = c.rest
  BY <1>4 DEF Got
<1> QED BY <1>3, <1>5, <1>6 DEF WrittenBool

LEMMA FlagAgrees ==
    ASSUME NEW t, t.kind = "bool", NEW V, NEW inner, NEW v \in ValuesOf(t, V, inner)
    PROVE  ReadsBack(t, v, inner) /\ RefusesCut(t, v, inner)
<1>1. v.flag \in BOOLEAN /\ v = Flag(v.flag)
  <2>1. v \in [flag : BOOLEAN]
    BY DEF ValuesOf
  <2> QED BY <2>1, FlagOf
<1>2. WriteValue(t, v, inner) = WriteBool(v.flag) /\ WriteBool(v.flag) \in Cells
  BY <1>1, BoolIs DEF WriteValue, Custom
<1>3. \A in : ReadValue(t, in, inner) = Made(ReadBool(in), Flag(ReadBool(in).val))
  BY DEF ReadValue, Custom
<1>4. ASSUME NEW rest \in Cells PROVE ReadValue(t, WriteBool(v.flag) \o rest, inner) = Got(v, rest)
  <2> DEFINE r == ReadBool(WriteBool(v.flag) \o rest)
  <2>1. r = Got(v.flag, rest)
    BY <1>1, BoolReads
  <2>2. ReadValue(t, WriteBool(v.flag) \o rest, inner) = Made(r, Flag(r.val))
    BY <1>3
  <2> HIDE DEF r
  <2> QED BY <1>1, <2>1, <2>2, MadeIs, GotHas
<1>5. ASSUME NEW p \in Cells, NEW q \in Cells, p \o q = WriteBool(v.flag), q # <<>>
      PROVE  ReadValue(t, p, inner).out = "malformed"
  <2>1. Len(p) + Len(q) = 1 /\ Len(p) \in Nat /\ Len(q) \in Nat /\ Len(q) # 0
    BY <1>1, <1>5, BoolIs, CellsAre
  <2>2. ~(1 <= Len(p))
    BY <2>1
  <2>3. ReadBool(p).out = "malformed"
    BY <2>2, TakeGets, BoolRefuses
  <2> QED BY <1>3, <2>3, MadeIs, MalformedIs
<1> QED BY <1>2, <1>4, <1>5 DEF ReadsBack, RefusesCut

LEMMA FlagExact ==
    ASSUME NEW t, t.kind = "bool", NEW V, NEW inner
    PROVE  AcceptsNoOther(t, ValuesOf(t, V, inner), inner)
<1> SUFFICES ASSUME NEW in \in Cells, Ok(ReadValue(t, in, inner))
             PROVE  /\ ReadValue(t, in, inner).val \in ValuesOf(t, V, inner)
                    /\ ReadValue(t, in, inner).rest \in Cells
                    /\ in = WriteValue(t, ReadValue(t, in, inner).val, inner)
                            \o ReadValue(t, in, inner).rest
  BY DEF AcceptsNoOther
<1> DEFINE r == ReadBool(in)
           v == Flag(r.val)
<1>1. ReadValue(t, in, inner) = Made(r, v)
  BY DEF ReadValue, Custom
<1>2. Ok(ReadBool(in))
  BY <1>1, MadeIs
<1>3. r.val \in BOOLEAN /\ r.rest \in Cells /\ in = WriteBool(r.val) \o r.rest
  BY <1>2, BoolExact DEF WrittenBool
<1>4. Ok(r)
  BY <1>2
<1> HIDE DEF r
<1>5. v \in [flag : BOOLEAN] /\ v.flag = r.val
  BY <1>3 DEF Flag
<1> HIDE DEF v
<1>6. ReadValue(t, in, inner).val = v /\ ReadValue(t, in, inner).rest = r.rest
  BY <1>1, <1>4, MadeIs, GotHas
<1>7. v \in ValuesOf(t, V, inner) /\ WriteValue(t, v, inner) = WriteBool(v.flag)
  BY <1>5 DEF ValuesOf, WriteValue, Custom
<1> QED BY <1>3, <1>5, <1>6, <1>7

LEMMA StringAgrees ==
    ASSUME NEW t, t.kind = "string", NEW V, NEW inner, NEW v \in ValuesOf(t, V, inner)
    PROVE  ReadsBack(t, v, inner) /\ RefusesCut(t, v, inner)
<1>1. v \in [cells : Cells] /\ Len(v.cells) <= AllocMax
  BY DEF ValuesOf
<1>2. v.cells \in Cells /\ v = Scalars(v.cells)
  BY <1>1, CellsOf
<1>3. WriteValue(t, v, inner) = WriteString(v.cells)
  BY DEF WriteValue, Custom
<1>4. \A in : ReadValue(t, in, inner) = Made(ReadString(in), Scalars(ReadString(in).val))
  BY DEF ReadValue, Custom
<1>5. /\ WriteString(v.cells) \in Cells
      /\ \A rest \in Cells : ReadString(WriteString(v.cells) \o rest) = Got(v.cells, rest)
  BY <1>1, <1>2, StringReads
<1>6. ASSUME NEW rest \in Cells PROVE ReadValue(t, WriteString(v.cells) \o rest, inner) = Got(v, rest)
  <2> DEFINE r == ReadString(WriteString(v.cells) \o rest)
  <2>1. r = Got(v.cells, rest)
    BY <1>5
  <2>2. ReadValue(t, WriteString(v.cells) \o rest, inner) = Made(r, Scalars(r.val))
    BY <1>4
  <2> HIDE DEF r
  <2> QED BY <1>2, <2>1, <2>2, MadeIs, GotHas
<1>7. ASSUME NEW p \in Cells, NEW q \in Cells, p \o q = WriteString(v.cells), q # <<>>
      PROVE  ReadValue(t, p, inner).out = "malformed"
  <2>1. ReadString(p).out = "malformed"
    BY <1>1, <1>2, <1>7, StringRefuses
  <2> QED BY <1>4, <2>1, MadeIs, MalformedIs
<1> QED BY <1>3, <1>5, <1>6, <1>7 DEF ReadsBack, RefusesCut

LEMMA StringTypeExact ==
    ASSUME NEW t, t.kind = "string", NEW V, NEW inner
    PROVE  AcceptsNoOther(t, ValuesOf(t, V, inner), inner)
<1> SUFFICES ASSUME NEW in \in Cells, Ok(ReadValue(t, in, inner))
             PROVE  /\ ReadValue(t, in, inner).val \in ValuesOf(t, V, inner)
                    /\ ReadValue(t, in, inner).rest \in Cells
                    /\ in = WriteValue(t, ReadValue(t, in, inner).val, inner)
                            \o ReadValue(t, in, inner).rest
  BY DEF AcceptsNoOther
<1> DEFINE r == ReadString(in)
           v == Scalars(r.val)
<1>1. ReadValue(t, in, inner) = Made(r, v)
  BY DEF ReadValue, Custom
<1>2. Ok(ReadString(in))
  BY <1>1, MadeIs
<1>3. /\ r.val \in Cells /\ Len(r.val) <= AllocMax /\ r.rest \in Cells
      /\ in = WriteString(r.val) \o r.rest
  BY <1>2, StringExact DEF WrittenString
<1>4. Ok(r)
  BY <1>2
<1> HIDE DEF r
<1>5. v \in [cells : Cells] /\ v.cells = r.val
  BY <1>3 DEF Scalars
<1> HIDE DEF v
<1>6. ReadValue(t, in, inner).val = v /\ ReadValue(t, in, inner).rest = r.rest
  BY <1>1, <1>4, MadeIs, GotHas
<1>7. v \in ValuesOf(t, V, inner) /\ WriteValue(t, v, inner) = WriteString(v.cells)
  BY <1>3, <1>5 DEF ValuesOf, WriteValue, Custom
<1> QED BY <1>3, <1>5, <1>6, <1>7

(* vector and array: the number of elements, then the elements *)
LEMMA VectorAgrees ==
    ASSUME NEW t, t.kind = "vector", NEW V, NEW inner, t.of \in DOMAIN inner, Sound(inner),
           NEW v \in ValuesOf(t, V, inner)
    PROVE  ReadsBack(t, v, inner) /\ RefusesCut(t, v, inner)
<1> DEFINE A == inner[t.of].values
           w == inner[t.of].write
           rd == inner[t.of].read
           vs == v.list
           n == Len(vs)
           body == WriteEach(w, vs)
<1>1. v \in [list : Seq(A)] /\ n <= AllocMax
  BY DEF ValuesOf
<1>2. vs \in Seq(A) /\ v = List(vs) /\ n \in Nat
  BY <1>1, ListIs, LenProperties
<1>3. Agree(A, w, rd) /\ Reads(A, w, rd) /\ \A a \in A : w[a] \in Cells
  BY DEF Sound, Agree, Reads
<1>4. body \in Cells
  BY <1>2, <1>3, EachWrites
<1>5. WriteValue(t, v, inner) = <<n>> \o body /\ <<n>> \o body \in Cells
  BY <1>2, <1>4, SizedIs, CellsAre DEF WriteValue, Custom, WriteVector
<1> DEFINE Result(in) == IF Ok(ReadSize(in))
                         THEN ReadLists(rd, ReadSize(in).val[1], ReadSize(in).rest)
                         ELSE ReadSize(in)
<1>6. \A in : ReadValue(t, in, inner) = Result(in)
  BY DEF ReadValue, Custom, ReadVector
<1>7. \A y \in Cells : ReadValue(t, <<n>> \o y, inner) = ReadLists(rd, n, y)
  <2> SUFFICES ASSUME NEW y \in Cells PROVE Result(<<n>> \o y) = ReadLists(rd, n, y)
    BY <1>6
  <2>1. ReadSize(<<n>> \o y) = Got(<<n>>, y)
    BY <1>1, <1>2, ReadSizeIs
  <2>2. Got(<<n>>, y).val[1] = n
    BY <1>2, OneCell, GotHas
  <2> HIDE DEF n, rd
  <2> QED BY <2>1, <2>2, GotHas
<1>8. ASSUME NEW rest \in Cells PROVE ReadValue(t, (<<n>> \o body) \o rest, inner) = Got(v, rest)
  <2>1. (<<n>> \o body) \o rest = <<n>> \o (body \o rest) /\ body \o rest \in Cells
    BY <1>2, <1>4, SizedIs
  <2>2. ReadLists(rd, n, body \o rest) = Got(List(vs), rest)
    BY <1>2, <1>3, ListsRead
  <2> HIDE DEF body, n, vs, rd
  <2> QED BY <1>2, <1>7, <2>1, <2>2
<1>9. ASSUME NEW p \in Cells, NEW q \in Cells, p \o q = <<n>> \o body, q # <<>>
      PROVE  ReadValue(t, p, inner).out = "malformed"
  <2>1. CASE Take(p, 1) = Fails("malformed")
    BY <1>6, <2>1, ReadSizeRefuses
  <2>2. CASE Behind(p, q, <<n>>, body)
    <3>1. PICK y \in Cells : p = <<n>> \o y /\ y \o q = body
      BY <2>2, Zenon DEF Behind
    <3>2. ReadLists(rd, n, y).out = "malformed"
      <4>1. y \o q = WriteEach(w, vs) /\ n = Len(vs) /\ y \in Cells /\ q \in Cells /\ q # <<>>
        BY <1>9, <3>1
      <4> HIDE DEF body, n, vs, rd, w, A
      <4> QED BY ONLY <1>2, <1>3, <4>1, ListsRefuse
    <3> HIDE DEF body, n, vs, rd
    <3> QED BY <1>7, <3>1, <3>2
  <2> QED BY <1>2, <1>4, <1>9, <2>1, <2>2, CutCell
<1> QED BY <1>5, <1>8, <1>9 DEF ReadsBack, RefusesCut

LEMMA VectorExact ==
    ASSUME NEW t, t.kind = "vector", NEW V, NEW inner, t.of \in DOMAIN inner,
           SoundPart(t.of, inner)
    PROVE  AcceptsNoOther(t, ValuesOf(t, V, inner), inner)
<1> SUFFICES ASSUME NEW in \in Cells, Ok(ReadValue(t, in, inner))
             PROVE  /\ ReadValue(t, in, inner).val \in ValuesOf(t, V, inner)
                    /\ ReadValue(t, in, inner).rest \in Cells
                    /\ in = WriteValue(t, ReadValue(t, in, inner).val, inner)
                            \o ReadValue(t, in, inner).rest
  BY DEF AcceptsNoOther
<1> DEFINE A == inner[t.of].values
           w == inner[t.of].write
           rd == inner[t.of].read
           size == ReadSize(in)
           n == size.val[1]
           r == ReadLists(rd, n, size.rest)
<1>1. ReadValue(t, in, inner) = IF Ok(size) THEN r ELSE size
  BY DEF ReadValue, Custom, ReadVector
<1>2. Ok(ReadSize(in)) /\ Ok(r) /\ ReadValue(t, in, inner) = r
  BY <1>1
<1>3. n \in Nat /\ n <= AllocMax /\ size.rest \in Cells /\ in = <<n>> \o size.rest
  BY <1>2, ReadSizeExact
<1>4. Reads(A, w, rd) /\ Exact(A, w, rd)
  BY DEF SoundPart
<1>5. WrittenLists(r, size.rest, n, A, w)
  <2> HIDE DEF A, w, rd, size, n
  <2> QED BY <1>2, <1>3, <1>4, ListsExact
<1> DEFINE v == r.val
           last == r.rest
<1> HIDE DEF r, n, size
<1>6. PICK vs \in Seq(A) : Len(vs) = n /\ v = List(vs)
  BY <1>5 DEF WrittenLists, IsList
<1>7. v \in [list : Seq(A)] /\ v.list = vs
  BY <1>6 DEF List
<1>8. last \in Cells /\ size.rest = WriteEach(w, vs) \o last
  BY <1>5, <1>7 DEF WrittenLists
<1>9. WriteEach(w, vs) \in Cells
  <2> HIDE DEF A, w, rd
  <2> QED BY <1>4, EachWrites DEF Reads
<1>10. in = (<<n>> \o WriteEach(w, vs)) \o last
  <2> DEFINE b == WriteEach(w, vs)
  <2>1. b \in Cells /\ last \in Cells /\ n \in Nat
    BY <1>3, <1>8, <1>9
  <2>2. (<<n>> \o b) \o last = <<n>> \o (b \o last)
    <3> HIDE DEF b, last
    <3> QED BY ONLY <2>1, SizedIs
  <2> QED BY <1>3, <1>8, <2>2, Zenon
<1> HIDE DEF v, last
<1>11. v \in ValuesOf(t, V, inner) /\ WriteValue(t, v, inner) = <<n>> \o WriteEach(w, vs)
  BY <1>3, <1>6, <1>7 DEF ValuesOf, WriteValue, Custom, WriteVector
<1>12. ReadValue(t, in, inner).val = v /\ ReadValue(t, in, inner).rest = last
  BY <1>2 DEF v, last
<1> QED BY <1>8, <1>10, <1>11, <1>12, Zenon

LEMMA ArrayAgrees ==
    ASSUME NEW t, t.kind = "array", t.size \in Nat, NEW V, NEW inner, t.of \in DOMAIN inner, Sound(inner),
           NEW v \in ValuesOf(t, V, inner)
    PROVE  ReadsBack(t, v, inner) /\ RefusesCut(t, v, inner)
<1> DEFINE A == inner[t.of].values
           w == inner[t.of].write
           rd == inner[t.of].read
           vs == v.list
           n == t.size
           body == WriteEach(w, vs)
<1>1. v \in [list : Seq(A)] /\ Len(vs) = n
  BY DEF ValuesOf
<1>2. vs \in Seq(A) /\ v = List(vs) /\ n \in Nat /\ n = Len(vs)
  BY <1>1, ListIs, LenProperties
<1>3. Agree(A, w, rd) /\ Reads(A, w, rd) /\ \A a \in A : w[a] \in Cells
  BY DEF Sound, Agree, Reads
<1>4. body \in Cells
  BY <1>2, <1>3, EachWrites
<1>5. WriteValue(t, v, inner) = <<n>> \o body /\ <<n>> \o body \in Cells
  BY <1>2, <1>4, SizedIs, CellsAre DEF WriteValue, Custom, WriteArray
<1> DEFINE Result(in) == IF ~Ok(Take(in, 1)) THEN Take(in, 1)
                         ELSE IF Take(in, 1).val[1] # n THEN Fails("malformed")
                         ELSE ReadLists(rd, n, Take(in, 1).rest)
<1>6. \A in : ReadValue(t, in, inner) = Result(in)
  BY DEF ReadValue, Custom, ReadArray
<1>7. \A y \in Cells : ReadValue(t, <<n>> \o y, inner) = ReadLists(rd, n, y)
  <2> SUFFICES ASSUME NEW y \in Cells PROVE Result(<<n>> \o y) = ReadLists(rd, n, y)
    BY <1>6
  <2>1. Ok(Take(<<n>> \o y, 1)) /\ Take(<<n>> \o y, 1).val[1] = n /\ Take(<<n>> \o y, 1).rest = y
    BY TakeSize
  <2> HIDE DEF n, rd
  <2> QED BY <2>1
<1>8. ASSUME NEW rest \in Cells PROVE ReadValue(t, (<<n>> \o body) \o rest, inner) = Got(v, rest)
  <2>1. (<<n>> \o body) \o rest = <<n>> \o (body \o rest) /\ body \o rest \in Cells
    BY <1>2, <1>4, SizedIs, Zenon
  <2>2. ReadLists(rd, n, body \o rest) = Got(List(vs), rest)
    BY <1>2, <1>3, ListsRead
  <2> HIDE DEF body, n, vs, rd
  <2> QED BY <1>2, <1>7, <2>1, <2>2
<1>9. ASSUME NEW p \in Cells, NEW q \in Cells, p \o q = <<n>> \o body, q # <<>>
      PROVE  ReadValue(t, p, inner).out = "malformed"
  <2>1. CASE Take(p, 1) = Fails("malformed")
    BY <1>6, <2>1 DEF Ok, Fails
  <2>2. CASE Behind(p, q, <<n>>, body)
    <3>1. PICK y \in Cells : p = <<n>> \o y /\ y \o q = body
      BY <2>2, Zenon DEF Behind
    <3>2. ReadLists(rd, n, y).out = "malformed"
      <4>1. y \o q = WriteEach(w, vs) /\ n = Len(vs) /\ y \in Cells /\ q \in Cells /\ q # <<>>
        BY <1>2, <1>9, <3>1
      <4> HIDE DEF body, n, vs, rd, w, A
      <4> QED BY ONLY <1>2, <1>3, <4>1, ListsRefuse
    <3> HIDE DEF body, n, vs, rd
    <3> QED BY <1>7, <3>1, <3>2
  <2> QED BY <1>2, <1>4, <1>9, <2>1, <2>2, CutCell
<1> QED BY <1>5, <1>8, <1>9 DEF ReadsBack, RefusesCut

LEMMA ArrayExact ==
    ASSUME NEW t, t.kind = "array", t.size \in Nat, NEW V, NEW inner, t.of \in DOMAIN inner,
           SoundPart(t.of, inner)
    PROVE  AcceptsNoOther(t, ValuesOf(t, V, inner), inner)
<1> SUFFICES ASSUME NEW in \in Cells, Ok(ReadValue(t, in, inner))
             PROVE  /\ ReadValue(t, in, inner).val \in ValuesOf(t, V, inner)
                    /\ ReadValue(t, in, inner).rest \in Cells
                    /\ in = WriteValue(t, ReadValue(t, in, inner).val, inner)
                            \o ReadValue(t, in, inner).rest
  BY DEF AcceptsNoOther
<1> DEFINE A == inner[t.of].values
           w == inner[t.of].write
           rd == inner[t.of].read
           size == Take(in, 1)
           n == t.size
           r == ReadLists(rd, n, size.rest)
<1>1. ReadValue(t, in, inner) = IF ~Ok(size) THEN size
                                ELSE IF size.val[1] # n THEN Fails("malformed") ELSE r
  BY DEF ReadValue, Custom, ReadArray
<1>2. Ok(Take(in, 1)) /\ size.val[1] = n /\ Ok(r) /\ ReadValue(t, in, inner) = r
  BY <1>1 DEF Ok, Fails
<1>3. n \in Nat /\ size.rest \in Cells /\ in = <<n>> \o size.rest
  BY <1>2, SizeGets
<1>4. Reads(A, w, rd) /\ Exact(A, w, rd)
  BY DEF SoundPart
<1>5. WrittenLists(r, size.rest, n, A, w)
  <2> HIDE DEF A, w, rd, size, n
  <2> QED BY <1>2, <1>3, <1>4, ListsExact
<1> DEFINE v == r.val
           last == r.rest
<1> HIDE DEF r, n, size
<1>6. PICK vs \in Seq(A) : Len(vs) = n /\ v = List(vs)
  BY <1>5 DEF WrittenLists, IsList
<1>7. v \in [list : Seq(A)] /\ v.list = vs
  BY <1>6 DEF List
<1>8. last \in Cells /\ size.rest = WriteEach(w, vs) \o last
  BY <1>5, <1>7 DEF WrittenLists
<1>9. WriteEach(w, vs) \in Cells
  <2> HIDE DEF A, w, rd
  <2> QED BY <1>4, EachWrites DEF Reads
<1>10. in = (<<n>> \o WriteEach(w, vs)) \o last
  <2> DEFINE b == WriteEach(w, vs)
  <2>1. b \in Cells /\ last \in Cells /\ n \in Nat
    BY <1>3, <1>8, <1>9
  <2>2. (<<n>> \o b) \o last = <<n>> \o (b \o last)
    <3> HIDE DEF b, last
    <3> QED BY ONLY <2>1, SizedIs
  <2> QED BY <1>3, <1>8, <2>2, Zenon
<1> HIDE DEF v, last
<1>11. v \in ValuesOf(t, V, inner) /\ WriteValue(t, v, inner) = <<n>> \o WriteEach(w, vs)
  BY <1>3, <1>6, <1>7 DEF ValuesOf, WriteValue, Custom, WriteArray, n
<1>12. ReadValue(t, in, inner).val = v /\ ReadValue(t, in, inner).rest = last
  BY <1>2 DEF v, last
<1> QED BY <1>8, <1>10, <1>11, <1>12, Zenon

-----------------------------------------------------------------------------
(* The specialisations: a blob is read whole. *)
BlobBack(t, v, inner) ==
    ToBlob(t, v, inner) \in Cells /\ FromBlob(t, ToBlob(t, v, inner), inner) = Got(v, <<>>)

BlobExact(t, S, inner) ==
    \A b \in Cells : Ok(FromBlob(t, b, inner)) =>
        FromBlob(t, b, inner).val \in S /\ b = ToBlob(t, FromBlob(t, b, inner).val, inner)

LEMMA BlobAgrees ==
    ASSUME NEW t, Custom(t), NEW inner, NEW v, BlobBack(t, v, inner),
           Len(ToBlob(t, v, inner)) <= AllocMax
    PROVE  ReadsBack(t, v, inner) /\ RefusesCut(t, v, inner)
<1> DEFINE b == ToBlob(t, v, inner)
           Blob(in) == FromBlob(t, ReadString(in).val, inner)
<1>1. b \in Cells /\ FromBlob(t, b, inner) = Got(v, <<>>) /\ Len(b) <= AllocMax
  BY DEF BlobBack
<1>2. WriteValue(t, v, inner) = WriteString(b)
  BY DEF WriteValue, Custom
<1>3. \A in : ReadValue(t, in, inner) =
                IF ~Ok(ReadString(in)) THEN ReadString(in)
                ELSE IF ~Ok(Blob(in)) THEN Blob(in)
                ELSE Got(Blob(in).val, ReadString(in).rest)
  BY DEF ReadValue, ReadBlob, Custom
<1> HIDE DEF b
<1>4. /\ WriteString(b) \in Cells
      /\ \A rest \in Cells : ReadString(WriteString(b) \o rest) = Got(b, rest)
  BY <1>1, StringReads
<1>5. ASSUME NEW rest \in Cells PROVE ReadValue(t, WriteString(b) \o rest, inner) = Got(v, rest)
  <2> DEFINE in == WriteString(b) \o rest
  <2>1. Ok(ReadString(in)) /\ ReadString(in).val = b /\ ReadString(in).rest = rest
    BY <1>4, GotHas
  <2> HIDE DEF in
  <2>2. Ok(Blob(in)) /\ Blob(in).val = v
    BY <1>1, <2>1, GotHas
  <2>3. ReadValue(t, in, inner) = Got(v, rest)
    <3> HIDE DEF Blob
    <3> QED BY <1>3, <2>1, <2>2
  <2> QED BY <2>3 DEF in
<1>6. ASSUME NEW p \in Cells, NEW q \in Cells, p \o q = WriteString(b), q # <<>>
      PROVE  ReadValue(t, p, inner).out = "malformed"
  <2>1. ReadString(p).out = "malformed"
    BY <1>1, <1>6, StringRefuses
  <2> QED BY <1>3, <2>1, MalformedIs
<1> QED BY <1>2, <1>4, <1>5, <1>6 DEF ReadsBack, RefusesCut

LEMMA BlobTypeExact ==
    ASSUME NEW t, Custom(t), NEW V, NEW inner, BlobExact(t, ValuesOf(t, V, inner), inner)
    PROVE  AcceptsNoOther(t, Fitting(t, V, inner), inner)
<1> SUFFICES ASSUME NEW in \in Cells, Ok(ReadValue(t, in, inner))
             PROVE  /\ ReadValue(t, in, inner).val \in Fitting(t, V, inner)
                    /\ ReadValue(t, in, inner).rest \in Cells
                    /\ in = WriteValue(t, ReadValue(t, in, inner).val, inner)
                            \o ReadValue(t, in, inner).rest
  BY DEF AcceptsNoOther
<1> DEFINE s == ReadString(in)
           r == FromBlob(t, s.val, inner)
<1>1. ReadValue(t, in, inner) = IF ~Ok(s) THEN s ELSE IF ~Ok(r) THEN r ELSE Got(r.val, s.rest)
  BY DEF ReadValue, ReadBlob, Custom
<1>2. Ok(ReadString(in)) /\ Ok(r)
  BY <1>1
<1>3. s.val \in Cells /\ Len(s.val) <= AllocMax /\ s.rest \in Cells /\ in = WriteString(s.val) \o s.rest
  BY <1>2, StringExact DEF WrittenString
<1>4. r.val \in ValuesOf(t, V, inner) /\ s.val = ToBlob(t, r.val, inner)
  BY <1>2, <1>3 DEF BlobExact
<1>5. Ok(s)
  BY <1>2
<1> HIDE DEF s, r
<1>6. ReadValue(t, in, inner).val = r.val /\ ReadValue(t, in, inner).rest = s.rest
  BY <1>1, <1>2, <1>5, GotHas
<1>7. r.val \in Fitting(t, V, inner)
  BY <1>3, <1>4 DEF Fitting
<1>8. WriteValue(t, r.val, inner) = WriteString(s.val)
  BY <1>4 DEF WriteValue, Custom
<1> QED BY <1>3, <1>6, <1>7, <1>8

LEMMA UserBack ==
    ASSUME NEW t, t.kind = "user", NEW V, NEW inner, t.of \in DOMAIN inner, Sound(inner),
           NEW v \in ValuesOf(t, V, inner)
    PROVE  BlobBack(t, v, inner)
<1> DEFINE b == inner[t.of].write[v]
<1>1. v \in inner[t.of].values
  BY DEF ValuesOf
<1>2. /\ b \in Cells
      /\ \A rest \in Cells : inner[t.of].read[b \o rest] = Got(v, rest)
  BY <1>1 DEF Sound, Agree, Reads
<1>3. b \o <<>> = b /\ <<>> \in Cells
  BY <1>2, CellsAre
<1>4. inner[t.of].read[b] = Got(v, <<>>)
  BY <1>2, <1>3, Zenon
<1>5. Whole(inner[t.of].read[b]) = Got(v, <<>>)
  BY <1>4, GotHas, WholeIs
<1>6. ToBlob(t, v, inner) = b
  BY DEF ToBlob, UserToBytes
<1>7. FromBlob(t, b, inner) = Whole(inner[t.of].read[b])
  BY DEF FromBlob, UserFromBytes
<1> QED BY <1>2, <1>5, <1>6, <1>7 DEF BlobBack

LEMMA UserExact ==
    ASSUME NEW t, t.kind = "user", NEW V, NEW inner, t.of \in DOMAIN inner,
           SoundPart(t.of, inner)
    PROVE  BlobExact(t, ValuesOf(t, V, inner), inner)
<1> SUFFICES ASSUME NEW b \in Cells, Ok(FromBlob(t, b, inner))
             PROVE  /\ FromBlob(t, b, inner).val \in ValuesOf(t, V, inner)
                    /\ b = ToBlob(t, FromBlob(t, b, inner).val, inner)
  BY DEF BlobExact
<1> DEFINE r == inner[t.of].read[b]
<1>1. FromBlob(t, b, inner) = Whole(r)
  BY DEF FromBlob, UserFromBytes
<1>2. Ok(r) /\ r.rest = <<>> /\ FromBlob(t, b, inner) = r
  BY <1>1, WholeIs
<1>3. r.val \in inner[t.of].values /\ b = inner[t.of].write[r.val] \o r.rest
  BY <1>2, Zenon DEF SoundPart, Exact
<1>4. inner[t.of].write[r.val] \in Cells
  BY <1>3, Zenon DEF SoundPart, Reads
<1>5. b = inner[t.of].write[r.val]
  BY <1>2, <1>3, <1>4, CellsAre
<1>6. ToBlob(t, r.val, inner) = inner[t.of].write[r.val]
  BY DEF ToBlob, UserToBytes
<1>7. r.val \in ValuesOf(t, V, inner)
  BY <1>3, Zenon DEF ValuesOf
<1> QED BY <1>2, <1>5, <1>6, <1>7

LEMMA TupleBack ==
    ASSUME NEW t, t.kind = "tuple", NEW V, NEW inner, t.parts \in Seq(DOMAIN inner), Sound(inner),
           NEW v \in ValuesOf(t, V, inner)
    PROVE  BlobBack(t, v, inner)
<1> DEFINE n == Len(t.parts)
           vs == v.list
           ws == [i \in DOMAIN t.parts |-> inner[t.parts[i]].write]
           rs == [i \in DOMAIN t.parts |-> inner[t.parts[i]].read]
<1>1. n \in Nat /\ DOMAIN t.parts = 1..n /\ \A i \in 1..n : t.parts[i] \in DOMAIN inner
  BY LenProperties, ElementOfSeq
<1>2. /\ v \in [list : Seq(V)] /\ Len(vs) = n
      /\ \A i \in 1..n : vs[i] \in inner[t.parts[i]].values
  BY <1>1 DEF ValuesOf
<1>3. vs \in Seq(V) /\ v = List(vs)
  BY <1>2, ListIs
<1>4. ReadsParts(n, vs, ws, rs)
  <2> SUFFICES ASSUME NEW i \in 1..n PROVE Reads({vs[i]}, ws[i], rs[i])
    BY DEF ReadsParts
  <2>1. ws[i] = inner[t.parts[i]].write /\ rs[i] = inner[t.parts[i]].read
    BY <1>1
  <2>2. Reads(inner[t.parts[i]].values, inner[t.parts[i]].write, inner[t.parts[i]].read)
    BY <1>1 DEF Sound, Agree
  <2> HIDE DEF ws, rs, vs
  <2> QED BY <1>2, <2>1, <2>2 DEF Reads
<1>5. \A i \in 1..n : ws[i][vs[i]] \in Cells
  BY <1>4, Zenon DEF ReadsParts, Reads
<1> DEFINE b == WriteSeq(ws, vs)
<1>6. ToBlob(t, v, inner) = b
  BY DEF ToBlob, TupleToBytes
<1>7. FromBlob(t, b, inner) = Whole(ReadList(rs, n, b))
  BY DEF FromBlob, TupleFromBytes
<1> HIDE DEF ws, rs, vs, n
<1>8. b \in Cells
  BY <1>1, <1>2, <1>3, <1>5, LoopWrites
<1>9. b \o <<>> = b /\ <<>> \in Cells
  BY <1>8, CellsAre
<1>10. ReadSeq(rs, n, b \o <<>>) = Got(vs, <<>>)
  <2> DEFINE e == <<>>
  <2>1. n \in Nat /\ vs \in Seq(V) /\ Len(vs) = n /\ e \in Cells
    BY <1>1, <1>2, <1>3, <1>9
  <2> HIDE DEF e
  <2>2. ReadSeq(rs, n, WriteSeq(ws, vs) \o e) = Got(vs, e)
    BY ONLY <1>4, <2>1, LoopReads
  <2> QED BY <2>2 DEF e
<1> HIDE DEF b
<1>11. ReadList(rs, n, b) = Got(List(vs), <<>>)
  <2> DEFINE r == ReadSeq(rs, n, b)
  <2>1. r = Got(vs, <<>>)
    BY <1>9, <1>10
  <2>2. ReadList(rs, n, b) = Made(r, List(r.val))
    BY DEF ReadList
  <2> HIDE DEF r
  <2> QED BY <2>1, <2>2, MadeIs, GotHas
<1>12. Whole(ReadList(rs, n, b)) = Got(v, <<>>)
  BY <1>3, <1>11, WholeIs, GotHas
<1> QED BY <1>6, <1>7, <1>8, <1>12 DEF BlobBack

LEMMA TupleExact ==
    ASSUME NEW t, t.kind = "tuple", NEW V, NEW inner, t.parts \in Seq(DOMAIN inner),
           \A i \in DOMAIN t.parts : SoundPart(t.parts[i], inner) /\ inner[t.parts[i]].values \subseteq V
    PROVE  BlobExact(t, ValuesOf(t, V, inner), inner)
<1> SUFFICES ASSUME NEW b \in Cells, Ok(FromBlob(t, b, inner))
             PROVE  /\ FromBlob(t, b, inner).val \in ValuesOf(t, V, inner)
                    /\ b = ToBlob(t, FromBlob(t, b, inner).val, inner)
  BY DEF BlobExact
<1> DEFINE n == Len(t.parts)
           ws == [i \in DOMAIN t.parts |-> inner[t.parts[i]].write]
           rs == [i \in DOMAIN t.parts |-> inner[t.parts[i]].read]
           Vs == [i \in DOMAIN t.parts |-> inner[t.parts[i]].values]
           e == ReadSeq(rs, n, b)
           r == ReadList(rs, n, b)
<1>1. n \in Nat /\ DOMAIN t.parts = 1..n
  BY LenProperties
<1>2. ExactParts(n, V, Vs, ws, rs)
  BY <1>1 DEF ExactParts, SoundPart
<1>3. FromBlob(t, b, inner) = Whole(r)
  BY DEF FromBlob, TupleFromBytes
<1>4. Ok(r) /\ r.rest = <<>> /\ FromBlob(t, b, inner) = r
  BY <1>3, WholeIs
<1>5. r = Made(e, List(e.val))
  BY DEF ReadList
<1>6. Ok(ReadSeq(rs, n, b))
  BY <1>4, <1>5, MadeIs
<1>7. \A i \in 1..n : Vs[i] = inner[t.parts[i]].values
  BY <1>1
<1>8. \A u : ToBlob(t, u, inner) = WriteSeq(ws, u.list)
  BY DEF ToBlob, TupleToBytes
<1> HIDE DEF ws, rs, Vs, n
<1>9. Written(ReadSeq(rs, n, b), b, n, V, Vs, ws)
  BY <1>1, <1>2, <1>6, LoopExact
<1>10. /\ e.val \in Seq(V) /\ Len(e.val) = n /\ \A i \in 1..n : e.val[i] \in Vs[i]
       /\ e.rest \in Cells /\ b = WriteSeq(ws, e.val) \o e.rest
  BY <1>9 DEF Written
<1> HIDE DEF r
<1>11. Ok(e)
  BY <1>6
<1> HIDE DEF e
<1>12. r.val = List(e.val) /\ r.rest = e.rest
  BY <1>5, <1>11, MadeIs, GotHas
<1>13. WriteSeq(ws, e.val) \in Cells
  <2>1. \A i \in 1..n : ws[i][e.val[i]] \in Cells
    BY <1>2, <1>10 DEF ExactParts, Reads
  <2> QED BY <1>1, <1>10, <2>1, LoopWrites
<1>14. b = WriteSeq(ws, e.val)
  BY <1>4, <1>10, <1>12, <1>13, CellsAre
<1>15. r.val.list = e.val /\ r.val \in [list : Seq(V)]
  BY <1>10, <1>12 DEF List
<1>16. r.val \in ValuesOf(t, V, inner)
  BY <1>1, <1>7, <1>10, <1>15 DEF ValuesOf, n
<1> QED BY <1>4, <1>8, <1>14, <1>15, <1>16

LEMMA OptionalBack ==
    ASSUME NEW t, t.kind = "optional", NEW V, NEW inner, t.of \in DOMAIN inner, Sound(inner),
           NEW v \in ValuesOf(t, V, inner)
    PROVE  BlobBack(t, v, inner)
<1> DEFINE A == inner[t.of].values
           w == inner[t.of].write
           rd == inner[t.of].read
           vs == v.list
           full == vs # <<>>
           n == IF full THEN 1 ELSE 0
           body == WriteEach(w, vs)
           b == WriteBool(full) \o body
           flag == ReadBool(b)
<1>1. v \in [list : Seq(A)] /\ Len(vs) <= 1
  BY DEF ValuesOf
<1>2. vs \in Seq(A) /\ v = List(vs)
  BY <1>1, ListIs
<1>3. n = Len(vs)
  <2>1. Len(vs) \in Nat /\ (Len(vs) = 0 <=> vs = <<>>)
    <3> HIDE DEF vs, A
    <3> QED BY ONLY <1>2, EmptySeq, LenProperties
  <2>2. Len(vs) <= 1
    BY <1>1
  <2> HIDE DEF vs
  <2>3. CASE vs = <<>>
    BY <2>1, <2>3
  <2>4. CASE vs # <<>>
    <3>1. Len(vs) = 1
      BY ONLY <2>1, <2>2, <2>4
    <3> QED BY <2>4, <3>1
  <2> QED BY <2>3, <2>4
<1>4. Reads(A, w, rd) /\ \A a \in A : w[a] \in Cells
  BY DEF Sound, Agree, Reads
<1>5. body \in Cells
  BY <1>2, <1>4, EachWrites
<1>6. full \in BOOLEAN /\ WriteBool(full) \in Cells
  BY BoolIs
<1>7. b \in Cells /\ body \o <<>> = body /\ <<>> \in Cells
  <2> HIDE DEF body, full
  <2> QED BY <1>5, <1>6, CellsAre
<1>8. flag = Got(full, body)
  <2> HIDE DEF body, full
  <2> QED BY <1>5, <1>6, BoolReads
<1>9. ReadLists(rd, n, body) = Got(List(vs), <<>>)
  <2> DEFINE e == <<>>
  <2>1. ReadLists(rd, n, body \o e) = Got(List(vs), e)
    <3>1. e \in Cells /\ vs \in Seq(A) /\ Reads(A, w, rd)
      BY <1>2, <1>4, <1>7
    <3> HIDE DEF n, vs, w, rd, A, e
    <3> QED BY <1>3, <3>1, ListsRead
  <2> HIDE DEF body
  <2> QED BY <1>7, <2>1
<1>10. ToBlob(t, v, inner) = b
  BY DEF ToBlob, OptionalToBytes
<1>11. FromBlob(t, b, inner) =
         IF Ok(flag) THEN Whole(ReadLists(rd, IF flag.val THEN 1 ELSE 0, flag.rest)) ELSE flag
  BY DEF FromBlob, OptionalFromBytes
<1> HIDE DEF flag, body, rd, vs
<1>12. Ok(flag) /\ flag.val = full /\ flag.rest = body
  BY <1>8, GotHas
<1>13. FromBlob(t, b, inner) = Whole(ReadLists(rd, n, body))
  BY <1>11, <1>12
<1>14. Whole(ReadLists(rd, n, body)) = Got(v, <<>>)
  BY <1>2, <1>9, WholeIs, GotHas
<1> QED BY <1>7, <1>10, <1>13, <1>14 DEF BlobBack

LEMMA OptionalExact ==
    ASSUME NEW t, t.kind = "optional", NEW V, NEW inner, t.of \in DOMAIN inner,
           SoundPart(t.of, inner)
    PROVE  BlobExact(t, ValuesOf(t, V, inner), inner)
<1> SUFFICES ASSUME NEW b \in Cells, Ok(FromBlob(t, b, inner))
             PROVE  /\ FromBlob(t, b, inner).val \in ValuesOf(t, V, inner)
                    /\ b = ToBlob(t, FromBlob(t, b, inner).val, inner)
  BY DEF BlobExact
<1> DEFINE A == inner[t.of].values
           w == inner[t.of].write
           rd == inner[t.of].read
           flag == ReadBool(b)
           n == IF flag.val THEN 1 ELSE 0
           r == ReadLists(rd, n, flag.rest)
<1>1. FromBlob(t, b, inner) = IF Ok(flag) THEN Whole(r) ELSE flag
  BY DEF FromBlob, OptionalFromBytes
<1>2. Ok(ReadBool(b)) /\ Ok(r) /\ r.rest = <<>> /\ FromBlob(t, b, inner) = r
  <2> HIDE DEF r, flag
  <2>1. Ok(flag) /\ Ok(r) /\ r.rest = <<>> /\ FromBlob(t, b, inner) = r
    BY <1>1, WholeIs
  <2> QED BY <2>1 DEF flag
<1>3. flag.val \in BOOLEAN /\ flag.rest \in Cells /\ b = WriteBool(flag.val) \o flag.rest
  BY <1>2, BoolExact DEF WrittenBool
<1>4. Reads(A, w, rd) /\ Exact(A, w, rd)
  BY DEF SoundPart
<1>5. WrittenLists(r, flag.rest, n, A, w)
  <2>1. n \in Nat
    OBVIOUS
  <2> HIDE DEF A, w, rd, flag, n
  <2> QED BY <1>2, <1>3, <1>4, <2>1, ListsExact
<1> DEFINE v == r.val
<1> HIDE DEF r, flag
<1>6. PICK vs \in Seq(A) : Len(vs) = n /\ v = List(vs)
  BY <1>5 DEF WrittenLists, IsList
<1>7. v \in [list : Seq(A)] /\ v.list = vs
  BY <1>6 DEF List
<1>8. flag.rest = WriteEach(w, vs) \o r.rest
  BY <1>5, <1>7 DEF WrittenLists
<1>9. WriteEach(w, vs) \in Cells
  <2> HIDE DEF A, w, rd
  <2> QED BY <1>4, EachWrites DEF Reads
<1>10. flag.rest = WriteEach(w, vs)
  BY <1>2, <1>8, <1>9, CellsAre
<1>11. flag.val = (vs # <<>>)
  <2>1. vs = <<>> <=> Len(vs) = 0
    BY EmptySeq
  <2> QED BY <1>3, <1>6, <2>1
<1> HIDE DEF v
<1>12. ToBlob(t, v, inner) = WriteBool(v.list # <<>>) \o WriteEach(w, v.list)
  BY DEF ToBlob, OptionalToBytes
<1>13. v \in ValuesOf(t, V, inner)
  <2>1. n <= 1
    OBVIOUS
  <2>2. Len(v.list) <= 1
    <3> HIDE DEF n, v
    <3> QED BY <1>6, <1>7, <2>1
  <2> QED BY <1>7, <2>2 DEF ValuesOf
<1>14. b = ToBlob(t, v, inner)
  BY <1>3, <1>7, <1>10, <1>11, <1>12
<1> QED BY <1>2, <1>13, <1>14 DEF v

LEMMA VariantBack ==
    ASSUME NEW t, t.kind = "variant", NEW V, NEW inner, t.parts \in Seq(DOMAIN inner), Sound(inner),
           NEW v \in ValuesOf(t, V, inner)
    PROVE  BlobBack(t, v, inner)
<1> DEFINE n == Len(t.parts)
           i == v.index
           k == t.parts[i + 1]
           a == v.held
           c == inner[k].write[a]
           b == <<i>> \o c
           index == Take(b, 1)
           r == inner[t.parts[index.val[1] + 1]].read[index.rest]
<1>1. v \in [index : 0..(n - 1), held : V] /\ a \in inner[k].values
  BY DEF ValuesOf
<1>2. i \in 0..(n - 1) /\ v = Alternative(i, a)
  BY <1>1 DEF Alternative
<1>3. n \in Nat /\ i \in Nat /\ i < n /\ k \in DOMAIN inner
  <2>1. n \in Nat
    BY LenProperties
  <2>2. i \in Nat /\ i < n /\ i + 1 \in 1..n
    BY <1>2, <2>1
  <2> QED BY <2>1, <2>2, ElementOfSeq
<1>4. c \in Cells /\ \A rest \in Cells : inner[k].read[c \o rest] = Got(a, rest)
  BY <1>1, <1>3 DEF Sound, Agree, Reads
<1>5. c \o <<>> = c /\ <<>> \in Cells
  BY <1>4, CellsAre
<1>6. inner[k].read[c] = Got(a, <<>>)
  BY <1>4, <1>5, Zenon
<1>7. b \in Cells
  BY <1>3, <1>4, SizedIs, SMTT(30)
<1>8. Ok(index) /\ index.val[1] = i /\ index.rest = c
  <2>1. i \in Nat /\ c \in Cells
    BY <1>3, <1>4
  <2> HIDE DEF i, c
  <2> QED BY ONLY <2>1, TakeSize
<1>9. ToBlob(t, v, inner) = b
  BY Zenon DEF ToBlob, VariantToBytes
<1>10. FromBlob(t, b, inner) =
         IF ~Ok(index) THEN index
         ELSE IF ~InRange(index.val[1], n) THEN Fails("malformed")
         ELSE Whole(Made(r, Alternative(index.val[1], r.val)))
  BY Zenon DEF FromBlob, VariantFromBytes
<1>11. r = Got(a, <<>>)
  <2> HIDE DEF index, c
  <2> QED BY <1>6, <1>8
<1> HIDE DEF r, index, b, i, n
<1>12. InRange(i, n)
  BY <1>3 DEF InRange
<1>13. FromBlob(t, b, inner) = Whole(Made(r, Alternative(i, r.val)))
  BY <1>8, <1>10, <1>12
<1>14. Made(r, Alternative(i, r.val)) = Got(v, <<>>)
  BY <1>2, <1>11, MadeIs, GotHas
<1>15. FromBlob(t, b, inner) = Got(v, <<>>)
  BY <1>13, <1>14, WholeIs, GotHas
<1> QED BY <1>7, <1>9, <1>15 DEF BlobBack

LEMMA VariantExact ==
    ASSUME NEW t, t.kind = "variant", NEW V, NEW inner, t.parts \in Seq(DOMAIN inner),
           \A i \in DOMAIN t.parts : SoundPart(t.parts[i], inner) /\ inner[t.parts[i]].values \subseteq V
    PROVE  BlobExact(t, ValuesOf(t, V, inner), inner)
<1> SUFFICES ASSUME NEW b \in Cells, Ok(FromBlob(t, b, inner))
             PROVE  /\ FromBlob(t, b, inner).val \in ValuesOf(t, V, inner)
                    /\ b = ToBlob(t, FromBlob(t, b, inner).val, inner)
  BY DEF BlobExact
<1> DEFINE n == Len(t.parts)
           index == Take(b, 1)
           i == index.val[1]
           k == t.parts[i + 1]
           r == inner[k].read[index.rest]
           v == Alternative(i, r.val)
<1>1. FromBlob(t, b, inner) =
        IF ~Ok(index) THEN index
        ELSE IF ~InRange(i, n) THEN Fails("malformed") ELSE Whole(Made(r, v))
  BY Zenon DEF FromBlob, VariantFromBytes
<1>2. /\ Ok(Take(b, 1)) /\ InRange(i, n) /\ Ok(r) /\ r.rest = <<>>
      /\ FromBlob(t, b, inner).val = v
  <2> HIDE DEF index, i, r, v
  <2>0. ~Ok(Fails("malformed"))
    BY DEF Ok, Fails
  <2>1. Ok(index) /\ InRange(i, n) /\ FromBlob(t, b, inner) = Whole(Made(r, v))
    BY <1>1, <2>0
  <2>2. Ok(Made(r, v)) /\ Made(r, v).rest = <<>> /\ FromBlob(t, b, inner) = Made(r, v)
    BY <2>1, WholeIs
  <2>3. Ok(r) /\ Made(r, v) = Got(v, r.rest)
    BY <2>2, MadeIs
  <2>4. r.rest = <<>> /\ FromBlob(t, b, inner).val = v
    BY <2>2, <2>3, GotHas
  <2> QED BY <2>1, <2>3, <2>4 DEF index
<1>3. i \in Nat /\ index.rest \in Cells /\ b = <<i>> \o index.rest
  BY <1>2, SizeGets, Zenon
<1> HIDE DEF index, i
<1>4. i \in 0..(n - 1) /\ i + 1 \in DOMAIN t.parts
  <2>1. n \in Nat /\ DOMAIN t.parts = 1..n
    BY LenProperties
  <2>2. i < n
    BY <1>2, Zenon DEF InRange
  <2> HIDE DEF n
  <2> QED BY ONLY <1>3, <2>1, <2>2
<1>5. SoundPart(k, inner) /\ inner[k].values \subseteq V
  BY <1>4
<1> HIDE DEF k
<1>6. r.val \in inner[k].values /\ index.rest = inner[k].write[r.val] \o r.rest
  BY <1>2, <1>3, <1>5, Zenon DEF SoundPart, Exact
<1>7. inner[k].write[r.val] \in Cells
  BY <1>5, <1>6, Zenon DEF SoundPart, Reads
<1>8. index.rest = inner[k].write[r.val]
  BY <1>2, <1>6, <1>7, CellsAre
<1> HIDE DEF r
<1>9. v.index = i /\ v.held = r.val /\ v \in [index : 0..(n - 1), held : V]
  BY <1>4, <1>5, <1>6 DEF Alternative
<1>10. v \in ValuesOf(t, V, inner)
  BY <1>6, <1>9, Zenon DEF ValuesOf, k
<1>11. ToBlob(t, v, inner) = <<i>> \o inner[k].write[r.val]
  <2> HIDE DEF v
  <2> QED BY <1>9, Zenon DEF ToBlob, VariantToBytes, k
<1> QED BY <1>2, <1>3, <1>8, <1>10, <1>11, Zenon

(* The keys come in some order, each once. *)
LEMMA SetToSeqIs ==
    ASSUME NEW S, IsFiniteSet(S)
    PROVE  /\ SetToSeq(S) \in Seq(S) /\ Len(SetToSeq(S)) = Cardinality(S)
           /\ Cardinality(S) \in Nat /\ ToSet(SetToSeq(S)) = S
           /\ \A i, j \in 1..Cardinality(S) : SetToSeq(S)[i] = SetToSeq(S)[j] => i = j
<1> DEFINE n == Cardinality(S)
           s == SetToSeq(S)
<1>1. n \in Nat /\ ExistsBijection(1..n, S)
  BY FS_CardinalityType
<1>2. PICK f \in Bijection(1..n, S) : TRUE
  BY <1>1 DEF ExistsBijection
<1>3. f \in [1..n -> S] /\ IsInjective(f)
  BY <1>2 DEF Bijection, Injection, IsInjective
<1>4. s \in [1..n -> S] /\ IsInjective(s)
  <2> HIDE DEF n
  <2> QED BY <1>3 DEF SetToSeq, n
<1> HIDE DEF s
<1>5. s \in Injection(1..n, S)
  BY <1>4 DEF Injection, IsInjective
<1>6. s \in Surjection(1..n, S)
  <2>1. IsFiniteSet(1..n) /\ Cardinality(1..n) = n
    <3>1. n \in Int /\ 1 \in Int /\ (IF 1 > n THEN 0 ELSE n - 1 + 1) = n
      BY <1>1
    <3> QED BY <3>1, FS_Interval
  <2> QED BY <1>5, <2>1, FS_Injection
<1>7. \A e \in S : \E i \in 1..n : s[i] = e
  BY <1>6 DEF Surjection
<1>8. s \in Seq(S) /\ Len(s) = n /\ DOMAIN s = 1..n
  BY <1>1, <1>4
<1>9. ToSet(s) = S
  BY <1>4, <1>7, <1>8 DEF ToSet
<1> QED BY <1>1, <1>4, <1>8, <1>9 DEF IsInjective, s

LEMMA CountedReads ==
    ASSUME NEW V, NEW w, NEW r, Reads(V, w, r), NEW vs \in Seq(V), NEW n, n = Len(vs)
    PROVE  /\ <<n>> \o WriteEach(w, vs) \in Cells
           /\ ReadCounted(r, <<n>> \o WriteEach(w, vs)) = Got(vs, <<>>)
<1> DEFINE body == WriteEach(w, vs)
           in == <<n>> \o body
           size == Take(in, 1)
           e == <<>>
<1>1. n \in Nat /\ \A a \in V : w[a] \in Cells
  BY LenProperties DEF Reads
<1>2. body \in Cells
  BY <1>1, EachWrites
<1>3. in \in Cells /\ body \o e = body /\ e \in Cells
  <2> HIDE DEF body
  <2> QED BY <1>1, <1>2, SizedIs, CellsAre
<1>4. Ok(size) /\ size.val[1] = n /\ size.rest = body
  <2> HIDE DEF body
  <2> QED BY <1>1, <1>2, TakeSize
<1>5. ReadEach(r, n, body \o e) = Got(vs, e)
  <2>1. e \in Cells /\ vs \in Seq(V) /\ n = Len(vs) /\ Reads(V, w, r)
    BY <1>3
  <2> HIDE DEF e
  <2> QED BY ONLY <2>1, EachReads
<1>6. ReadCounted(r, in) = IF Ok(size) THEN ReadEach(r, size.val[1], size.rest) ELSE size
  BY DEF ReadCounted
<1> HIDE DEF size, body
<1>7. ReadCounted(r, in) = Got(vs, e)
  BY <1>3, <1>4, <1>5, <1>6
<1> QED BY <1>3, <1>7 DEF body

LEMMA SetBack ==
    ASSUME NEW t, t.kind = "set", NEW V, NEW inner, t.of \in DOMAIN inner, Sound(inner),
           NEW v \in ValuesOf(t, V, inner)
    PROVE  BlobBack(t, v, inner)
<1> DEFINE A == inner[t.of].values
           w == inner[t.of].write
           rd == inner[t.of].read
           S == v.keys
           s == SetToSeq(S)
           b == <<Cardinality(S)>> \o WriteEach(w, s)
           r == Whole(ReadCounted(rd, b))
<1>1. S \subseteq A /\ IsFiniteSet(S) /\ v = Keys(S)
  <2>1. v \in [keys : SUBSET A] /\ IsFiniteSet(S)
    BY DEF ValuesOf
  <2> QED BY <2>1 DEF Keys
<1>2. s \in Seq(S) /\ Len(s) = Cardinality(S) /\ ToSet(s) = S
  BY <1>1, SetToSeqIs
<1>3. Reads(S, w, rd)
  BY <1>1 DEF Sound, Agree, Reads
<1>4. b \in Cells /\ ReadCounted(rd, b) = Got(s, <<>>)
  <2> HIDE DEF s, w, rd, S
  <2> QED BY <1>2, <1>3, CountedReads
<1>5. ToBlob(t, v, inner) = b
  BY DEF ToBlob, SetToBytes
<1>6. FromBlob(t, b, inner) = Made(r, Keys(ToSet(r.val)))
  BY DEF FromBlob, SetFromBytes
<1>7. r = Got(s, <<>>)
  <2> HIDE DEF b, s, rd
  <2> QED BY <1>4, WholeIs, GotHas
<1> HIDE DEF r, b, s
<1>8. FromBlob(t, b, inner) = Got(v, <<>>)
  BY <1>1, <1>2, <1>6, <1>7, MadeIs, GotHas
<1> QED BY <1>4, <1>5, <1>8 DEF BlobBack

(* an entry of a map: the key, then what it is mapped to *)
LEMMA EntryReads ==
    ASSUME NEW t, NEW inner, t.key \in DOMAIN inner, t.of \in DOMAIN inner, Sound(inner)
    PROVE  Reads([key : inner[t.key].values, mapped : inner[t.of].values],
                 WriteEntry(t, inner), ReadEntry(t, inner))
<1> DEFINE A == inner[t.key].values
           B == inner[t.of].values
           wk == inner[t.key].write
           wm == inner[t.of].write
           ws == <<wk, wm>>
           rs == <<inner[t.key].read, inner[t.of].read>>
           E == [key : A, mapped : B]
<1> SUFFICES ASSUME NEW e \in E, NEW rest \in Cells
             PROVE  /\ WriteEntry(t, inner)[e] \in Cells
                    /\ ReadEntry(t, inner)[WriteEntry(t, inner)[e] \o rest] = Got(e, rest)
  <2>1. <<>> \in Cells
    BY DEF Cells
  <2> QED BY <2>1 DEF Reads
<1> DEFINE x == e.key
           y == e.mapped
           vs == <<x, y>>
           S == {x, y}
<1>1. x \in A /\ y \in B /\ e = [key |-> x, mapped |-> y]
  OBVIOUS
<1>2. vs \in Seq(S) /\ Len(vs) = 2 /\ vs[1] = x /\ vs[2] = y
  OBVIOUS
<1>3. /\ Reads(A, wk, inner[t.key].read) /\ Reads(B, wm, inner[t.of].read)
      /\ wk[x] \in Cells /\ wm[y] \in Cells
  BY <1>1 DEF Sound, Agree, Reads
<1>4. ReadsParts(2, vs, ws, rs)
  <2>1. Reads({x}, wk, inner[t.key].read) /\ Reads({y}, wm, inner[t.of].read)
    BY <1>1, <1>3 DEF Reads
  <2>2. \A i \in 1..2 : i = 1 \/ i = 2
    OBVIOUS
  <2> QED BY <2>1, <2>2 DEF ReadsParts
<1> DEFINE c == wk[x] \o wm[y]
<1>5. WriteSeq(ws, vs) = c /\ c \in Cells
  <2>1. PICK f : Tails(f, ws, vs, 2)
    BY <1>2, WriteSeqIs
  <2>2. f[3] = <<>> /\ f[2] = wm[y] \o f[3] /\ f[1] = wk[x] \o f[2] /\ WriteSeq(ws, vs) = f[1]
    <3>1. 1 \in 1..2 /\ 2 \in 1..2 /\ 2 + 1 = 3 /\ 1 + 1 = 2
      OBVIOUS
    <3>2. ws[1] = wk /\ ws[2] = wm
      OBVIOUS
    <3> HIDE DEF ws, vs
    <3> QED BY <1>2, <2>1, <3>1, <3>2, Zenon DEF Tails
  <2> QED BY <1>3, <2>2, CellsAre, Zenon
<1>6. WriteEntry(t, inner)[e] = c
  BY Zenon DEF WriteEntry
<1>7. c \o rest \in Cells
  BY <1>5, CellsAre, Zenon
<1> DEFINE r == ReadSeq(rs, 2, c \o rest)
<1>8. ReadEntry(t, inner)[c \o rest] =
        IF Ok(r) THEN Got([key |-> r.val[1], mapped |-> r.val[2]], r.rest) ELSE r
  BY <1>7 DEF ReadEntry
<1>9. r = Got(vs, rest)
  <2> HIDE DEF ws, rs, vs, S
  <2>1. ReadSeq(rs, 2, WriteSeq(ws, vs) \o rest) = Got(vs, rest)
    <3>1. 2 \in Nat /\ vs \in Seq(S) /\ Len(vs) = 2 /\ rest \in Cells
      BY <1>2
    <3> QED BY ONLY <1>4, <3>1, LoopReads
  <2> HIDE DEF c
  <2> QED BY <1>5, <2>1
<1> HIDE DEF r, c, vs
<1>10. ReadEntry(t, inner)[c \o rest] = Got(e, rest)
  BY <1>1, <1>2, <1>8, <1>9, GotHas
<1> QED BY <1>5, <1>6, <1>10

LEMMA MapBack ==
    ASSUME NEW t, t.kind = "map", NEW V, NEW inner, t.key \in DOMAIN inner, t.of \in DOMAIN inner,
           Sound(inner), NEW v \in ValuesOf(t, V, inner)
    PROVE  BlobBack(t, v, inner)
<1> DEFINE E == [key : inner[t.key].values, mapped : inner[t.of].values]
           w == WriteEntry(t, inner)
           rd == ReadEntry(t, inner)
           S == v.entries
           s == SetToSeq(S)
           n == Cardinality(S)
           b == <<n>> \o WriteEach(w, s)
           r == Whole(ReadCounted(rd, b))
<1>1. /\ S \subseteq E /\ IsFiniteSet(S) /\ v = Entries(S)
      /\ \A e, f \in S : e.key = f.key => e = f
  <2>1. v \in [entries : SUBSET E] /\ IsFiniteSet(S) /\ \A e, f \in S : e.key = f.key => e = f
    BY DEF ValuesOf
  <2> QED BY <2>1 DEF Entries
<1>2. /\ s \in Seq(S) /\ Len(s) = n /\ n \in Nat /\ ToSet(s) = S
      /\ \A i, j \in 1..n : s[i] = s[j] => i = j
  BY <1>1, SetToSeqIs
<1>3. Reads(S, w, rd)
  <2>1. Reads(E, w, rd)
    BY EntryReads
  <2> HIDE DEF w, rd, E
  <2> QED BY <1>1, <2>1 DEF Reads
<1>4. b \in Cells /\ ReadCounted(rd, b) = Got(s, <<>>)
  <2> HIDE DEF s, w, rd, S
  <2> QED BY <1>2, <1>3, CountedReads
<1>5. ToBlob(t, v, inner) = b
  BY DEF ToBlob, MapToBytes
<1>6. FromBlob(t, b, inner) = Made(r, Entries(FirstOf(r.val)))
  BY DEF FromBlob, MapFromBytes
<1>7. r = Got(s, <<>>)
  <2> HIDE DEF b, s, rd
  <2> QED BY <1>4, WholeIs, GotHas
<1> HIDE DEF r, b, s, n
<1>8. FirstOf(s) = S
  <2>1. DOMAIN s = 1..n /\ \A i \in 1..n : s[i] \in S
    BY <1>2, LenProperties, ElementOfSeq
  <2>2. \A j \in DOMAIN s : \A k \in 1..(j - 1) : s[k].key # s[j].key
    <3> SUFFICES ASSUME NEW j \in 1..n, NEW k \in 1..(j - 1) PROVE s[k].key # s[j].key
      BY <2>1
    <3>1. k \in 1..n /\ k # j
      BY <1>2
    <3> QED BY <1>1, <1>2, <2>1, <3>1
  <2>3. {j \in DOMAIN s : \A k \in 1..(j - 1) : s[k].key # s[j].key} = DOMAIN s
    BY <2>2
  <2>4. FirstOf(s) = {s[i] : i \in DOMAIN s}
    BY <2>3, Zenon DEF FirstOf
  <2> QED BY <1>2, <2>4 DEF ToSet
<1>9. FromBlob(t, b, inner) = Got(v, <<>>)
  BY <1>1, <1>6, <1>7, <1>8, MadeIs, GotHas
<1> QED BY <1>4, <1>5, <1>9 DEF BlobBack

-----------------------------------------------------------------------------
(* Every type: what the compiler makes of sound parts is sound. *)
IsPlain(t, T) ==
    \/ t.kind = "bool" \/ t.kind = "string"
    \/ t.kind = "raw" /\ t.cells \in Nat \ {0}
    \/ t.kind \in {"vector", "optional", "user"} /\ t.of \in T
    \/ t.kind = "array" /\ t.size \in Nat /\ t.of \in T
    \/ t.kind \in {"tuple", "variant"} /\ t.parts \in Seq(T)

IsType(t, T) ==
    \/ IsPlain(t, T)
    \/ t.kind = "set" /\ t.of \in T
    \/ t.kind = "map" /\ t.key \in T /\ t.of \in T

LEMMA PlainIs ==
    ASSUME NEW T, NEW t \in PlainOver(T)
    PROVE  IsPlain(t, T)
<1>1. CASE t \in [kind : {"bool", "string"}]
  BY <1>1 DEF IsPlain
<1>2. CASE t \in [kind : {"raw"}, cells : Nat \ {0}]
  BY <1>2 DEF IsPlain
<1>3. CASE t \in [kind : {"vector", "optional", "user"}, of : T]
  BY <1>3 DEF IsPlain
<1>4. CASE t \in [kind : {"array"}, size : Nat, of : T]
  BY <1>4 DEF IsPlain
<1>5. CASE t \in [kind : {"tuple", "variant"}, parts : Seq(T)]
  BY <1>5 DEF IsPlain
<1> QED BY <1>1, <1>2, <1>3, <1>4, <1>5, Zenon DEF PlainOver

LEMMA TypeIs ==
    ASSUME NEW T, NEW t \in TypesOver(T)
    PROVE  IsType(t, T)
<1>1. CASE t \in PlainOver(T)
  BY <1>1, PlainIs DEF IsType
<1>2. CASE t \in [kind : {"set"}, of : T]
  BY <1>2 DEF IsType
<1>3. CASE t \in [kind : {"map"}, key : T, of : T]
  BY <1>3 DEF IsType
<1> QED BY <1>1, <1>2, <1>3, Zenon DEF TypesOver

LEMMA TypeAgrees ==
    ASSUME NEW V, NEW inner, Sound(inner), NEW t \in TypesOver(DOMAIN inner),
           NEW v \in Fitting(t, V, inner)
    PROVE  ReadsBack(t, v, inner) /\ RefusesCut(t, v, inner)
<1>1. IsType(t, DOMAIN inner)
  BY TypeIs
<1>2. /\ v \in ValuesOf(t, V, inner)
      /\ Custom(t) => Len(ToBlob(t, v, inner)) <= AllocMax
  BY DEF Fitting
<1>3. CASE t.kind = "bool"
  BY <1>2, <1>3, FlagAgrees
<1>4. CASE t.kind = "string"
  BY <1>2, <1>4, StringAgrees
<1>5. CASE t.kind = "raw" /\ t.cells \in Nat \ {0}
  BY <1>2, <1>5, RawAgrees
<1>6. CASE t.kind = "vector" /\ t.of \in DOMAIN inner
  BY <1>2, <1>6, VectorAgrees
<1>7. CASE t.kind = "array" /\ t.size \in Nat /\ t.of \in DOMAIN inner
  BY <1>2, <1>7, ArrayAgrees
<1>8. CASE Custom(t)
  <2> SUFFICES BlobBack(t, v, inner)
    BY <1>2, <1>8, BlobAgrees
  <2>1. CASE t.kind = "optional" /\ t.of \in DOMAIN inner
    BY <1>2, <2>1, OptionalBack
  <2>2. CASE t.kind = "user" /\ t.of \in DOMAIN inner
    BY <1>2, <2>2, UserBack
  <2>3. CASE t.kind = "tuple" /\ t.parts \in Seq(DOMAIN inner)
    BY <1>2, <2>3, TupleBack
  <2>4. CASE t.kind = "variant" /\ t.parts \in Seq(DOMAIN inner)
    BY <1>2, <2>4, VariantBack
  <2>5. CASE t.kind = "set" /\ t.of \in DOMAIN inner
    BY <1>2, <2>5, SetBack
  <2>6. CASE t.kind = "map" /\ t.key \in DOMAIN inner /\ t.of \in DOMAIN inner
    BY <1>2, <2>6, MapBack
  <2>7. \/ t.kind = "optional" /\ t.of \in DOMAIN inner
        \/ t.kind = "user" /\ t.of \in DOMAIN inner
        \/ t.kind = "tuple" /\ t.parts \in Seq(DOMAIN inner)
        \/ t.kind = "variant" /\ t.parts \in Seq(DOMAIN inner)
        \/ t.kind = "set" /\ t.of \in DOMAIN inner
        \/ t.kind = "map" /\ t.key \in DOMAIN inner /\ t.of \in DOMAIN inner
    BY <1>1, <1>8 DEF IsType, IsPlain, Custom
  <2> QED BY <2>1, <2>2, <2>3, <2>4, <2>5, <2>6, <2>7, Zenon
<1>9. \/ t.kind = "bool" \/ t.kind = "string"
      \/ t.kind = "raw" /\ t.cells \in Nat \ {0}
      \/ t.kind = "vector" /\ t.of \in DOMAIN inner
      \/ t.kind = "array" /\ t.size \in Nat /\ t.of \in DOMAIN inner
      \/ Custom(t)
  BY <1>1 DEF IsType, IsPlain, Custom
<1> QED BY <1>3, <1>4, <1>5, <1>6, <1>7, <1>8, <1>9, Zenon

LEMMA FittingIs ==
    ASSUME NEW t, ~Custom(t), NEW V, NEW inner
    PROVE  Fitting(t, V, inner) = ValuesOf(t, V, inner)
  BY DEF Fitting

LEMMA TypeExact ==
    ASSUME NEW V, NEW inner, NEW T, NEW t \in PlainOver(T), T \subseteq DOMAIN inner,
           \A k \in T : SoundPart(k, inner) /\ inner[k].values \subseteq V
    PROVE  AcceptsNoOther(t, Fitting(t, V, inner), inner)
<1>1. IsPlain(t, T)
  BY PlainIs
<1>2. CASE t.kind = "bool"
  BY <1>2, FittingIs, FlagExact DEF Custom
<1>3. CASE t.kind = "string"
  BY <1>3, FittingIs, StringTypeExact DEF Custom
<1>4. CASE t.kind = "raw" /\ t.cells \in Nat \ {0}
  BY <1>4, FittingIs, RawExact DEF Custom
<1>5. CASE t.kind = "vector" /\ t.of \in T
  BY <1>5, FittingIs, VectorExact DEF Custom
<1>6. CASE t.kind = "array" /\ t.size \in Nat /\ t.of \in T
  BY <1>6, FittingIs, ArrayExact DEF Custom
<1>7. CASE t.kind = "optional" /\ t.of \in T
  <2>1. BlobExact(t, ValuesOf(t, V, inner), inner) /\ Custom(t)
    BY <1>7, OptionalExact DEF Custom
  <2> QED BY <2>1, BlobTypeExact
<1>8. CASE t.kind = "user" /\ t.of \in T
  <2>1. BlobExact(t, ValuesOf(t, V, inner), inner) /\ Custom(t)
    BY <1>8, UserExact DEF Custom
  <2> QED BY <2>1, BlobTypeExact
<1>9. ASSUME t.parts \in Seq(T)
      PROVE  /\ t.parts \in Seq(DOMAIN inner)
             /\ \A i \in DOMAIN t.parts :
                  SoundPart(t.parts[i], inner) /\ inner[t.parts[i]].values \subseteq V
  <2>1. \A i \in DOMAIN t.parts : t.parts[i] \in T
    BY <1>9, ElementOfSeq, LenProperties
  <2>2. t.parts \in Seq(DOMAIN inner)
    BY <1>9, SeqMonotonic
  <2> QED BY <2>1, <2>2
<1>10. CASE t.kind = "tuple" /\ t.parts \in Seq(T)
  <2>1. BlobExact(t, ValuesOf(t, V, inner), inner) /\ Custom(t)
    BY <1>9, <1>10, TupleExact DEF Custom
  <2> QED BY <2>1, BlobTypeExact
<1>11. CASE t.kind = "variant" /\ t.parts \in Seq(T)
  <2>1. BlobExact(t, ValuesOf(t, V, inner), inner) /\ Custom(t)
    BY <1>9, <1>11, VariantExact DEF Custom
  <2> QED BY <2>1, BlobTypeExact
<1>12. \/ t.kind = "bool" \/ t.kind = "string"
       \/ t.kind = "raw" /\ t.cells \in Nat \ {0}
       \/ t.kind = "vector" /\ t.of \in T
       \/ t.kind = "array" /\ t.size \in Nat /\ t.of \in T
       \/ t.kind = "optional" /\ t.of \in T
       \/ t.kind = "user" /\ t.of \in T
       \/ t.kind = "tuple" /\ t.parts \in Seq(T)
       \/ t.kind = "variant" /\ t.parts \in Seq(T)
  BY <1>1 DEF IsPlain
<1> QED BY <1>2, <1>3, <1>4, <1>5, <1>6, <1>7, <1>8, <1>10, <1>11, <1>12, Zenon

LEMMA InstantiateAgrees ==
    ASSUME NEW V, NEW inner, Sound(inner), NEW t \in TypesOver(DOMAIN inner)
    PROVE  Agree(Instantiate(t, V, inner).values, Instantiate(t, V, inner).write,
                 Instantiate(t, V, inner).read)
<1> DEFINE F == Fitting(t, V, inner)
           w == [v \in F |-> WriteValue(t, v, inner)]
           r == [in \in Cells |-> ReadValue(t, in, inner)]
<1>1. /\ Instantiate(t, V, inner).values = F
      /\ Instantiate(t, V, inner).write = w /\ Instantiate(t, V, inner).read = r
  BY DEF Instantiate
<1>2. \A v \in F : ReadsBack(t, v, inner) /\ RefusesCut(t, v, inner)
  BY TypeAgrees
<1>3. \A v \in F : w[v] = WriteValue(t, v, inner)
  OBVIOUS
<1>4. \A in \in Cells : r[in] = ReadValue(t, in, inner)
  OBVIOUS
<1> HIDE DEF F, w, r
<1>5. Reads(F, w, r)
  <2> SUFFICES ASSUME NEW v \in F PROVE w[v] \in Cells /\ \A rest \in Cells : r[w[v] \o rest] = Got(v, rest)
    BY DEF Reads
  <2>1. w[v] \in Cells
    BY <1>2, <1>3 DEF ReadsBack
  <2>2. ASSUME NEW rest \in Cells PROVE r[w[v] \o rest] = Got(v, rest)
    <3>1. w[v] \o rest \in Cells
      BY <2>1, CellsAre
    <3>2. ReadValue(t, WriteValue(t, v, inner) \o rest, inner) = Got(v, rest)
      BY <1>2 DEF ReadsBack
    <3> QED BY <1>3, <1>4, <3>1, <3>2
  <2> QED BY <2>1, <2>2
<1>6. Refuses(F, w, r)
  BY <1>2, <1>3, <1>4 DEF Refuses, RefusesCut
<1> QED BY <1>1, <1>5, <1>6 DEF Agree

LEMMA InstantiateExact ==
    ASSUME NEW V, NEW inner, NEW T, NEW t \in PlainOver(T), T \subseteq DOMAIN inner,
           \A k \in T : SoundPart(k, inner) /\ inner[k].values \subseteq V
    PROVE  Exact(Instantiate(t, V, inner).values, Instantiate(t, V, inner).write,
                 Instantiate(t, V, inner).read)
<1> DEFINE F == Fitting(t, V, inner)
           w == [v \in F |-> WriteValue(t, v, inner)]
           r == [in \in Cells |-> ReadValue(t, in, inner)]
<1>1. /\ Instantiate(t, V, inner).values = F
      /\ Instantiate(t, V, inner).write = w /\ Instantiate(t, V, inner).read = r
  BY DEF Instantiate
<1>2. AcceptsNoOther(t, F, inner)
  BY TypeExact
<1>3. \A v \in F : w[v] = WriteValue(t, v, inner)
  OBVIOUS
<1>4. \A in \in Cells : r[in] = ReadValue(t, in, inner)
  OBVIOUS
<1> HIDE DEF F, w, r
<1>5. Exact(F, w, r)
  <2> SUFFICES ASSUME NEW in \in Cells, Ok(r[in])
               PROVE  r[in].val \in F /\ r[in].rest \in Cells /\ in = w[r[in].val] \o r[in].rest
    BY DEF Exact
  <2> DEFINE e == ReadValue(t, in, inner)
  <2>1. r[in] = e
    BY <1>4
  <2>2. e.val \in F /\ e.rest \in Cells /\ in = WriteValue(t, e.val, inner) \o e.rest
    BY <1>2, <2>1 DEF AcceptsNoOther
  <2> HIDE DEF e
  <2>3. w[e.val] = WriteValue(t, e.val, inner)
    BY <1>3, <2>2
  <2> QED BY <2>1, <2>2, <2>3
<1> QED BY <1>1, <1>5

-----------------------------------------------------------------------------
(* From level to level *)
LEMMA ValuesGrow ==
    ASSUME NEW V, NEW W, V \subseteq W
    PROVE  ValuesOver(V) \subseteq ValuesOver(W)
<1> SUFFICES ASSUME NEW v \in ValuesOver(V) PROVE v \in ValuesOver(W)
  OBVIOUS
<1>1. CASE v \in [list : Seq(V)]
  <2>1. v.list \in Seq(W)
    BY <1>1, SeqMonotonic
  <2>2. v \in [list : Seq(W)]
    BY <1>1, <2>1
  <2> QED BY <2>2 DEF ValuesOver
<1>2. CASE v \in [index : Nat, held : V]
  BY <1>2 DEF ValuesOver
<1>3. CASE v \in [keys : SUBSET V]
  BY <1>3 DEF ValuesOver
<1>4. CASE v \in [entries : SUBSET [key : V, mapped : V]]
  <2>1. [key : V, mapped : V] \subseteq [key : W, mapped : W]
    OBVIOUS
  <2>2. v \in [entries : SUBSET [key : W, mapped : W]]
    BY <1>4, <2>1
  <2> QED BY <2>2 DEF ValuesOver
<1>5. CASE v \in [cells : Cells] \/ v \in [flag : BOOLEAN]
  BY <1>5 DEF ValuesOver
<1> QED BY <1>1, <1>2, <1>3, <1>4, <1>5, Zenon DEF ValuesOver

LEMMA ValuesWithin ==
    ASSUME NEW V, NEW inner, V \subseteq ValuesOver(V),
           \A k \in DOMAIN inner : inner[k].values \subseteq V,
           NEW t \in TypesOver(DOMAIN inner), NEW v \in ValuesOf(t, V, inner)
    PROVE  v \in ValuesOver(V)
<1> DEFINE D == DOMAIN inner
<1>1. IsType(t, D)
  BY TypeIs
<1>2. CASE t.kind \in {"raw", "string"}
  <2>1. v \in [cells : Cells]
    BY <1>2 DEF ValuesOf
  <2> QED BY <2>1 DEF ValuesOver
<1>3. CASE t.kind = "bool"
  <2>1. v \in [flag : BOOLEAN]
    BY <1>3 DEF ValuesOf
  <2> QED BY <2>1 DEF ValuesOver
<1>4. CASE t.kind \in {"vector", "array", "optional"} /\ t.of \in D
  <2> DEFINE A == inner[t.of].values
  <2>1. v \in [list : Seq(A)]
    BY <1>4 DEF ValuesOf
  <2>2. A \subseteq V
    BY <1>4
  <2>3. v.list \in Seq(V)
    <3> HIDE DEF A
    <3>1. v.list \in Seq(A)
      BY <2>1
    <3> QED BY <2>2, <3>1, SeqMonotonic
  <2>4. v \in [list : Seq(V)]
    <3> HIDE DEF A
    <3> QED BY <2>1, <2>3
  <2> QED BY <2>4 DEF ValuesOver
<1>5. CASE t.kind = "tuple"
  <2>1. v \in [list : Seq(V)]
    BY <1>5 DEF ValuesOf
  <2> QED BY <2>1 DEF ValuesOver
<1>6. CASE t.kind = "variant" /\ t.parts \in Seq(D)
  <2>1. v \in [index : 0..(Len(t.parts) - 1), held : V] /\ Len(t.parts) \in Nat
    BY <1>6, LenProperties DEF ValuesOf
  <2>2. v \in [index : Nat, held : V]
    BY <2>1
  <2> QED BY <2>2 DEF ValuesOver
<1>7. CASE t.kind = "set" /\ t.of \in D
  <2>1. v \in [keys : SUBSET inner[t.of].values] /\ inner[t.of].values \subseteq V
    BY <1>7 DEF ValuesOf
  <2>2. v \in [keys : SUBSET V]
    BY <2>1
  <2> QED BY <2>2 DEF ValuesOver
<1>8. CASE t.kind = "map" /\ t.key \in D /\ t.of \in D
  <2>1. v \in [entries : SUBSET [key : inner[t.key].values, mapped : inner[t.of].values]]
    BY <1>8 DEF ValuesOf
  <2>2. [key : inner[t.key].values, mapped : inner[t.of].values] \subseteq [key : V, mapped : V]
    BY <1>8
  <2>3. v \in [entries : SUBSET [key : V, mapped : V]]
    BY <2>1, <2>2
  <2> QED BY <2>3 DEF ValuesOver
<1>9. CASE t.kind = "user" /\ t.of \in D
  BY <1>9 DEF ValuesOf
<1>10. \/ t.kind \in {"raw", "string"} \/ t.kind = "bool" \/ t.kind = "tuple"
       \/ t.kind \in {"vector", "array", "optional"} /\ t.of \in D
       \/ t.kind = "variant" /\ t.parts \in Seq(D)
       \/ t.kind = "set" /\ t.of \in D
       \/ t.kind = "map" /\ t.key \in D /\ t.of \in D
       \/ t.kind = "user" /\ t.of \in D
  <2> HIDE DEF D
  <2> QED BY <1>1 DEF IsType, IsPlain
<1> QED BY <1>2, <1>3, <1>4, <1>5, <1>6, <1>7, <1>8, <1>9, <1>10, Zenon

LEMMA PlainGrow ==
    ASSUME NEW P, NEW D, P \subseteq D
    PROVE  PlainOver(P) \subseteq TypesOver(D)
<1> SUFFICES ASSUME NEW t \in PlainOver(P) PROVE t \in PlainOver(D)
  BY DEF TypesOver
<1>1. CASE t \in [kind : {"bool", "string"}] \/ t \in [kind : {"raw"}, cells : Nat \ {0}]
  BY <1>1 DEF PlainOver
<1>2. CASE t \in [kind : {"vector", "optional", "user"}, of : P]
  <2>1. t \in [kind : {"vector", "optional", "user"}, of : D]
    BY <1>2
  <2> QED BY <2>1 DEF PlainOver
<1>3. CASE t \in [kind : {"array"}, size : Nat, of : P]
  <2>1. t \in [kind : {"array"}, size : Nat, of : D]
    BY <1>3
  <2> QED BY <2>1 DEF PlainOver
<1>4. CASE t \in [kind : {"tuple", "variant"}, parts : Seq(P)]
  <2>1. t.parts \in Seq(D)
    BY <1>4, SeqMonotonic
  <2>2. t \in [kind : {"tuple", "variant"}, parts : Seq(D)]
    BY <1>4, <2>1
  <2> QED BY <2>2 DEF PlainOver
<1> QED BY <1>1, <1>2, <1>3, <1>4, Zenon DEF PlainOver

LEMMA LevelIs ==
    \A n \in 0..MaxDepth : Level[n] = LevelOver(IF n = 0 THEN Ground ELSE Level[n - 1])
<1>0. MaxDepth \in Nat
  BY CodecAssumption
<1> DEFINE Step(f, i) == LevelOver(IF i = 0 THEN Ground ELSE f[i - 1])
           Good(f, k) == f = [i \in 0..k |-> Step(f, i)]
           T == {k \in 0..MaxDepth : \E f : Good(f, k)}
<1>1. 0 \in T
  <2> DEFINE f == [i \in 0..0 |-> LevelOver(Ground)]
  <2>1. \A i \in 0..0 : Step(f, i) = LevelOver(Ground)
    OBVIOUS
  <2> HIDE DEF Step
  <2>2. Good(f, 0)
    BY <2>1
  <2> HIDE DEF Good
  <2> QED BY <1>0, <2>2
<1>2. ASSUME NEW k \in 1..MaxDepth, k - 1 \in T PROVE k \in T
  <2>1. /\ 0..k = 0..(k - 1) \cup {k} /\ k \notin 0..(k - 1) /\ k # 0 /\ k - 1 \in 0..(k - 1)
        /\ \A i \in 0..(k - 1) : i # 0 => i - 1 \in 0..(k - 1)
    OBVIOUS
  <2>2. PICK g : Good(g, k - 1)
    BY <1>2
  <2>3. \A i \in 0..(k - 1) : g[i] = Step(g, i)
    <3> HIDE DEF Step
    <3> QED BY <2>2
  <2> DEFINE new == LevelOver(IF k = 0 THEN Ground ELSE g[k - 1])
             f == [i \in 0..k |-> IF i = k THEN new ELSE g[i]]
  <2>4. /\ f = [i \in 0..k |-> f[i]] /\ f[k] = new
        /\ \A i \in 0..(k - 1) : f[i] = g[i]
    <3> HIDE DEF new
    <3> QED BY <2>1
  <2> HIDE DEF f
  <2>5. f[k] = Step(f, k)
    BY <2>1, <2>4
  <2>6. \A i \in 0..(k - 1) : f[i] = Step(f, i)
    <3> SUFFICES ASSUME NEW i \in 0..(k - 1) PROVE f[i] = Step(f, i)
      OBVIOUS
    <3>1. f[i] = g[i] /\ g[i] = Step(g, i)
      BY <2>3, <2>4
    <3>2. CASE i = 0
      BY <3>1, <3>2
    <3>3. CASE i # 0
      <4>1. f[i - 1] = g[i - 1]
        BY <2>1, <2>4, <3>3
      <4> QED BY <3>1, <3>3, <4>1
    <3> QED BY <3>2, <3>3
  <2> HIDE DEF Step
  <2>7. \A i \in 0..k : f[i] = Step(f, i)
    BY <2>1, <2>5, <2>6
  <2>8. Good(f, k)
    BY <2>4, <2>7
  <2> HIDE DEF Good
  <2> QED BY <2>8
<1>3. \E f : Good(f, MaxDepth)
  <2> HIDE DEF Good
  <2>1. \A k \in 0..MaxDepth : k \in T
    <3> HIDE DEF T
    <3> QED BY <1>0, <1>1, <1>2, CountUp
  <2> QED BY <1>0, <2>1
<1> DEFINE F == CHOOSE f : f = [i \in 0..MaxDepth |-> Step(f, i)]
<1>4. F = [i \in 0..MaxDepth |-> Step(F, i)]
  <2> HIDE DEF Step
  <2> QED BY <1>3
<1>5. Level = F
  BY DEF Level
<1> HIDE DEF F
<1> QED BY <1>4, <1>5

PlainLevel ==
    LET plain[n \in 0..MaxDepth] == PlainOver(IF n = 0 THEN {} ELSE plain[n - 1])
    IN  plain

LEMMA PlainLevelsAre ==
    \A n \in 0..MaxDepth : PlainLevel[n] = PlainOver(IF n = 0 THEN {} ELSE PlainLevel[n - 1])
<1>0. MaxDepth \in Nat
  BY CodecAssumption
<1> DEFINE Step(f, i) == PlainOver(IF i = 0 THEN {} ELSE f[i - 1])
           Good(f, k) == f = [i \in 0..k |-> Step(f, i)]
           T == {k \in 0..MaxDepth : \E f : Good(f, k)}
<1>1. 0 \in T
  <2> DEFINE f == [i \in 0..0 |-> PlainOver({})]
  <2>1. \A i \in 0..0 : Step(f, i) = PlainOver({})
    OBVIOUS
  <2> HIDE DEF Step
  <2>2. Good(f, 0)
    BY <2>1
  <2> HIDE DEF Good
  <2> QED BY <1>0, <2>2
<1>2. ASSUME NEW k \in 1..MaxDepth, k - 1 \in T PROVE k \in T
  <2>1. /\ 0..k = 0..(k - 1) \cup {k} /\ k \notin 0..(k - 1) /\ k # 0 /\ k - 1 \in 0..(k - 1)
        /\ \A i \in 0..(k - 1) : i # 0 => i - 1 \in 0..(k - 1)
    OBVIOUS
  <2>2. PICK g : Good(g, k - 1)
    BY <1>2
  <2>3. \A i \in 0..(k - 1) : g[i] = Step(g, i)
    <3> HIDE DEF Step
    <3> QED BY <2>2
  <2> DEFINE new == PlainOver(IF k = 0 THEN {} ELSE g[k - 1])
             f == [i \in 0..k |-> IF i = k THEN new ELSE g[i]]
  <2>4. /\ f = [i \in 0..k |-> f[i]] /\ f[k] = new
        /\ \A i \in 0..(k - 1) : f[i] = g[i]
    <3> HIDE DEF new
    <3> QED BY <2>1
  <2> HIDE DEF f
  <2>5. f[k] = Step(f, k)
    BY <2>1, <2>4
  <2>6. \A i \in 0..(k - 1) : f[i] = Step(f, i)
    <3> SUFFICES ASSUME NEW i \in 0..(k - 1) PROVE f[i] = Step(f, i)
      OBVIOUS
    <3>1. f[i] = g[i] /\ g[i] = Step(g, i)
      BY <2>3, <2>4
    <3>2. CASE i = 0
      BY <3>1, <3>2
    <3>3. CASE i # 0
      <4>1. f[i - 1] = g[i - 1]
        BY <2>1, <2>4, <3>3
      <4> QED BY <3>1, <3>3, <4>1
    <3> QED BY <3>2, <3>3
  <2> HIDE DEF Step
  <2>7. \A i \in 0..k : f[i] = Step(f, i)
    BY <2>1, <2>5, <2>6
  <2>8. Good(f, k)
    BY <2>4, <2>7
  <2> HIDE DEF Good
  <2> QED BY <2>8
<1>3. \E f : Good(f, MaxDepth)
  <2> HIDE DEF Good
  <2>1. \A k \in 0..MaxDepth : k \in T
    <3> HIDE DEF T
    <3> QED BY <1>0, <1>1, <1>2, CountUp
  <2> QED BY <1>0, <2>1
<1> DEFINE F == CHOOSE f : f = [i \in 0..MaxDepth |-> Step(f, i)]
<1>4. F = [i \in 0..MaxDepth |-> Step(F, i)]
  <2> HIDE DEF Step
  <2> QED BY <1>3
<1>5. PlainLevel = F
  BY DEF PlainLevel
<1> HIDE DEF F
<1> QED BY <1>4, <1>5

(* What holds at a level: its codecs are sound, those of the plain types P  *)
(* accept nothing else, and their values are among those of the level.      *)
GoodLevel(L, P) ==
    /\ Sound(L.codecs)
    /\ \A t \in DOMAIN L.codecs : L.codecs[t].values \subseteq L.values
    /\ L.values \subseteq ValuesOver(L.values)
    /\ P \subseteq DOMAIN L.codecs
    /\ \A t \in P : SoundPart(t, L.codecs)

LEMMA GroundIsGood == GoodLevel(Ground, {})
<1>1. Ground.values = {} /\ Ground.codecs = <<>> /\ DOMAIN Ground.codecs = {}
  BY DEF Ground
<1> QED BY <1>1 DEF GoodLevel, Sound

LEMMA LevelsAreGood ==
    ASSUME NEW L, NEW P, GoodLevel(L, P)
    PROVE  GoodLevel(LevelOver(L), PlainOver(P))
<1> DEFINE V == L.values
           inner == L.codecs
           D == TypesOver(DOMAIN inner)
           next == LevelOver(L)
           codecs == [t \in D |-> Instantiate(t, V, inner)]
<1>1. next.values = ValuesOver(V) /\ next.codecs = codecs
  BY DEF LevelOver
<1>2. /\ Sound(inner) /\ \A t \in DOMAIN inner : inner[t].values \subseteq V
      /\ V \subseteq ValuesOver(V) /\ P \subseteq DOMAIN inner
      /\ \A t \in P : SoundPart(t, inner)
  BY DEF GoodLevel
<1> HIDE DEF V, inner, next
<1>3. DOMAIN codecs = D /\ \A t \in D : codecs[t] = Instantiate(t, V, inner)
  OBVIOUS
<1> HIDE DEF codecs
<1>4. Sound(codecs)
  BY <1>2, <1>3, InstantiateAgrees DEF Sound
<1>5. \A t \in D : codecs[t].values \subseteq ValuesOver(V)
  <2> SUFFICES ASSUME NEW t \in D, NEW v \in codecs[t].values PROVE v \in ValuesOver(V)
    OBVIOUS
  <2>1. codecs[t].values = Fitting(t, V, inner)
    BY <1>3 DEF Instantiate
  <2>2. v \in ValuesOf(t, V, inner)
    BY <2>1 DEF Fitting
  <2> QED BY <1>2, <2>2, ValuesWithin
<1>6. ValuesOver(V) \subseteq ValuesOver(ValuesOver(V))
  BY <1>2, ValuesGrow
<1>7. PlainOver(P) \subseteq D
  BY <1>2, PlainGrow
<1>8. ASSUME NEW t \in PlainOver(P) PROVE SoundPart(t, codecs)
  <2>1. t \in D /\ codecs[t] = Instantiate(t, V, inner)
    BY <1>3, <1>7
  <2>2. \A k \in P : SoundPart(k, inner) /\ inner[k].values \subseteq V
    BY <1>2
  <2>3. Exact(codecs[t].values, codecs[t].write, codecs[t].read)
    BY <1>2, <2>1, <2>2, InstantiateExact
  <2>4. Reads(codecs[t].values, codecs[t].write, codecs[t].read)
    BY <1>3, <1>4, <2>1 DEF Sound, Agree
  <2> QED BY <2>3, <2>4 DEF SoundPart
<1> HIDE DEF D
<1> QED BY <1>1, <1>3, <1>4, <1>5, <1>6, <1>7, <1>8 DEF GoodLevel, next

LEMMA EveryLevelIsGood ==
    \A n \in 0..MaxDepth : GoodLevel(Level[n], PlainLevel[n])
<1>0. MaxDepth \in Nat
  BY CodecAssumption
<1> DEFINE T == {n \in 0..MaxDepth : GoodLevel(Level[n], PlainLevel[n])}
<1>1. 0 \in T
  <2>1. 0 \in 0..MaxDepth
    BY <1>0
  <2>2. Level[0] = LevelOver(Ground) /\ PlainLevel[0] = PlainOver({})
    BY <2>1, LevelIs, PlainLevelsAre
  <2> QED BY <2>1, <2>2, GroundIsGood, LevelsAreGood
<1>2. ASSUME NEW k \in 1..MaxDepth, k - 1 \in T PROVE k \in T
  <2>1. k \in 0..MaxDepth /\ k # 0
    BY <1>0
  <2>2. Level[k] = LevelOver(Level[k - 1]) /\ PlainLevel[k] = PlainOver(PlainLevel[k - 1])
    BY <2>1, LevelIs, PlainLevelsAre
  <2>3. GoodLevel(Level[k - 1], PlainLevel[k - 1])
    BY <1>2
  <2>4. GoodLevel(Level[k], PlainLevel[k])
    BY <2>2, <2>3, LevelsAreGood
  <2> QED BY <2>1, <2>4
<1>3. \A n \in 0..MaxDepth : n \in T
  <2> HIDE DEF T
  <2> QED BY <1>0, <1>1, <1>2, CountUp
<1> QED BY <1>3

LEMMA CodecsAre ==
    /\ Sound(Codecs)
    /\ Plain \subseteq DOMAIN Codecs /\ \A t \in Plain : SoundPart(t, Codecs)
<1>1. MaxDepth \in 0..MaxDepth
  BY CodecAssumption
<1>2. GoodLevel(Level[MaxDepth], PlainLevel[MaxDepth])
  BY <1>1, EveryLevelIsGood
<1>3. Codecs = Level[MaxDepth].codecs
  BY DEF Codecs
<1>4. Plain = PlainLevel[MaxDepth]
  BY DEF Plain, PlainLevel
<1> QED BY <1>2, <1>3, <1>4 DEF GoodLevel

-----------------------------------------------------------------------------
(* to_bytes() and from_bytes() *)
LEMMA WrittenIsRead ==
    ASSUME NEW t \in DOMAIN Codecs, NEW v \in Codecs[t].values
    PROVE  ToBytes(t, v) \in Cells /\ FromBytes(t, ToBytes(t, v)) = Got(v, <<>>)
<1> DEFINE b == Codecs[t].write[v]
           r == Codecs[t].read[b]
<1>1. b \in Cells /\ \A rest \in Cells : Codecs[t].read[b \o rest] = Got(v, rest)
  BY CodecsAre DEF Sound, Agree, Reads
<1>2. b \o <<>> = b /\ <<>> \in Cells
  BY <1>1, CellsAre
<1>3. r = Got(v, <<>>)
  BY <1>1, <1>2, Zenon
<1>4. ToBytes(t, v) = b /\ FromBytes(t, b) = Whole(r)
  BY DEF ToBytes, FromBytes
<1> HIDE DEF r, b
<1> QED BY <1>1, <1>3, <1>4, WholeIs, GotHas

LEMMA CutIsRefused ==
    ASSUME NEW t \in DOMAIN Codecs, NEW v \in Codecs[t].values,
           NEW n \in 1..Len(ToBytes(t, v))
    PROVE  FromBytes(t, SubSeq(ToBytes(t, v), 1, Len(ToBytes(t, v)) - n)).out = "malformed"
<1> DEFINE b == ToBytes(t, v)
           m == Len(b) - n
           p == SubSeq(b, 1, m)
           q == SubSeq(b, m + 1, Len(b))
<1>1. b \in Cells /\ Refuses(Codecs[t].values, Codecs[t].write, Codecs[t].read)
  BY WrittenIsRead, CodecsAre DEF Sound, Agree
<1>2. b = Codecs[t].write[v]
  BY DEF ToBytes
<1>3. n \in 1..Len(b)
  OBVIOUS
<1> HIDE DEF b
<1>4. m \in Nat /\ m <= Len(b) /\ m # Len(b)
  <2>1. Len(b) \in Nat
    BY <1>1, CellsAre
  <2> QED BY <1>3, <2>1
<1> HIDE DEF m
<1>5. p \in Cells /\ Len(p) = m /\ q \in Cells /\ p \o q = b
  BY <1>1, <1>4, CutAt, Zenon
<1> HIDE DEF p, q
<1>6. q # <<>>
  BY <1>4, <1>5, CellsAre
<1>7. Codecs[t].read[p].out = "malformed"
  BY <1>1, <1>2, <1>5, <1>6, Zenon DEF Refuses
<1>8. FromBytes(t, p) = Codecs[t].read[p]
  BY <1>7, MalformedIs, WholeIs DEF FromBytes
<1> QED BY <1>7, <1>8 DEF b, m, p

LEMMA AcceptedIsWritten ==
    ASSUME NEW t \in Plain, NEW in \in Cells, Ok(FromBytes(t, in))
    PROVE  ToBytes(t, FromBytes(t, in).val) = in
<1> DEFINE r == Codecs[t].read[in]
<1>1. Ok(r) /\ r.rest = <<>> /\ FromBytes(t, in) = r
  BY WholeIs DEF FromBytes
<1>2. SoundPart(t, Codecs)
  BY CodecsAre
<1>3. r.val \in Codecs[t].values /\ in = Codecs[t].write[r.val] \o r.rest
  BY <1>1, <1>2, Zenon DEF SoundPart, Exact
<1>4. Codecs[t].write[r.val] \in Cells
  BY <1>2, <1>3, Zenon DEF SoundPart, Reads
<1>5. in = Codecs[t].write[r.val]
  BY <1>1, <1>3, <1>4, CellsAre
<1> QED BY <1>1, <1>5 DEF ToBytes

-----------------------------------------------------------------------------
(* What is on its way is the encoding of the sample, or its beginning, and  *)
(* a shortened one is only ever read as what it was written as.             *)
Encoding == ToBytes(sample.type, sample.value)

CodecInv ==
    /\ sample \in Samples /\ pc \in {"write", "store", "read", "done"}
    /\ cut = 0 \/ cut \in 1..Len(Encoding)
    /\ cut > 0 \/ pc \in {"write", "store"} => as = sample.type
    /\ pc \in {"write", "store"} => cut = 0
    /\ pc = "store" => bytes = Encoding
    /\ pc \in {"read", "done"} =>
         bytes = IF cut = 0 THEN Encoding ELSE SubSeq(Encoding, 1, Len(Encoding) - cut)
    /\ pc = "done" => outcome = FromBytes(as, bytes)

LEMMA EncodingIs ==
    ASSUME sample \in Samples
    PROVE  /\ sample.type \in DOMAIN Codecs /\ sample.value \in Codecs[sample.type].values
           /\ Encoding \in Cells
<1>1. sample.type \in DOMAIN Codecs /\ sample.value \in Codecs[sample.type].values
  BY CodecAssumption
<1> QED BY <1>1, WrittenIsRead DEF Encoding

(* The invariant holds of every run of to_bytes() and from_bytes(). *)
THEOREM CodecInvariant == Spec => []CodecInv
<1>1. Init => CodecInv
  BY DEF Init, CodecInv
<1>2. CodecInv /\ [Next]_vars => CodecInv'
  <2> SUFFICES ASSUME CodecInv, [Next]_vars PROVE CodecInv'
    OBVIOUS
  <2>1. CASE Write
    <3>1. Encoding' = Encoding
      BY <2>1 DEF Write, Encoding
    <3> QED BY <2>1, <3>1 DEF Write, CodecInv, Encoding
  <2>2. CASE Cut
    <3>1. Encoding' = Encoding
      BY <2>2 DEF Cut, Encoding
    <3>2. bytes = Encoding /\ sample \in Samples /\ as = sample.type
      BY <2>2 DEF Cut, CodecInv
    <3>3. PICK n \in 1..Len(Encoding) : cut' = n /\ bytes' = SubSeq(Encoding, 1, Len(Encoding) - n)
      BY <2>2, <3>2 DEF Cut
    <3>4. pc' = "read" /\ sample' = sample /\ as' = as
      BY <2>2 DEF Cut
    <3>5. cut' \in 1..Len(Encoding) /\ cut' # 0 /\ cut' > 0
      BY <3>3
    <3> HIDE DEF Encoding
    <3> QED BY <3>1, <3>2, <3>3, <3>4, <3>5 DEF CodecInv
  <2>3. CASE Keep
    <3>1. Encoding' = Encoding
      BY <2>3 DEF Keep, Encoding
    <3>2. bytes = Encoding /\ sample \in Samples /\ cut = 0
      BY <2>3 DEF Keep, CodecInv
    <3>3. pc' = "read" /\ sample' = sample /\ bytes' = bytes /\ cut' = cut
      BY <2>3 DEF Keep
    <3> QED BY <3>1, <3>2, <3>3 DEF CodecInv
  <2>4. CASE Read
    <3>1. Encoding' = Encoding
      BY <2>4 DEF Read, Encoding
    <3> QED BY <2>4, <3>1 DEF Read, CodecInv
  <2>5. CASE UNCHANGED vars
    <3>1. Encoding' = Encoding
      BY <2>5 DEF vars, Encoding
    <3> QED BY <2>5, <3>1 DEF vars, CodecInv
  <2> QED BY <2>1, <2>2, <2>3, <2>4, <2>5 DEF Next
<1> QED BY <1>1, <1>2, PTL DEF Spec

(* Whatever the type and the value: what was written is read, and what was  *)
(* cut is refused (write_value() against read_value(), read_bytes()).       *)
THEOREM EveryRoundTrip == Spec => []RoundTrip
<1>1. CodecInv => RoundTrip
  <2> SUFFICES ASSUME CodecInv, pc = "done"
               PROVE  /\ cut > 0 => outcome.out = "malformed"
                      /\ cut = 0 /\ as = sample.type =>
                            outcome.out = "value" /\ outcome.val = sample.value
    BY DEF RoundTrip
  <2>1. /\ sample.type \in DOMAIN Codecs /\ sample.value \in Codecs[sample.type].values
        /\ outcome = FromBytes(as, bytes)
    BY EncodingIs DEF CodecInv
  <2>2. ASSUME cut > 0 PROVE outcome.out = "malformed"
    <3>0. cut # 0
      BY <2>2
    <3>1. /\ cut \in 1..Len(Encoding) /\ as = sample.type
          /\ bytes = SubSeq(Encoding, 1, Len(Encoding) - cut)
      <4> HIDE DEF Encoding
      <4> QED BY <2>2, <3>0 DEF CodecInv
    <3> QED BY <2>1, <3>1, CutIsRefused DEF Encoding
  <2>3. ASSUME cut = 0, as = sample.type PROVE outcome.out = "value" /\ outcome.val = sample.value
    <3>1. bytes = Encoding
      BY <2>3 DEF CodecInv
    <3>2. outcome = Got(sample.value, <<>>)
      BY <2>1, <2>3, <3>1, WrittenIsRead DEF Encoding
    <3> QED BY <3>2 DEF Got
  <2> QED BY <2>2, <2>3
<1> QED BY <1>1, CodecInvariant, PTL

(* Whatever is accepted as a type without sets and maps, in any mixture of  *)
(* the others, is what that type writes (from_bytes(), the checks for       *)
(* trailing bytes).                                                         *)
THEOREM NothingIsIgnored == Spec => []NothingIgnored
<1>1. CodecInv => NothingIgnored
  <2> SUFFICES ASSUME CodecInv, pc = "done", outcome.out = "value", as \in Plain
               PROVE  ToBytes(as, outcome.val) = bytes
    BY DEF NothingIgnored
  <2>1. outcome = FromBytes(as, bytes) /\ Ok(FromBytes(as, bytes))
    BY DEF CodecInv, Ok
  <2>2. bytes \in Cells
    <3>1. Encoding \in Cells
      BY EncodingIs DEF CodecInv
    <3>2. CASE cut = 0
      BY <3>1, <3>2 DEF CodecInv
    <3>3. CASE cut # 0
      <4> DEFINE m == Len(Encoding) - cut
      <4>1. cut \in 1..Len(Encoding) /\ bytes = SubSeq(Encoding, 1, m)
        BY <3>3 DEF CodecInv
      <4>2. m \in Nat /\ m <= Len(Encoding)
        <5>1. Len(Encoding) \in Nat
          BY <3>1, CellsAre
        <5> QED BY <4>1, <5>1
      <4> HIDE DEF m
      <4> QED BY <3>1, <4>1, <4>2, CutAt, Zenon
    <3> QED BY <3>2, <3>3
  <2> QED BY <2>1, <2>2, AcceptedIsWritten
<1> QED BY <1>1, CodecInvariant, PTL
=============================================================================
