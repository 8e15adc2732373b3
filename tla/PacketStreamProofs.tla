------------------------- MODULE PacketStreamProofs -------------------------
(***************************************************************************)
(* The byte stream for every header length, capacity, payload size, number *)
(* of packets and amount of noise.  What was read of the current packet    *)
(* and what is still in the socket make one sequence, which reading does   *)
(* not change; up to the first foreign byte it holds the bytes of the      *)
(* packets, each in its place.                                             *)
(***************************************************************************)
EXTENDS PacketStream, SequenceTheorems, TLAPS

Bytes  == [packet : Nat, at : Nat]
Places == [packet : Nat \ {0}, at : Nat \ {0}]       \* of packets: not Noise

(* With payload sizes z: the length of packet n, and the byte after p. *)
Size(z, n) == HeaderLen + z[n]
Succ(z, p) == IF p.at < Size(z, p.packet) THEN Byte(p.packet, p.at + 1)
                                          ELSE Byte(p.packet + 1, 1)

(* Byte q comes d places after byte p. *)
Ahead(z, p, q, d) ==
    \/ q.packet = p.packet /\ q.at = p.at + d
    \/ q = Byte(p.packet + 1, 1) /\ p.at + d >= Size(z, p.packet) + 1
    \/ q.packet > p.packet /\ p.at + d > Size(z, p.packet) + 1

(* A byte of a packet that was begun, or the first of the next one. *)
Exists(z, p) ==
    /\ p.packet <= Len(z) + 1
    /\ IF p.packet \in DOMAIN z THEN p.at <= Size(z, p.packet) ELSE p.at = 1

(* s holds bytes of packets in their places, f[1], f[2], ...; the one after *)
(* its last is due next.                                                    *)
Trace(s, f, z) ==
    /\ f \in [1..(Len(s) + 1) -> Places]
    /\ \A i \in 1..(Len(s) + 1) : Exists(z, f[i])
    /\ \A i \in 1..Len(s) :
          /\ s[i] = f[i] /\ f[i].packet \in DOMAIN z
          /\ f[i].at \in 1..Size(z, f[i].packet)
          /\ f[i + 1] = Succ(z, f[i])
    /\ \A i, k \in 1..(Len(s) + 1) : i <= k => Ahead(z, f[i], f[k], k - i)

-----------------------------------------------------------------------------
(* Sequences of bytes, for any sizes. *)
LEMMA AppendIs ==
    ASSUME NEW S, NEW s \in Seq(S), NEW b \in S
    PROVE  /\ Append(s, b) \in Seq(S) /\ Len(Append(s, b)) = Len(s) + 1
           /\ \A i \in 1..Len(s) : Append(s, b)[i] = s[i]
           /\ Append(s, b)[Len(s) + 1] = b
           /\ Len(s) \in Nat
  BY AppendProperties, LenProperties

LEMMA AppendOfConcat ==
    ASSUME NEW s \in Seq(Bytes), NEW t \in Seq(Bytes), NEW b \in Bytes
    PROVE  Append(s \o t, b) = s \o Append(t, b)
<1>1. s \o t \in Seq(Bytes) /\ <<b>> \in Seq(Bytes)
  BY ConcatProperties
<1>2. Append(s \o t, b) = (s \o t) \o <<b>> /\ Append(t, b) = t \o <<b>>
  BY <1>1, AppendIsConcat
<1>3. (s \o t) \o <<b>> = s \o (t \o <<b>>)
  BY <1>1, ConcatAssociative
<1> QED BY <1>2, <1>3

LEMMA StepAhead ==
    ASSUME NEW z \in Seq(Nat), NEW p \in Places, NEW q \in Places, NEW d \in Nat,
           Ahead(z, p, q, d), q.packet \in DOMAIN z, q.at \in 1..Size(z, q.packet)
    PROVE  Ahead(z, p, Succ(z, q), d + 1)
<1>1. HeaderLen \in Nat /\ z[q.packet] \in Nat /\ Size(z, q.packet) \in Nat
  BY StreamAssumption, ElementOfSeq, LenProperties DEF Size
<1>2. CASE q.packet = p.packet
  <2>1. /\ p.at \in Nat \ {0} /\ q.at \in Nat \ {0} /\ p.packet \in Nat \ {0} /\ q.packet \in Nat \ {0}
        /\ p.packet # p.packet + 1
    BY DEF Places
  <2>2. q # Byte(p.packet + 1, 1) /\ ~(q.packet > p.packet)
    BY <1>2, <2>1 DEF Byte
  <2>3. q.at = p.at + d
    BY <2>2 DEF Ahead
  <2>4. CASE q.at < Size(z, q.packet)
    <3>1. Succ(z, q).packet = p.packet /\ Succ(z, q).at = q.at + 1
      BY <1>2, <2>4 DEF Succ, Byte
    <3>2. q.at + 1 = p.at + (d + 1)
      <4>1. d \in Nat /\ p.at \in Nat
        BY <2>1
      <4> QED BY ONLY <4>1, <2>3, SMTT(30)
    <3> QED BY <3>1, <3>2 DEF Ahead
  <2>5. CASE ~(q.at < Size(z, q.packet))
    <3>1. Succ(z, q) = Byte(p.packet + 1, 1)
      BY <1>2, <2>5 DEF Succ
    <3>2. p.at + (d + 1) >= Size(z, p.packet) + 1
      BY <1>1, <1>2, <2>1, <2>3, <2>5, SMTT(30)
    <3> QED BY <3>1, <3>2 DEF Ahead
  <2> QED BY <2>4, <2>5
<1>3. CASE q.packet # p.packet
  <2>1. p.packet \in DOMAIN z
    BY <1>3, LenProperties, SMTT(30) DEF Ahead, Byte, Places
  <2>2. Size(z, p.packet) \in Nat
    BY <2>1, StreamAssumption, ElementOfSeq, LenProperties DEF Size
  <2>3. q.packet > p.packet /\ p.at + d + 1 > Size(z, p.packet) + 1
    BY <1>3, <2>2 DEF Ahead, Byte, Places
  <2>4. Succ(z, q).packet > p.packet
    BY <1>1, <2>3 DEF Succ, Byte, Places
  <2> QED BY <2>2, <2>3, <2>4 DEF Ahead, Places
<1> QED BY <1>2, <1>3

(* The sender begins a packet: nothing that is due changes.                 *)
LEMMA GrowAhead ==
    ASSUME NEW z \in Seq(Nat), NEW size \in Nat,
           NEW p \in Places, NEW q \in Places, NEW d \in Nat,
           Ahead(z, p, q, d), q.packet <= Len(z) + 1
    PROVE  Ahead(Append(z, size), p, q, d)
<1>1. /\ Len(z) \in Nat /\ DOMAIN z = 1..Len(z)
      /\ \A n \in DOMAIN z : Append(z, size)[n] = z[n]
  BY LenProperties, AppendIs
<1>2. CASE p.packet \in DOMAIN z
  <2>1. Size(Append(z, size), p.packet) = Size(z, p.packet)
    BY <1>1, <1>2 DEF Size
  <2> QED BY <2>1 DEF Ahead
<1>3. CASE p.packet \notin DOMAIN z
  <2>1. q.packet = p.packet /\ q.at = p.at + d
    BY <1>1, <1>3 DEF Ahead, Places, Byte
  <2> QED BY <2>1 DEF Ahead
<1> QED BY <1>2, <1>3

-----------------------------------------------------------------------------
(* A trace goes on with the byte that is due. *)
LEMMA AppendByte ==
    ASSUME NEW z \in Seq(Nat), NEW s \in Seq(Bytes), NEW f,
           Trace(s, f, z),
           f[Len(s) + 1].packet \in DOMAIN z,
           f[Len(s) + 1].at \in 1..Size(z, f[Len(s) + 1].packet)
    PROVE  \E g : /\ Trace(Append(s, f[Len(s) + 1]), g, z)
                  /\ g[1] = f[1] /\ g[Len(s) + 2] = Succ(z, f[Len(s) + 1])
<1> DEFINE n == Len(s)
           p == f[n + 1]
           t == Append(s, p)
           g == [i \in 1..(n + 2) |-> IF i = n + 2 THEN Succ(z, p) ELSE f[i]]
<1>1. n \in Nat /\ Len(z) \in Nat /\ DOMAIN z = 1..Len(z)
  BY LenProperties
<1>2. /\ f \in [1..(n + 1) -> Places] /\ p \in Places /\ p \in Bytes
      /\ \A i \in 1..(n + 1) : Exists(z, f[i])
      /\ \A i, k \in 1..(n + 1) : i <= k => Ahead(z, f[i], f[k], k - i)
  <2>1. /\ f \in [1..(n + 1) -> Places]
        /\ \A i \in 1..(n + 1) : Exists(z, f[i])
        /\ \A i, k \in 1..(n + 1) : i <= k => Ahead(z, f[i], f[k], k - i)
    BY DEF Trace
  <2>2. p \in Places
    <3>1. n + 1 \in 1..(n + 1)
      BY <1>1
    <3> QED BY <2>1, <3>1
  <2>3. p \in Bytes
    BY <2>2 DEF Places, Bytes
  <2> QED BY <2>1, <2>2, <2>3
<1>3. Len(t) = n + 1 /\ (\A i \in 1..n : t[i] = s[i]) /\ t[n + 1] = p
  BY <1>2, AppendIs
<1>4. Size(z, p.packet) \in Nat
  BY <1>1, StreamAssumption, ElementOfSeq, SMTT(30) DEF Size
<1>5. Succ(z, p) \in Places /\ Exists(z, Succ(z, p))
  <2>1. CASE p.at < Size(z, p.packet)
    BY <1>1, <1>2, <1>4, <2>1 DEF Succ, Byte, Places, Exists
  <2>2. CASE ~(p.at < Size(z, p.packet))
    <3>1. Succ(z, p) = Byte(p.packet + 1, 1) /\ p.packet + 1 \in Nat \ {0}
      BY <1>1, <2>2 DEF Succ
    <3>2. p.packet + 1 \in DOMAIN z => z[p.packet + 1] \in Nat
      BY ElementOfSeq, <1>1
    <3>3. HeaderLen \in Nat \ {0}
      BY StreamAssumption
    <3> QED BY <1>1, <3>1, <3>2, <3>3, SMTT(30) DEF Byte, Places, Exists, Size
  <2> QED BY <2>1, <2>2
<1> HIDE DEF t, p
<1>7. g \in [1..(n + 2) -> Places] /\ \A i \in 1..(n + 2) : Exists(z, g[i])
  <2> DEFINE q == Succ(z, p)
  <2>1. q \in Places /\ Exists(z, q)
    BY <1>5
  <2> HIDE DEF q
  <2>2. g = [i \in 1..(n + 2) |-> IF i = n + 2 THEN q ELSE f[i]]
    BY DEF q
  <2>3. \A i \in 1..(n + 2) : i # n + 2 => i \in 1..(n + 1)
    BY <1>1
  <2>4. ASSUME NEW i \in 1..(n + 2) PROVE g[i] \in Places /\ Exists(z, g[i])
    BY <1>2, <2>1, <2>2, <2>3
  <2> QED BY <2>2, <2>4
<1>8. ASSUME NEW i \in 1..(n + 1)
      PROVE  /\ t[i] = g[i] /\ g[i].packet \in DOMAIN z
             /\ g[i].at \in 1..Size(z, g[i].packet) /\ g[i + 1] = Succ(z, g[i])
  <2>1. CASE i = n + 1
    <3>1. t[i] = p /\ g[i] = p /\ g[i + 1] = Succ(z, p)
      BY <1>1, <1>3, <2>1 DEF p
    <3>2. p.packet \in DOMAIN z /\ p.at \in 1..Size(z, p.packet)
      BY DEF p
    <3> QED BY <3>1, <3>2
  <2>2. CASE i # n + 1
    <3>1. i \in 1..n /\ t[i] = s[i] /\ g[i] = f[i] /\ g[i + 1] = f[i + 1]
      BY <1>1, <1>3, <2>2
    <3> QED BY <3>1 DEF Trace
  <2> QED BY <2>1, <2>2
<1>9. ASSUME NEW i \in 1..(n + 2), NEW k \in 1..(n + 2), i <= k
      PROVE  Ahead(z, g[i], g[k], k - i)
  <2>1. CASE k # n + 2
    <3>1. i \in 1..(n + 1) /\ k \in 1..(n + 1) /\ i # n + 2
      <4>1. n \in Nat /\ i \in 1..(n + 2) /\ k \in 1..(n + 2) /\ i <= k /\ k # n + 2
        BY <1>1, <1>9, <2>1
      <4> QED BY ONLY <4>1
    <3>2. g[i] = f[i] /\ g[k] = f[k]
      BY <2>1, <3>1
    <3> QED BY <1>2, <1>9, <3>1, <3>2
  <2>2. CASE i = n + 2
    BY <1>1, <1>5, <1>9, <2>2 DEF Ahead, Places
  <2>3. CASE k = n + 2 /\ i # n + 2
    <3>1. /\ i \in 1..(n + 1) /\ n + 1 - i \in Nat /\ n + 1 - i + 1 = k - i
          /\ n + 1 \in 1..(n + 1) /\ i <= n + 1
      BY <1>1, <2>3
    <3>2. g[i] = f[i] /\ g[k] = Succ(z, p)
      BY <2>3
    <3>3. f[i] \in Places
      BY <1>2, <3>1
    <3>4. Ahead(z, f[i], p, n + 1 - i)
      BY <1>1, <1>2, <3>1 DEF p
    <3>5. Ahead(z, f[i], Succ(z, p), n + 1 - i + 1)
      BY <1>2, <3>1, <3>3, <3>4, StepAhead DEF p
    <3> QED BY <3>1, <3>2, <3>5
  <2> QED BY <2>1, <2>2, <2>3
<1>10. Len(t) + 1 = n + 2
  BY <1>1, <1>3
<1>11. Trace(t, g, z)
  BY <1>3, <1>7, <1>8, <1>9, <1>10 DEF Trace
<1>12. g[1] = f[1] /\ g[n + 2] = Succ(z, p)
  BY <1>1
<1> QED BY <1>11, <1>12 DEF t, p

(* A new packet is begun. *)
LEMMA GrowTrace ==
    ASSUME NEW z \in Seq(Nat), NEW size \in Nat, NEW s \in Seq(Bytes), NEW f,
           Trace(s, f, z)
    PROVE  Trace(s, f, Append(z, size))
<1> DEFINE n == Len(s)
           y == Append(z, size)
<1>1. n \in Nat /\ Len(z) \in Nat /\ DOMAIN z = 1..Len(z)
  BY LenProperties
<1>2. /\ y \in Seq(Nat) /\ Len(y) = Len(z) + 1 /\ DOMAIN y = 1..(Len(z) + 1)
      /\ y[Len(z) + 1] = size
      /\ \A k \in DOMAIN z : k \in DOMAIN y /\ y[k] = z[k] /\ Size(y, k) = Size(z, k)
  BY <1>1, AppendIs, LenProperties DEF Size
<1> HIDE DEF y
<1>3. /\ f \in [1..(n + 1) -> Places]
      /\ \A i \in 1..(n + 1) : Exists(z, f[i])
      /\ \A i, k \in 1..(n + 1) : i <= k => Ahead(z, f[i], f[k], k - i)
  BY DEF Trace
<1>4. ASSUME NEW i \in 1..(n + 1) PROVE Exists(y, f[i])
  <2>1. f[i] \in Places /\ Exists(z, f[i])
    BY <1>3
  <2>2. CASE f[i].packet \in DOMAIN z
    BY <1>1, <1>2, <2>1, <2>2 DEF Exists
  <2>3. CASE f[i].packet \notin DOMAIN z
    <3>1. f[i].packet = Len(z) + 1 /\ f[i].at = 1
      BY <1>1, <2>1, <2>3 DEF Exists, Places
    <3>2. 1 <= Size(y, Len(z) + 1)
      BY <1>2, StreamAssumption DEF Size
    <3> QED BY <1>1, <1>2, <3>1, <3>2 DEF Exists
  <2> QED BY <2>2, <2>3
<1>5. ASSUME NEW i \in 1..(n + 1), NEW k \in 1..(n + 1), i <= k
      PROVE  Ahead(y, f[i], f[k], k - i)
  <2>1. k - i \in Nat
    BY <1>1, <1>5
  <2>2. f[i] \in Places /\ f[k] \in Places /\ f[k].packet <= Len(z) + 1
    BY <1>3 DEF Exists
  <2>3. Ahead(z, f[i], f[k], k - i)
    BY <1>3, <1>5
  <2> QED BY <2>1, <2>2, <2>3, GrowAhead DEF y
<1>6. ASSUME NEW i \in 1..n
      PROVE  /\ s[i] = f[i] /\ f[i].packet \in DOMAIN y
             /\ f[i].at \in 1..Size(y, f[i].packet) /\ f[i + 1] = Succ(y, f[i])
  <2>1. f[i].packet \in DOMAIN z => Succ(y, f[i]) = Succ(z, f[i])
    BY <1>2 DEF Succ
  <2> QED BY <1>2, <2>1 DEF Trace
<1> QED BY <1>3, <1>4, <1>5, <1>6 DEF Trace, y

(* What is left of a trace when its first bytes are taken away. *)
Joins(s, a, b) == s = a \o b
Rest(f, a, b)  == [i \in 1..(Len(b) + 1) |-> f[Len(a) + i]]

LEMMA DropTrace ==
    ASSUME NEW z \in Seq(Nat), NEW a \in Seq(Bytes), NEW b \in Seq(Bytes),
           NEW s \in Seq(Bytes), NEW f, Trace(s, f, z), Joins(s, a, b)
    PROVE  /\ Trace(b, Rest(f, a, b), z)
           /\ Rest(f, a, b)[1] = f[Len(a) + 1]
           /\ Rest(f, a, b)[Len(b) + 1] = f[Len(s) + 1]
<1> DEFINE m == Len(a)
           n == Len(b)
           g == [i \in 1..(n + 1) |-> f[m + i]]
<1>1. /\ m \in Nat /\ n \in Nat /\ Len(s) = m + n
      /\ \A i \in 1..n : s[m + i] = b[i]
  BY LenProperties, ConcatProperties DEF Joins
<1> HIDE DEF m, n
<1>2. /\ f \in [1..(m + n + 1) -> Places]
      /\ \A i \in 1..(m + n + 1) : Exists(z, f[i])
      /\ \A i, k \in 1..(m + n + 1) : i <= k => Ahead(z, f[i], f[k], k - i)
      /\ \A i \in 1..(m + n) :
            /\ s[i] = f[i] /\ f[i].packet \in DOMAIN z
            /\ f[i].at \in 1..Size(z, f[i].packet) /\ f[i + 1] = Succ(z, f[i])
  BY <1>1 DEF Trace
<1>3. ASSUME NEW i \in 1..(n + 1)
      PROVE  m + i \in 1..(m + n + 1) /\ g[i] = f[m + i] /\ g[i] \in Places /\ Exists(z, g[i])
  BY <1>1, <1>2
<1>4. ASSUME NEW i \in 1..(n + 1), NEW k \in 1..(n + 1), i <= k
      PROVE  Ahead(z, g[i], g[k], k - i)
  <2>1. m + i <= m + k /\ (m + k) - (m + i) = k - i
    BY <1>1, <1>4
  <2>2. Ahead(z, f[m + i], f[m + k], (m + k) - (m + i))
    BY <1>2, <1>3, <2>1
  <2> QED BY <1>3, <2>1, <2>2
<1>5. ASSUME NEW i \in 1..n
      PROVE  /\ b[i] = g[i] /\ g[i].packet \in DOMAIN z
             /\ g[i].at \in 1..Size(z, g[i].packet) /\ g[i + 1] = Succ(z, g[i])
  <2>1. /\ m + i \in 1..(m + n) /\ s[m + i] = b[i]
        /\ g[i] = f[m + i] /\ g[i + 1] = f[m + i + 1]
    <3>1. /\ m + i \in 1..(m + n) /\ i \in 1..(n + 1) /\ i + 1 \in 1..(n + 1)
          /\ m + (i + 1) = m + i + 1
      BY <1>1
    <3>2. g[i] = f[m + i] /\ g[i + 1] = f[m + (i + 1)]
      BY <3>1
    <3> QED BY <1>1, <3>1, <3>2
  <2> QED BY <1>2, <2>1
<1>6. Trace(b, g, z)
  BY <1>3, <1>4, <1>5 DEF Trace, n
<1>7. g[1] = f[m + 1] /\ g[n + 1] = f[Len(s) + 1]
  <2>1. 1 \in 1..(n + 1) /\ n + 1 \in 1..(n + 1) /\ m + (n + 1) = Len(s) + 1
    BY <1>1
  <2>2. g[1] = f[m + 1] /\ g[n + 1] = f[m + (n + 1)]
    BY <2>1
  <2> QED BY <2>1, <2>2
<1> QED BY <1>6, <1>7 DEF m, n, Rest

(* A trace that begins with packet m holds its bytes in their places, and   *)
(* goes on with packet m + 1 after as many as it has.                       *)
LEMMA PacketInFront ==
    ASSUME NEW z \in Seq(Nat), NEW t \in Seq(Bytes), NEW f, Trace(t, f, z),
           NEW m \in Nat \ {0}, f[1] = Byte(m, 1)
    PROVE  /\ Len(t) > 0 => m \in DOMAIN z
           /\ m \in DOMAIN z =>
                 /\ \A i \in 1..Len(t) : i <= Size(z, m) => t[i] = Byte(m, i)
                 /\ Len(t) >= Size(z, m) => f[Size(z, m) + 1] = Byte(m + 1, 1)
                 /\ f[Len(t) + 1].packet > m => Len(t) >= Size(z, m)
<1>1. HeaderLen \in Nat \ {0} /\ Len(t) \in Nat /\ DOMAIN z = 1..Len(z) /\ Len(z) \in Nat
  BY StreamAssumption, LenProperties
<1>2. ASSUME Len(t) > 0 PROVE m \in DOMAIN z
  <2>1. 1 \in 1..Len(t)
    BY <1>1, <1>2
  <2> QED BY <2>1 DEF Trace, Byte
<1>3. ASSUME m \in DOMAIN z
      PROVE  /\ \A i \in 1..Len(t) : i <= Size(z, m) => t[i] = Byte(m, i)
             /\ Len(t) >= Size(z, m) => f[Size(z, m) + 1] = Byte(m + 1, 1)
             /\ f[Len(t) + 1].packet > m => Len(t) >= Size(z, m)
  <2> DEFINE l == Size(z, m)
  <2>1. l \in Nat \ {0}
    BY <1>1, <1>3, ElementOfSeq DEF Size
  <2>2. ASSUME NEW i \in 1..(Len(t) + 1)
        PROVE  /\ f[i] \in Places /\ Exists(z, f[i])
               /\ \/ f[i] = Byte(m, i)
                  \/ f[i] = Byte(m + 1, 1) /\ i >= l + 1
                  \/ f[i].packet > m /\ i > l + 1
    <3>1. f[i] \in Places /\ Exists(z, f[i]) /\ Ahead(z, Byte(m, 1), f[i], i - 1)
      <4>1. 1 \in 1..(Len(t) + 1) /\ 1 <= i
        BY <1>1
      <4> QED BY <4>1 DEF Trace
    <3> DEFINE q == f[i]
    <3>2. q \in Places /\ Ahead(z, Byte(m, 1), q, i - 1)
      BY <3>1
    <3> HIDE DEF q, l
    <3>3. Byte(m, 1).packet = m /\ Byte(m, 1).at = 1 /\ 1 + (i - 1) = i
      BY <1>1 DEF Byte
    <3>4. \/ q.packet = m /\ q.at = i
          \/ q = Byte(m + 1, 1) /\ i >= l + 1
          \/ q.packet > m /\ i > l + 1
      BY <3>2, <3>3 DEF Ahead, l
    <3>5. q.packet = m /\ q.at = i => q = Byte(m, i)
      BY <3>2 DEF Places, Byte
    <3> QED BY <3>1, <3>4, <3>5 DEF q
  <2>3. ASSUME NEW i \in 1..Len(t), i <= l PROVE t[i] = Byte(m, i)
    <3>1. i \in 1..(Len(t) + 1) /\ ~(i >= l + 1) /\ ~(i > l + 1)
      BY <1>1, <2>1, <2>3
    <3>2. f[i] = Byte(m, i)
      BY <2>2, <3>1
    <3> QED BY <3>2 DEF Trace
  <2>4. ASSUME Len(t) >= l PROVE f[l + 1] = Byte(m + 1, 1)
    <3>1. l + 1 \in 1..(Len(t) + 1) /\ ~(l + 1 > l + 1)
      BY <1>1, <2>1, <2>4
    <3>2. f[l + 1] # Byte(m, l + 1)
      <4>1. ASSUME f[l + 1] = Byte(m, l + 1) PROVE FALSE
        <5>1. Exists(z, Byte(m, l + 1))
          BY <2>2, <3>1, <4>1
        <5>2. l + 1 <= l
          BY <1>3, <5>1 DEF Exists, Byte
        <5> QED BY <2>1, <5>2
      <4> QED BY <4>1
    <3> QED BY <2>2, <3>1, <3>2
  <2>5. ASSUME f[Len(t) + 1].packet > m PROVE Len(t) >= l
    <3>1. Len(t) + 1 \in 1..(Len(t) + 1)
      BY <1>1
    <3>2. f[Len(t) + 1] # Byte(m, Len(t) + 1)
      BY <2>5 DEF Byte
    <3>3. Len(t) + 1 >= l + 1 \/ Len(t) + 1 > l + 1
      BY <2>2, <3>1, <3>2
    <3> QED BY <1>1, <2>1, <3>3
  <2> QED BY <2>3, <2>4, <2>5
<1> QED BY <1>2, <1>3

-----------------------------------------------------------------------------
(* The bytes s between sender and user, after n packets were received:      *)
(* those in their places, t, begin with packet n + 1.  Without foreign      *)
(* bytes that is all there is, and the sender's next byte is due; else they *)
(* reach beyond the packets up to c.                                        *)
Streaming(s, z, due, n, c, quiet) ==
    \E t \in Seq(Bytes), r \in Seq(Bytes) : \E f :
       /\ s = t \o r
       /\ Trace(t, f, z)
       /\ f[1] = Byte(n + 1, 1)
       /\ IF quiet THEN r = <<>> /\ f[Len(t) + 1] = due
                   ELSE f[Len(t) + 1].packet > c

LEMMA StreamGrows ==
    ASSUME NEW z \in Seq(Nat), NEW size \in Nat, NEW s, NEW due, NEW n, NEW c, NEW quiet,
           Streaming(s, z, due, n, c, quiet)
    PROVE  Streaming(s, Append(z, size), due, n, c, quiet)
  BY GrowTrace DEF Streaming

(* The sender writes the byte that is due; after a foreign one it makes no  *)
(* difference.                                                              *)
LEMMA StreamTakesByte ==
    ASSUME NEW z \in Seq(Nat), NEW s, NEW due \in Bytes, NEW n, NEW c,
           Streaming(s, z, due, n, c, TRUE),
           due.packet \in DOMAIN z, due.at \in 1..Size(z, due.packet), NEW d
    PROVE  Streaming(Append(s, due), z, Succ(z, due), n, d, TRUE)
<1>0. PICK t \in Seq(Bytes) : \E f :
         s = t /\ Trace(t, f, z) /\ f[1] = Byte(n + 1, 1) /\ f[Len(t) + 1] = due
  BY ConcatEmptySeq DEF Streaming
<1>1. PICK f :
         s = t /\ Trace(t, f, z) /\ f[1] = Byte(n + 1, 1) /\ f[Len(t) + 1] = due
  BY <1>0
<1>2. Append(t, due) \in Seq(Bytes) /\ Len(Append(t, due)) + 1 = Len(t) + 2
  BY AppendIs
<1>3. PICK g : Trace(Append(t, due), g, z) /\ g[1] = f[1] /\ g[Len(t) + 2] = Succ(z, due)
  BY <1>1, AppendByte
<1>4. Append(t, due) = Append(t, due) \o <<>> /\ <<>> \in Seq(Bytes)
  BY <1>2, ConcatEmptySeq, EmptySeq
<1> QED BY <1>1, <1>2, <1>3, <1>4 DEF Streaming

LEMMA StreamTakesAny ==
    ASSUME NEW z \in Seq(Nat), NEW s, NEW due, NEW n, NEW c,
           Streaming(s, z, due, n, c, FALSE), NEW b \in Bytes, NEW next
    PROVE  Streaming(Append(s, b), z, next, n, c, FALSE)
<1>0. PICK t \in Seq(Bytes), r \in Seq(Bytes) : \E f :
         /\ s = t \o r /\ Trace(t, f, z) /\ f[1] = Byte(n + 1, 1) /\ f[Len(t) + 1].packet > c
  BY DEF Streaming
<1>1. PICK f :
         /\ s = t \o r /\ Trace(t, f, z) /\ f[1] = Byte(n + 1, 1) /\ f[Len(t) + 1].packet > c
  BY <1>0
<1>2. Append(s, b) = t \o Append(r, b) /\ Append(r, b) \in Seq(Bytes)
  BY <1>1, AppendOfConcat, AppendIs
<1> QED BY <1>1, <1>2 DEF Streaming

(* The first foreign byte. *)
LEMMA StreamEnds ==
    ASSUME NEW z \in Seq(Nat), NEW s, NEW due, NEW n, NEW c,
           Streaming(s, z, due, n, c, TRUE), due.packet > c
    PROVE  Streaming(s, z, due, n, c, FALSE)
  BY DEF Streaming

(* What was read begins with packet n + 1, and when all of it was read      *)
(* packet n + 2 is next.                                                    *)
LEMMA ReadIsPacket ==
    ASSUME NEW z \in Seq(Nat), NEW a \in Seq(Bytes), NEW b \in Seq(Bytes), NEW due,
           NEW n \in Nat, NEW c \in Nat, NEW quiet \in BOOLEAN,
           NEW s, Joins(s, a, b), Streaming(s, z, due, n, c, quiet), quiet \/ n < c, Len(a) > 0
    PROVE  /\ n + 1 \in DOMAIN z /\ Size(z, n + 1) \in Nat
           /\ \A i \in 1..Len(a) : i <= Size(z, n + 1) => a[i] = Byte(n + 1, i)
           /\ Len(a) = Size(z, n + 1) => Streaming(b, z, due, n + 1, c, quiet)
<1> DEFINE m == n + 1
           l == Size(z, m)
<1>0. PICK t \in Seq(Bytes), r \in Seq(Bytes) : \E f :
         /\ a \o b = t \o r /\ Trace(t, f, z) /\ f[1] = Byte(m, 1)
         /\ IF quiet THEN r = <<>> /\ f[Len(t) + 1] = due ELSE f[Len(t) + 1].packet > c
  BY DEF Streaming, Joins
<1>1. PICK f :
         /\ a \o b = t \o r /\ Trace(t, f, z) /\ f[1] = Byte(m, 1)
         /\ IF quiet THEN r = <<>> /\ f[Len(t) + 1] = due ELSE f[Len(t) + 1].packet > c
  BY <1>0
<1>2. /\ Len(a) \in Nat /\ Len(b) \in Nat /\ Len(t) \in Nat /\ Len(r) \in Nat /\ m \in Nat \ {0}
      /\ HeaderLen \in Nat \ {0} /\ DOMAIN z = 1..Len(z) /\ Len(z) \in Nat
  BY LenProperties, StreamAssumption
<1>3. /\ Len(a) + Len(b) = Len(t) + Len(r)
      /\ \A i \in 1..Len(a) : (a \o b)[i] = a[i]
      /\ \A i \in 1..Len(t) : (t \o r)[i] = t[i]
  <2>1. /\ Len(a \o b) = Len(a) + Len(b) /\ Len(t \o r) = Len(t) + Len(r)
        /\ \A i \in 1..Len(a) + Len(b) : (a \o b)[i] = IF i <= Len(a) THEN a[i] ELSE b[i - Len(a)]
        /\ \A i \in 1..Len(t) + Len(r) : (t \o r)[i] = IF i <= Len(t) THEN t[i] ELSE r[i - Len(t)]
    BY ConcatProperties
  <2> QED BY <1>1, <1>2, <2>1, SMTT(30)
<1>4. /\ Len(t) > 0 => m \in DOMAIN z
      /\ m \in DOMAIN z =>
            /\ \A i \in 1..Len(t) : i <= l => t[i] = Byte(m, i)
            /\ Len(t) >= l => f[l + 1] = Byte(m + 1, 1)
            /\ f[Len(t) + 1].packet > m => Len(t) >= l
  BY <1>1, <1>2, PacketInFront
<1>5. m \in DOMAIN z /\ l \in Nat \ {0} /\ (Len(t) >= Len(a) \/ Len(t) >= l)
  <2>1. CASE quiet
    <3>1. Len(t) = Len(a) + Len(b)
      BY <1>1, <1>2, <1>3, <2>1, EmptySeq
    <3>2. m \in DOMAIN z
      BY <1>2, <1>4, <3>1
    <3> QED BY <1>2, <3>1, <3>2, ElementOfSeq, SMTT(30) DEF Size
  <2>2. CASE ~quiet
    <3>1. f[Len(t) + 1].packet > m
      <4>1. f[Len(t) + 1] \in Places
        <5>1. Len(t) + 1 \in 1..(Len(t) + 1) /\ f \in [1..(Len(t) + 1) -> Places]
          BY <1>1, <1>2 DEF Trace
        <5> QED BY <5>1
      <4>2. f[Len(t) + 1].packet \in Nat /\ f[Len(t) + 1].packet > c /\ n < c
        BY <1>1, <2>2, <4>1 DEF Places
      <4> QED BY <1>2, <4>2
    <3>2. Len(t) > 0
      <4>1. ASSUME Len(t) = 0 PROVE FALSE
        BY <1>1, <1>2, <3>1, <4>1 DEF Byte
      <4> QED BY <1>2, <4>1
    <3>3. l \in Nat \ {0}
      BY <1>2, <1>4, <3>2, ElementOfSeq, SMTT(30) DEF Size
    <3> QED BY <1>4, <3>1, <3>2, <3>3
  <2> QED BY <2>1, <2>2
<1>6. ASSUME NEW i \in 1..Len(a), i <= l PROVE a[i] = Byte(m, i)
  <2>1. i \in 1..Len(t)
    BY <1>2, <1>5, <1>6
  <2>2. a[i] = t[i]
    BY <1>1, <1>3, <2>1
  <2> QED BY <1>4, <1>5, <1>6, <2>1, <2>2
<1>7. ASSUME Len(a) = l PROVE Streaming(b, z, due, m, c, quiet)
  <2> DEFINE u == SubSeq(t, l + 1, Len(t))
  <2>1. Len(t) >= l
    BY <1>5, <1>7
  <2>2. u \in Seq(Bytes) /\ Len(u) = Len(t) - l /\ \A i \in 1..Len(u) : u[i] = t[l + i]
    <3>1. l \in Nat /\ l + 1 \in Nat /\ \A i \in (l + 1)..Len(t) : t[i] \in Bytes
      <4> HIDE DEF l
      <4> QED BY <1>2, <1>5, ElementOfSeq
    <3> HIDE DEF l
    <3>2. u \in Seq(Bytes) /\ Len(u) = IF l + 1 <= Len(t) THEN Len(t) - (l + 1) + 1 ELSE 0
      BY <1>2, <3>1, SubSeqProperties
    <3>3. \A i \in 1..(Len(t) - (l + 1) + 1) : u[i] = t[(l + 1) + i - 1]
      BY <1>2, <3>1, SubSeqProperties
    <3>4. Len(u) = Len(t) - l
      BY <1>2, <2>1, <3>1, <3>2
    <3>5. \A i \in 1..Len(u) : i \in 1..(Len(t) - (l + 1) + 1) /\ (l + 1) + i - 1 = l + i
      BY <1>2, <3>1, <3>4
    <3> QED BY <3>2, <3>3, <3>4, <3>5
  <2> HIDE DEF u, m, l
  <2>3. a \o u = t
    <3>1. /\ a \o u \in Seq(Bytes) /\ Len(a \o u) = Len(t)
          /\ \A i \in 1..Len(t) : (a \o u)[i] = IF i <= l THEN a[i] ELSE u[i - l]
      <4>1. /\ a \o u \in Seq(Bytes) /\ Len(a \o u) = Len(a) + Len(u)
            /\ \A i \in 1..Len(a) + Len(u) : (a \o u)[i] = IF i <= Len(a) THEN a[i] ELSE u[i - Len(a)]
        BY <2>2, ConcatProperties
      <4>2. Len(a) + Len(u) = Len(t)
        BY <1>2, <1>5, <1>7, <2>2
      <4> QED BY <1>7, <4>1, <4>2
    <3>2. ASSUME NEW i \in 1..Len(t) PROVE (a \o u)[i] = t[i]
      <4>1. CASE i <= l
        <5>1. i \in 1..Len(a)
          BY <1>7, <4>1
        <5>2. a[i] = (a \o b)[i] /\ t[i] = (t \o r)[i]
          BY <1>3, <5>1
        <5> QED BY <1>1, <3>1, <4>1, <5>2
      <4>2. CASE ~(i <= l)
        <5>1. i - l \in 1..Len(u) /\ l + (i - l) = i
          BY <1>2, <1>5, <2>2, <4>2
        <5> QED BY <2>2, <3>1, <4>2, <5>1
      <4> QED BY <4>1, <4>2
    <3> QED BY <3>1, <3>2, SeqEqual
  <2>4. b = u \o r
    <3>1. a \o b = a \o (u \o r) /\ u \o r \in Seq(Bytes)
      <4>1. (a \o u) \o r = a \o (u \o r)
        <5>1. a \in Seq(Bytes) /\ u \in Seq(Bytes) /\ r \in Seq(Bytes)
          BY <2>2
        <5> QED BY ONLY <5>1, ConcatAssociative, SMTT(60)
      <4>2. a \o b = t \o r
        BY <1>1
      <4> QED BY <2>2, <2>3, <4>1, <4>2, ConcatProperties
    <3> QED BY <3>1, ConcatSimplifications
  <2> DEFINE g == Rest(f, a, u)
  <2>5. Trace(u, g, z) /\ g[1] = f[Len(a) + 1] /\ g[Len(u) + 1] = f[Len(t) + 1]
    <3>1. u \in Seq(Bytes) /\ Joins(t, a, u) /\ Trace(t, f, z)
      BY <1>1, <2>2, <2>3 DEF Joins
    <3> QED BY <3>1, DropTrace
  <2>6. g[1] = Byte(m + 1, 1)
    BY <1>4, <1>5, <1>7, <2>1, <2>5
  <2>7. IF quiet THEN r = <<>> /\ g[Len(u) + 1] = due ELSE g[Len(u) + 1].packet > c
    BY <1>1, <2>5
  <2> QED BY <2>2, <2>4, <2>5, <2>6, <2>7 DEF Streaming
<1> QED BY <1>5, <1>6, <1>7

(* Without foreign bytes no more can have been received than was sent. *)
LEMMA QuietIsBounded ==
    ASSUME NEW z \in Seq(Nat), NEW s, NEW due, NEW n \in Nat, NEW c,
           Streaming(s, z, due, n, c, TRUE)
    PROVE  n + 1 <= due.packet
<1>0. PICK t \in Seq(Bytes) : \E f :
         Trace(t, f, z) /\ f[Len(t) + 1] = due /\ f[1] = Byte(n + 1, 1)
  BY DEF Streaming
<1>1. PICK f :
         Trace(t, f, z) /\ f[Len(t) + 1] = due /\ f[1] = Byte(n + 1, 1)
  BY <1>0
<1>2. 1 \in 1..(Len(t) + 1) /\ Len(t) + 1 \in 1..(Len(t) + 1) /\ 1 <= Len(t) + 1
  BY LenProperties
<1>3. Ahead(z, f[1], f[Len(t) + 1], (Len(t) + 1) - 1)
  BY <1>1, <1>2 DEF Trace
<1>4. f[Len(t) + 1] \in Places
  BY <1>1, <1>2 DEF Trace
<1> QED BY <1>1, <1>3, <1>4 DEF Ahead, Byte, Places

-----------------------------------------------------------------------------
(* The invariant. *)

(* The byte the sender has to write next. *)
Due == IF Current = 0 \/ out = Size(sizes, Current) THEN Byte(Current + 1, 1)
       ELSE Byte(Current, out + 1)

TypeInv ==
    /\ buf \in Seq(Bytes) /\ got \in Seq(Bytes)
    /\ sizes \in Seq(Nat) /\ received \in Seq(Nat)
    /\ out \in Nat /\ noise \in Nat /\ sent \in Nat /\ clean \in Nat /\ body \in Nat
    /\ spc \in {"outside", "test", "write", "closed"}
    /\ rpc \in {"outside", "test", "read", "check", "closed"}

(* Only within send_packet() is a packet unfinished; the rest of it is due. *)
SendInv ==
    /\ Current = 0 => out = 0
    /\ Current > 0 => out <= Size(sizes, Current)
    /\ spc = "outside" => Current = 0 \/ out = Size(sizes, Current)
    /\ spc \in {"test", "write"} => Current > 0 /\ out < Size(sizes, Current)
    /\ sent + 1 = Due.packet

(* No foreign byte came yet; the packet being received was sent before one. *)
Quiet  == noise = 0
InStep == Quiet \/ Len(received) < clean
Next1  == Len(received) + 1

(* Between two calls nothing is kept, and within one no more is read than   *)
(* the header and the payload it names; in step these are the next packet's.*)
ReadInv ==
    /\ rpc = "outside" => got = <<>>
    /\ rpc \in {"test", "read"} => Len(got) < HeaderLen \/ Len(got) < HeaderLen + body
    /\ rpc = "check" => Len(got) = HeaderLen \/ Len(got) = HeaderLen + body
    /\ /\ InStep
       /\ \/ rpc \in {"test", "read"} /\ Len(got) >= HeaderLen
          \/ rpc = "check" /\ Len(got) > HeaderLen
       => body = sizes[Next1]

StreamInv ==
    /\ Quiet => clean = sent
    /\ InStep => Streaming(got \o buf, sizes, Due, Len(received), clean, Quiet)

OrderInv == \A i \in DOMAIN received : Quiet \/ i <= clean => received[i] = i

PacketInv == TypeInv /\ SendInv /\ ReadInv /\ StreamInv /\ OrderInv

(* Lemmas on a state that satisfies it *)

LEMMA SizesAreNat ==
    ASSUME TypeInv
    PROVE  /\ HeaderLen \in Nat \ {0} /\ Current \in Nat /\ DOMAIN sizes = 1..Current
           /\ \A n \in DOMAIN sizes : sizes[n] \in Nat /\ Size(sizes, n) \in Nat \ {0}
           /\ Len(got) \in Nat /\ Len(buf) \in Nat /\ Len(received) \in Nat
  BY StreamAssumption, LenProperties, ElementOfSeq DEF TypeInv, Current, Size

LEMMA ReaderWants ==
    ASSUME TypeInv, ReadInv, rpc = "read"
    PROVE  Wanted \in Nat \ {0}
  BY SizesAreNat DEF ReadInv, Wanted, TypeInv

(* In step, what was read are the bytes of the next packet. *)
LEMMA NextIsRead ==
    ASSUME PacketInv, InStep, Len(got) > 0
    PROVE  /\ Next1 \in DOMAIN sizes /\ Size(sizes, Next1) \in Nat
           /\ \A i \in 1..Len(got) : i <= Size(sizes, Next1) => got[i] = Byte(Next1, i)
           /\ got[1] = Byte(Next1, 1) /\ got[1].packet = Next1
           /\ Len(got) = Size(sizes, Next1) =>
                 Streaming(buf, sizes, Due, Next1, clean, Quiet)
<1> DEFINE s == got \o buf
<1>1. /\ sizes \in Seq(Nat) /\ got \in Seq(Bytes) /\ buf \in Seq(Bytes) /\ clean \in Nat
      /\ Len(received) \in Nat /\ Quiet \in BOOLEAN
      /\ Joins(s, got, buf)
      /\ Streaming(s, sizes, Due, Len(received), clean, Quiet)
      /\ Quiet \/ Len(received) < clean
  BY SizesAreNat DEF PacketInv, TypeInv, StreamInv, InStep, Quiet, Joins
<1>2. /\ Next1 \in DOMAIN sizes /\ Size(sizes, Next1) \in Nat
      /\ \A i \in 1..Len(got) : i <= Size(sizes, Next1) => got[i] = Byte(Next1, i)
      /\ Len(got) = Size(sizes, Next1) =>
            Streaming(buf, sizes, Due, Next1, clean, Quiet)
  <2> HIDE DEF s
  <2> DEFINE n == Len(received)
  <2> HIDE DEF n
  <2>1. /\ sizes \in Seq(Nat) /\ got \in Seq(Bytes) /\ buf \in Seq(Bytes) /\ clean \in Nat
        /\ n \in Nat /\ Quiet \in BOOLEAN /\ Len(got) > 0
        /\ Joins(s, got, buf) /\ Streaming(s, sizes, Due, n, clean, Quiet) /\ (Quiet \/ n < clean)
    BY <1>1 DEF n
  <2>2. /\ n + 1 \in DOMAIN sizes /\ Size(sizes, n + 1) \in Nat
        /\ \A i \in 1..Len(got) : i <= Size(sizes, n + 1) => got[i] = Byte(n + 1, i)
        /\ Len(got) = Size(sizes, n + 1) =>
              Streaming(buf, sizes, Due, n + 1, clean, Quiet)
    BY ONLY <2>1, ReadIsPacket, ZenonT(30)
  <2> QED BY <2>2 DEF n, Next1
<1>3. 1 \in 1..Len(got) /\ 1 <= Size(sizes, Next1)
  BY <1>2, SizesAreNat DEF PacketInv
<1>4. got[1] = Byte(Next1, 1)
  BY <1>2, <1>3
<1> QED BY <1>2, <1>4 DEF Byte

(* In step, a header passes with the size of its packet. *)
LEMMA HeaderInStep ==
    ASSUME PacketInv, InStep, Len(got) = HeaderLen
    PROVE  IsHeader(got) /\ PassesWith(got) = {sizes[Next1]}
<1>1. HeaderLen \in Nat \ {0} /\ Len(got) > 0
  BY SizesAreNat DEF PacketInv
<1>2. /\ Next1 \in DOMAIN sizes /\ got[1].packet = Next1 /\ Next1 # 0
      /\ \A i \in 1..Len(got) : i <= Size(sizes, Next1) => got[i] = Byte(Next1, i)
  BY <1>1, NextIsRead, SizesAreNat DEF PacketInv, Next1
<1>3. \A i \in 1..HeaderLen : i <= Size(sizes, Next1)
  BY <1>1, <1>2, SizesAreNat DEF PacketInv, Size
<1>4. IsHeader(got)
  BY <1>2, <1>3 DEF IsHeader
<1> QED BY <1>2, <1>4 DEF PassesWith

-----------------------------------------------------------------------------
(* The steps that leave the bytes where they are *)

BytesKept == UNCHANGED <<buf, got, sizes, out, noise, sent, received, clean>>

(* What the two sides may do meanwhile. *)
SenderMoves ==
    \/ spc' = spc
    \/ spc' = "closed"
    \/ spc = "test" /\ spc' = "write"

ReceiverMoves ==
    \/ /\ body' = body
       /\ \/ rpc' = rpc
          \/ rpc' = "closed"
          \/ rpc = "test" /\ rpc' = "read"
    \/ rpc = "outside" /\ rpc' \in {"test", "read"} /\ body' = 0
    \/ /\ rpc = "check" /\ rpc' \in {"test", "read"} /\ Len(got) = HeaderLen
       /\ body' \in Nat \ {0} /\ (InStep => body' = sizes[Next1])

LEMMA BytesKeptKeeps ==
    ASSUME PacketInv, BytesKept, SenderMoves, ReceiverMoves
    PROVE  PacketInv'
<1> USE DEF PacketInv
<1>1. TypeInv'
  BY DEF TypeInv, BytesKept, SenderMoves, ReceiverMoves
<1>2. Current' = Current /\ Due' = Due /\ Quiet' = Quiet /\ InStep' = InStep /\ Next1' = Next1
  BY DEF BytesKept, Current, Due, Quiet, InStep, Next1
<1>3. SendInv'
  BY <1>2 DEF SendInv, BytesKept, SenderMoves
<1>4. ReadInv'
  <2>1. HeaderLen \in Nat \ {0} /\ Len(<<>>) = 0 /\ body \in Nat /\ Len(got) \in Nat
    BY SizesAreNat DEF TypeInv
  <2>2. got' = got /\ sizes' = sizes
    BY DEF BytesKept
  <2>3. CASE body' = body /\ (rpc' = rpc \/ rpc' = "closed" \/ (rpc = "test" /\ rpc' = "read"))
    BY <1>2, <2>2, <2>3 DEF ReadInv
  <2>4. CASE rpc = "outside" /\ rpc' \in {"test", "read"} /\ body' = 0
    BY <1>2, <2>1, <2>2, <2>4 DEF ReadInv
  <2>5. CASE /\ rpc = "check" /\ rpc' \in {"test", "read"} /\ Len(got) = HeaderLen
             /\ body' \in Nat \ {0} /\ (InStep => body' = sizes[Next1])
    <3>1. Len(got') < HeaderLen + body'
      <4>1. Len(got') = HeaderLen /\ body' \in Nat \ {0}
        BY <2>2, <2>5
      <4>2. \A h \in Nat, b \in Nat \ {0} : h < h + b
        BY ONLY SMT
      <4>3. HeaderLen < HeaderLen + body'
        BY <2>1, <4>1, <4>2
      <4> QED BY <4>1, <4>3
    <3> QED BY <1>2, <2>2, <2>5, <3>1 DEF ReadInv
  <2> QED BY <2>3, <2>4, <2>5 DEF ReceiverMoves
<1>5. StreamInv' /\ OrderInv'
  BY <1>2 DEF StreamInv, OrderInv, BytesKept
<1> QED BY <1>1, <1>3, <1>4, <1>5

LEMMA SenderWaits ==
    ASSUME PacketInv, WriteTest \/ WriteBroken \/ SendDeadline \/ SenderDies
    PROVE  PacketInv'
<1>1. BytesKept /\ SenderMoves /\ rpc' = rpc /\ body' = body
  BY DEF WriteTest, WriteBroken, SendDeadline, SenderDies, SendFails, BytesKept, SenderMoves,
         receiver, history
<1> QED BY <1>1, BytesKeptKeeps DEF ReceiverMoves

(* The other outcomes of the two checks, besides a delivery. *)
HeaderAccepted == CheckHeader /\ rpc' = StartRead /\ body' \in PassesWith(got) \ {0}
                  /\ UNCHANGED <<got, rLate, history>>
HeaderRefused  == CheckHeader /\ ReceiveFails /\ UNCHANGED history
PayloadRefused == CheckPayload /\ ReceiveFails /\ UNCHANGED history

LEMMA PassesAreNat ==
    ASSUME TypeInv
    PROVE  PassesWith(got) \subseteq Nat
<1>1. MaxPayload \in Nat
  BY StreamAssumption
<1> QED BY <1>1, SizesAreNat DEF PassesWith, IsHeader

LEMMA ReceiverWaits ==
    ASSUME PacketInv,
           \/ ReceiveBegin \/ ReadTest \/ ReadEof \/ RecvDeadline \/ ReceiverDies
           \/ HeaderAccepted \/ HeaderRefused \/ PayloadRefused
    PROVE  PacketInv'
<1>1. BytesKept /\ spc' = spc
  <2>1. CASE ReceiveBegin
    BY <2>1 DEF ReceiveBegin, BytesKept, PacketInv, ReadInv, sender, history
  <2>2. CASE ReadTest \/ ReadEof \/ RecvDeadline \/ ReceiverDies \/ PayloadRefused
    BY <2>2 DEF ReadTest, ReadEof, RecvDeadline, ReceiverDies, PayloadRefused, CheckPayload, ReceiveFails, BytesKept,
                sender, history
  <2>3. CASE HeaderAccepted \/ HeaderRefused
    BY <2>3 DEF HeaderAccepted, HeaderRefused, CheckHeader, ReceiveFails, BytesKept, sender, history
  <2> QED BY <2>1, <2>2, <2>3
<1>2. ReceiverMoves
  <2>1. CASE ReceiveBegin
    BY <2>1 DEF ReceiveBegin, StartRead, ReceiverMoves
  <2>2. CASE ReadTest \/ ReadEof \/ RecvDeadline \/ ReceiverDies \/ PayloadRefused \/ HeaderRefused
    BY <2>2 DEF ReadTest, ReadEof, RecvDeadline, ReceiverDies, PayloadRefused, HeaderRefused, ReceiveFails,
                ReceiverMoves
  <2>3. CASE HeaderAccepted
    <3>1. /\ rpc = "check" /\ rpc' \in {"test", "read"} /\ Len(got) = HeaderLen
          /\ body' \in PassesWith(got) \ {0}
      BY <2>3 DEF HeaderAccepted, CheckHeader, StartRead
    <3>2. InStep => body' = sizes[Next1]
      BY <3>1, HeaderInStep
    <3>3. body' \in Nat \ {0}
      BY <3>1, PassesAreNat DEF PacketInv
    <3> QED BY <3>1, <3>2, <3>3 DEF ReceiverMoves
  <2> QED BY <2>1, <2>2, <2>3
<1> QED BY <1>1, <1>2, BytesKeptKeeps DEF SenderMoves

-----------------------------------------------------------------------------
(* The sender's steps *)

LEMMA SendBeginKeeps ==
    ASSUME PacketInv, NEW k \in 0..MaxPayload, SendBegin(k)
    PROVE  PacketInv'
<1> USE DEF PacketInv
<1>1. k \in Nat
  BY StreamAssumption
<1>2. /\ spc = "outside" /\ sizes' = Append(sizes, k) /\ out' = 0 /\ spc' \in {"test", "write"}
      /\ UNCHANGED <<buf, rpc, got, body, noise, sent, received, clean>>
  BY DEF SendBegin, StartWrite, receiver, history
<1>3. /\ sizes' \in Seq(Nat) /\ Current' = Current + 1 /\ DOMAIN sizes' = 1..(Current + 1)
      /\ sizes'[Current + 1] = k
      /\ \A n \in 1..Current : sizes'[n] = sizes[n] /\ Size(sizes', n) = Size(sizes, n)
  <2>1. /\ sizes' \in Seq(Nat) /\ Len(sizes') = Len(sizes) + 1
        /\ sizes'[Len(sizes) + 1] = k
        /\ \A n \in 1..Len(sizes) : sizes'[n] = sizes[n]
    BY <1>1, <1>2, AppendIs DEF TypeInv
  <2>2. DOMAIN sizes' = 1..Len(sizes')
    BY <2>1, LenProperties
  <2> QED BY <2>1, <2>2 DEF Current, Size
<1>4. TypeInv'
  BY <1>2, <1>3 DEF TypeInv
<1>5. Due = Byte(Current + 1, 1) /\ Due' = Due
  <2>1. Current \in Nat /\ HeaderLen \in Nat \ {0}
    BY SizesAreNat
  <2>2. Due = Byte(Current + 1, 1)
    BY <1>2 DEF SendInv, Due
  <2>3. Size(sizes', Current') = HeaderLen + k /\ Current' # 0 /\ out' # Size(sizes', Current')
    BY <1>1, <1>2, <1>3, <2>1 DEF Size
  <2>4. Due' = Byte(Current + 1, 1)
    BY <1>2, <1>3, <2>1, <2>3 DEF Due
  <2> QED BY <2>2, <2>4
<1>6. SendInv'
  <2>1. Current \in Nat /\ HeaderLen \in Nat \ {0}
    BY SizesAreNat
  <2>2. Size(sizes', Current') \in Nat \ {0} /\ Current' \in Nat \ {0}
    BY <1>1, <1>3, <2>1 DEF Size
  <2>3. sent' + 1 = Due'.packet
    BY <1>2, <1>5 DEF SendInv
  <2> QED BY <1>2, <2>2, <2>3 DEF SendInv
<1>7. Quiet' = Quiet /\ InStep' = InStep /\ Next1' = Next1
  BY <1>2 DEF Quiet, InStep, Next1
<1>8. ReadInv'
  <2>1. InStep /\ Len(got) > 0 => sizes'[Next1] = sizes[Next1]
    BY <1>3, NextIsRead, SizesAreNat
  <2>2. HeaderLen \in Nat \ {0} /\ Len(got) \in Nat
    BY SizesAreNat
  <2>3. /\ rpc = "outside" => got = <<>>
        /\ rpc \in {"test", "read"} => Len(got) < HeaderLen \/ Len(got) < HeaderLen + body
        /\ rpc = "check" => Len(got) = HeaderLen \/ Len(got) = HeaderLen + body
    BY DEF ReadInv
  <2>4. InStep /\ (\/ rpc \in {"test", "read"} /\ Len(got) >= HeaderLen
                   \/ rpc = "check" /\ Len(got) > HeaderLen)
        => body = sizes'[Next1]
    <3>1. InStep /\ (\/ rpc \in {"test", "read"} /\ Len(got) >= HeaderLen
                     \/ rpc = "check" /\ Len(got) > HeaderLen)
          => body = sizes[Next1]
      BY DEF ReadInv
    <3>2. Len(got) >= HeaderLen \/ Len(got) > HeaderLen => Len(got) > 0
      BY ONLY <2>2
    <3> QED BY <2>1, <3>1, <3>2
  <2>5. rpc' = rpc /\ got' = got /\ body' = body
    BY <1>2
  <2>6. /\ InStep'
        /\ \/ rpc' \in {"test", "read"} /\ Len(got') >= HeaderLen
           \/ rpc' = "check" /\ Len(got') > HeaderLen
        => body' = sizes'[Next1']
    <3>1. InStep' => InStep
      BY <1>7
    <3>2. Next1' = Next1
      BY <1>7
    <3> QED BY ONLY <2>4, <2>5, <3>1, <3>2
  <2>7. /\ rpc' = "outside" => got' = <<>>
        /\ rpc' \in {"test", "read"} => Len(got') < HeaderLen \/ Len(got') < HeaderLen + body'
        /\ rpc' = "check" => Len(got') = HeaderLen \/ Len(got') = HeaderLen + body'
    BY <2>3, <2>5
  <2> QED BY ONLY <2>6, <2>7 DEF ReadInv
<1>9. StreamInv' /\ OrderInv'
  <2>1. sizes \in Seq(Nat)
    BY DEF TypeInv
  <2>2. InStep => Streaming(got \o buf, Append(sizes, k), Due, Len(received), clean, Quiet)
    BY <1>1, <2>1, StreamGrows DEF StreamInv
  <2> QED BY <1>2, <1>5, <1>7, <2>2 DEF StreamInv, OrderInv
<1> QED BY <1>4, <1>6, <1>8, <1>9

(* No more was received than was sent, until a foreign byte came. *)
LEMMA NotAhead ==
    ASSUME PacketInv, Quiet
    PROVE  Len(received) <= sent /\ Len(received) \in Nat
<1>1. Len(received) \in Nat /\ sizes \in Seq(Nat) /\ sent \in Nat /\ sent + 1 = Due.packet
  BY SizesAreNat DEF PacketInv, TypeInv, SendInv
<1>2. Streaming(got \o buf, sizes, Due, Len(received), clean, TRUE)
  <2>1. Quiet = TRUE /\ InStep
    BY DEF Quiet, InStep
  <2> QED BY <2>1 DEF PacketInv, StreamInv
<1>3. Len(received) + 1 <= Due.packet
  BY <1>1, <1>2, QuietIsBounded
<1> QED BY <1>1, <1>3

LEMMA WriteByteKeeps ==
    ASSUME PacketInv, WriteByte
    PROVE  PacketInv'
<1> USE DEF PacketInv
<1>1. /\ spc = "write" /\ buf' = Append(buf, Byte(Current, out + 1)) /\ out' = out + 1
      /\ IF out + 1 = Size(sizes, Current)
         THEN spc' = "outside" /\ sent' = sent + 1 /\ clean' = IF noise = 0 THEN sent + 1 ELSE clean
         ELSE spc' \in {"test", "write"} /\ sent' = sent /\ clean' = clean
      /\ UNCHANGED <<sizes, rpc, got, body, noise, received>>
  BY DEF WriteByte, Size, StartWrite, receiver
<1>2. /\ Current \in Nat \ {0} /\ Current \in DOMAIN sizes /\ Current' = Current
      /\ Size(sizes, Current) \in Nat \ {0} /\ out \in Nat /\ out < Size(sizes, Current)
  BY <1>1, SizesAreNat DEF SendInv, TypeInv, Current
<1>3. /\ Due = Byte(Current, out + 1) /\ Due' = Succ(sizes, Due)
      /\ Due' = IF out + 1 = Size(sizes, Current) THEN Byte(Current + 1, 1) ELSE Byte(Current, out + 2)
  <2>1. Due = Byte(Current, out + 1)
    BY <1>2 DEF Due
  <2>2. Due' = IF out + 1 = Size(sizes, Current) THEN Byte(Current + 1, 1) ELSE Byte(Current, out + 2)
    <3>1. out' = out + 1 /\ sizes' = sizes /\ (out + 1) + 1 = out + 2
      BY <1>1, <1>2
    <3> QED BY <1>2, <3>1 DEF Due
  <2>3. Succ(sizes, Due) = IF out + 1 = Size(sizes, Current) THEN Byte(Current + 1, 1)
                           ELSE Byte(Current, out + 2)
    BY <1>2, <2>1 DEF Succ, Byte
  <2> QED BY <2>1, <2>2, <2>3
<1>4. Due \in Bytes
  BY <1>2, <1>3 DEF Bytes, Byte
<1>5. TypeInv'
  <2>1. buf' \in Seq(Bytes)
    BY <1>1, <1>3, <1>4, AppendIs DEF TypeInv
  <2>2. sent' \in Nat /\ clean' \in Nat
    BY <1>1 DEF TypeInv
  <2> QED BY <1>1, <2>1, <2>2 DEF TypeInv
<1>6. SendInv'
  <2>1. sent' + 1 = Due'.packet
    BY <1>1, <1>2, <1>3, SMTT(30) DEF SendInv, TypeInv, Byte
  <2>2. Size(sizes', Current') = Size(sizes, Current)
    BY <1>1, <1>2
  <2> QED BY <1>1, <1>2, <2>1, <2>2 DEF SendInv
<1>7. /\ Quiet' = Quiet /\ InStep' = InStep /\ Next1' = Next1
      /\ Quiet => clean' = sent'
      /\ ~Quiet => clean' = clean
  BY <1>1 DEF Quiet, InStep, Next1, StreamInv
<1>8. ReadInv'
  BY <1>1, <1>7 DEF ReadInv
<1>9. StreamInv'
  <2>1. Append(got \o buf, Due) = got' \o buf'
    <3>1. got \in Seq(Bytes) /\ buf \in Seq(Bytes)
      BY DEF TypeInv
    <3>2. Append(got \o buf, Due) = got \o Append(buf, Due)
      BY ONLY <1>4, <3>1, AppendOfConcat, ZenonT(30)
    <3> QED BY <1>1, <1>3, <3>2
  <2> DEFINE s == got \o buf
  <2>2. sizes \in Seq(Nat) /\ (InStep => Streaming(s, sizes, Due, Len(received), clean, Quiet))
    BY DEF TypeInv, StreamInv
  <2>3. Due.packet \in DOMAIN sizes /\ Due.at \in 1..Size(sizes, Due.packet)
    BY <1>2, <1>3 DEF Byte
  <2> HIDE DEF s
  <2>4. CASE Quiet
    <3>1. Streaming(s, sizes, Due, Len(received), clean, TRUE) /\ Quiet = TRUE
      BY <2>2, <2>4 DEF InStep, Quiet
    <3>2. Streaming(Append(s, Due), sizes, Succ(sizes, Due), Len(received), clean', TRUE)
      BY <1>4, <2>2, <2>3, <3>1, StreamTakesByte
    <3> QED BY <1>1, <1>3, <1>7, <2>1, <3>1, <3>2 DEF StreamInv, s
  <2>5. CASE ~Quiet
    <3>1. InStep => Streaming(s, sizes, Due, Len(received), clean, FALSE)
      BY <2>2, <2>5 DEF Quiet
    <3>2. InStep => Streaming(Append(s, Due), sizes, Due', Len(received), clean, FALSE)
      BY <1>4, <2>2, <3>1, StreamTakesAny
    <3>3. Quiet' = FALSE
      BY <1>7, <2>5 DEF Quiet
    <3> QED BY <1>1, <1>7, <2>1, <2>5, <3>2, <3>3 DEF StreamInv, s
  <2> QED BY <2>4, <2>5
<1>10. OrderInv'
  BY <1>1, <1>7 DEF OrderInv
<1> QED BY <1>5, <1>6, <1>8, <1>9, <1>10

LEMMA NoiseByteKeeps ==
    ASSUME PacketInv, NoiseByte
    PROVE  PacketInv'
<1> USE DEF PacketInv
<1>1. /\ buf' = Append(buf, Noise) /\ noise' = noise + 1
      /\ UNCHANGED <<spc, sizes, out, rpc, got, body, sent, received, clean>>
  BY DEF NoiseByte, sender, receiver
<1>2. Noise \in Bytes
  BY DEF Noise, Bytes, Byte
<1>3. TypeInv'
  <2>1. buf' \in Seq(Bytes)
    BY <1>1, <1>2, AppendIs DEF TypeInv
  <2> QED BY <1>1, <2>1 DEF TypeInv
<1>4. Current' = Current /\ Due' = Due /\ Next1' = Next1 /\ Quiet' = FALSE
  <2>1. noise \in Nat /\ noise + 1 # 0
    BY DEF TypeInv
  <2> QED BY <1>1, <2>1 DEF Current, Due, Next1, Quiet
<1>5. InStep' => InStep
  BY <1>1, <1>4 DEF InStep
<1>6. SendInv' /\ ReadInv'
  BY <1>1, <1>4, <1>5 DEF SendInv, ReadInv
<1>7. StreamInv'
  <2>1. Append(got \o buf, Noise) = got' \o buf'
    <3>1. got \in Seq(Bytes) /\ buf \in Seq(Bytes)
      BY DEF TypeInv
    <3>2. Append(got \o buf, Noise) = got \o Append(buf, Noise)
      BY ONLY <1>2, <3>1, AppendOfConcat, ZenonT(30)
    <3> QED BY <1>1, <3>2
  <2> DEFINE s == got \o buf
  <2>2. sizes \in Seq(Nat) /\ (InStep => Streaming(s, sizes, Due, Len(received), clean, Quiet))
    BY DEF TypeInv, StreamInv
  <2> HIDE DEF s
  <2>3. InStep => Streaming(s, sizes, Due, Len(received), clean, FALSE)
    <3>1. CASE Quiet
      <4>1. Due.packet > clean /\ Quiet = TRUE
        BY <3>1 DEF StreamInv, SendInv, TypeInv, Quiet
      <4> QED BY <2>2, <4>1, StreamEnds
    <3>2. CASE ~Quiet
      <4>1. Quiet = FALSE
        BY <3>2 DEF Quiet
      <4> QED BY <2>2, <4>1
    <3> QED BY <3>1, <3>2
  <2>4. InStep => Streaming(Append(s, Noise), sizes, Due, Len(received), clean, FALSE)
    BY <1>2, <2>2, <2>3, StreamTakesAny
  <2> QED BY <1>1, <1>4, <1>5, <2>1, <2>4 DEF StreamInv, s
<1>8. OrderInv'
  BY <1>1, <1>4 DEF OrderInv
<1> QED BY <1>3, <1>6, <1>7, <1>8

-----------------------------------------------------------------------------
(* The receiver's steps *)

LEMMA MinOfTwo ==
    ASSUME NEW a \in Nat, NEW b \in Nat
    PROVE  Min({a, b}) = IF a <= b THEN a ELSE b
<1> DEFINE m == IF a <= b THEN a ELSE b
<1>1. m \in {a, b} /\ \A y \in {a, b} : m <= y
  OBVIOUS
<1>2. \A x \in {a, b} : (\A y \in {a, b} : x <= y) => x = m
  OBVIOUS
<1> QED BY <1>1, <1>2 DEF Min

(* What one read() moves stays in its place between sender and user. *)
LEMMA MovedIsKept ==
    ASSUME NEW a \in Seq(Bytes), NEW b \in Seq(Bytes), NEW k \in 1..Len(b)
    PROVE  /\ SubSeq(b, 1, k) \in Seq(Bytes) /\ Len(SubSeq(b, 1, k)) = k
           /\ SubSeq(b, k + 1, Len(b)) \in Seq(Bytes)
           /\ a \o SubSeq(b, 1, k) \in Seq(Bytes) /\ Len(a \o SubSeq(b, 1, k)) = Len(a) + k
           /\ \A i \in 1..Len(a) : (a \o SubSeq(b, 1, k))[i] = a[i]
           /\ (a \o SubSeq(b, 1, k)) \o SubSeq(b, k + 1, Len(b)) = a \o b
<1> DEFINE c == SubSeq(b, 1, k)
           d == SubSeq(b, k + 1, Len(b))
<1>1. Len(b) \in Nat /\ Len(a) \in Nat /\ k \in Nat /\ k + 1 \in Int
  BY LenProperties
<1>2. c \in Seq(Bytes) /\ Len(c) = k
  <2>1. \A i \in 1..k : b[i] \in Bytes
    BY <1>1, ElementOfSeq
  <2>2. k - 1 + 1 = k
    BY <1>1
  <2> QED BY <1>1, <2>1, <2>2, SubSeqProperties
<1>3. d \in Seq(Bytes)
  <2>1. \A i \in (k + 1)..Len(b) : b[i] \in Bytes
    BY <1>1, ElementOfSeq
  <2> QED BY <1>1, <2>1, SubSeqProperties
<1>4. c \o d = b
  <2>1. /\ 1 \in 1..(Len(b) + 1) /\ k \in (1 - 1)..Len(b) /\ Len(b) \in k..Len(b)
    BY <1>1
  <2>2. c \o d = SubSeq(b, 1, Len(b))
    BY <2>1, ConcatAdjacentSubSeq
  <2> QED BY <2>2, SubSeqFull
<1> HIDE DEF c, d
<1>5. /\ a \o c \in Seq(Bytes) /\ Len(a \o c) = Len(a) + k
      /\ \A i \in 1..Len(a) : (a \o c)[i] = a[i]
  <2>1. /\ a \o c \in Seq(Bytes) /\ Len(a \o c) = Len(a) + Len(c)
        /\ \A i \in 1..Len(a) + Len(c) : (a \o c)[i] = IF i <= Len(a) THEN a[i] ELSE c[i - Len(a)]
    BY <1>2, ConcatProperties
  <2>2. \A i \in 1..Len(a) : i \in 1..Len(a) + Len(c) /\ i <= Len(a)
    BY <1>1, <1>2
  <2> QED BY <1>2, <2>1, <2>2
<1>6. (a \o c) \o d = a \o (c \o d)
  <2>1. a \in Seq(Bytes) /\ c \in Seq(Bytes) /\ d \in Seq(Bytes)
    BY <1>2, <1>3
  <2> QED BY ONLY <2>1, ConcatAssociative, SMTT(30)
<1> QED BY <1>2, <1>3, <1>4, <1>5, <1>6 DEF c, d

LEMMA ReadBytesKeeps ==
    ASSUME PacketInv, ReadBytes
    PROVE  PacketInv'
<1> USE DEF PacketInv
<1>1. rpc = "read" /\ buf # <<>> /\ UNCHANGED <<spc, sizes, out, body, noise, sent, received, clean>>
  BY DEF ReadBytes, sender, history
<1>2. /\ Wanted \in Nat \ {0} /\ Len(buf) \in Nat /\ Len(got) \in Nat /\ body \in Nat
      /\ HeaderLen \in Nat \ {0}
  BY <1>1, ReaderWants, SizesAreNat DEF TypeInv
<1>3. PICK k \in 1..Min({Len(buf), Wanted}) :
        /\ got' = got \o SubSeq(buf, 1, k)
        /\ buf' = SubSeq(buf, k + 1, Len(buf))
        /\ rpc' = IF k = Wanted THEN "check" ELSE StartRead
  BY DEF ReadBytes
<1>4. k \in Nat \ {0} /\ k \in 1..Len(buf) /\ k <= Wanted
  <2>1. Min({Len(buf), Wanted}) \in Nat /\ Min({Len(buf), Wanted}) <= Len(buf)
        /\ Min({Len(buf), Wanted}) <= Wanted
    BY <1>2, MinOfTwo
  <2> QED BY <1>2, <2>1
<1>5. /\ got' \in Seq(Bytes) /\ buf' \in Seq(Bytes) /\ Len(got') = Len(got) + k
      /\ got' \o buf' = got \o buf
  <2>1. got \in Seq(Bytes) /\ buf \in Seq(Bytes)
    BY DEF TypeInv
  <2>2. /\ SubSeq(buf, k + 1, Len(buf)) \in Seq(Bytes)
        /\ got \o SubSeq(buf, 1, k) \in Seq(Bytes) /\ Len(got \o SubSeq(buf, 1, k)) = Len(got) + k
        /\ (got \o SubSeq(buf, 1, k)) \o SubSeq(buf, k + 1, Len(buf)) = got \o buf
    <3>1. k \in 1..Len(buf)
      BY <1>4
    <3> QED BY ONLY <2>1, <3>1, MovedIsKept, ZenonT(30)
  <2> QED BY <1>3, <2>2
<1>6. rpc' \in {"test", "read", "check"} /\ (rpc' = "check" <=> k = Wanted)
  BY <1>3 DEF StartRead
<1>7. TypeInv'
  BY <1>1, <1>5, <1>6 DEF TypeInv
<1>8. Current' = Current /\ Due' = Due /\ Quiet' = Quiet /\ InStep' = InStep /\ Next1' = Next1
  BY <1>1 DEF Current, Due, Quiet, InStep, Next1
<1>9. SendInv'
  BY <1>1, <1>8 DEF SendInv
<1>10. ReadInv'
  <2> DEFINE x == Len(got)
             y == Len(got')
  <2>1. x \in Nat /\ y = x + k
    BY <1>2, <1>5
  <2>2. Wanted = (IF x < HeaderLen THEN HeaderLen ELSE HeaderLen + body) - x
    BY DEF Wanted
  <2> HIDE DEF x, y
  <2>3. CASE x < HeaderLen
    <3>1. y <= HeaderLen /\ (k = Wanted <=> y = HeaderLen)
      BY <1>2, <1>4, <2>1, <2>2, <2>3
    <3> QED BY <1>2, <1>6, <2>1, <3>1 DEF ReadInv, y
  <2>4. CASE ~(x < HeaderLen)
    <3>1. y <= HeaderLen + body /\ (k = Wanted <=> y = HeaderLen + body)
      BY <1>2, <1>4, <2>1, <2>2, <2>4
    <3>2. y \in Nat /\ y > HeaderLen
      BY <1>2, <1>4, <2>1, <2>4
    <3>3. InStep => body = sizes[Next1]
      BY <1>1, <1>2, <2>1, <2>4 DEF ReadInv, x
    <3> QED BY <1>1, <1>2, <1>6, <1>8, <3>1, <3>2, <3>3 DEF ReadInv, y
  <2> QED BY <2>3, <2>4
<1>11. StreamInv' /\ OrderInv'
  BY <1>1, <1>5, <1>8 DEF StreamInv, OrderInv
<1> QED BY <1>7, <1>9, <1>10, <1>11

(* A packet is delivered when its last byte was read and checked. *)
Delivers == (CheckHeader \/ CheckPayload) /\ Deliver

LEMMA DeliveredIsNext ==
    ASSUME PacketInv, Delivers
    PROVE  /\ received' = Append(received, Content) /\ rpc' = "outside" /\ got' = <<>> /\ body' = 0
           /\ UNCHANGED <<buf, spc, sizes, out, noise, sent, clean>>
           /\ Content \in Nat
           /\ InStep => Content = Next1 /\ Streaming(buf, sizes, Due, Next1, clean, Quiet)
<1> USE DEF PacketInv
<1>1. /\ received' = Append(received, Content) /\ rpc' = "outside" /\ got' = <<>> /\ body' = 0
      /\ UNCHANGED <<buf, spc, sizes, out, noise, sent, clean>>
      /\ rpc = "check" /\ Len(got) >= HeaderLen
  <2>1. HeaderLen \in Nat /\ Len(got) \in Nat
    BY SizesAreNat
  <2> QED BY <2>1 DEF Delivers, Deliver, CheckHeader, CheckPayload, sender
<1>2. HeaderLen \in Nat \ {0} /\ Len(got) \in Nat \ {0} /\ got \in Seq(Bytes)
  BY <1>1, SizesAreNat DEF TypeInv
<1>3. Content \in Nat
  <2>1. 1 \in 1..Len(got)
    BY <1>2
  <2>2. got[1] \in Bytes
    BY <1>2, <2>1, ElementOfSeq
  <2> QED BY <2>2 DEF Content, Bytes
<1>4. ASSUME InStep PROVE Content = Next1 /\ Streaming(buf, sizes, Due, Next1, clean, Quiet)
  <2>1. /\ Next1 \in DOMAIN sizes /\ Size(sizes, Next1) \in Nat
        /\ \A i \in 1..Len(got) : i <= Size(sizes, Next1) => got[i] = Byte(Next1, i)
        /\ got[1].packet = Next1
        /\ Len(got) = Size(sizes, Next1) => Streaming(buf, sizes, Due, Next1, clean, Quiet)
    BY <1>2, <1>4, NextIsRead
  <2>2. Len(got) = Size(sizes, Next1)
    <3>1. CASE CheckPayload
      <4>1. rpc = "check" /\ Len(got) > HeaderLen
        BY <3>1 DEF CheckPayload
      <4>2. Len(got) # HeaderLen
        BY <1>2, <4>1
      <4> QED BY <1>4, <4>1, <4>2 DEF ReadInv, Size
    <3>2. CASE CheckHeader
      <4>1. Len(got) = HeaderLen
        BY <3>2 DEF CheckHeader
      <4>2. PassesWith(got) = {sizes[Next1]} /\ IsHeader(got)
        BY <1>4, <4>1, HeaderInStep
      <4>3. 0 \in PassesWith(got)
        <5>1. rpc' # "closed" /\ got' # got
          BY <1>1, <1>2, EmptySeq
        <5> QED BY <3>2, <5>1 DEF CheckHeader, ReceiveFails
      <4> QED BY <1>2, <4>1, <4>2, <4>3 DEF Size
    <3> QED BY <3>1, <3>2 DEF Delivers
  <2>3. IsPacket(got, Next1)
    <3> DEFINE l == Size(sizes, Next1)
    <3>1. l = Len(got) /\ \A i \in 1..l : got[i] = Byte(Next1, i)
      BY <1>2, <2>1, <2>2
    <3>2. got = [i \in 1..Len(got) |-> got[i]]
      BY <1>2, LenProperties
    <3>3. got = [i \in 1..l |-> Byte(Next1, i)]
      BY <3>1, <3>2
    <3> QED BY <2>1, <3>3 DEF IsPacket, Size
  <2> QED BY <2>1, <2>2, <2>3 DEF Content
<1> QED BY <1>1, <1>3, <1>4

LEMMA DeliverKeeps ==
    ASSUME PacketInv, Delivers
    PROVE  PacketInv'
<1> USE DEF PacketInv
<1>1. /\ received' = Append(received, Content) /\ rpc' = "outside" /\ got' = <<>> /\ body' = 0
      /\ UNCHANGED <<buf, spc, sizes, out, noise, sent, clean>>
      /\ Content \in Nat
      /\ InStep => Content = Next1 /\ Streaming(buf, sizes, Due, Next1, clean, Quiet)
  BY DeliveredIsNext
<1>2. /\ received' \in Seq(Nat) /\ Len(received') = Next1
      /\ \A i \in 1..Len(received) : received'[i] = received[i]
      /\ received'[Next1] = Content /\ Len(received) \in Nat /\ Next1 \in Nat
  BY <1>1, AppendIs DEF TypeInv, Next1
<1>3. TypeInv'
  BY <1>1, <1>2, EmptySeq DEF TypeInv
<1>4. Current' = Current /\ Due' = Due /\ Quiet' = Quiet
  BY <1>1 DEF Current, Due, Quiet
<1>5. SendInv' /\ ReadInv'
  BY <1>1, <1>4 DEF SendInv, ReadInv
<1>6. InStep' => InStep
  <2>1. Len(received) + 1 < clean => Len(received) < clean
    BY <1>2 DEF TypeInv
  <2> QED BY <1>1, <1>2, <1>4, <2>1 DEF InStep, Next1
<1>7. StreamInv'
  <2>1. got' \o buf' = buf
    BY <1>1, ConcatEmptySeq DEF TypeInv
  <2> QED BY <1>1, <1>2, <1>4, <1>6, <2>1 DEF StreamInv
<1>8. OrderInv'
  <2>1. DOMAIN received' = 1..Next1 /\ DOMAIN received = 1..Len(received)
    BY <1>2, LenProperties DEF TypeInv
  <2>2. ASSUME NEW i \in 1..Next1, Quiet \/ i <= clean PROVE received'[i] = i
    <3>1. CASE i = Next1
      <4>1. InStep
        BY <1>2, <2>2, <3>1 DEF InStep, Next1, TypeInv
      <4> QED BY <1>1, <1>2, <3>1, <4>1
    <3>2. CASE i # Next1
      <4>1. i \in 1..Len(received)
        BY <1>2, <3>2 DEF Next1
      <4> QED BY <1>2, <2>1, <2>2, <4>1 DEF OrderInv
    <3> QED BY <3>1, <3>2
  <2> QED BY <1>1, <1>4, <2>1, <2>2 DEF OrderInv
<1> QED BY <1>3, <1>5, <1>7, <1>8

-----------------------------------------------------------------------------
(* The invariant holds *)

LEMMA PacketInit == Init => PacketInv
<1> SUFFICES ASSUME Init PROVE PacketInv
  OBVIOUS
<1> USE DEF Init
<1>1. TypeInv
  BY EmptySeq DEF TypeInv
<1>2. Current = 0 /\ Due = Byte(1, 1) /\ Len(received) = 0 /\ Quiet = TRUE
  BY EmptySeq DEF Current, Due, Quiet
<1>3. SendInv
  BY <1>2 DEF SendInv, Byte
<1>4. ReadInv /\ OrderInv
  BY DEF ReadInv, OrderInv
<1>5. StreamInv
  <2> DEFINE f == [i \in 1..1 |-> Byte(1, 1)]
  <2>1. /\ got \o buf = <<>> /\ Len(<<>>) = 0 /\ <<>> \in Seq(Bytes)
        /\ <<>> = <<>> \o <<>>
    BY EmptySeq, ConcatEmptySeq
  <2>2. Byte(1, 1) \in Places /\ Exists(sizes, Byte(1, 1))
    BY EmptySeq DEF Byte, Places, Exists
  <2>3. Ahead(sizes, Byte(1, 1), Byte(1, 1), 0)
    BY DEF Ahead, Byte
  <2>4. /\ f \in [1..(0 + 1) -> Places] /\ f[1] = Byte(1, 1)
        /\ \A i \in 1..(0 + 1) : i = 1 /\ f[i] = Byte(1, 1)
    BY <2>2
  <2>5. \A i, k \in 1..(0 + 1) : i <= k => Ahead(sizes, f[i], f[k], k - i)
    <3>1. \A i, k \in 1..(0 + 1) : k - i = 0
      BY <2>4
    <3> QED BY <2>3, <2>4, <3>1
  <2> HIDE DEF f
  <2>6. Trace(<<>>, f, sizes)
    BY <2>1, <2>2, <2>4, <2>5 DEF Trace
  <2>7. f[1] = Byte(0 + 1, 1) /\ f[0 + 1] = Byte(1, 1)
    BY <2>4
  <2>8. Streaming(<<>>, sizes, Due, 0, clean, TRUE)
    BY <1>2, <2>1, <2>6, <2>7 DEF Streaming
  <2> QED BY <1>2, <2>1, <2>8 DEF StreamInv
<1> QED BY <1>1, <1>3, <1>4, <1>5 DEF PacketInv

LEMMA StepKinds ==
    ASSUME Next
    PROVE  \/ \E k \in 0..MaxPayload : SendBegin(k)
           \/ WriteByte \/ NoiseByte \/ ReadBytes \/ Delivers
           \/ WriteTest \/ WriteBroken \/ SendDeadline \/ SenderDies
           \/ ReceiveBegin \/ ReadTest \/ ReadEof \/ RecvDeadline \/ ReceiverDies
           \/ HeaderAccepted \/ HeaderRefused \/ PayloadRefused
<1>1. CheckHeader => Delivers \/ HeaderAccepted \/ HeaderRefused
  BY DEF CheckHeader, Delivers, HeaderAccepted, HeaderRefused
<1>2. CheckPayload => Delivers \/ PayloadRefused
  BY DEF CheckPayload, Delivers, PayloadRefused
<1> QED BY <1>1, <1>2 DEF Next, Step, Sending, Receiving

LEMMA PacketInductive == Spec => []PacketInv
<1>1. PacketInv /\ [Next]_vars => PacketInv'
  <2> SUFFICES ASSUME PacketInv, [Next]_vars PROVE PacketInv'
    OBVIOUS
  <2>1. CASE Next
    BY <2>1, StepKinds, SendBeginKeeps, WriteByteKeeps, NoiseByteKeeps, ReadBytesKeeps, DeliverKeeps,
       SenderWaits, ReceiverWaits
  <2>2. CASE UNCHANGED vars
    <3>1. BytesKept /\ spc' = spc /\ rpc' = rpc /\ body' = body
      BY <2>2 DEF vars, sender, receiver, history, BytesKept
    <3> QED BY <3>1, BytesKeptKeeps DEF SenderMoves, ReceiverMoves
  <2> QED BY <2>1, <2>2
<1> QED BY <1>1, PacketInit, PTL DEF Spec

(* Whatever is lost with a peer, cut off by a deadline or split by short    *)
(* reads, receive() returns the packets sent before the first foreign byte  *)
(* whole, in the order of their sending, each once and without a gap, also  *)
(* after foreign bytes have come behind them.                               *)
THEOREM PacketsComeInOrder == Spec => []ReceivedInOrder
<1>1. PacketInv => ReceivedInOrder
  BY DEF PacketInv, OrderInv, ReceivedInOrder
<1> QED BY <1>1, PacketInductive, PTL

-----------------------------------------------------------------------------
(* The queue of whole packets *)

(* The packets n + 1, ..., n + k. *)
From(n, k) == [i \in 1..k |-> n + i]

LEMMA FromIs ==
    ASSUME NEW n \in Nat, NEW k \in Nat
    PROVE  From(n, k) \in Seq(Nat) /\ Len(From(n, k)) = k /\ \A i \in 1..k : From(n, k)[i] = n + i
<1>1. \A i \in 1..k : n + i \in Nat
  OBVIOUS
<1> QED BY <1>1 DEF From

LEMMA FromGrows ==
    ASSUME NEW n \in Nat, NEW k \in Nat
    PROVE  From(n, k + 1) = Append(From(n, k), n + k + 1)
<1> DEFINE s == From(n, k)
           e == n + k + 1
           t == Append(s, e)
<1>1. /\ s \in Seq(Nat) /\ Len(s) = k /\ e \in Nat
      /\ \A i \in 1..k : s[i] = n + i
  BY FromIs
<1>2. /\ From(n, k + 1) \in Seq(Nat) /\ Len(From(n, k + 1)) = k + 1
      /\ \A i \in 1..(k + 1) : From(n, k + 1)[i] = n + i
  <2>1. k + 1 \in Nat
    OBVIOUS
  <2> QED BY <2>1, FromIs
<1> HIDE DEF s, e
<1>3. /\ t \in Seq(Nat) /\ Len(t) = k + 1 /\ t[k + 1] = e
      /\ \A i \in 1..k : t[i] = s[i]
  BY <1>1, AppendIs
<1> HIDE DEF t
<1>4. \A i \in 1..(k + 1) : From(n, k + 1)[i] = t[i]
  <2> SUFFICES ASSUME NEW i \in 1..(k + 1) PROVE From(n, k + 1)[i] = t[i]
    OBVIOUS
  <2>1. i \in 1..k \/ (i = k + 1 /\ n + i = e)
    BY DEF e
  <2> QED BY <1>1, <1>2, <1>3, <2>1
<1>5. From(n, k + 1) = t
  BY <1>2, <1>3, <1>4, SeqEqual
<1> QED BY <1>5 DEF t, s, e

LEMMA FromShrinks ==
    ASSUME NEW n \in Nat, NEW k \in Nat \ {0}
    PROVE  /\ From(n, k) # <<>> /\ Head(From(n, k)) = n + 1
           /\ Tail(From(n, k)) = From(n + 1, k - 1)
<1> DEFINE s == From(n, k)
           t == From(n + 1, k - 1)
<1>1. s \in Seq(Nat) /\ Len(s) = k /\ \A i \in 1..k : s[i] = n + i
  BY FromIs
<1>2. /\ t \in Seq(Nat) /\ Len(t) = k - 1
      /\ \A i \in 1..(k - 1) : t[i] = n + 1 + i
  <2>1. k - 1 \in Nat /\ n + 1 \in Nat
    OBVIOUS
  <2> QED BY <2>1, FromIs
<1> HIDE DEF s, t
<1>3. s # <<>>
  BY <1>1, EmptySeq
<1>4. /\ Tail(s) \in Seq(Nat) /\ Len(Tail(s)) = k - 1
      /\ \A i \in 1..(k - 1) : Tail(s)[i] = s[i + 1]
  BY <1>1, <1>3, HeadTailProperties
<1>5. \A i \in 1..(k - 1) : Tail(s)[i] = t[i]
  <2> SUFFICES ASSUME NEW i \in 1..(k - 1) PROVE Tail(s)[i] = t[i]
    OBVIOUS
  <2>1. i + 1 \in 1..k /\ n + (i + 1) = n + 1 + i
    OBVIOUS
  <2> QED BY <1>1, <1>2, <1>4, <2>1
<1>6. Tail(s) = t
  BY <1>2, <1>4, <1>5, SeqEqual
<1>7. Head(s) = n + 1
  BY <1>1, <1>3
<1> QED BY <1>3, <1>6, <1>7 DEF s, t

(* The packets on their way, and the last one received. *)
OnTheWay == [i \in 1..(sent - Len(received)) |-> Len(received) + i]
LastOne  == IF received = <<>> THEN 0 ELSE received[Len(received)]

LEMMA LastIsCount ==
    ASSUME PacketInv, Quiet
    PROVE  LastOne = Len(received) /\ Len(received) \in Nat
<1>1. received \in Seq(Nat) /\ Len(received) \in Nat /\ DOMAIN received = 1..Len(received)
  BY LenProperties DEF PacketInv, TypeInv
<1>2. CASE received = <<>>
  BY <1>1, <1>2, EmptySeq DEF LastOne
<1>3. CASE received # <<>>
  <2>1. Len(received) \in DOMAIN received
    BY <1>1, <1>3, EmptySeq
  <2> QED BY <1>1, <1>3, <2>1 DEF LastOne, PacketInv, OrderInv
<1> QED BY <1>2, <1>3

LEMMA QuietWay ==
    ASSUME PacketInv, Quiet
    PROVE  /\ sent \in Nat /\ sent - Len(received) \in Nat
           /\ OnTheWay = From(Len(received), sent - Len(received))
<1>1. sent \in Nat /\ Len(received) \in Nat /\ Len(received) <= sent
  BY NotAhead DEF PacketInv, TypeInv
<1> QED BY <1>1 DEF OnTheWay, From

(* The last byte of a packet puts it on the queue. *)
LEMMA LastByteIsPut ==
    ASSUME PacketInv, PacketInv', WriteByte, sent' = sent + 1, Quiet
    PROVE  Channel!Put
<1>1. received' = received /\ Quiet'
  BY DEF WriteByte, Quiet
<1>2. /\ Len(received) \in Nat /\ sent \in Nat /\ sent - Len(received) \in Nat
      /\ OnTheWay = From(Len(received), sent - Len(received))
  BY LastIsCount, QuietWay
<1>3. OnTheWay' = From(Len(received), sent' - Len(received))
  BY <1>1 DEF OnTheWay, From
<1> DEFINE n == Len(received)
           k == sent - Len(received)
<1>4. sent' - n = k + 1
  BY <1>2
<1>5. OnTheWay' = Append(OnTheWay, n + k + 1)
  BY <1>2, <1>3, <1>4, FromGrows
<1>6. LastOne = n /\ LastOne' = LastOne /\ Len(OnTheWay) = k
  BY <1>1, <1>2, LastIsCount, FromIs DEF LastOne
<1>7. OnTheWay' = Append(OnTheWay, LastOne + Len(OnTheWay) + 1)
  BY <1>5, <1>6
<1> QED BY <1>6, <1>7 DEF Channel!Put, OnTheWay, LastOne

LEMMA DeliveryIsTake ==
    ASSUME PacketInv, PacketInv', Delivers, Quiet
    PROVE  Channel!Take
<1>1. /\ Len(received) \in Nat /\ sent \in Nat /\ sent - Len(received) \in Nat
      /\ OnTheWay = From(Len(received), sent - Len(received))
  BY LastIsCount, QuietWay
<1>2. /\ received' = Append(received, Content) /\ sent' = sent /\ Quiet'
      /\ Content = Len(received) + 1
  BY DeliveredIsNext DEF Quiet, InStep, Next1
<1>3. Len(received') = Len(received) + 1
  <2>1. received \in Seq(Nat) /\ Content \in Nat
    BY <1>1, <1>2 DEF PacketInv, TypeInv
  <2> QED BY <1>2, <2>1, AppendIs
<1>4. /\ sent' - Len(received') \in Nat
      /\ OnTheWay' = From(Len(received'), sent' - Len(received'))
      /\ LastOne' = Len(received')
  <2>1. (/\ sent - Len(received) \in Nat
         /\ OnTheWay = From(Len(received), sent - Len(received)))'
    BY <1>2, QuietWay, PTL
  <2>2. (LastOne = Len(received))'
    BY <1>2, LastIsCount, PTL
  <2> QED BY <2>1, <2>2
<1> DEFINE n == Len(received)
           k == sent - Len(received)
<1>5. k \in Nat \ {0} /\ sent' - Len(received') = k - 1
  BY <1>1, <1>2, <1>3, <1>4
<1>6. OnTheWay # <<>> /\ Head(OnTheWay) = n + 1 /\ Tail(OnTheWay) = From(n + 1, k - 1)
  BY <1>1, <1>5, FromShrinks
<1>7. LastOne' = Head(OnTheWay) /\ OnTheWay' = Tail(OnTheWay)
  BY <1>3, <1>4, <1>5, <1>6
<1> QED BY <1>6, <1>7 DEF Channel!Take, OnTheWay, LastOne

(* Until a foreign byte comes, the stream of bytes is the queue of whole    *)
(* packets Worker is modelled over: a packet is on it once its last byte    *)
(* was written, and leaves it, whole, when receive() returns it.            *)
THEOREM StreamIsChannel == Spec => ImplementsChannel
<1>1. Init => Channel!FInit
  BY EmptySeq DEF Init, Channel!FInit
<1>2. PacketInv /\ PacketInv' /\ [Next]_vars =>
        [noise' = 0 => Channel!Put \/ Channel!Take]_(Channel!fvars)
  <2> SUFFICES ASSUME PacketInv, PacketInv', [Next]_vars
               PROVE  \/ noise' = 0 => Channel!Put \/ Channel!Take
                      \/ UNCHANGED <<OnTheWay, LastOne>>
    BY DEF Channel!fvars, OnTheWay, LastOne
  <2>1. noise' = 0 => Quiet
    <3>1. noise \in Nat /\ (noise' = noise \/ noise' = noise + 1)
      <4>1. CASE Next
        BY <4>1, StepKinds DEF PacketInv, TypeInv, SendBegin, WriteByte, NoiseByte, ReadBytes, Delivers, Deliver,
             WriteTest, WriteBroken, SendDeadline, SenderDies, ReceiveBegin, ReadTest, ReadEof, RecvDeadline,
             ReceiverDies, HeaderAccepted, HeaderRefused, PayloadRefused, CheckHeader, CheckPayload, sender, history
      <4>2. CASE UNCHANGED vars
        BY <4>2 DEF PacketInv, TypeInv, vars, history
      <4> QED BY <4>1, <4>2
    <3> QED BY <3>1 DEF Quiet
  <2>2. \/ UNCHANGED <<sent, received>>
        \/ WriteByte /\ sent' = sent + 1
        \/ Delivers
    <3>1. CASE Next
      <4>1. CASE \E k \in 0..MaxPayload : SendBegin(k)
        BY <4>1 DEF SendBegin, history
      <4>2. CASE WriteByte
        BY <4>2 DEF WriteByte
      <4>3. CASE NoiseByte \/ ReadBytes
        BY <4>3 DEF NoiseByte, ReadBytes, history
      <4>4. CASE WriteTest \/ WriteBroken \/ SendDeadline \/ SenderDies
        BY <4>4 DEF WriteTest, WriteBroken, SendDeadline, SenderDies, history
      <4>5. CASE ReceiveBegin \/ ReadTest \/ ReadEof \/ RecvDeadline \/ ReceiverDies
        BY <4>5 DEF ReceiveBegin, ReadTest, ReadEof, RecvDeadline, ReceiverDies, history
      <4>6. CASE HeaderAccepted \/ HeaderRefused \/ PayloadRefused
        BY <4>6 DEF HeaderAccepted, HeaderRefused, PayloadRefused, CheckHeader, history
      <4> QED BY <3>1, <4>1, <4>2, <4>3, <4>4, <4>5, <4>6, StepKinds
    <3>2. CASE UNCHANGED vars
      BY <3>2 DEF vars, history
    <3> QED BY <3>1, <3>2
  <2>3. CASE UNCHANGED <<sent, received>>
    BY <2>3 DEF OnTheWay, LastOne
  <2>4. CASE WriteByte /\ sent' = sent + 1
    BY <2>1, <2>4, LastByteIsPut
  <2>5. CASE Delivers
    BY <2>1, <2>5, DeliveryIsTake
  <2> QED BY <2>2, <2>3, <2>4, <2>5
<1> QED BY <1>1, <1>2, PacketInductive, PTL DEF Spec, ImplementsChannel
=============================================================================
