-------------------------- MODULE ArgStreamProofs --------------------------
(***************************************************************************)
(* What the loops over the providers hand out, for any callers: a zip gives *)
(* the tuples of its reference and a grid the Cartesian product, from       *)
(* whatever state an earlier run left the providers in.                     *)
(*                                                                          *)
(* The zip is a matter of counting.  The grid needs the number of calls as  *)
(* a function of the places the loops are at (Counted), and induction over  *)
(* the number of arguments for Combinations, made by a least counterexample.*)
(***************************************************************************)
EXTENDS FuzzRunProofs, WellFoundedInduction

(* Number of values argument p has got, and the k-th value its provider     *)
(* gives after the state the loops were entered in.                         *)
Drawn(p)    == idx[arg[p]] - start.idx[arg[p]]
Value(p, k) == LET c == start.cursor[arg[p]] + k
               IN  IF arg[p] \in random THEN c ELSE c % Items

Looping == pc \in {"loops", "call", "record"}
Zipping == mode = "zip" /\ Distinct /\ arg # <<>> /\ Looping

(* An iterator is never left at the end of its container, and a tuple is    *)
(* begun in the loops.                                                      *)
ReadyInv ==
    /\ \A o \in Objects \ random : cursor[o] < Items
    /\ pc \in {"construct", "start"} => storage = <<>>

StartTypes ==
    /\ start.idx \in [Objects -> Nat] /\ start.cursor \in [Objects -> Nat]
    /\ \A o \in Objects \ random : start.cursor[o] < Items

(* Argument p has got a value for each tuple, and one more if it is before  *)
(* the level; what it will get next follows from that.                      *)
PlaceOf(p) ==
    /\ Drawn(p) \in {Len(calls), Len(calls) + 1}
    /\ cursor[arg[p]] = Value(p, Drawn(p))
    /\ Drawn(p) > 0 => idx[arg[p]] <= size[arg[p]]
    /\ level # 0 => Drawn(p) = IF p < level THEN Len(calls) + 1 ELSE Len(calls)

(* The tuple that is being made. *)
StorageInv ==
    level # 0 => /\ Len(storage) = level - 1
                 /\ \A p \in 1..(level - 1) : storage[p] = Value(p, Len(calls))

(* The loops ended at a provider with nothing left. *)
EndInv == level = 0 => \E q \in Args : Drawn(q) = Len(calls) /\ idx[arg[q]] >= size[arg[q]]

ZipBody ==
    /\ StartTypes /\ StorageInv /\ EndInv
    /\ \A p \in Args : PlaceOf(p)
    /\ \A j \in DOMAIN calls : calls[j] = ZipTuple(j)

ZipInv == Zipping => ZipBody

-----------------------------------------------------------------------------
(* Arithmetic of the wrapping iterator *)

LEMMA ModIs ==
    ASSUME NEW n \in Nat \ {0}, NEW a \in Nat
    PROVE  a % n \in 0..(n - 1) /\ a \div n \in Nat /\ a = n * (a \div n) + (a % n)
  OBVIOUS

LEMMA ModUnique ==
    ASSUME NEW n \in Nat \ {0}, NEW q \in Nat, NEW r \in 0..(n - 1)
    PROVE  (n * q + r) % n = r
  OBVIOUS

LEMMA ModSmall ==
    ASSUME NEW n \in Nat \ {0}, NEW a \in 0..(n - 1)
    PROVE  a % n = a
<1>1. a = n * 0 + a /\ 0 \in Nat
  OBVIOUS
<1> QED BY <1>1, ModUnique

LEMMA ModNext ==
    ASSUME NEW n \in Nat \ {0}, NEW a \in Nat
    PROVE  ((a % n) + 1) % n = (a + 1) % n
<1> DEFINE q == a \div n
           r == a % n
<1>1. q \in Nat /\ r \in 0..(n - 1) /\ a = n * q + r
  BY ModIs
<1> HIDE DEF q, r
<1>2. CASE r + 1 < n
  <2>1. r + 1 \in 0..(n - 1) /\ a + 1 = n * q + (r + 1)
    BY <1>1, <1>2
  <2>2. (a + 1) % n = r + 1
    BY <1>1, <2>1, ModUnique
  <2>3. (r + 1) % n = r + 1
    BY <2>1, ModSmall
  <2> QED BY <2>2, <2>3 DEF r
<1>3. CASE r + 1 = n
  <2>1. 0 \in 0..(n - 1) /\ q + 1 \in Nat /\ a + 1 = n * (q + 1) + 0 /\ r + 1 = n * 1 + 0 /\ 1 \in Nat
    BY <1>1, <1>3
  <2>2. (a + 1) % n = 0
    BY <1>1, <2>1, ModUnique
  <2>3. (r + 1) % n = 0
    BY <2>1, ModUnique
  <2> QED BY <2>2, <2>3 DEF r
<1> QED BY <1>1, <1>2, <1>3

LEMMA ArgIs ==
    ASSUME StreamTypes, NEW p \in Args
    PROVE  arg[p] \in Objects /\ Args = 1..Len(arg) /\ Len(arg) \in Nat /\ p \in 1..Len(arg)
  BY LenProperties, ElementOfSeq DEF StreamTypes, Args

LEMMA ValueIs ==
    ASSUME StreamTypes, StartTypes, NEW p \in Args, NEW k \in Nat
    PROVE  /\ Value(p, k) \in Nat /\ Value(p, 0) = start.cursor[arg[p]]
           /\ cursor[arg[p]] = Value(p, k) => Following(arg[p]) = Value(p, k + 1)
<1> DEFINE c == start.cursor[arg[p]]
<1>1. c \in Nat /\ (arg[p] \notin random => c \in 0..(Items - 1)) /\ Items \in Nat \ {0}
  BY ArgIs, StreamAssumption DEF StartTypes
<1> HIDE DEF c
<1>2. CASE arg[p] \in random
  <2>1. Value(p, k) = c + k /\ Value(p, 0) = c + 0 /\ Value(p, k + 1) = c + (k + 1)
    BY <1>2 DEF Value, c
  <2> QED BY <1>1, <1>2, <2>1 DEF Following, c
<1>3. CASE arg[p] \notin random
  <2>1. Value(p, k) = (c + k) % Items /\ Value(p, 0) = (c + 0) % Items
        /\ Value(p, k + 1) = (c + (k + 1)) % Items
    BY <1>3 DEF Value, c
  <2>2. c + k \in Nat /\ c + (k + 1) = (c + k) + 1 /\ c + 0 = c
    BY <1>1
  <2>3. (c + k) % Items \in Nat /\ c % Items = c
    BY <1>1, <1>3, <2>2, ModIs, ModSmall
  <2>4. (((c + k) % Items) + 1) % Items = (c + (k + 1)) % Items
    BY <1>1, <2>2, ModNext
  <2> QED BY <1>3, <2>1, <2>2, <2>3, <2>4 DEF Following, c
<1> QED BY <1>2, <1>3

LEMMA ZipTupleIs ==
    ASSUME StreamTypes, StartTypes, NEW k \in Nat
    PROVE  /\ ZipTuple(k + 1) \in Seq(Nat) /\ Len(ZipTuple(k + 1)) = Len(arg)
           /\ \A p \in 1..Len(arg) : ZipTuple(k + 1)[p] = Value(p, k)
<1>1. Args = 1..Len(arg) /\ Len(arg) \in Nat
  BY LenProperties DEF StreamTypes, Args
<1>2. ZipTuple(k + 1) = [p \in 1..Len(arg) |-> Value(p, k)]
  <2>1. ASSUME NEW p \in Args
        PROVE  start.cursor[arg[p]] + (k + 1) - 1 = start.cursor[arg[p]] + k
    BY ArgIs DEF StartTypes
  <2> QED BY <1>1, <2>1 DEF ZipTuple, Value
<1>3. \A p \in 1..Len(arg) : Value(p, k) \in Nat
  BY <1>1, ValueIs
<1> QED BY <1>1, <1>2, <1>3

-----------------------------------------------------------------------------
(* The steps of a zip *)

LEMMA ZipDraws ==
    ASSUME StreamTypes, Zipping, ZipBody, level \in Args, ~Exhausted(arg[level]),
           Draw(arg[level]), UNCHANGED callers
    PROVE  ZipBody'
<1> DEFINE n == Len(calls)
           o == arg[level]
<1>1. /\ level \in 1..Len(arg) /\ Args = 1..Len(arg) /\ Len(arg) \in Nat /\ o \in Objects
      /\ \A p \in Args : arg[p] \in Objects /\ (p # level => arg[p] # o)
  BY ArgIs DEF Zipping, Distinct
<1>2. n \in Nat /\ storage \in Seq(Nat)
  BY LenProperties DEF StreamTypes
<1>3. /\ StartTypes /\ Len(storage) = level - 1 /\ level # 0
      /\ \A p \in 1..(level - 1) : storage[p] = Value(p, n)
      /\ \A p \in Args : PlaceOf(p)
  BY <1>1 DEF ZipBody, StorageInv
<1>4. /\ level' = level + 1 /\ storage' = Append(storage, cursor[o]) /\ mode = "zip"
      /\ UNCHANGED <<arg, size, random, calls, start>>
  BY DEF Draw, callers, Zipping
<1>5. /\ idx'[o] = idx[o] + 1 /\ cursor'[o] = Following(o)
      /\ \A x \in Objects \ {o} : idx'[x] = idx[x] /\ cursor'[x] = cursor[x]
  BY <1>1, <1>4 DEF Draw, StreamTypes
<1>6. idx \in [Objects -> Nat] /\ cursor \in [Objects -> Nat] /\ size \in [Objects -> Nat]
      /\ start.idx \in [Objects -> Nat]
  BY <1>3 DEF StreamTypes, StartTypes
<1>7. idx[o] < size[o] /\ idx[o] \in Nat /\ size[o] \in Nat /\ start.idx[o] \in Nat
  BY <1>1, <1>6 DEF Exhausted
<1>8. Drawn(level) = n /\ cursor[o] = Value(level, n)
  BY <1>1, <1>3 DEF PlaceOf
<1>9. ASSUME NEW p \in Args PROVE PlaceOf(p)'
  <2>1. (\A k : Value(p, k)' = Value(p, k)) /\ n' = n
    BY <1>4 DEF Value
  <2>2. CASE p = level
    <3>1. Drawn(p)' = n + 1
      <4>1. arg[p] = o /\ Drawn(p)' = idx'[arg[p]] - start.idx[arg[p]]
        BY <1>4, <2>2 DEF Drawn
      <4>2. idx[o] - start.idx[o] = n
        BY <1>8 DEF Drawn
      <4>3. Drawn(p)' = (idx[o] + 1) - start.idx[o]
        BY <1>5, <4>1
      <4>4. \A a, b, k \in Nat : a - b = k => (a + 1) - b = k + 1
        OBVIOUS
      <4>5. (idx[o] + 1) - start.idx[o] = n + 1
        BY <1>2, <1>7, <4>2, <4>4
      <4> QED BY <4>3, <4>5
    <3>2. cursor'[arg[p]] = Value(p, n + 1)
      BY <1>1, <1>2, <1>3, <1>5, <1>8, <2>2, ValueIs
    <3>3. idx'[arg[p]] <= size[arg[p]]
      BY <1>5, <1>7, <2>2
    <3>4. p < level'
      BY <1>1, <1>4, <2>2
    <3> QED BY <1>2, <1>4, <2>1, <3>1, <3>2, <3>3, <3>4 DEF PlaceOf
  <2>3. CASE p # level
    <3>1. arg[p] \in Objects \ {o}
      BY <1>1, <2>3
    <3>2. Drawn(p)' = Drawn(p) /\ cursor'[arg[p]] = cursor[arg[p]] /\ idx'[arg[p]] = idx[arg[p]]
      BY <1>4, <1>5, <3>1 DEF Drawn
    <3>3. p < level' <=> p < level
      BY <1>1, <1>4, <2>3
    <3>4. PlaceOf(p) /\ level # 0
      BY <1>3
    <3> QED BY <1>4, <2>1, <3>2, <3>3, <3>4 DEF PlaceOf
  <2> QED BY <2>2, <2>3
<1>10. StorageInv'
  <2>1. cursor[o] \in Nat /\ Len(storage) + 1 = level /\ level' - 1 = level
    BY <1>1, <1>3, <1>4, <1>6
  <2>2. /\ Len(storage') = level /\ storage'[level] = cursor[o]
        /\ \A p \in 1..(level - 1) : storage'[p] = storage[p]
    BY <1>2, <1>3, <1>4, <2>1, AppendIs
  <2>3. \A p : p \in 1..level => p \in 1..(level - 1) \/ p = level
    BY <1>1
  <2>4. \A p \in 1..level : storage'[p] = Value(p, n)
    BY <1>3, <1>8, <2>2, <2>3
  <2>5. \A p, k : Value(p, k)' = Value(p, k)
    BY <1>4 DEF Value
  <2> QED BY <1>4, <2>1, <2>2, <2>4, <2>5 DEF StorageInv
<1>11. StartTypes' /\ EndInv' /\ \A j \in DOMAIN calls' : calls'[j] = ZipTuple(j)'
  <2>1. level' # 0
    BY <1>1, <1>4
  <2>2. StartTypes'
    BY <1>3, <1>4 DEF StartTypes
  <2>3. EndInv'
    BY <2>1 DEF EndInv
  <2>4. \A j : ZipTuple(j)' = ZipTuple(j)
    BY <1>4 DEF ZipTuple, Args
  <2> QED BY <1>4, <2>2, <2>3, <2>4 DEF ZipBody
<1>12. Args' = Args
  BY <1>4 DEF Args
<1> QED BY <1>9, <1>10, <1>11, <1>12 DEF ZipBody

LEMMA ZipExhausts ==
    ASSUME StreamTypes, Zipping, ZipBody, level \in Args, Exhausted(arg[level]),
           Exhaust(arg[level]), UNCHANGED callers
    PROVE  ZipBody'
<1>1. level' = 0 /\ UNCHANGED <<arg, size, random, idx, cursor, calls, start>>
  BY DEF Exhaust, Zipping, callers
<1>2. level # 0
  BY ArgIs
<1>3. Drawn(level) = Len(calls) /\ idx[arg[level]] >= size[arg[level]]
  <2>1. PlaceOf(level) /\ level \in Nat
    BY ArgIs DEF ZipBody
  <2> QED BY <1>2, <2>1 DEF PlaceOf, Exhausted
<1>4. EndInv'
  BY <1>1, <1>3 DEF EndInv, Drawn, Args
<1>5. \A p \in Args : PlaceOf(p)'
  BY <1>1 DEF ZipBody, PlaceOf, Drawn, Value
<1>6. StartTypes' /\ StorageInv' /\ \A j \in DOMAIN calls' : calls'[j] = ZipTuple(j)'
  BY <1>1 DEF ZipBody, StartTypes, StorageInv, ZipTuple, Args
<1> QED BY <1>1, <1>4, <1>5, <1>6 DEF ZipBody, Args

LEMMA ZipHands ==
    ASSUME StreamTypes, Zipping, ZipBody, NEW single, NextTuple(single)
    PROVE  ZipBody'
<1> DEFINE n == Len(calls)
<1>1. /\ level = Len(arg) + 1 /\ level' = 1 /\ storage' = <<>> /\ calls' = Append(calls, storage)
      /\ UNCHANGED <<arg, size, random, idx, cursor, start>>
  BY DEF NextTuple, TupleReady, Zipping, callers
<1>2. n \in Nat /\ calls \in Seq(Seq(Nat)) /\ storage \in Seq(Nat) /\ Len(arg) \in Nat
      /\ Args = 1..Len(arg)
  BY LenProperties DEF StreamTypes, Args
<1>3. /\ Len(calls') = n + 1 /\ DOMAIN calls' = 1..(n + 1) /\ DOMAIN calls = 1..n
      /\ calls'[n + 1] = storage /\ \A j \in 1..n : calls'[j] = calls[j]
  BY <1>1, <1>2, AppendIs
<1>4. level # 0 /\ level - 1 = Len(arg) /\ StartTypes
  BY <1>1, <1>2 DEF ZipBody
<1>5. storage = ZipTuple(n + 1)
  <2>1. Len(storage) = Len(arg) /\ \A p \in 1..Len(arg) : storage[p] = Value(p, n)
    BY <1>4 DEF ZipBody, StorageInv
  <2>2. /\ ZipTuple(n + 1) \in Seq(Nat) /\ Len(ZipTuple(n + 1)) = Len(arg)
        /\ \A p \in 1..Len(arg) : ZipTuple(n + 1)[p] = Value(p, n)
    BY <1>2, <1>4, ZipTupleIs
  <2> QED BY <1>2, <2>1, <2>2, SeqEqual
<1>6. \A j \in DOMAIN calls' : calls'[j] = ZipTuple(j)'
  <2>1. \A j : ZipTuple(j)' = ZipTuple(j)
    BY <1>1 DEF ZipTuple, Args
  <2>2. \A j \in 1..(n + 1) : j \in 1..n \/ j = n + 1
    BY <1>2
  <2>3. \A j \in 1..n : calls[j] = ZipTuple(j)
    BY <1>3 DEF ZipBody
  <2> QED BY <1>3, <1>5, <2>1, <2>2, <2>3
<1>7. ASSUME NEW p \in Args PROVE PlaceOf(p)'
  <2>1. PlaceOf(p) /\ p < level /\ ~(p < 1) /\ p \in Nat
    BY <1>1, <1>2 DEF ZipBody
  <2>2. Drawn(p) = n + 1 /\ cursor[arg[p]] = Value(p, n + 1) /\ idx[arg[p]] <= size[arg[p]]
    <3>1. Drawn(p) = n + 1
      BY <1>4, <2>1 DEF PlaceOf
    <3> QED BY <1>2, <2>1, <3>1 DEF PlaceOf
  <2>3. Drawn(p)' = n + 1
    BY <1>1, <2>2 DEF Drawn
  <2>4. \A k : Value(p, k)' = Value(p, k)
    BY <1>1 DEF Value
  <2>5. n + 1 \in Nat
    BY <1>2
  <2> QED BY <1>1, <1>3, <2>1, <2>2, <2>3, <2>4, <2>5 DEF PlaceOf
<1>8. StartTypes' /\ StorageInv' /\ EndInv'
  <2>1. StorageInv'
    <3>1. Len(<<>>) = 0 /\ 1 - 1 = 0 /\ 1..0 = {}
      OBVIOUS
    <3> QED BY <1>1, <3>1 DEF StorageInv
  <2> QED BY <1>1, <1>4, <2>1 DEF StartTypes, EndInv
<1>9. Args' = Args
  BY <1>1 DEF Args
<1> QED BY <1>6, <1>7, <1>8, <1>9 DEF ZipBody

LEMMA ZipBegins ==
    ASSUME StreamTypes, ReadyInv, mode = "zip", storage = <<>>, calls = <<>>,
           EnterLoops, UNCHANGED callers
    PROVE  ZipBody'
<1>1. /\ level' = 1 /\ start' = [idx |-> idx, cursor |-> cursor]
      /\ UNCHANGED <<arg, size, random, idx, cursor, storage, calls>>
  BY DEF EnterLoops, callers
<1>2. StartTypes' /\ StreamTypes'
  <2>1. StreamTypes'
    BY EnterLoopsTypes
  <2> QED BY <1>1, <2>1 DEF StartTypes, ReadyInv, StreamTypes
<1>3. Len(calls') = 0 /\ DOMAIN calls' = {} /\ Len(storage') = 0
  BY <1>1
<1>4. ASSUME NEW p \in Args' PROVE PlaceOf(p)'
  <2>1. p \in Args /\ p \in Nat \ {0} /\ arg[p] \in Objects
    BY <1>1, <1>4, ArgIs DEF Args
  <2>2. idx[arg[p]] \in Nat
    BY <2>1 DEF StreamTypes
  <2>3. Drawn(p)' = 0
    BY <1>1, <2>2 DEF Drawn
  <2>4. Value(p, 0)' = start'.cursor[arg'[p]] /\ start'.cursor[arg'[p]] = cursor'[arg'[p]]
    <3>1. cursor[arg[p]] \in Nat /\ (arg[p] \notin random => cursor[arg[p]] \in 0..(Items - 1))
      BY <2>1, StreamAssumption DEF StreamTypes, ReadyInv
    <3>2. Items \in Nat \ {0} /\ cursor[arg[p]] + 0 = cursor[arg[p]]
      BY <3>1, StreamAssumption
    <3>3. arg[p] \notin random => cursor[arg[p]] % Items = cursor[arg[p]]
      BY <3>1, <3>2, ModSmall
    <3>4. Value(p, 0)' = IF arg[p] \in random THEN cursor[arg[p]] + 0 ELSE (cursor[arg[p]] + 0) % Items
      BY <1>1 DEF Value
    <3> QED BY <1>1, <3>2, <3>3, <3>4
  <2>5. ~(p < 1) /\ ~(0 > 0)
    BY <2>1
  <2> QED BY <1>1, <1>3, <2>1, <2>3, <2>4, <2>5 DEF PlaceOf
<1>5. StorageInv' /\ EndInv'
  <2>1. 1 - 1 = 0 /\ 1..0 = {}
    OBVIOUS
  <2> QED BY <1>1, <1>3, <2>1 DEF StorageInv, EndInv
<1> QED BY <1>2, <1>3, <1>4, <1>5 DEF ZipBody

-----------------------------------------------------------------------------
(* The invariant *)

CursorsFit == \A o \in Objects \ random : cursor[o] < Items

LEMMA CursorSteps ==
    ASSUME StreamTypes, CursorsFit, UNCHANGED callers, NEW o \in Objects, Reset(o) \/ Draw(o)
    PROVE  CursorsFit'
<1>1. Items \in Nat \ {0} /\ 0 < Items /\ cursor \in [Objects -> Nat] /\ random' = random
  BY StreamAssumption DEF StreamTypes, callers
<1>2. CASE Reset(o)
  BY <1>1, <1>2 DEF Reset, Rewound, CursorsFit
<1>3. CASE Draw(o)
  <2> DEFINE drawn == [cursor EXCEPT ![o] = Following(o)]
  <2> HIDE DEF drawn
  <2>1. \E inner : cursor' = [x \in Objects |-> IF x \in inner THEN 0 ELSE drawn[x]]
    <3> DEFINE next == IF mode = "grid" /\ level < Len(arg) THEN {arg[level + 1]} ELSE {}
               inner0 == next \ random
    <3>1. cursor' = [x \in Objects |-> IF x \in inner0 THEN 0 ELSE drawn[x]]
      BY <1>3 DEF Draw, drawn
    <3> HIDE DEF inner0
    <3> QED BY <3>1
  <2>2. o \notin random => Following(o) < Items
    <3>1. cursor[o] + 1 \in Nat
      BY <1>1
    <3>2. (cursor[o] + 1) % Items \in 0..(Items - 1)
      BY <1>1, <3>1, ModIs
    <3> QED BY <1>1, <3>2 DEF Following
  <2>3. ASSUME NEW x \in Objects \ random PROVE drawn[x] < Items
    BY <1>1, <2>2 DEF CursorsFit, drawn
  <2>4. ASSUME NEW x \in Objects \ random PROVE cursor'[x] < Items
    BY <1>1, <2>1, <2>3
  <2> QED BY <1>1, <2>4 DEF CursorsFit
<1> QED BY <1>2, <1>3

LEMMA StreamStays ==
    ASSUME ReadyInv, ZipInv, UNCHANGED <<callers, stream>>, Looping' => Looping,
           pc' \in {"construct", "start"} => pc \in {"construct", "start"}
    PROVE  (ReadyInv /\ ZipInv)'
<1>1. UNCHANGED <<arg, size, random, idx, cursor, mode, level, storage, calls, start>>
  BY DEF callers, stream
<1>2. ReadyInv'
  BY <1>1 DEF ReadyInv
<1>3. Zipping' => Zipping
  BY <1>1 DEF Zipping, Distinct, Args
<1>4. ZipBody => ZipBody'
  BY <1>1 DEF ZipBody, StartTypes, StorageInv, EndInv, PlaceOf, Drawn, Value, ZipTuple, Args
<1> QED BY <1>2, <1>3, <1>4 DEF ZipInv

LEMMA ZipStep ==
    ASSUME FuzzInv, ReadyInv, ZipInv, [Next]_vars
    PROVE  (ReadyInv /\ ZipInv)'
<1> USE DEF FuzzInv
<1>1. ASSUME NEW how, Leave(how) PROVE (ReadyInv /\ ZipInv)'
  <2>1. UNCHANGED <<callers, stream>> /\ ~Looping' /\ pc' \notin {"construct", "start"}
    BY <1>1 DEF Leave, Looping
  <2> QED BY <2>1, StreamStays
<1>2. CASE Enter
  <2>1. ~Looping' /\ storage' = <<>> /\ UNCHANGED <<random, cursor>>
    BY <1>2 DEF Enter, Looping, callers
  <2> QED BY <2>1 DEF ReadyInv, ZipInv, Zipping
<1>3. CASE MakeRecorder
  <2>1. \/ \E how : Leave(how)
        \/ UNCHANGED <<callers, stream>> /\ pc = "construct" /\ pc' \in {"construct", "start"}
    BY <1>3 DEF MakeRecorder
  <2> QED BY <1>1, <2>1, StreamStays DEF Looping
<1>4. CASE StartLoops
  <2> SUFFICES ASSUME ~\E how : Leave(how) PROVE (ReadyInv /\ ZipInv)'
    BY <1>1
  <2>1. /\ pc = "start" /\ EnterLoops /\ pc' = "loops" /\ UNCHANGED callers
        /\ storage = <<>> /\ calls = <<>> /\ mode' = mode
    BY <1>4 DEF StartLoops, EnterLoops, ReadyInv, TodoInv
  <2>2. CASE mode = "grid" /\ arg # <<>>
    <3>1. arg[1] \in Objects
      <4>1. 1 \in 1..Len(arg)
        BY <2>2, EmptySeq DEF StreamTypes
      <4> QED BY <4>1, ElementOfSeq DEF StreamTypes
    <3>2. Reset(arg[1])
      BY <2>1, <2>2 DEF EnterLoops
    <3>3. CursorsFit'
      BY <2>1, <3>1, <3>2, CursorSteps DEF ReadyInv, CursorsFit
    <3> QED BY <2>1, <2>2, <3>3 DEF ReadyInv, CursorsFit, ZipInv, Zipping
  <2>3. CASE ~(mode = "grid" /\ arg # <<>>)
    <3>1. ReadyInv'
      BY <2>1, <2>3 DEF ReadyInv, EnterLoops, callers
    <3>2. mode = "zip" => ZipBody'
      BY <2>1, ZipBegins
    <3> QED BY <2>1, <3>1, <3>2 DEF ZipInv, Zipping
  <2> QED BY <2>2, <2>3
<1>5. CASE StartReplay
  <2> SUFFICES ASSUME ~\E how : Leave(how) PROVE (ReadyInv /\ ZipInv)'
    BY <1>1
  <2>1. mode' = "bin" /\ pc' \in {"loops", "call"} /\ UNCHANGED <<random, cursor>>
    BY <1>5 DEF StartReplay, callers
  <2> QED BY <2>1 DEF ReadyInv, ZipInv, Zipping
<1>6. CASE Step
  <2> DEFINE o == arg[level]
  <2>1. /\ pc = "loops" /\ pc' = "loops" /\ level \in Args /\ UNCHANGED callers
        /\ ((Exhausted(o) /\ Exhaust(o)) \/ (~Exhausted(o) /\ Draw(o))) /\ mode' = mode /\ o \in Objects
    BY <1>6, ArgIs DEF Step, Loops, Drawing, Draw, Exhaust
  <2>2. CursorsFit'
    <3>1. CASE Reset(o) \/ Draw(o)
      BY <2>1, <3>1, CursorSteps DEF ReadyInv, CursorsFit
    <3>2. CASE UNCHANGED cursor
      BY <2>1, <3>2 DEF CursorsFit, ReadyInv, callers
    <3> QED BY <2>1, <3>1, <3>2 DEF Exhaust
  <2>3. Zipping => ZipBody'
    BY <2>1, ZipDraws, ZipExhausts DEF ZipInv
  <2>4. Zipping' => Zipping
    BY <2>1 DEF Zipping, Looping, callers, Distinct, Args
  <2> QED BY <2>1, <2>2, <2>3, <2>4 DEF ReadyInv, CursorsFit, ZipInv
<1>7. CASE Hand
  <2>1. PICK single \in BOOLEAN : NextTuple(single)
    <3>1. (isolated \/ mode = "grid") \in BOOLEAN
      OBVIOUS
    <3> QED BY <1>7, <3>1 DEF Hand
  <2>2. Zipping => ZipBody'
    BY <2>1, ZipHands DEF ZipInv
  <2>3. pc = "loops" /\ pc' \in {"loops", "call"} /\ UNCHANGED <<callers, cursor, mode>>
    BY <1>7, <2>1 DEF Hand, NextTuple
  <2>4. Zipping' => Zipping
    BY <2>3 DEF Zipping, Looping, callers, Distinct, Args
  <2> QED BY <2>2, <2>3, <2>4 DEF ReadyInv, ZipInv, callers
<1>8. CASE Call
  BY <1>8, StreamStays DEF Call, Looping
<1>9. CASE CallRecords
  <2>1. (\E how : Leave(how)) \/ (UNCHANGED <<callers, stream>> /\ pc = "record" /\ pc' \in {"record", "loops"})
    BY <1>9 DEF CallRecords
  <2> QED BY <1>1, <2>1, StreamStays DEF Looping
<1>10. CASE Take \/ ConsumerRecords \/ ConsumerEnds
  <2>1. UNCHANGED <<callers, stream, pc>>
    BY <1>10 DEF Take, ConsumerRecords, ConsumerEnds
  <2> QED BY <2>1, StreamStays DEF Looping
<1>11. CASE Finish
  <2>1. (\E how : Leave(how)) \/ UNCHANGED <<callers, stream, pc>>
    BY <1>11 DEF Finish
  <2> QED BY <1>1, <2>1, StreamStays DEF Looping
<1>12. CASE Die
  <2>1. ~Looping' /\ pc' = "outside" /\ random' = random /\ cursor' = [o \in Objects |-> 0]
    BY <1>12 DEF Die, Looping, callers
  <2>2. 0 < Items
    BY StreamAssumption
  <2> QED BY <2>1, <2>2 DEF ReadyInv, ZipInv, Zipping
<1>13. CASE UNCHANGED vars
  BY <1>13, StreamStays DEF vars, Looping
<1> QED BY <1>2, <1>3, <1>4, <1>5, <1>6, <1>7, <1>8, <1>9, <1>10, <1>11, <1>12, <1>13 DEF Next, Progress

LEMMA ZipInductive == Spec => [](FuzzInv /\ ReadyInv /\ ZipInv)
<1>1. Init => ReadyInv /\ ZipInv
  <2> SUFFICES ASSUME Init PROVE ReadyInv /\ ZipInv
    OBVIOUS
  <2>1. 0 < Items
    BY StreamAssumption
  <2> QED BY <2>1 DEF Init, StreamInit, ReadyInv, ZipInv, Zipping, Looping
<1>2. FuzzInv /\ ReadyInv /\ ZipInv /\ [Next]_vars => (ReadyInv /\ ZipInv)'
  BY ZipStep
<1> QED BY <1>1, <1>2, FuzzInductive, PTL DEF Spec

-----------------------------------------------------------------------------
(* When the loops end there is one call for each value of the provider that *)
(* had least left.                                                          *)
LEMMA ZipEnds ==
    ASSUME StreamTypes, Zipping, ZipBody, level = 0
    PROVE  Len(calls) = ZipLength
<1> DEFINE n == Len(calls)
           rest == [p \in Args |-> size[arg[p]] - start.idx[arg[p]]]
           left0 == [p \in Args |-> Max({rest[p], 0})]
<1>1. n \in Nat /\ \A p \in Args : /\ rest[p] \in Int /\ idx[arg[p]] \in Nat /\ start.idx[arg[p]] \in Nat
                                   /\ size[arg[p]] \in Nat
  <2>1. n \in Nat
    BY LenProperties DEF StreamTypes
  <2>2. ASSUME NEW p \in Args
        PROVE  idx[arg[p]] \in Nat /\ start.idx[arg[p]] \in Nat /\ size[arg[p]] \in Nat
    <3>1. arg[p] \in Objects
      BY ArgIs
    <3> QED BY <3>1 DEF StreamTypes, ZipBody, StartTypes
  <2>3. \A p \in Args : rest[p] \in Int
    BY <2>2
  <2> QED BY <2>1, <2>2, <2>3
<1>2. ASSUME NEW a \in Int PROVE Max({a, 0}) = IF a >= 0 THEN a ELSE 0
  <2>1. \A x : x \in {a, 0} /\ (\A y \in {a, 0} : x >= y) => x = IF a >= 0 THEN a ELSE 0
    OBVIOUS
  <2>2. \E x \in {a, 0} : \A y \in {a, 0} : x >= y
    OBVIOUS
  <2> DEFINE m == CHOOSE x \in {a, 0} : \A y \in {a, 0} : x >= y
  <2>3. m \in {a, 0} /\ \A y \in {a, 0} : m >= y
    BY <2>2
  <2> HIDE DEF m
  <2>4. m = IF a >= 0 THEN a ELSE 0
    BY <2>1, <2>3
  <2> QED BY <2>4 DEF Max, m
<1>3. \A p \in Args : left0[p] = IF rest[p] >= 0 THEN rest[p] ELSE 0
  BY <1>1, <1>2
<1>4. \A p \in Args : left0[p] \in Nat /\ left0[p] >= n
  <2> SUFFICES ASSUME NEW p \in Args PROVE left0[p] \in Nat /\ left0[p] >= n
    OBVIOUS
  <2>1. PlaceOf(p)
    BY DEF ZipBody
  <2>2. n = 0 \/ rest[p] >= n
    BY <1>1, <2>1 DEF PlaceOf, Drawn
  <2> QED BY <1>1, <1>3, <2>2
<1>5. PICK q \in Args : Drawn(q) = n /\ idx[arg[q]] >= size[arg[q]]
  BY DEF ZipBody, EndInv
<1>6. left0[q] = n
  <2>1. rest[q] <= n /\ rest[q] \in Int /\ n \in Nat
    BY <1>1, <1>5 DEF Drawn
  <2>2. left0[q] = (IF rest[q] >= 0 THEN rest[q] ELSE 0) /\ left0[q] >= n
    BY <1>3, <1>4
  <2> HIDE DEF left0, rest, n
  <2> QED BY <2>1, <2>2
<1> DEFINE S == {Max({size[arg[p]] - start.idx[arg[p]], 0}) : p \in Args}
<1>7. S = {left0[p] : p \in Args}
  OBVIOUS
<1> HIDE DEF left0
<1>8. n \in S /\ \A y \in S : y \in Nat /\ n <= y
  BY <1>4, <1>6, <1>7
<1> HIDE DEF S
<1>9. \A x \in S : (\A y \in S : x <= y) => x = n
  BY <1>1, <1>8
<1>10. (CHOOSE x \in S : \A y \in S : x <= y) = n
  BY <1>8, <1>9
<1> QED BY <1>10 DEF ZipLength, Min, S

(* A zip hands out exactly the tuples of its reference, and ends after as   *)
(* many as the provider with least left has values, in whatever state an    *)
(* earlier run, or an earlier zip of this process, left the providers.      *)
THEOREM ZipIsInStep == Spec => []ZipInStep
<1>1. FuzzInv /\ ReadyInv /\ ZipInv => ZipInStep
  <2> SUFFICES ASSUME FuzzInv, ZipInv, mode = "zip", Distinct, arg # <<>>, pc \in {"loops", "call"}
               PROVE  /\ \A j \in DOMAIN calls : calls[j] = ZipTuple(j)
                      /\ level = 0 =>
                          /\ Len(calls) = ZipLength
                          /\ \A p \in Args : idx[arg[p]] - start.idx[arg[p]] - Len(calls) \in {0, 1}
    BY DEF ZipInStep
  <2>1. Zipping /\ ZipBody /\ StreamTypes
    BY DEF Zipping, Looping, ZipInv, FuzzInv
  <2>2. \A p \in Args : idx[arg[p]] - start.idx[arg[p]] - Len(calls) \in {0, 1}
    <3> SUFFICES ASSUME NEW p \in Args PROVE Drawn(p) - Len(calls) \in {0, 1}
      BY DEF Drawn
    <3>1. Drawn(p) \in {Len(calls), Len(calls) + 1} /\ Len(calls) \in Nat
      BY <2>1, LenProperties DEF ZipBody, PlaceOf, StreamTypes
    <3> QED BY <3>1
  <2> QED BY <2>1, <2>2, ZipEnds DEF ZipBody
<1> QED BY <1>1, ZipInductive, PTL

-----------------------------------------------------------------------------
(* The numbers of a grid *)

LEMMA LeastNat ==
    ASSUME NEW T, T \subseteq Nat, T # {}
    PROVE  \E x \in T : \A y \in T : ~(y < x)
<1> DEFINE R == OpToRel(<, Nat)
<1>1. IsWellFoundedOn(R, Nat)
  BY NatLessThanWellFounded
<1>2. R = {s \in Nat \X Nat : s[1] < s[2]}
  BY DEF OpToRel
<1> HIDE DEF R
<1>3. PICK x \in T : \A y \in T : ~(<<y, x>> \in R)
  BY <1>1, WFMin
<1> QED BY <1>2, <1>3

(* Combinations is defined by recursion from the last argument: there is a  *)
(* function with its equation on the last k + 1 places, for each k.         *)
LEMMA CombinationsIs ==
    ASSUME StreamTypes
    PROVE  /\ Combinations \in [1..(Len(arg) + 1) -> Nat] /\ Combinations[Len(arg) + 1] = 1
           /\ \A p \in Args : Combinations[p] = size[arg[p]] * Combinations[p + 1]
<1> DEFINE n == Len(arg)
           Step1(f, p) == IF p > n THEN 1 ELSE size[arg[p]] * f[p + 1]
           From(k) == (n + 1 - k)..(n + 1)
           Good(k) == \E f \in [From(k) -> Nat] : \A p \in From(k) : f[p] = Step1(f, p)
           T == {k \in 0..n : ~Good(k)}
<1>1. n \in Nat /\ Args = 1..n /\ \A p \in 1..n : size[arg[p]] \in Nat
  <2>1. n \in Nat /\ Args = 1..n
    BY LenProperties DEF StreamTypes, Args
  <2>2. \A p \in 1..n : arg[p] \in Objects
    BY <2>1, ArgIs
  <2> QED BY <2>1, <2>2 DEF StreamTypes
<1> HIDE DEF n
<1>2. Good(0)
  <2>1. From(0) = {n + 1} /\ n + 1 > n
    BY <1>1
  <2>2. \A f : Step1(f, n + 1) = 1
    BY <2>1
  <2> DEFINE f == [p \in {n + 1} |-> 1]
  <2>3. f \in [{n + 1} -> Nat] /\ f[n + 1] = 1
    OBVIOUS
  <2> HIDE DEF f, Step1, From
  <2> QED BY <2>1, <2>2, <2>3
<1>3. ASSUME NEW k \in 1..n, Good(k - 1) PROVE Good(k)
  <2> DEFINE m == n + 1 - k
  <2>1. /\ From(k) = From(k - 1) \cup {m} /\ m \notin From(k - 1) /\ m \in 1..n /\ m + 1 \in From(k - 1)
        /\ \A p \in From(k - 1) : ~(p > n) => p + 1 \in From(k - 1)
    BY <1>1
  <2>2. PICK g \in [From(k - 1) -> Nat] : \A p \in From(k - 1) : g[p] = Step1(g, p)
    BY <1>3
  <2> DEFINE new == size[arg[m]] * g[m + 1]
             f == [p \in From(k) |-> IF p = m THEN new ELSE g[p]]
  <2>3. new \in Nat
    <3>1. g[m + 1] \in Nat /\ size[arg[m]] \in Nat
      BY <1>1, <2>1, <2>2
    <3> QED BY <3>1
  <2>4. \A p \in From(k - 1) : p # m /\ p \in From(k)
    BY <2>1
  <2> HIDE DEF From, m
  <2>5. f \in [From(k) -> Nat] /\ f[m] = new /\ \A p \in From(k - 1) : f[p] = g[p]
    <3>1. m \in From(k)
      BY <2>1
    <3> HIDE DEF new
    <3> QED BY <2>1, <2>2, <2>3, <2>4, <3>1
  <2>6. f[m] = Step1(f, m)
    <3>1. ~(m > n) /\ f[m + 1] = g[m + 1]
      <4>1. ~(m > n)
        BY <1>1, <2>1
      <4> HIDE DEF f
      <4> QED BY <2>1, <2>5, <4>1
    <3> HIDE DEF f
    <3> QED BY <2>5, <3>1
  <2>7. \A p \in From(k - 1) : f[p] = Step1(f, p)
    <3> HIDE DEF f
    <3> QED BY <2>1, <2>2, <2>5
  <2> HIDE DEF f, Step1
  <2>8. \A p \in From(k) : f[p] = Step1(f, p)
    BY <2>1, <2>6, <2>7
  <2> QED BY <2>5, <2>8
<1>4. T = {}
  <2> SUFFICES ASSUME T # {} PROVE FALSE
    OBVIOUS
  <2>1. PICK k \in T : \A y \in T : ~(y < k)
    <3>1. T \subseteq Nat
      BY <1>1
    <3> HIDE DEF T
    <3> QED BY <3>1, LeastNat
  <2>2. k \in 0..n /\ ~Good(k)
    OBVIOUS
  <2> HIDE DEF Good
  <2>3. k \in 1..n /\ k - 1 \in 0..n /\ k - 1 < k
    BY <1>1, <1>2, <2>2
  <2>4. Good(k - 1)
    BY <2>1, <2>3
  <2> QED BY <1>3, <2>2, <2>3, <2>4
<1>5. \E f \in [1..(n + 1) -> Nat] : f = [p \in 1..(n + 1) |-> Step1(f, p)]
  <2>1. Good(n)
    <3> HIDE DEF Good
    <3> QED BY <1>1, <1>4
  <2>2. From(n) = 1..(n + 1)
    BY <1>1
  <2> HIDE DEF Step1, From
  <2> QED BY <2>1, <2>2
<1>6. Combinations = CHOOSE f : f = [p \in 1..(n + 1) |-> Step1(f, p)]
  BY DEF Combinations, n
<1> DEFINE C == CHOOSE f : f = [p \in 1..(n + 1) |-> Step1(f, p)]
<1>7. C = [p \in 1..(n + 1) |-> Step1(C, p)]
  <2> HIDE DEF Step1
  <2> QED BY <1>5
<1> HIDE DEF C
<1>8. /\ DOMAIN C = 1..(n + 1) /\ C[n + 1] = 1
      /\ \A p \in 1..n : C[p] = size[arg[p]] * C[p + 1]
  <2>1. /\ \A p \in 1..(n + 1) : C[p] = Step1(C, p)
        /\ DOMAIN C = 1..(n + 1)
    <3> HIDE DEF Step1
    <3> QED BY <1>7
  <2>2. n + 1 \in 1..(n + 1) /\ n + 1 > n /\ \A p \in 1..n : p \in 1..(n + 1) /\ ~(p > n)
    BY <1>1
  <2> QED BY <2>1, <2>2
<1>9. \A k \in 0..n : C[n + 1 - k] \in Nat
  <2> DEFINE U == {k \in 0..n : C[n + 1 - k] \notin Nat}
  <2> SUFFICES ASSUME U # {} PROVE FALSE
    OBVIOUS
  <2>1. PICK k \in U : \A y \in U : ~(y < k)
    <3>1. U \subseteq Nat
      BY <1>1
    <3> HIDE DEF U
    <3> QED BY <3>1, LeastNat
  <2>2. k \in 0..n /\ C[n + 1 - k] \notin Nat
    OBVIOUS
  <2>3. CASE k = 0
    <3>1. n + 1 - 0 = n + 1
      BY <1>1
    <3> QED BY <1>8, <2>2, <2>3, <3>1
  <2>4. CASE k # 0
    <3> DEFINE m == n + 1 - k
    <3>1. /\ k - 1 \in 0..n /\ k - 1 < k /\ m \in 1..n /\ n + 1 - (k - 1) = m + 1
      BY <1>1, <2>2, <2>4
    <3>2. C[m + 1] \in Nat
      BY <2>1, <3>1
    <3>3. C[m] = size[arg[m]] * C[m + 1] /\ size[arg[m]] \in Nat
      BY <1>1, <1>8, <3>1
    <3> QED BY <2>2, <3>2, <3>3
  <2> QED BY <2>3, <2>4
<1>10. C \in [1..(n + 1) -> Nat]
  <2>1. \A p \in 1..(n + 1) : n + 1 - p \in 0..n /\ n + 1 - (n + 1 - p) = p
    BY <1>1
  <2>2. \A p \in 1..(n + 1) : C[p] \in Nat
    BY <1>9, <2>1
  <2>3. C = [p \in 1..(n + 1) |-> C[p]]
    <3> HIDE DEF Step1
    <3> QED BY <1>7
  <2> QED BY <2>2, <2>3
<1>11. Combinations = C
  BY <1>6 DEF C
<1> QED BY <1>1, <1>8, <1>10, <1>11 DEF n

LEMMA CombinationsStay ==
    ASSUME UNCHANGED callers
    PROVE  Combinations' = Combinations
  BY DEF Combinations, callers

LEMMA Distribute ==
    ASSUME NEW a \in Int, NEW b \in Int, NEW c \in Int
    PROVE  (a + b) * c = a * c + b * c
  OBVIOUS

LEMMA Regroup ==
    ASSUME NEW a \in Int, NEW b \in Int, NEW c \in Int
    PROVE  (a * b) * c = a * (b * c)
  OBVIOUS

LEMMA Monotone ==
    ASSUME NEW a \in Int, NEW b \in Int, NEW c \in Nat, a <= b
    PROVE  a * c <= b * c
  OBVIOUS

(* One more value after r prefixes, of s values, with m tuples each. *)
LEMMA Deeper ==
    ASSUME NEW r \in Nat, NEW s \in Nat, NEW m \in Nat, NEW i \in Nat
    PROVE  (r * s + i) * m = r * (s * m) + i * m
<1>1. (r * s + i) * m = (r * s) * m + i * m
  BY Distribute
<1>2. (r * s) * m = r * (s * m)
  BY Regroup
<1> QED BY <1>1, <1>2

(* The tuples of a prefix lie between those of the prefix it extends. *)
LEMMA Within ==
    ASSUME NEW r \in Nat, NEW s \in Nat, NEW m \in Nat, NEW i \in 0..(s - 1)
    PROVE  /\ r * (s * m) <= (r * s + i) * m
           /\ ((r * s + i) + 1) * m <= (r + 1) * (s * m)
<1>1. (r * s + i) * m = r * (s * m) + i * m /\ i * m \in Nat /\ s * m \in Nat /\ r * (s * m) \in Nat
  BY Deeper
<1>2. ((r * s + i) + 1) * m = r * (s * m) + (i + 1) * m
  <2>1. (r * s + (i + 1)) * m = r * (s * m) + (i + 1) * m
    BY Deeper
  <2>2. r * s \in Nat
    OBVIOUS
  <2>3. (r * s + i) + 1 = r * s + (i + 1)
    BY <2>2
  <2> QED BY <2>1, <2>3
<1>3. (i + 1) * m <= s * m
  <2>1. i + 1 \in Int /\ s \in Int /\ i + 1 <= s
    OBVIOUS
  <2> QED BY <2>1, Monotone
<1>4. (r + 1) * (s * m) = r * (s * m) + s * m
  <2>1. (r + 1) * (s * m) = r * (s * m) + 1 * (s * m)
    BY <1>1, Distribute
  <2>2. 1 * (s * m) = s * m
    BY <1>1
  <2> QED BY <2>1, <2>2
<1>5. (i + 1) * m \in Nat
  OBVIOUS
<1> QED BY <1>1, <1>2, <1>3, <1>4, <1>5

LEMMA DivIs ==
    ASSUME NEW m \in Nat \ {0}, NEW r \in Nat, NEW a \in Nat, r * m <= a, a < (r + 1) * m
    PROVE  a \div m = r
<1> DEFINE q == a \div m
           b == a % m
<1>1. q \in Nat /\ b \in 0..(m - 1) /\ a = m * q + b
  BY ModIs
<1> HIDE DEF q, b
<1>2. CASE q < r
  <2>1. (q + 1) * m <= r * m
    BY <1>1, <1>2, Monotone
  <2>2. (q + 1) * m = m * q + m
    BY <1>1
  <2>3. m * q \in Nat /\ r * m \in Nat
    BY <1>1
  <2> QED BY <1>1, <2>1, <2>2, <2>3
<1>3. CASE q > r
  <2>1. (r + 1) * m <= q * m
    BY <1>1, <1>3, Monotone
  <2>2. q * m = m * q /\ m * q \in Nat /\ (r + 1) * m \in Nat
    BY <1>1
  <2> QED BY <1>1, <2>1, <2>2
<1>4. q = r
  BY <1>1, <1>2, <1>3
<1> QED BY <1>4 DEF q

-----------------------------------------------------------------------------
(* How many calls a grid has made, from the places its loops are at.  There *)
(* are n arguments; argument p has z[p] values, of which g[p] were drawn    *)
(* since its loop was entered; c[p] tuples can be made of the arguments     *)
(* from p on, and the loop being drawn from is l.                           *)

Table(n, z, c) ==
    /\ n \in Nat /\ z \in [1..n -> Nat] /\ c \in [1..(n + 1) -> Nat]
    /\ c[n + 1] = 1 /\ \A p \in 1..n : c[p] = z[p] * c[p + 1]

Placed(n, z, g, l) ==
    /\ l \in 0..(n + 1) /\ g \in [1..n -> Nat]
    /\ \A p \in 1..n : p < l => g[p] \in 1..z[p]
    /\ l \in 1..n => g[l] <= z[l]

(* r[p]: how many values of the arguments before p came before this one.    *)
Ranks(r, z, c, g, l) ==
    /\ r \in [1..l -> Nat] /\ r[1] = 0
    /\ \A p \in 1..(l - 1) : r[p + 1] = r[p] * z[p] + (g[p] - 1)
    /\ \A p, q \in 1..l :
          p <= q => /\ r[p] * c[p] <= r[q] * c[q]
                    /\ (r[q] + 1) * c[q] <= (r[p] + 1) * c[p]

Count(r, n, c, g, l) == IF l <= n THEN r[l] * c[l] + g[l] * c[l + 1] ELSE r[l]

Counted(k, n, z, c, g, l) ==
    /\ Placed(n, z, g, l)
    /\ IF l = 0 THEN k = c[1]
                ELSE \E r : Ranks(r, z, c, g, l) /\ k = Count(r, n, c, g, l)

LEMMA CountBegins ==
    ASSUME NEW n, NEW z, NEW c, NEW g \in [1..n -> Nat], Table(n, z, c),
           n # 0 => g[1] = 0
    PROVE  Counted(0, n, z, c, g, 1)
<1>1. /\ n \in Nat /\ c[1] \in Nat /\ (n # 0 => 1 \in 1..n /\ z[1] \in Nat /\ c[2] \in Nat)
      /\ 1..(1 - 1) = {} /\ 1 \in 0..(n + 1) /\ (1 <= n <=> n # 0)
  BY DEF Table
<1>2. Placed(n, z, g, 1)
  <2>1. \A p \in 1..n : ~(p < 1)
    OBVIOUS
  <2> QED BY <1>1, <2>1 DEF Placed
<1> DEFINE r == [p \in 1..1 |-> 0]
<1>3. r \in [1..1 -> Nat] /\ r[1] = 0
  OBVIOUS
<1> HIDE DEF r
<1>4. Ranks(r, z, c, g, 1)
  <2>1. \A p, q \in 1..1 : p = 1 /\ q = 1
    OBVIOUS
  <2>2. r[1] * c[1] \in Nat /\ (r[1] + 1) * c[1] \in Nat
    BY <1>1, <1>3
  <2>3. r[1] * c[1] <= r[1] * c[1] /\ (r[1] + 1) * c[1] <= (r[1] + 1) * c[1]
    BY <2>2
  <2> QED BY <1>1, <1>3, <2>1, <2>3 DEF Ranks
<1>5. 0 = Count(r, n, c, g, 1)
  <2>1. n # 0 => 0 * c[1] + 0 * c[2] = 0
    BY <1>1
  <2> QED BY <1>1, <1>3, <2>1 DEF Count
<1> QED BY <1>2, <1>4, <1>5 DEF Counted

(* A value of argument l is drawn, and the next loop is entered. *)
LEMMA CountDraws ==
    ASSUME NEW n, NEW z, NEW c, NEW g, NEW h \in [1..n -> Nat], NEW l \in 1..n, NEW k, Table(n, z, c),
           Counted(k, n, z, c, g, l), g[l] < z[l],
           \A p \in 1..(l - 1) : h[p] = g[p], h[l] = g[l] + 1,
           l + 1 \in 1..n => h[l + 1] = 0
    PROVE  Counted(k, n, z, c, h, l + 1)
<1>1. /\ n \in Nat /\ z \in [1..n -> Nat] /\ c \in [1..(n + 1) -> Nat] /\ c[n + 1] = 1
      /\ l # 0 /\ l \in Nat /\ (l + 1) - 1 = l /\ l + 1 \in 1..(n + 1)
  <2>1. /\ n \in Nat /\ z \in [1..n -> Nat] /\ c \in [1..(n + 1) -> Nat] /\ c[n + 1] = 1
    BY DEF Table
  <2>2. l # 0 /\ l \in Nat /\ (l + 1) - 1 = l /\ l + 1 \in 1..(n + 1)
    BY <2>1
  <2> QED BY <2>1, <2>2
<1>2. Placed(n, z, g, l)
  BY DEF Counted
<1>3. PICK r : Ranks(r, z, c, g, l) /\ k = Count(r, n, c, g, l)
  BY <1>1 DEF Counted
<1>4. /\ r \in [1..l -> Nat] /\ r[1] = 0 /\ k = r[l] * c[l] + g[l] * c[l + 1]
      /\ c[l] = z[l] * c[l + 1]
  <2>1. r \in [1..l -> Nat] /\ r[1] = 0
    BY <1>3 DEF Ranks
  <2>2. c[l] = z[l] * c[l + 1]
    BY DEF Table
  <2>3. l <= n
    BY <1>1
  <2>4. k = r[l] * c[l] + g[l] * c[l + 1]
    BY <1>3, <2>3 DEF Count
  <2> QED BY <2>1, <2>2, <2>4
<1>5. /\ z[l] \in Nat /\ c[l] \in Nat /\ c[l + 1] \in Nat /\ r[l] \in Nat /\ g[l] \in 0..(z[l] - 1)
  <2>1. l \in 1..(n + 1) /\ l \in 1..l
    BY <1>1
  <2>2. g[l] \in Nat
    BY <1>2 DEF Placed
  <2>3. z[l] \in Nat /\ c[l] \in Nat /\ c[l + 1] \in Nat
    BY <1>1, <2>1
  <2>4. r[l] \in Nat
    BY <1>4, <2>1
  <2> QED BY <2>2, <2>3, <2>4
<1> DEFINE new == r[l] * z[l] + g[l]
           t == [p \in 1..(l + 1) |-> IF p = l + 1 THEN new ELSE r[p]]
<1>6. new \in Nat
  <2>1. \A a, b, d \in Nat : a * b + d \in Nat
    OBVIOUS
  <2>2. g[l] \in Nat
    BY <1>5
  <2> QED BY <1>5, <2>1, <2>2
<1>7. new * c[l + 1] = k
  <2>1. g[l] \in Nat
    BY <1>5
  <2>2. (r[l] * z[l] + g[l]) * c[l + 1] = r[l] * (z[l] * c[l + 1]) + g[l] * c[l + 1]
    BY <1>5, <2>1, Deeper
  <2> QED BY <1>4, <2>2
<1>8. /\ r[l] * c[l] <= new * c[l + 1]
      /\ (new + 1) * c[l + 1] <= (r[l] + 1) * c[l]
  BY <1>4, <1>5, Within
<1> HIDE DEF new
<1>9. t \in [1..(l + 1) -> Nat] /\ t[l + 1] = new /\ \A p \in 1..l : t[p] = r[p]
  <2>1. \A p \in 1..l : p \in 1..(l + 1) /\ p # l + 1
    OBVIOUS
  <2>2. \A p \in 1..(l + 1) : p \in 1..l \/ p = l + 1
    OBVIOUS
  <2>3. l + 1 \in 1..(l + 1)
    BY <1>1
  <2> QED BY <1>4, <1>6, <2>1, <2>2, <2>3
<1> HIDE DEF t
<1>10. Placed(n, z, h, l + 1)
  <2>1. ASSUME NEW p \in 1..n, p < l + 1 PROVE h[p] \in 1..z[p]
    <3>1. CASE p = l
      BY <1>5, <3>1
    <3>2. CASE p # l
      <4>1. p \in 1..(l - 1) /\ p < l
        BY <1>1, <2>1, <3>2
      <4> QED BY <1>2, <4>1 DEF Placed
    <3> QED BY <3>1, <3>2
  <2>2. l + 1 \in 1..n => h[l + 1] <= z[l + 1]
    <3>1. l + 1 \in 1..n => z[l + 1] \in Nat
      BY <1>1
    <3> QED BY <3>1
  <2> QED BY <1>1, <2>1, <2>2 DEF Placed
<1>11. Ranks(t, z, c, h, l + 1)
  <2>1. t[1] = 0
    BY <1>1, <1>4, <1>9
  <2>2. ASSUME NEW p \in 1..l PROVE t[p + 1] = t[p] * z[p] + (h[p] - 1)
    <3>1. CASE p = l
      <4>1. t[l] = r[l] /\ h[l] - 1 = g[l]
        <5>1. l \in 1..l /\ g[l] \in Nat
          BY <1>1, <1>5
        <5>2. (g[l] + 1) - 1 = g[l]
          BY <5>1
        <5> QED BY <1>9, <5>1, <5>2
      <4> QED BY <1>9, <3>1, <4>1 DEF new
    <3>2. CASE p # l
      <4>1. p \in 1..(l - 1) /\ p + 1 \in 1..l
        BY <1>1, <3>2
      <4>2. r[p + 1] = r[p] * z[p] + (g[p] - 1)
        BY <1>3, <4>1 DEF Ranks
      <4> QED BY <1>9, <4>1, <4>2
    <3> QED BY <3>1, <3>2
  <2>3. ASSUME NEW p \in 1..(l + 1), NEW q \in 1..(l + 1), p <= q
        PROVE  t[p] * c[p] <= t[q] * c[q] /\ (t[q] + 1) * c[q] <= (t[p] + 1) * c[p]
    <3>1. CASE q \in 1..l
      <4>1. p \in 1..l
        BY <1>1, <2>3, <3>1
      <4> QED BY <1>3, <1>9, <2>3, <3>1, <4>1 DEF Ranks
    <3>2. CASE q = l + 1 /\ p = l + 1
      <4>1. new * c[l + 1] \in Nat /\ (new + 1) * c[l + 1] \in Nat
        BY <1>5, <1>6
      <4>2. new * c[l + 1] <= new * c[l + 1] /\ (new + 1) * c[l + 1] <= (new + 1) * c[l + 1]
        BY <4>1
      <4> QED BY <1>9, <3>2, <4>2
    <3>3. CASE q = l + 1 /\ p \in 1..l
      <4>1. /\ r[p] * c[p] <= r[l] * c[l] /\ (r[l] + 1) * c[l] <= (r[p] + 1) * c[p]
        <5>1. l \in 1..l /\ p <= l
          BY <1>1, <3>3
        <5> QED BY <1>3, <3>3, <5>1 DEF Ranks
      <4>2. r[p] \in Nat /\ c[p] \in Nat
        <5>1. p \in 1..(n + 1)
          BY <1>1, <3>3
        <5> QED BY <1>1, <1>4, <3>3, <5>1
      <4>3. /\ r[p] * c[p] \in Nat /\ (r[p] + 1) * c[p] \in Nat /\ r[l] * c[l] \in Nat
            /\ (r[l] + 1) * c[l] \in Nat /\ new * c[l + 1] \in Nat /\ (new + 1) * c[l + 1] \in Nat
        <5>1. \A a, b \in Nat : a * b \in Nat /\ (a + 1) * b \in Nat
          OBVIOUS
        <5> QED BY <1>5, <1>6, <4>2, <5>1
      <4>4. r[p] * c[p] <= new * c[l + 1] /\ (new + 1) * c[l + 1] <= (r[p] + 1) * c[p]
        BY <1>8, <4>1, <4>3
      <4> QED BY <1>9, <3>3, <4>4
    <3> QED BY <1>1, <3>1, <3>2, <3>3
  <2> QED BY <1>1, <1>9, <2>1, <2>2, <2>3 DEF Ranks
<1>12. k = Count(t, n, c, h, l + 1)
  <2>1. CASE l + 1 <= n
    <3>1. l + 1 \in 1..n /\ l + 1 + 1 \in 1..(n + 1)
      BY <1>1, <2>1
    <3>2. h[l + 1] = 0 /\ c[l + 1 + 1] \in Nat
      BY <1>1, <3>1
    <3>3. 0 * c[l + 1 + 1] = 0 /\ new * c[l + 1] \in Nat
      BY <1>5, <1>6, <3>2
    <3>4. new * c[l + 1] + 0 = new * c[l + 1]
      BY <3>3
    <3> QED BY <1>7, <1>9, <2>1, <3>2, <3>3, <3>4 DEF Count
  <2>2. CASE ~(l + 1 <= n)
    <3>1. l + 1 = n + 1
      BY <1>1, <2>2
    <3>2. new * 1 = new
      BY <1>6
    <3> QED BY <1>1, <1>7, <1>9, <2>2, <3>1, <3>2 DEF Count
  <2> QED BY <2>1, <2>2
<1>13. l + 1 # 0
  BY <1>1
<1> QED BY <1>10, <1>11, <1>12, <1>13 DEF Counted

(* All tuples of the prefix before l are over: the loop before l goes on. *)
LEMMA CountBack ==
    ASSUME NEW n, NEW z, NEW c, NEW g, NEW h \in [1..n -> Nat], NEW l \in 2..(n + 1), NEW r,
           Table(n, z, c), Placed(n, z, g, l), Ranks(r, z, c, g, l),
           \A p \in 1..(l - 1) : h[p] = g[p]
    PROVE  Counted((r[l] + 1) * c[l], n, z, c, h, l - 1)
<1> DEFINE m == l - 1
           t == [p \in 1..m |-> r[p]]
<1>1. n \in Nat /\ z \in [1..n -> Nat] /\ c \in [1..(n + 1) -> Nat] /\ g \in [1..n -> Nat]
      /\ r \in [1..l -> Nat] /\ r[1] = 0
  BY DEF Table, Placed, Ranks
<1>2. m \in Nat /\ m \in 1..n /\ m + 1 = l /\ m < l /\ m \in 1..l /\ l \in 1..l /\ m \in 1..(n + 1)
      /\ 1 \in 1..m /\ m # 0 /\ m <= n
  BY <1>1
<1> HIDE DEF m
<1>3. c[m] = z[m] * c[l] /\ g[m] \in 1..z[m] /\ r[l] = r[m] * z[m] + (g[m] - 1)
  <2>1. c[m] = z[m] * c[m + 1]
    BY <1>2 DEF Table
  <2>2. g[m] \in 1..z[m]
    BY <1>2 DEF Placed
  <2>3. r[m + 1] = r[m] * z[m] + (g[m] - 1)
    <3>1. m \in 1..(l - 1)
      BY <1>2 DEF m
    <3> QED BY <3>1 DEF Ranks
  <2> QED BY <1>2, <2>1, <2>2, <2>3
<1>4. z[m] \in Nat /\ c[l] \in Nat /\ r[m] \in Nat /\ g[m] \in Nat
  BY <1>1, <1>2
<1>5. (r[l] + 1) * c[l] = r[m] * c[m] + g[m] * c[l]
  <2>1. r[l] + 1 = r[m] * z[m] + g[m]
    <3>1. \A a, b \in Nat : a + (b - 1) + 1 = a + b
      OBVIOUS
    <3>2. r[m] * z[m] \in Nat
      BY <1>4
    <3> QED BY <1>3, <1>4, <3>1, <3>2
  <2>2. (r[m] * z[m] + g[m]) * c[l] = r[m] * (z[m] * c[l]) + g[m] * c[l]
    BY <1>4, Deeper
  <2> QED BY <1>3, <2>1, <2>2
<1>6. t \in [1..m -> Nat] /\ \A p \in 1..m : t[p] = r[p] /\ p \in 1..l
  BY <1>1, <1>2
<1> HIDE DEF t
<1>7. Placed(n, z, h, m)
  <2>1. \A p \in 1..n : p < m => h[p] = g[p] /\ p < l
    BY <1>1, <1>2 DEF m
  <2>2. m \in 1..n /\ h[m] = g[m]
    <3>1. m \in 1..(l - 1)
      BY <1>2 DEF m
    <3> QED BY <1>2, <3>1
  <2>3. h[m] <= z[m]
    BY <1>3, <1>4, <2>2
  <2>4. m \in 0..(n + 1)
    BY <1>1, <1>2
  <2> QED BY <2>1, <2>3, <2>4 DEF Placed
<1>8. Ranks(t, z, c, h, m)
  <2>1. t[1] = 0
    BY <1>1, <1>2, <1>6
  <2>2. ASSUME NEW p \in 1..(m - 1) PROVE t[p + 1] = t[p] * z[p] + (h[p] - 1)
    <3>1. p \in 1..m /\ p + 1 \in 1..m /\ p \in 1..(l - 1)
      BY <1>2
    <3>2. r[p + 1] = r[p] * z[p] + (g[p] - 1)
      BY <3>1 DEF Ranks
    <3> QED BY <1>6, <3>1, <3>2
  <2>3. \A p, q \in 1..m : p <= q => /\ t[p] * c[p] <= t[q] * c[q]
                                     /\ (t[q] + 1) * c[q] <= (t[p] + 1) * c[p]
    BY <1>6 DEF Ranks
  <2> QED BY <1>6, <2>1, <2>2, <2>3 DEF Ranks
<1>9. (r[l] + 1) * c[l] = Count(t, n, c, h, m)
  <2>1. t[m] = r[m]
    BY <1>2, <1>6
  <2>2. h[m] = g[m]
    <3>1. m \in 1..(l - 1)
      BY <1>2 DEF m
    <3> QED BY <3>1
  <2> QED BY <1>2, <1>5, <2>1, <2>2 DEF Count
<1>10. Counted((r[l] + 1) * c[l], n, z, c, h, m)
  BY <1>2, <1>7, <1>8, <1>9 DEF Counted
<1> QED BY <1>10 DEF m

(* Argument l has no value left. *)
LEMMA CountExhausts ==
    ASSUME NEW n, NEW z, NEW c, NEW g, NEW h \in [1..n -> Nat], NEW l \in 1..n, NEW k, Table(n, z, c),
           Counted(k, n, z, c, g, l), g[l] >= z[l], \A p \in 1..(l - 1) : h[p] = g[p]
    PROVE  Counted(k, n, z, c, h, l - 1)
<1>1. /\ n \in Nat /\ z \in [1..n -> Nat] /\ c \in [1..(n + 1) -> Nat] /\ c[l] = z[l] * c[l + 1]
      /\ Placed(n, z, g, l) /\ g \in [1..n -> Nat] /\ l # 0
  <2>1. /\ n \in Nat /\ z \in [1..n -> Nat] /\ c \in [1..(n + 1) -> Nat] /\ c[l] = z[l] * c[l + 1]
    BY DEF Table
  <2>2. Placed(n, z, g, l) /\ g \in [1..n -> Nat]
    BY DEF Counted, Placed
  <2>3. l # 0
    BY <2>1
  <2> QED BY <2>1, <2>2, <2>3
<1>2. PICK r : Ranks(r, z, c, g, l) /\ k = Count(r, n, c, g, l)
  BY <1>1 DEF Counted
<1>3. l <= n /\ l \in 1..(n + 1) /\ l + 1 \in 1..(n + 1) /\ l \in 1..l
  BY <1>1
<1>4. g[l] = z[l]
  <2>1. g[l] <= z[l] /\ g[l] \in Nat /\ z[l] \in Nat
    BY <1>1 DEF Placed
  <2> QED BY <2>1
<1>5. k = r[l] * c[l] + c[l] /\ r[l] \in Nat /\ c[l] \in Nat
  <2>1. k = r[l] * c[l] + g[l] * c[l + 1]
    BY <1>2, <1>3 DEF Count
  <2>2. r[l] \in Nat /\ c[l] \in Nat
    BY <1>1, <1>2, <1>3 DEF Ranks
  <2> QED BY <1>1, <1>4, <2>1, <2>2
<1>6. k = (r[l] + 1) * c[l]
  BY <1>5
<1>7. CASE l # 1
  <2>1. l \in 2..(n + 1)
    BY <1>1, <1>7
  <2>2. Counted((r[l] + 1) * c[l], n, z, c, h, l - 1)
    BY <1>1, <1>2, <2>1, CountBack
  <2> QED BY <1>6, <2>2
<1>8. CASE l = 1
  <2>1. r[1] = 0
    BY <1>2 DEF Ranks
  <2>2. k = c[1]
    <3>1. (0 + 1) * c[l] = c[l]
      BY <1>5
    <3> QED BY <1>6, <1>8, <2>1, <3>1
  <2>3. l - 1 = 0 /\ \A p \in 1..n : ~(p < 0)
    BY <1>8
  <2>4. Placed(n, z, h, 0)
    <3>1. 0 \in 0..(n + 1) /\ 0 \notin 1..n
      BY <1>1
    <3> QED BY <2>3, <3>1 DEF Placed
  <2> QED BY <2>2, <2>3, <2>4 DEF Counted
<1> QED BY <1>7, <1>8

(* A tuple is handed over. *)
LEMMA CountHands ==
    ASSUME NEW n, NEW z, NEW c, NEW g, NEW k, Table(n, z, c), Counted(k, n, z, c, g, n + 1)
    PROVE  Counted(k + 1, n, z, c, g, n)
<1>1. /\ n \in Nat /\ z \in [1..n -> Nat] /\ c \in [1..(n + 1) -> Nat] /\ c[n + 1] = 1
      /\ Placed(n, z, g, n + 1) /\ g \in [1..n -> Nat]
  BY DEF Table, Counted, Placed
<1>2. n + 1 # 0 /\ ~(n + 1 <= n) /\ n + 1 \in 1..(n + 1) /\ (n + 1) - 1 = n
  BY <1>1
<1>3. PICK r : Ranks(r, z, c, g, n + 1) /\ k = Count(r, n, c, g, n + 1)
  BY <1>2 DEF Counted
<1>4. k = r[n + 1] /\ r[n + 1] \in Nat /\ r[1] = 0
  BY <1>2, <1>3 DEF Count, Ranks
<1>5. k + 1 = (r[n + 1] + 1) * c[n + 1]
  BY <1>1, <1>4
<1>6. CASE n # 0
  <2>1. n + 1 \in 2..(n + 1)
    BY <1>1, <1>6
  <2>2. Counted((r[n + 1] + 1) * c[n + 1], n, z, c, g, (n + 1) - 1)
    BY <1>1, <1>3, <2>1, CountBack
  <2> QED BY <1>2, <1>5, <2>2
<1>7. CASE n = 0
  <2>1. k + 1 = c[1]
    BY <1>1, <1>4, <1>7
  <2>2. Placed(n, z, g, 0)
    <3>1. 0 \in 0..(n + 1) /\ 0 \notin 1..n /\ \A p \in 1..n : ~(p < 0)
      BY <1>1
    <3> QED BY <1>1, <3>1 DEF Placed
  <2> QED BY <1>7, <2>1, <2>2 DEF Counted
<1> QED BY <1>6, <1>7

(* The places of the loops are the digits of the number of calls. *)
LEMMA CountIsProduct ==
    ASSUME NEW n, NEW z, NEW c, NEW g, NEW k, Table(n, z, c), Counted(k, n, z, c, g, n + 1),
           NEW p \in 1..n
    PROVE  (k \div c[p + 1]) % z[p] = g[p] - 1
<1>1. /\ n \in Nat /\ z \in [1..n -> Nat] /\ c \in [1..(n + 1) -> Nat] /\ c[n + 1] = 1
      /\ Placed(n, z, g, n + 1) /\ g \in [1..n -> Nat]
  BY DEF Table, Counted, Placed
<1>2. n + 1 # 0 /\ ~(n + 1 <= n) /\ n + 1 \in 1..(n + 1) /\ p + 1 \in 1..(n + 1) /\ p + 1 <= n + 1
      /\ p \in 1..((n + 1) - 1) /\ p < n + 1 /\ p \in 1..(n + 1)
  BY <1>1
<1>3. PICK r : Ranks(r, z, c, g, n + 1) /\ k = Count(r, n, c, g, n + 1)
  BY <1>2 DEF Counted
<1>4. k = r[n + 1] /\ r \in [1..(n + 1) -> Nat]
  BY <1>2, <1>3 DEF Count, Ranks
<1>5. k \in Nat /\ r[p + 1] \in Nat /\ r[p] \in Nat /\ c[p + 1] \in Nat /\ z[p] \in Nat
  BY <1>1, <1>2, <1>4
<1>6. r[p + 1] * c[p + 1] <= k /\ k + 1 <= (r[p + 1] + 1) * c[p + 1]
  <2>1. r[p + 1] * c[p + 1] <= r[n + 1] * c[n + 1]
        /\ (r[n + 1] + 1) * c[n + 1] <= (r[p + 1] + 1) * c[p + 1]
    BY <1>2, <1>3 DEF Ranks
  <2>2. k * 1 = k /\ (k + 1) * 1 = k + 1
    BY <1>5
  <2> QED BY <1>1, <1>4, <2>1, <2>2
<1>7. c[p + 1] # 0
  <2>1. (r[p + 1] + 1) * 0 = 0
    BY <1>5
  <2> QED BY <1>5, <1>6, <2>1
<1>8. k \div c[p + 1] = r[p + 1]
  <2>1. (r[p + 1] + 1) * c[p + 1] \in Nat
    BY <1>5
  <2>2. k < (r[p + 1] + 1) * c[p + 1]
    BY <1>5, <1>6, <2>1
  <2>3. c[p + 1] \in Nat \ {0}
    BY <1>5, <1>7
  <2> QED BY <1>5, <1>6, <2>2, <2>3, DivIs
<1>9. g[p] \in 1..z[p] /\ r[p + 1] = r[p] * z[p] + (g[p] - 1)
  BY <1>1, <1>2, <1>3 DEF Placed, Ranks
<1>10. r[p + 1] % z[p] = g[p] - 1
  <2>1. z[p] \in Nat \ {0} /\ g[p] - 1 \in 0..(z[p] - 1) /\ r[p] * z[p] = z[p] * r[p]
    BY <1>5, <1>9
  <2>2. (z[p] * r[p] + (g[p] - 1)) % z[p] = g[p] - 1
    BY <1>5, <2>1, ModUnique
  <2> QED BY <1>9, <2>1, <2>2
<1> QED BY <1>8, <1>10

-----------------------------------------------------------------------------
(* The steps of a grid *)

Gridding   == mode = "grid" /\ Distinct
Rewindable == \A p \in Args : arg[p] \notin random
Sizes      == [p \in Args |-> size[arg[p]]]
Got        == [p \in Args |-> idx[arg[p]]]

(* The loops around the level hold the values of the tuple being made; the  *)
(* provider of the level was rewound when its loop was entered.             *)
GridBody ==
    /\ Counted(Len(calls), Len(arg), Sizes, Combinations, Got, level)
    /\ level # 0 => Len(storage) = level - 1
    /\ Rewindable =>
          /\ \A p \in Args : p <= level => cursor[arg[p]] = idx[arg[p]] % Items
          /\ level # 0 => \A p \in 1..(level - 1) : storage[p] = (idx[arg[p]] - 1) % Items

GridInv ==
    Gridding =>
        /\ Looping => GridBody
        /\ pc = "outside" /\ left = "ok" => Len(calls) = Combinations[1]
        /\ Rewindable => \A j \in DOMAIN calls : calls[j] = ProductTuple(j)

LEMMA GridTable ==
    ASSUME StreamTypes
    PROVE  /\ Table(Len(arg), Sizes, Combinations) /\ Got \in [1..Len(arg) -> Nat]
           /\ Args = 1..Len(arg) /\ Len(arg) \in Nat
           /\ \A p \in Args : arg[p] \in Objects /\ Sizes[p] = size[arg[p]] /\ Got[p] = idx[arg[p]]
<1>1. Args = 1..Len(arg) /\ Len(arg) \in Nat
  BY LenProperties DEF StreamTypes, Args
<1>2. \A p \in Args : arg[p] \in Objects /\ size[arg[p]] \in Nat /\ idx[arg[p]] \in Nat
  <2>1. \A p \in Args : arg[p] \in Objects
    BY ArgIs
  <2> QED BY <2>1 DEF StreamTypes
<1>3. Sizes \in [1..Len(arg) -> Nat] /\ Got \in [1..Len(arg) -> Nat]
      /\ \A p \in Args : Sizes[p] = size[arg[p]] /\ Got[p] = idx[arg[p]]
  BY <1>1, <1>2 DEF Sizes, Got
<1>4. /\ Combinations \in [1..(Len(arg) + 1) -> Nat] /\ Combinations[Len(arg) + 1] = 1
      /\ \A p \in Args : Combinations[p] = size[arg[p]] * Combinations[p + 1]
  BY CombinationsIs
<1>5. Table(Len(arg), Sizes, Combinations)
  BY <1>1, <1>3, <1>4 DEF Table
<1> QED BY <1>1, <1>2, <1>3, <1>5

LEMMA GotNext ==
    ASSUME StreamTypes, UNCHANGED callers, idx' \in [Objects -> Nat]
    PROVE  /\ Got' \in [1..Len(arg) -> Nat] /\ Args' = Args /\ Sizes' = Sizes
           /\ Combinations' = Combinations /\ arg' = arg
           /\ \A p \in Args : Got'[p] = idx'[arg[p]]
<1>1. arg' = arg /\ size' = size /\ Args' = Args
  BY DEF callers, Args
<1>2. Args = 1..Len(arg) /\ \A p \in Args : arg[p] \in Objects
  BY GridTable
<1>3. Got' = [p \in 1..Len(arg) |-> idx'[arg[p]]]
  BY <1>1, <1>2 DEF Got
<1>4. \A p \in Args : idx'[arg[p]] \in Nat
  BY <1>2
<1>5. Sizes' = Sizes
  BY <1>1 DEF Sizes
<1> QED BY <1>1, <1>2, <1>3, <1>4, <1>5, CombinationsStay

LEMMA GridBegins ==
    ASSUME StreamTypes, mode = "grid", storage = <<>>, calls = <<>>, EnterLoops, UNCHANGED callers
    PROVE  GridBody'
<1>1. /\ level' = 1 /\ UNCHANGED <<arg, size, random, storage, calls>>
      /\ idx' \in [Objects -> Nat] /\ cursor' \in [Objects -> Nat] /\ Items \in Nat \ {0}
  <2>1. StreamTypes' /\ level' = 1
    BY EnterLoopsTypes
  <2> QED BY <2>1, StreamAssumption DEF StreamTypes, EnterLoops, callers
<1>2. /\ Table(Len(arg), Sizes, Combinations) /\ Args = 1..Len(arg) /\ Len(arg) \in Nat
      /\ \A p \in Args : arg[p] \in Objects
  BY GridTable
<1>3. /\ Got' \in [1..Len(arg) -> Nat] /\ Args' = Args /\ Sizes' = Sizes
      /\ Combinations' = Combinations /\ \A p \in Args : Got'[p] = idx'[arg[p]]
  BY <1>1, GotNext
<1>4. 1 \in Args => /\ idx'[arg[1]] = 0 /\ (arg[1] \notin random => cursor'[arg[1]] = 0)
  <2> SUFFICES ASSUME 1 \in Args PROVE idx'[arg[1]] = 0 /\ (arg[1] \notin random => cursor'[arg[1]] = 0)
    OBVIOUS
  <2>1. arg # <<>>
    BY <1>2
  <2>2. Reset(arg[1]) /\ arg[1] \in Objects
    BY <1>2, <2>1 DEF EnterLoops
  <2> QED BY <2>2 DEF Reset, Rewound, StreamTypes
<1>5. Counted(0, Len(arg), Sizes, Combinations, Got', 1)
  <2>1. Len(arg) # 0 => 1 \in Args
    BY <1>2
  <2>2. Len(arg) # 0 => Got'[1] = 0
    BY <1>3, <1>4, <2>1
  <2> QED BY <1>2, <1>3, <2>2, CountBegins
<1>6. Len(calls') = 0 /\ Len(storage') = 1 - 1 /\ 1..(1 - 1) = {}
  BY <1>1
<1>7. ASSUME NEW p \in Args, p <= 1, arg[p] \notin random
      PROVE  cursor'[arg[p]] = idx'[arg[p]] % Items
  <2>1. p = 1
    BY <1>2, <1>7
  <2>2. 0 \in 0..(Items - 1)
    BY <1>1
  <2>3. 0 % Items = 0
    BY <1>1, <2>2, ModSmall
  <2> QED BY <1>4, <1>7, <2>1, <2>3
<1> QED BY <1>1, <1>3, <1>5, <1>6, <1>7 DEF GridBody, Rewindable

LEMMA GridDraws ==
    ASSUME StreamTypes, Gridding, GridBody, level \in Args, ~Exhausted(arg[level]),
           Draw(arg[level]), UNCHANGED callers
    PROVE  GridBody'
<1> DEFINE o == arg[level]
<1>1. /\ Table(Len(arg), Sizes, Combinations) /\ Args = 1..Len(arg) /\ Len(arg) \in Nat
      /\ \A p \in Args : arg[p] \in Objects /\ Sizes[p] = size[arg[p]] /\ Got[p] = idx[arg[p]]
      /\ level \in 1..Len(arg) /\ o \in Objects
  BY GridTable
<1>2. /\ idx' \in [Objects -> Nat] /\ cursor' \in [Objects -> Nat] /\ storage \in Seq(Nat)
      /\ idx \in [Objects -> Nat] /\ cursor \in [Objects -> Nat] /\ Items \in Nat \ {0}
  <2>1. StreamTypes'
    BY <1>1, DrawTypes
  <2> QED BY <2>1, StreamAssumption DEF StreamTypes
<1>3. /\ Got' \in [1..Len(arg) -> Nat] /\ Args' = Args /\ Sizes' = Sizes
      /\ Combinations' = Combinations /\ \A p \in Args : Got'[p] = idx'[arg[p]]
  BY <1>2, GotNext
<1>4. \A p, q \in Args : p # q => arg[p] # arg[q]
  BY DEF Gridding, Distinct
<1>5. /\ level' = level + 1 /\ storage' = Append(storage, cursor[o])
      /\ UNCHANGED <<arg, size, random, calls>> /\ level \in Nat /\ level + 1 # 0 /\ (level + 1) - 1 = level
  BY <1>1 DEF Draw, callers
<1>6. /\ idx'[o] = idx[o] + 1
      /\ level < Len(arg) => idx'[arg[level + 1]] = 0
      /\ \A p \in Args : p < level => idx'[arg[p]] = idx[arg[p]]
  <2>1. \A p \in Args : p < level => arg[p] # o
    BY <1>1, <1>4
  <2>2. level < Len(arg) => /\ level + 1 \in Args /\ arg[level + 1] # o /\ arg[level + 1] \in Objects
                            /\ \A p \in Args : p < level => arg[p] # arg[level + 1]
    <3>1. level < Len(arg) => level + 1 \in Args /\ level + 1 # level
                              /\ \A p \in Args : p < level => p # level + 1
      BY <1>1
    <3> QED BY <1>1, <1>4, <3>1
  <2> QED BY <1>1, <1>2, <2>1, <2>2 DEF Draw, Gridding
<1>7. /\ cursor'[o] = Following(o)
      /\ level < Len(arg) /\ arg[level + 1] \notin random => cursor'[arg[level + 1]] = 0
      /\ \A p \in Args : p < level => cursor'[arg[p]] = cursor[arg[p]]
  <2>1. \A p \in Args : p < level => arg[p] # o
    BY <1>1, <1>4
  <2>2. level < Len(arg) => /\ level + 1 \in Args /\ arg[level + 1] # o /\ arg[level + 1] \in Objects
                            /\ \A p \in Args : p < level => arg[p] # arg[level + 1]
    <3>1. level < Len(arg) => level + 1 \in Args /\ level + 1 # level
                              /\ \A p \in Args : p < level => p # level + 1
      BY <1>1
    <3> QED BY <1>1, <1>4, <3>1
  <2> QED BY <1>1, <1>2, <2>1, <2>2 DEF Draw, Gridding
<1>8. Counted(Len(calls), Len(arg), Sizes, Combinations, Got', level + 1)
  <2>1. Counted(Len(calls), Len(arg), Sizes, Combinations, Got, level)
    BY DEF GridBody
  <2>2. Got[level] < Sizes[level]
    <3>1. idx[o] < size[o]
      <4>1. idx[o] \in Nat /\ size[o] \in Nat
        BY <1>1, <1>2 DEF StreamTypes
      <4> QED BY <4>1 DEF Exhausted
    <3> QED BY <1>1, <3>1
  <2>3. \A p \in 1..(level - 1) : Got'[p] = Got[p]
    <3>1. \A p \in 1..(level - 1) : p \in Args /\ p < level
      BY <1>1
    <3> QED BY <1>1, <1>3, <1>6, <3>1
  <2>4. Got'[level] = Got[level] + 1
    BY <1>1, <1>3, <1>6
  <2>5. level + 1 \in 1..Len(arg) => Got'[level + 1] = 0
    <3>1. level + 1 \in 1..Len(arg) => level < Len(arg)
      BY <1>1
    <3> QED BY <1>1, <1>3, <1>6, <3>1
  <2> QED BY <1>1, <1>3, <2>1, <2>2, <2>3, <2>4, <2>5, CountDraws
<1>9. Len(storage) = level - 1 /\ level # 0
  BY <1>1 DEF GridBody
<1>10. /\ Len(storage') = level /\ storage'[level] = cursor[o]
       /\ \A p \in 1..(level - 1) : storage'[p] = storage[p]
  <2>1. cursor[o] \in Nat /\ Len(storage) + 1 = level
    BY <1>1, <1>2, <1>9
  <2> QED BY <1>2, <1>5, <1>9, <2>1, AppendIs
<1>11. ASSUME Rewindable
       PROVE  /\ \A p \in Args : p <= level + 1 => cursor'[arg[p]] = idx'[arg[p]] % Items
              /\ \A p \in 1..level : storage'[p] = (idx'[arg[p]] - 1) % Items
  <2>1. /\ \A p \in Args : p <= level => cursor[arg[p]] = idx[arg[p]] % Items
        /\ \A p \in 1..(level - 1) : storage[p] = (idx[arg[p]] - 1) % Items
    BY <1>9, <1>11 DEF GridBody
  <2>2. ASSUME NEW p \in Args, p <= level + 1 PROVE cursor'[arg[p]] = idx'[arg[p]] % Items
    <3>1. CASE p < level
      <4>1. p <= level
        BY <1>1, <1>5, <3>1
      <4> QED BY <1>6, <1>7, <2>1, <3>1, <4>1
    <3>2. CASE p = level
      <4>1. cursor[o] = idx[o] % Items /\ idx[o] \in Nat /\ o \notin random
        BY <1>1, <1>2, <1>11, <2>1 DEF Rewindable
      <4>2. Following(o) = ((idx[o] % Items) + 1) % Items
        BY <4>1 DEF Following
      <4>3. ((idx[o] % Items) + 1) % Items = (idx[o] + 1) % Items
        BY <1>2, <4>1, ModNext
      <4> QED BY <1>6, <1>7, <3>2, <4>2, <4>3
    <3>3. CASE p = level + 1
      <4>1. level < Len(arg) /\ arg[level + 1] \notin random
        BY <1>1, <1>11, <3>3 DEF Rewindable
      <4>2. 0 \in 0..(Items - 1)
        BY <1>2
      <4>3. 0 % Items = 0
        BY <1>2, <4>2, ModSmall
      <4> QED BY <1>6, <1>7, <3>3, <4>1, <4>3
    <3> QED BY <1>1, <2>2, <3>1, <3>2, <3>3
  <2>3. ASSUME NEW p \in 1..level PROVE storage'[p] = (idx'[arg[p]] - 1) % Items
    <3>1. CASE p = level
      <4>1. cursor[o] = idx[o] % Items /\ idx[o] \in Nat
        BY <1>1, <1>2, <2>1
      <4>2. (idx[o] + 1) - 1 = idx[o]
        BY <4>1
      <4> QED BY <1>6, <1>10, <3>1, <4>1, <4>2
    <3>2. CASE p # level
      <4>1. p \in 1..(level - 1) /\ p \in Args /\ p < level
        BY <1>1, <3>2
      <4> QED BY <1>6, <1>10, <2>1, <4>1
    <3> QED BY <3>1, <3>2
  <2> QED BY <2>2, <2>3
<1>12. Rewindable' => Rewindable
  BY <1>5 DEF Rewindable, Args
<1> QED BY <1>3, <1>5, <1>8, <1>10, <1>11, <1>12 DEF GridBody

LEMMA GridExhausts ==
    ASSUME StreamTypes, Gridding, GridBody, level \in Args, Exhausted(arg[level]),
           Exhaust(arg[level]), UNCHANGED callers
    PROVE  GridBody'
<1> DEFINE o == arg[level]
<1>1. /\ Table(Len(arg), Sizes, Combinations) /\ Args = 1..Len(arg) /\ Len(arg) \in Nat
      /\ \A p \in Args : arg[p] \in Objects /\ Sizes[p] = size[arg[p]] /\ Got[p] = idx[arg[p]]
      /\ level \in 1..Len(arg) /\ o \in Objects
  BY GridTable
<1>2. /\ Reset(o) /\ level' = level - 1 /\ storage' = (IF level = 1 THEN <<>> ELSE Front(storage))
      /\ UNCHANGED <<arg, size, random, calls>>
  BY DEF Exhaust, Gridding, callers
<1>3. /\ idx' \in [Objects -> Nat] /\ idx \in [Objects -> Nat] /\ cursor \in [Objects -> Nat]
      /\ storage \in Seq(Nat)
  BY <1>1, <1>2, ResetTypes DEF StreamTypes
<1>4. /\ Got' \in [1..Len(arg) -> Nat] /\ Args' = Args /\ Sizes' = Sizes
      /\ Combinations' = Combinations /\ \A p \in Args : Got'[p] = idx'[arg[p]]
  BY <1>3, GotNext
<1>5. \A p \in Args : p < level => /\ idx'[arg[p]] = idx[arg[p]] /\ cursor'[arg[p]] = cursor[arg[p]]
  <2>1. \A p \in Args : p < level => arg[p] # o /\ arg[p] \in Objects
    BY <1>1 DEF Gridding, Distinct
  <2> QED BY <1>2, <1>3, <2>1 DEF Reset, Rewound
<1>6. \A p \in 1..(level - 1) : p \in Args /\ p < level /\ p <= level
  BY <1>1
<1>7. Counted(Len(calls), Len(arg), Sizes, Combinations, Got', level - 1)
  <2>1. Counted(Len(calls), Len(arg), Sizes, Combinations, Got, level)
    BY DEF GridBody
  <2>2. Got[level] >= Sizes[level]
    BY <1>1 DEF Exhausted
  <2>3. \A p \in 1..(level - 1) : Got'[p] = Got[p]
    BY <1>1, <1>4, <1>5, <1>6
  <2> QED BY <1>1, <1>4, <2>1, <2>2, <2>3, CountExhausts
<1>8. Len(storage) = level - 1 /\ level # 0
  BY <1>1 DEF GridBody
<1>9. level - 1 # 0 => /\ Len(storage') = (level - 1) - 1
                       /\ \A p \in 1..((level - 1) - 1) : storage'[p] = storage[p] /\ p \in 1..(level - 1)
  <2> SUFFICES ASSUME level - 1 # 0
               PROVE  /\ Len(storage') = (level - 1) - 1
                      /\ \A p \in 1..((level - 1) - 1) : storage'[p] = storage[p] /\ p \in 1..(level - 1)
    OBVIOUS
  <2>1. storage # <<>> /\ level # 1
    BY <1>1, <1>8
  <2>2. \A p \in 1..((level - 1) - 1) : p \in 1..(level - 1)
    BY <1>1
  <2> QED BY <1>2, <1>3, <1>8, <2>1, <2>2, FrontIs
<1>10. ASSUME Rewindable
       PROVE  /\ \A p \in Args : p <= level - 1 => cursor'[arg[p]] = idx'[arg[p]] % Items
              /\ level - 1 # 0 => \A p \in 1..((level - 1) - 1) : storage'[p] = (idx'[arg[p]] - 1) % Items
  <2>1. /\ \A p \in Args : p <= level => cursor[arg[p]] = idx[arg[p]] % Items
        /\ \A p \in 1..(level - 1) : storage[p] = (idx[arg[p]] - 1) % Items
    BY <1>8, <1>10 DEF GridBody
  <2>2. \A p \in Args : p <= level - 1 => p < level /\ p <= level
    BY <1>1
  <2> QED BY <1>5, <1>6, <1>9, <2>1, <2>2
<1>11. Rewindable' => Rewindable
  BY <1>2 DEF Rewindable, Args
<1> QED BY <1>2, <1>4, <1>7, <1>9, <1>10, <1>11 DEF GridBody

LEMMA GridHands ==
    ASSUME StreamTypes, Gridding, GridBody, NEW single, NextTuple(single), arg = <<>> => single
    PROVE  /\ GridBody'
           /\ Rewindable /\ (\A j \in DOMAIN calls : calls[j] = ProductTuple(j)) =>
                  \A j \in DOMAIN calls' : calls'[j] = ProductTuple(j)'
<1> DEFINE n == Len(arg)
           k == Len(calls)
<1>1. /\ Table(n, Sizes, Combinations) /\ Args = 1..n /\ n \in Nat
      /\ \A p \in Args : arg[p] \in Objects /\ Sizes[p] = size[arg[p]] /\ Got[p] = idx[arg[p]]
  BY GridTable
<1>2. /\ level = n + 1 /\ calls' = Append(calls, storage)
      /\ UNCHANGED <<arg, size, random, idx, cursor>>
  BY DEF NextTuple, TupleReady, callers
<1>3. /\ storage \in Seq(Nat) /\ calls \in Seq(Seq(Nat)) /\ k \in Nat /\ idx \in [Objects -> Nat]
  BY LenProperties DEF StreamTypes
<1>4. level' = n /\ (n # 0 => storage' = Front(storage))
  <2>1. arg = <<>> => n = 0
    OBVIOUS
  <2>2. level - 1 = n
    BY <1>1, <1>2
  <2>3. arg # <<>> => n # 0
    BY EmptySeq DEF StreamTypes
  <2> QED BY <2>1, <2>2, <2>3 DEF NextTuple, Gridding
<1>5. /\ Len(calls') = k + 1 /\ DOMAIN calls' = 1..(k + 1) /\ DOMAIN calls = 1..k
      /\ calls'[k + 1] = storage /\ \A j \in 1..k : calls'[j] = calls[j]
  BY <1>2, <1>3, AppendIs
<1>6. Args' = Args /\ Sizes' = Sizes /\ Combinations' = Combinations /\ Got' = Got /\ Rewindable' = Rewindable
  <2>1. Args' = Args /\ Combinations' = Combinations
    BY <1>2, CombinationsStay DEF Args, callers
  <2> QED BY <1>2, <2>1 DEF Sizes, Got, Rewindable
<1>7. Counted(k, n, Sizes, Combinations, Got, n + 1)
  BY <1>2 DEF GridBody
<1>8. Counted(k + 1, n, Sizes, Combinations, Got, n)
  BY <1>1, <1>7, CountHands
<1>9. level # 0 /\ Len(storage) = n
  <2>1. level # 0 /\ level - 1 = n
    BY <1>1, <1>2
  <2> QED BY <2>1 DEF GridBody
<1>10. n # 0 => Len(storage') = n - 1 /\ \A p \in 1..(n - 1) : storage'[p] = storage[p] /\ p \in 1..n
  <2>1. n # 0 => storage # <<>>
    BY <1>9
  <2>2. \A p \in 1..(n - 1) : p \in 1..n
    BY <1>1
  <2> QED BY <1>3, <1>4, <1>9, <2>1, <2>2, FrontIs
<1>11. Rewindable => /\ \A p \in Args : cursor[arg[p]] = idx[arg[p]] % Items
                     /\ \A p \in 1..n : storage[p] = (idx[arg[p]] - 1) % Items
  <2>1. \A p \in Args : p <= level
    BY <1>1, <1>2
  <2>2. level - 1 = n
    BY <1>1, <1>2
  <2> QED BY <1>9, <2>1, <2>2 DEF GridBody
<1>12. GridBody'
  <2>1. Rewindable /\ n # 0 => \A p \in 1..(n - 1) : storage'[p] = (idx[arg[p]] - 1) % Items
    BY <1>10, <1>11
  <2> QED BY <1>2, <1>4, <1>5, <1>6, <1>8, <1>10, <1>11, <2>1 DEF GridBody
<1>13. \A p \in 1..n : (k \div Combinations[p + 1]) % Sizes[p] = Got[p] - 1
  <2>1. Table(n, Sizes, Combinations)
    BY <1>1
  <2> HIDE DEF n, k
  <2> QED BY ONLY <1>7, <2>1, CountIsProduct
<1>14. ASSUME Rewindable, \A j \in DOMAIN calls : calls[j] = ProductTuple(j)
       PROVE  \A j \in DOMAIN calls' : calls'[j] = ProductTuple(j)'
  <2>1. ASSUME NEW p \in 1..n
        PROVE  (((k + 1 - 1) \div Combinations[p + 1]) % size[arg[p]]) % Items = storage[p]
    <3>1. (k \div Combinations[p + 1]) % Sizes[p] = Got[p] - 1
      BY <1>13
    <3>2. k + 1 - 1 = k
      BY <1>3
    <3> QED BY <1>1, <1>11, <1>14, <3>1, <3>2
  <2>2. ProductTuple(k + 1) = [p \in 1..n |-> storage[p]]
    BY <1>1, <2>1 DEF ProductTuple
  <2>3. storage = [p \in 1..n |-> storage[p]]
    BY <1>3, <1>9, LenProperties
  <2>4. \A j : ProductTuple(j)' = ProductTuple(j)
    BY <1>2, <1>6 DEF ProductTuple
  <2>5. \A j \in 1..(k + 1) : j \in 1..k \/ j = k + 1
    BY <1>3
  <2> QED BY <1>5, <1>14, <2>2, <2>3, <2>4, <2>5
<1> QED BY <1>12, <1>14

LEMMA GridStays ==
    ASSUME GridInv, UNCHANGED <<callers, stream>>, Looping' => Looping,
           pc' = "outside" /\ left' = "ok" =>
               (pc = "outside" /\ left = "ok") \/ (pc = "loops" /\ level = 0)
    PROVE  GridInv'
<1>1. UNCHANGED <<arg, size, random, idx, cursor, mode, level, storage, calls>>
  BY DEF callers, stream
<1>2. Args' = Args /\ Combinations' = Combinations /\ Gridding' = Gridding
  BY <1>1, CombinationsStay DEF Args, Gridding, Distinct, callers
<1>3. Sizes' = Sizes /\ Got' = Got /\ Rewindable' = Rewindable /\ \A j : ProductTuple(j)' = ProductTuple(j)
  BY <1>1, <1>2 DEF Sizes, Got, Rewindable, ProductTuple
<1>4. GridBody => GridBody'
  BY <1>1, <1>2, <1>3 DEF GridBody
<1>5. Looping /\ level = 0 /\ Gridding => Len(calls) = Combinations[1]
  BY DEF GridInv, GridBody, Counted
<1>6. pc = "loops" => Looping
  BY DEF Looping
<1> QED BY <1>1, <1>2, <1>3, <1>4, <1>5, <1>6 DEF GridInv

(* With nothing called yet there is only the place of the loops to show. *)
LEMMA GridEmpty ==
    ASSUME calls' = <<>>, left' # "ok", Looping' /\ Gridding' => GridBody'
    PROVE  GridInv'
<1>1. DOMAIN calls' = {}
  OBVIOUS
<1> QED BY <1>1 DEF GridInv

LEMMA GridStep ==
    ASSUME FuzzInv, ReadyInv, GridInv, [Next]_vars
    PROVE  GridInv'
<1> USE DEF FuzzInv
<1>1. Leave("threw") => GridInv'
  <2> SUFFICES ASSUME Leave("threw") PROVE GridInv'
    OBVIOUS
  <2>1. UNCHANGED <<callers, stream>> /\ ~Looping' /\ left' = "threw"
    BY DEF Leave, Looping
  <2> QED BY <2>1, GridStays
<1>2. CASE Enter
  <2>1. ~Looping' /\ calls' = <<>> /\ left' = "no"
    BY <1>2 DEF Enter, Looping
  <2> QED BY <2>1, GridEmpty
<1>3. CASE MakeRecorder
  <2>1. \/ Leave("threw")
        \/ UNCHANGED <<callers, stream>> /\ pc' \in {"construct", "start"}
    BY <1>3 DEF MakeRecorder
  <2> QED BY <1>1, <2>1, GridStays DEF Looping
<1>4. CASE StartLoops
  <2> SUFFICES ASSUME ~Leave("threw") PROVE GridInv'
    BY <1>1
  <2>1. /\ pc = "start" /\ EnterLoops /\ pc' = "loops" /\ UNCHANGED callers /\ left' = left
        /\ storage = <<>> /\ calls = <<>> /\ mode' = mode /\ calls' = calls
    BY <1>4 DEF StartLoops, EnterLoops, ReadyInv, TodoInv, control
  <2>2. mode = "grid" => GridBody'
    BY <2>1, GridBegins
  <2>3. Gridding' => mode = "grid"
    BY <2>1 DEF Gridding
  <2>4. DOMAIN calls' = {}
    BY <2>1
  <2> QED BY <2>1, <2>2, <2>3, <2>4 DEF GridInv
<1>5. CASE StartReplay
  <2> SUFFICES ASSUME ~Leave("threw") PROVE GridInv'
    BY <1>1
  <2>1. mode' = "bin"
    BY <1>5 DEF StartReplay
  <2> QED BY <2>1 DEF GridInv, Gridding
<1>6. CASE Step
  <2> DEFINE o == arg[level]
  <2>1. /\ pc = "loops" /\ pc' = "loops" /\ level \in Args /\ UNCHANGED callers
        /\ ((Exhausted(o) /\ Exhaust(o)) \/ (~Exhausted(o) /\ Draw(o))) /\ mode' = mode /\ calls' = calls
    BY <1>6 DEF Step, Loops, Drawing, Draw, Exhaust
  <2>2. Gridding' => Gridding
    BY <2>1 DEF Gridding, callers, Distinct, Args
  <2>3. Gridding => GridBody'
    BY <2>1, GridDraws, GridExhausts DEF GridInv, Looping
  <2>4. (\A j : ProductTuple(j)' = ProductTuple(j)) /\ Rewindable' = Rewindable
    BY <2>1, CombinationsStay DEF ProductTuple, Rewindable, callers, Args
  <2> QED BY <2>1, <2>2, <2>3, <2>4 DEF GridInv
<1>7. CASE Hand
  <2> DEFINE single == isolated \/ mode = "grid"
  <2>1. NextTuple(single) /\ pc = "loops" /\ pc' \in {"loops", "call"} /\ UNCHANGED callers /\ mode' = mode
    BY <1>7 DEF Hand, NextTuple
  <2>2. Gridding' => Gridding
    BY <2>1 DEF Gridding, callers, Distinct, Args
  <2>3. Gridding => /\ GridBody'
                    /\ Rewindable => \A j \in DOMAIN calls' : calls'[j] = ProductTuple(j)'
    <3> SUFFICES ASSUME Gridding
                 PROVE  /\ GridBody'
                        /\ Rewindable => \A j \in DOMAIN calls' : calls'[j] = ProductTuple(j)'
      OBVIOUS
    <3>1. single = TRUE
      BY DEF Gridding
    <3>2. GridBody /\ (Rewindable => \A j \in DOMAIN calls : calls[j] = ProductTuple(j))
      BY <2>1 DEF GridInv, Looping
    <3>3. NextTuple(TRUE)
      BY <2>1, <3>1
    <3> QED BY <3>2, <3>3, GridHands
  <2>4. Rewindable' => Rewindable
    BY <2>1 DEF Rewindable, callers, Args
  <2> QED BY <2>1, <2>2, <2>3, <2>4 DEF GridInv
<1>8. CASE Call
  <2>1. UNCHANGED <<callers, stream>> /\ pc = "call" /\ pc' \in {"loops", "record"}
    BY <1>8 DEF Call
  <2> QED BY <2>1, GridStays DEF Looping
<1>9. CASE CallRecords
  <2>1. Leave("threw") \/ (UNCHANGED <<callers, stream>> /\ pc = "record" /\ pc' \in {"record", "loops"})
    BY <1>9 DEF CallRecords
  <2> QED BY <1>1, <2>1, GridStays DEF Looping
<1>10. CASE Take \/ ConsumerRecords \/ ConsumerEnds
  <2>1. UNCHANGED <<callers, stream, pc, left>>
    BY <1>10 DEF Take, ConsumerRecords, ConsumerEnds, control
  <2> QED BY <2>1, GridStays DEF Looping
<1>11. CASE Finish
  <2>1. UNCHANGED <<callers, stream>> /\ pc = "loops" /\ level = 0 /\ pc' \in {"outside", "loops"}
    BY <1>11 DEF Finish, Leave
  <2> QED BY <2>1, GridStays DEF Looping
<1>12. CASE Die
  <2>1. ~Looping' /\ calls' = <<>> /\ left' = "died"
    BY <1>12 DEF Die, Looping
  <2> QED BY <2>1, GridEmpty
<1>13. CASE UNCHANGED vars
  <2>1. UNCHANGED <<callers, stream, pc, left>>
    BY <1>13 DEF vars, control
  <2> QED BY <2>1, GridStays DEF Looping
<1> QED BY <1>2, <1>3, <1>4, <1>5, <1>6, <1>7, <1>8, <1>9, <1>10, <1>11, <1>12, <1>13 DEF Next, Progress

LEMMA GridInductive == Spec => [](FuzzInv /\ ReadyInv /\ ZipInv /\ GridInv)
<1>1. Init => GridInv
  BY DEF Init, StreamInit, GridInv, Gridding
<1>2. FuzzInv /\ ReadyInv /\ ZipInv /\ GridInv /\ [Next]_vars => GridInv'
  BY GridStep
<1> QED BY <1>1, <1>2, ZipInductive, PTL DEF Spec

(* A grid of distinct providers calls the target with the tuples of the     *)
(* Cartesian product in lexicographic order, each once, and when fuzz()     *)
(* returns there was a call for each, whatever the number of arguments and  *)
(* the sizes, and whatever an earlier run left the providers at.            *)
THEOREM GridIsTheProduct == Spec => []GridIsProduct
<1>1. FuzzInv /\ GridInv => GridIsProduct
  <2> SUFFICES ASSUME FuzzInv, GridInv, mode = "grid", Distinct PROVE
        /\ ToSet(arg) \cap random = {} => \A j \in DOMAIN calls : calls[j] = ProductTuple(j)
        /\ pc = "outside" /\ left = "ok" => Len(calls) = Combinations[1]
    BY DEF GridIsProduct
  <2>1. ToSet(arg) \cap random = {} => Rewindable
    BY DEF ToSet, Rewindable, Args
  <2> QED BY <2>1 DEF GridInv, Gridding
<1> QED BY <1>1, GridInductive, PTL
=============================================================================
