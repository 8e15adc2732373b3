-------------------------------- MODULE Codec --------------------------------
(***************************************************************************)
(* to_bytes() and from_bytes(): how the arguments of a call become the      *)
(* payload of a run packet and the content of an artifact.  A cell stands   *)
(* for the bytes of one scalar; a size_t is one cell, since a cut inside a  *)
(* scalar is refused like a cut before it.                                  *)
(*                                                                          *)
(* write_value() and read_value() are templates: the compiler makes those   *)
(* of a type out of those of its parts.  So do the operators here, from the *)
(* functions in inner; Level goes from the types without parts outwards.    *)
(*                                                                          *)
(* What is read is an encoding, cut where a process died or the disk was    *)
(* full, or read with the types of another target.                          *)
(***************************************************************************)
EXTENDS Integers, Sequences, FiniteSets, SequencesExt

CONSTANTS Samples,      \* what is written: [type, value]
          Types,        \* what it may be read as
          AllocMax,     \* the largest size a container can be given
          MaxDepth      \* how deep types are nested

VARIABLES
    pc,         \* "write", "store", "read", "done"
    sample,     \* the value being written, with its type
    bytes,      \* the cells on their way
    cut,        \* history: cells lost
    as,         \* the type they are read as
    outcome     \* what from_bytes() did

vars == <<pc, sample, bytes, cut, as, outcome>>

Cells == Seq(Nat)

-----------------------------------------------------------------------------
(* Types are records: kind and what the kind needs.  The first five are     *)
(* written by the core, the others by specialisations of serializer, which  *)
(* go first.                                                                *)
Raw(n)       == [kind |-> "raw", cells |-> n]
Bool         == [kind |-> "bool"]
Array(n, t)  == [kind |-> "array", size |-> n, of |-> t]
Vector(t)    == [kind |-> "vector", of |-> t]
String       == [kind |-> "string"]
Tuple(ts)    == [kind |-> "tuple", parts |-> ts]
Pair(a, b)   == Tuple(<<a, b>>)     \* written and read like the tuple of the two
Optional(t)  == [kind |-> "optional", of |-> t]
Variant(ts)  == [kind |-> "variant", parts |-> ts]
SetOf(k)     == [kind |-> "set", of |-> k]
MapOf(k, t)  == [kind |-> "map", key |-> k, of |-> t]
User(t)      == [kind |-> "user", of |-> t]

Custom(t) == t.kind \in {"tuple", "optional", "variant", "set", "map", "user"}

(* The types with parts in T: with one encoding for each value, and all.    *)
PlainOver(T) ==
    [kind : {"bool", "string"}] \cup [kind : {"raw"}, cells : Nat \ {0}]
    \cup [kind : {"vector", "optional", "user"}, of : T]
    \cup [kind : {"array"}, size : Nat, of : T]
    \cup [kind : {"tuple", "variant"}, parts : Seq(T)]

TypesOver(T) ==
    PlainOver(T) \cup [kind : {"set"}, of : T] \cup [kind : {"map"}, key : T, of : T]

(* Values: scalars and characters, a bool, what has its elements in order   *)
(* (an optional has one or none), the alternative of a variant, a set, a    *)
(* map.                                                                     *)
Scalars(cells)     == [cells |-> cells]
Flag(b)            == [flag |-> b]
List(vs)           == [list |-> vs]
Alternative(i, v)  == [index |-> i, held |-> v]
Keys(S)            == [keys |-> S]
Entries(S)         == [entries |-> S]

ValuesOver(V) ==
    [cells : Cells] \cup [flag : BOOLEAN] \cup [list : Seq(V)]
    \cup [index : Nat, held : V] \cup [keys : SUBSET V]
    \cup [entries : SUBSET [key : V, mapped : V]]

-----------------------------------------------------------------------------
(* Writing: one element after the other, each with its own writer.          *)
WriteSeq(writers, vs) ==
    LET from[i \in 1..(Len(vs) + 1)] ==
          IF i > Len(vs) THEN <<>> ELSE writers[i][vs[i]] \o from[i + 1]
    IN  from[1]

WriteEach(writer, vs) == WriteSeq([i \in DOMAIN vs |-> writer], vs)

WriteBool(b) == IF b THEN <<1>> ELSE <<0>>

(* serializer<T>::to_bytes() of the specialisations; of a user's it is what *)
(* that of the type behind it writes.  The keys of a set or a map come in   *)
(* the order of its Compare: some order, the same for equal sets.           *)
TupleToBytes(t, v, inner) ==
    WriteSeq([i \in DOMAIN t.parts |-> inner[t.parts[i]].write], v.list)

OptionalToBytes(t, v, inner) ==
    WriteBool(v.list # <<>>) \o WriteEach(inner[t.of].write, v.list)

VariantToBytes(t, v, inner) ==
    <<v.index>> \o inner[t.parts[v.index + 1]].write[v.held]

SetToBytes(t, v, inner) ==
    <<Cardinality(v.keys)>> \o WriteEach(inner[t.of].write, SetToSeq(v.keys))

WriteEntry(t, inner) ==
    [e \in [key : inner[t.key].values, mapped : inner[t.of].values] |->
        inner[t.key].write[e.key] \o inner[t.of].write[e.mapped]]

MapToBytes(t, v, inner) ==
    <<Cardinality(v.entries)>> \o WriteEach(WriteEntry(t, inner), SetToSeq(v.entries))

UserToBytes(t, v, inner) == inner[t.of].write[v]

ToBlob(t, v, inner) ==
    CASE t.kind = "tuple"    -> TupleToBytes(t, v, inner)
      [] t.kind = "optional" -> OptionalToBytes(t, v, inner)
      [] t.kind = "variant"  -> VariantToBytes(t, v, inner)
      [] t.kind = "set"      -> SetToBytes(t, v, inner)
      [] t.kind = "map"      -> MapToBytes(t, v, inner)
      [] t.kind = "user"     -> UserToBytes(t, v, inner)

WriteArray(t, v, inner)  == <<t.size>> \o WriteEach(inner[t.of].write, v.list)
WriteVector(t, v, inner) == <<Len(v.list)>> \o WriteEach(inner[t.of].write, v.list)
WriteString(cells)       == <<Len(cells)>> \o cells

(* write_value(): the size goes before the blob of a specialisation.        *)
WriteValue(t, v, inner) ==
    CASE Custom(t)         -> WriteString(ToBlob(t, v, inner))
      [] t.kind = "array"  -> WriteArray(t, v, inner)
      [] t.kind = "vector" -> WriteVector(t, v, inner)
      [] t.kind = "string" -> WriteString(v.cells)
      [] t.kind = "raw"    -> v.cells
      [] t.kind = "bool"   -> WriteBool(v.flag)

-----------------------------------------------------------------------------
(* Reading yields [out, val, rest]: "value", or how it failed: "malformed"  *)
(* is a runtime_error of hotfuzz, "allocation" a length_error or bad_alloc  *)
(* of the container, "undefined" a bool that is neither 0 nor 1.            *)
Got(v, rest) == [out |-> "value", val |-> v, rest |-> rest]
Fails(how)   == [out |-> how, val |-> <<>>, rest |-> <<>>]
Ok(r)        == r.out = "value"

(* What was read is put into an object. *)
Made(r, v) == IF Ok(r) THEN Got(v, r.rest) ELSE r

(* Mutant: cells that are missing are read as zero. *)
Take_Unchecked(in, n) ==
    IF n > Len(in) THEN Got(in \o [i \in 1..(n - Len(in)) |-> 0], <<>>)
    ELSE Got(SubSeq(in, 1, n), SubSeq(in, n + 1, Len(in)))

(* read_bytes() *)
Take(in, n) ==
    IF n > Len(in) THEN Fails("malformed")
    ELSE Got(SubSeq(in, 1, n), SubSeq(in, n + 1, Len(in)))

(* Mutant: what is left over is ignored. *)
Whole_Any(r) == r

(* Every blob, and the whole buffer, must be used up. *)
Whole(r) == IF Ok(r) /\ r.rest # <<>> THEN Fails("malformed") ELSE r

(* The elements one after the other; the first failure is the result. *)
ReadNext(before, reader) ==
    LET r == reader[before.rest]
    IN  IF ~Ok(before) THEN before
        ELSE IF ~Ok(r) THEN r
        ELSE Got(Append(before.val, r.val), r.rest)

ReadSeq(readers, n, in) ==
    LET after[i \in 0..n] ==
          IF i = 0 THEN Got(<<>>, in) ELSE ReadNext(after[i - 1], readers[i])
    IN  after[n]

ReadEach(reader, n, in) == ReadSeq([i \in 1..n |-> reader], n, in)

ReadList(readers, n, in) == LET r == ReadSeq(readers, n, in) IN Made(r, List(r.val))
ReadLists(reader, n, in) == ReadList([i \in 1..n |-> reader], n, in)

(* A container takes the size it is told before anything is read for it.    *)
ReadSize(in) ==
    LET size == Take(in, 1)
    IN  IF Ok(size) /\ size.val[1] > AllocMax THEN Fails("allocation") ELSE size

ReadVector(t, in, inner) ==
    LET size == ReadSize(in)
    IN  IF Ok(size) THEN ReadLists(inner[t.of].read, size.val[1], size.rest) ELSE size

ReadString(in) ==
    LET size == ReadSize(in)
    IN  IF Ok(size) THEN Take(size.rest, size.val[1]) ELSE size

ReadArray(t, in, inner) ==
    LET size == Take(in, 1)
    IN  IF ~Ok(size) THEN size
        ELSE IF size.val[1] # t.size THEN Fails("malformed")
        ELSE ReadLists(inner[t.of].read, t.size, size.rest)

ReadBool(in) ==
    LET c == Take(in, 1)
    IN  IF ~Ok(c) THEN c
        ELSE IF c.val[1] \in {0, 1} THEN Got(c.val[1] = 1, c.rest)
        ELSE Fails("undefined")

(* A set or a map only counts. *)
ReadCounted(reader, in) ==
    LET size == Take(in, 1)
    IN  IF Ok(size) THEN ReadEach(reader, size.val[1], size.rest) ELSE size

ReadEntry(t, inner) ==
    [in \in Cells |->
        LET r == ReadSeq(<<inner[t.key].read, inner[t.of].read>>, 2, in)
        IN  IF Ok(r) THEN Got([key |-> r.val[1], mapped |-> r.val[2]], r.rest) ELSE r]

(* The first of two entries with the same key counts. *)
FirstOf(entries) ==
    {entries[i] : i \in {j \in DOMAIN entries :
                           \A k \in 1..(j - 1) : entries[k].key # entries[j].key}}

(* serializer<T>::from_bytes() of the specialisations                       *)
TupleFromBytes(t, in, inner) ==
    Whole(ReadList([i \in DOMAIN t.parts |-> inner[t.parts[i]].read], Len(t.parts), in))

OptionalFromBytes(t, in, inner) ==
    LET flag == ReadBool(in)
    IN  IF Ok(flag)
        THEN Whole(ReadLists(inner[t.of].read, IF flag.val THEN 1 ELSE 0, flag.rest))
        ELSE flag

InRange(index, count) == index < count

VariantFromBytes(t, in, inner) ==
    LET index == Take(in, 1)
        r == inner[t.parts[index.val[1] + 1]].read[index.rest]
    IN  IF ~Ok(index) THEN index
        ELSE IF ~InRange(index.val[1], Len(t.parts)) THEN Fails("malformed")
        ELSE Whole(Made(r, Alternative(index.val[1], r.val)))

SetFromBytes(t, in, inner) ==
    LET r == Whole(ReadCounted(inner[t.of].read, in)) IN Made(r, Keys(ToSet(r.val)))

MapFromBytes(t, in, inner) ==
    LET r == Whole(ReadCounted(ReadEntry(t, inner), in)) IN Made(r, Entries(FirstOf(r.val)))

UserFromBytes(t, in, inner) == Whole(inner[t.of].read[in])

FromBlob(t, in, inner) ==
    CASE t.kind = "tuple"    -> TupleFromBytes(t, in, inner)
      [] t.kind = "optional" -> OptionalFromBytes(t, in, inner)
      [] t.kind = "variant"  -> VariantFromBytes(t, in, inner)
      [] t.kind = "set"      -> SetFromBytes(t, in, inner)
      [] t.kind = "map"      -> MapFromBytes(t, in, inner)
      [] t.kind = "user"     -> UserFromBytes(t, in, inner)

ReadBlob(t, in, inner) ==
    LET b == ReadString(in)
        r == FromBlob(t, b.val, inner)
    IN  IF ~Ok(b) THEN b ELSE IF ~Ok(r) THEN r ELSE Got(r.val, b.rest)

(* read_value(): first the blob of a specialisation, then the core types.   *)
ReadValue(t, in, inner) ==
    CASE Custom(t)         -> ReadBlob(t, in, inner)
      [] t.kind = "array"  -> ReadArray(t, in, inner)
      [] t.kind = "vector" -> ReadVector(t, in, inner)
      [] t.kind = "string" -> LET r == ReadString(in) IN Made(r, Scalars(r.val))
      [] t.kind = "raw"    -> LET r == Take(in, t.cells) IN Made(r, Scalars(r.val))
      [] t.kind = "bool"   -> LET r == ReadBool(in) IN Made(r, Flag(r.val))

-----------------------------------------------------------------------------
(* The values an object of type t can have, with the types of its parts in  *)
(* inner and their values in V; what does not fit into a vector or a string *)
(* cannot be built in the first place.                                      *)
ValuesOf(t, V, inner) ==
    CASE t.kind = "raw"      -> {v \in [cells : Cells] : Len(v.cells) = t.cells}
      [] t.kind = "bool"     -> [flag : BOOLEAN]
      [] t.kind = "string"   -> {v \in [cells : Cells] : Len(v.cells) <= AllocMax}
      [] t.kind = "vector"   -> {v \in [list : Seq(inner[t.of].values)] : Len(v.list) <= AllocMax}
      [] t.kind = "array"    -> {v \in [list : Seq(inner[t.of].values)] : Len(v.list) = t.size}
      [] t.kind = "optional" -> {v \in [list : Seq(inner[t.of].values)] : Len(v.list) <= 1}
      [] t.kind = "tuple"    ->
           {v \in [list : Seq(V)] :
              /\ Len(v.list) = Len(t.parts)
              /\ \A i \in DOMAIN t.parts : v.list[i] \in inner[t.parts[i]].values}
      [] t.kind = "variant"  ->
           {v \in [index : 0..(Len(t.parts) - 1), held : V] :
              v.held \in inner[t.parts[v.index + 1]].values}
      [] t.kind = "set"      -> {v \in [keys : SUBSET inner[t.of].values] : IsFiniteSet(v.keys)}
      [] t.kind = "map"      ->
           {v \in [entries : SUBSET [key : inner[t.key].values, mapped : inner[t.of].values]] :
              /\ IsFiniteSet(v.entries)
              /\ \A e, f \in v.entries : e.key = f.key => e = f}
      [] t.kind = "user"     -> inner[t.of].values

Fitting(t, V, inner) ==
    {v \in ValuesOf(t, V, inner) : Custom(t) => Len(ToBlob(t, v, inner)) <= AllocMax}

(* write_value<T> and read_value<T> of one type *)
Instantiate(t, V, inner) ==
    [values |-> Fitting(t, V, inner),
     write  |-> [v \in Fitting(t, V, inner) |-> WriteValue(t, v, inner)],
     read   |-> [in \in Cells |-> ReadValue(t, in, inner)]]

Ground == [values |-> {}, codecs |-> <<>>]

LevelOver(below) ==
    [values |-> ValuesOver(below.values),
     codecs |-> [t \in TypesOver(DOMAIN below.codecs) |->
                   Instantiate(t, below.values, below.codecs)]]

Level ==
    LET level[n \in 0..MaxDepth] == LevelOver(IF n = 0 THEN Ground ELSE level[n - 1])
    IN  level

Codecs == Level[MaxDepth].codecs

ToBytes(t, v)     == Codecs[t].write[v]
FromBytes(t, in)  == Whole(Codecs[t].read[in])

ASSUME CodecAssumption ==
    /\ AllocMax \in Nat \ {0} /\ MaxDepth \in Nat
    /\ Types \subseteq DOMAIN Codecs
    /\ \A s \in Samples : s.type \in DOMAIN Codecs /\ s.value \in Codecs[s.type].values

-----------------------------------------------------------------------------
Init ==
    /\ pc = "write" /\ sample \in Samples
    /\ bytes = <<>> /\ cut = 0 /\ as = sample.type /\ outcome = Fails("none")

(* to_bytes() *)
Write ==
    /\ pc = "write" /\ pc' = "store"
    /\ bytes' = ToBytes(sample.type, sample.value)
    /\ UNCHANGED <<sample, cut, as, outcome>>

(* The end of the file, or of the packet, is lost. *)
Cut ==
    /\ pc = "store" /\ pc' = "read"
    /\ \E n \in 1..Len(bytes) :
         cut' = n /\ bytes' = SubSeq(bytes, 1, Len(bytes) - n)
    /\ UNCHANGED <<sample, as, outcome>>

(* Nothing is lost, but the reader may expect another type. *)
Keep ==
    /\ pc = "store" /\ pc' = "read"
    /\ as' \in Types \cup {sample.type}
    /\ UNCHANGED <<sample, bytes, cut, outcome>>

(* from_bytes() *)
Read ==
    /\ pc = "read" /\ pc' = "done"
    /\ outcome' = FromBytes(as, bytes)
    /\ UNCHANGED <<sample, bytes, cut, as>>

Next == Write \/ Cut \/ Keep \/ Read

Spec == Init /\ [][Next]_vars

-----------------------------------------------------------------------------
(* What was written is read (write_value() against read_value(), every      *)
(* serializer): a worker and a replay call the target with the very         *)
(* arguments.  No proper beginning of an encoding is taken for a value: a   *)
(* packet or an artifact that was cut ends in a runtime_error, never in a   *)
(* call with other arguments (read_bytes()).                                *)
RoundTrip ==
    pc = "done" =>
        /\ cut > 0 => outcome.out = "malformed"
        /\ cut = 0 /\ as = sample.type =>
              outcome.out = "value" /\ outcome.val = sample.value

(* The types without a set or a map in them. *)
Plain ==
    LET plain[n \in 0..MaxDepth] == PlainOver(IF n = 0 THEN {} ELSE plain[n - 1])
    IN  plain[MaxDepth]

(* Whatever is accepted as another type is exactly what that type writes:   *)
(* no cell is skipped or counted twice.  Sets and maps are the exception,   *)
(* they also take entries out of order or twice (from_bytes(), the checks   *)
(* for trailing bytes).                                                     *)
NothingIgnored ==
    pc = "done" /\ outcome.out = "value" /\ as \in Plain =>
        ToBytes(as, outcome.val) = bytes
=============================================================================
