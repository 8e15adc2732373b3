------------------------------- MODULE MCCodec -------------------------------
EXTENDS Codec

Num == Raw(1)
Wide == Raw(2)
Nums == {Scalars(<<n>>) : n \in {0, 1, 3, 9}}     \* 9 is more than AllocMax
Text(s) == Scalars(s)
Empty == List(<<>>)
One(v) == List(<<v>>)

SamplesOf(t, values) == {[type |-> t, value |-> v] : v \in values}

MCSamples == UNION {
    SamplesOf(Num, Nums),
    SamplesOf(Tuple(<<>>), {Empty}),
    SamplesOf(Pair(Num, Num), {List(p) : p \in Nums \X Nums}),
    SamplesOf(Tuple(<<Wide, Bool>>), {List(<<Text(<<1, 3>>), Flag(b)>>) : b \in BOOLEAN}),
    SamplesOf(Tuple(<<String, User(Tuple(<<String, Num>>))>>),
              {List(<<Text(s), List(<<Text(r), c>>)>>) :
                  s \in {<<>>, <<7>>}, r \in {<<>>, <<2, 2>>}, c \in {Text(<<0>>), Text(<<9>>)}}),
    SamplesOf(Array(2, Num), {List(<<n, Text(<<1>>)>>) : n \in Nums}),
    SamplesOf(Array(2, Vector(Bool)),
              {List(<<Empty, One(Flag(TRUE))>>), List(<<List(<<Flag(FALSE), Flag(TRUE)>>), Empty>>)}),
    SamplesOf(Vector(Wide),
              {Empty, One(Text(<<2, 0>>)), List(<<Text(<<0, 1>>), Text(<<1, 1>>)>>)}),
    SamplesOf(Vector(Optional(Num)), {Empty, One(Empty), List(<<One(Text(<<0>>)), Empty>>)}),
    SamplesOf(Optional(Tuple(<<Num, Bool>>)), {Empty, One(List(<<Text(<<1>>), Flag(TRUE)>>))}),
    SamplesOf(Variant(<<Num, String, Tuple(<<>>)>>),
              {Alternative(0, Text(<<3>>)), Alternative(1, Text(<<>>)),
               Alternative(1, Text(<<1, 1>>)), Alternative(2, Empty)}),
    SamplesOf(SetOf(Num), {Keys(S) : S \in SUBSET {Text(<<0>>), Text(<<1>>), Text(<<3>>)}}),
    SamplesOf(MapOf(Num, Bool),
              {Entries({[key |-> Text(<<n>>), mapped |-> Flag(b = (n = 0))] : n \in 0..k}) :
                  k \in {-1, 0, 1}, b \in BOOLEAN}),
    SamplesOf(Vector(SetOf(Num)), {List(<<Keys({}), Keys({Text(<<1>>)})>>)})}

MCTypes == {s.type : s \in MCSamples} \cup
    {Vector(Num), Vector(Bool), String, Tuple(<<Num>>), Tuple(<<Optional(Num)>>)}
=============================================================================
