------------------------------ MODULE ArgStream ------------------------------
(***************************************************************************)
(* Where the arguments of a call come from: base_provider and its two      *)
(* subclasses, and the zip and grid loops of fuzz/utils.hpp, which are the *)
(* same for the in-process and the isolated mode.  The recursion of the    *)
(* grid is the position level; a zip walks the positions of one tuple.     *)
(*                                                                         *)
(* A value is the number its provider gives it: the place in the container *)
(* for a rewindable provider, the number of the draw for a random one.     *)
(***************************************************************************)
EXTENDS Integers, Sequences, SequencesExt, FiniteSetsExt

CONSTANTS Objects,      \* provider objects of the caller
          Setups,       \* callers: [arg, size, random], see the variables
          Items,        \* elements of the container of an iterable_provider
          MaxCalls      \* bound: calls of one fuzz()

ASSUME StreamAssumption ==
    /\ \A s \in Setups :
         /\ s.arg \in Seq(Objects)
         /\ s.size \in [Objects -> Nat]
         /\ s.random \subseteq Objects
    /\ Items \in Nat \ {0}
    /\ MaxCalls \in Nat

VARIABLES
    arg,        \* arg[p]: the provider object passed for argument p
    size,       \* size[o]: m_max_idx
    random,     \* objects that are std_random_provider
    idx,        \* idx[o]: m_idx
    cursor,     \* cursor[o]: m_current, or the state of the generator
    mode,       \* "zip" or "grid"
    level,      \* the position being drawn; 0 when the loops are over
    storage,    \* the values drawn for the tuple being made
    calls,      \* history: tuples the target was called with
    start       \* history: idx and cursor when the loops were entered

callers == <<arg, size, random>>
stream  == <<idx, cursor, mode, level, storage, calls, start>>

Args == DOMAIN arg

-----------------------------------------------------------------------------
(* reset(): the base class rewinds m_idx, iterable_provider its iterator   *)
(* too; std_random_provider has no reset() of its own.                     *)
Rewound(o) ==
    [idx    |-> [idx EXCEPT ![o] = 0],
     cursor |-> IF o \in random THEN cursor ELSE [cursor EXCEPT ![o] = 0]]

Reset(o) == idx' = Rewound(o).idx /\ cursor' = Rewound(o).cursor

(* Mutant: the iterator runs past the end of the container. *)
Following_NoWrap(o) == cursor[o] + 1

(* next(): the iterator wraps around at the end of the container.          *)
Following(o) == IF o \in random THEN cursor[o] + 1 ELSE (cursor[o] + 1) % Items

-----------------------------------------------------------------------------
(* Entering the loops, and their steps.  The module that extends this one   *)
(* chooses the mode and does with a tuple what fuzz() does.                 *)

StreamInit ==
    /\ \E s \in Setups : arg = s.arg /\ size = s.size /\ random = s.random
    /\ idx = [o \in Objects |-> 0] /\ cursor = [o \in Objects |-> 0]
    /\ mode = "zip" /\ level = 0 /\ storage = <<>> /\ calls = <<>>
    /\ start = [idx |-> idx, cursor |-> cursor]

(* A grid without arguments is a single call; otherwise the outermost loop *)
(* of a grid resets its provider.                                          *)
EnterLoops ==
    /\ level' = 1 /\ start' = [idx |-> idx, cursor |-> cursor]
    /\ IF mode = "grid" /\ arg # <<>> THEN Reset(arg[1]) ELSE UNCHANGED <<idx, cursor>>
    /\ UNCHANGED <<mode, storage, calls>>

TupleReady == level = Len(arg) + 1
Drawing    == level \in Args
Exhausted(o) == idx[o] >= size[o]

(* Mutant: iter() forgets to count. *)
Draw_NoCount(o) ==
    /\ storage' = Append(storage, cursor[o])
    /\ idx' = [x \in Objects |-> IF mode = "grid" /\ level < Len(arg) /\ x = arg[level + 1]
                                 THEN 0 ELSE idx[x]]
    /\ cursor' = [cursor EXCEPT ![o] = Following(o)]
    /\ level' = level + 1
    /\ UNCHANGED <<mode, calls, start>>

(* Mutant: an inner loop goes on where it was. *)
Draw_NoReset(o) ==
    /\ storage' = Append(storage, cursor[o])
    /\ idx' = [idx EXCEPT ![o] = @ + 1]
    /\ cursor' = [cursor EXCEPT ![o] = Following(o)]
    /\ level' = level + 1
    /\ UNCHANGED <<mode, calls, start>>

(* iter() gives a value; the next loop of the grid begins with a reset(),  *)
(* which may be that of the same object.                                   *)
Draw(o) ==
    LET drawn == [i |-> [idx EXCEPT ![o] = @ + 1],
                  c |-> [cursor EXCEPT ![o] = Following(o)]]
        inner == IF mode = "grid" /\ level < Len(arg) THEN {arg[level + 1]} ELSE {}
    IN  /\ storage' = Append(storage, cursor[o])
        /\ idx' = [x \in Objects |-> IF x \in inner THEN 0 ELSE drawn.i[x]]
        /\ cursor' = [x \in Objects |-> IF x \in inner \ random THEN 0 ELSE drawn.c[x]]
        /\ level' = level + 1
        /\ UNCHANGED <<mode, calls, start>>

(* exhaustion_signal: the end of a zip; a grid rewinds the provider and    *)
(* goes on in the loop around this one.                                    *)
Exhaust(o) ==
    IF mode = "zip"
    THEN /\ level' = 0 /\ storage' = <<>>
         /\ UNCHANGED <<idx, cursor, mode, calls, start>>
    ELSE /\ Reset(o)
         /\ level' = level - 1
         /\ storage' = IF level = 1 THEN <<>> ELSE Front(storage)
         /\ UNCHANGED <<mode, calls, start>>

Loops ==
    /\ Drawing
    /\ LET o == arg[level] IN
       \/ Exhausted(o) /\ Exhaust(o)
       \/ ~Exhausted(o) /\ Draw(o)
    /\ UNCHANGED callers

(* The tuple is handed over and the innermost loop draws again; "single"   *)
(* says that the caller takes the empty tuple only once.                   *)
NextTuple(single) ==
    /\ TupleReady
    /\ calls' = Append(calls, storage)
    /\ \/ arg = <<>> /\ level' = (IF single THEN 0 ELSE 1) /\ storage' = <<>>
       \/ arg # <<>> /\ mode = "zip" /\ level' = 1 /\ storage' = <<>>
       \/ arg # <<>> /\ mode = "grid" /\ level' = level - 1 /\ storage' = Front(storage)
    /\ UNCHANGED <<callers, idx, cursor, mode, start>>

-----------------------------------------------------------------------------
(* Reference: the Cartesian product in lexicographic order, the last       *)
(* argument fastest, and the zip of what the providers had left.           *)

Distinct == \A p, q \in Args : p # q => arg[p] # arg[q]

(* how many tuples there are of the arguments from p on                    *)
Combinations ==
    LET f[p \in 1..(Len(arg) + 1)] == IF p > Len(arg) THEN 1 ELSE size[arg[p]] * f[p + 1]
    IN  f

ProductTuple(j) ==
    [p \in Args |-> (((j - 1) \div Combinations[p + 1]) % size[arg[p]]) % Items]

ZipTuple(j) ==
    [p \in Args |-> LET c == start.cursor[arg[p]] + j - 1
                    IN  IF arg[p] \in random THEN c ELSE c % Items]

(* what is left in the provider that has least                             *)
ZipLength == Min({Max({size[arg[p]] - start.idx[arg[p]], 0}) : p \in Args})

(* A grid has no end when an inner loop rewinds the provider an outer one  *)
(* draws from, and is reached.                                             *)
Rewinds ==
    \E p, q \in Args :
        /\ p < q /\ arg[p] = arg[q]
        /\ \A r \in 1..(q - 1) : size[arg[r]] > 0
=============================================================================
