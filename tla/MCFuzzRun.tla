------------------------------ MODULE MCFuzzRun ------------------------------
EXTENDS FuzzRun, TLC

CONSTANTS o1, o2

Caller(args, n1, n2, randoms) ==
    [arg |-> args, size |-> o1 :> n1 @@ o2 :> n2, random |-> randoms]

MCSetups ==
    {Caller(<<>>, 0, 0, {}),                    \* no argument
     Caller(<<o1>>, 3, 0, {}),                  \* wraps around
     Caller(<<o1, o2>>, 2, 2, {}),
     Caller(<<o1, o2>>, 2, 1, {o2}),            \* a zip loses a value; o2 is random
     Caller(<<o1, o2, o1>>, 2, 0, {})}          \* the inner o1 is never reached
=============================================================================
