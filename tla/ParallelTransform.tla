------------------------- MODULE ParallelTransform -------------------------
(***************************************************************************)
(* What EncryptionThreadPoolDoWork promises to its callers, whatever the   *)
(* number of threads and the way the data are split: a call hands over a   *)
(* buffer of data units, each unit is transformed once, with its own unit  *)
(* number, and the call returns only when all of them are done.            *)
(***************************************************************************)
EXTENDS Naturals, Sequences

CONSTANTS Callers,   \* threads that call DoWork
          MaxUnits   \* bound on the number of data units of a call

VARIABLES units,     \* units[c]: the unit count of c's call, 0 between calls
          buffer     \* buffer[c][u]: unit numbers applied to data unit u

Unit == 0 .. MaxUnits - 1
Clear == [u \in Unit |-> << >>]

\* The buffer of a call of n units once the work is done.
Done(n) == [u \in Unit |-> IF u < n THEN <<u>> ELSE << >>]

Init ==
    /\ units = [c \in Callers |-> 0]
    /\ buffer = [c \in Callers |-> Clear]

Call(c) ==
    /\ units[c] = 0
    /\ \E n \in 1 .. MaxUnits : units' = [units EXCEPT ![c] = n]
    /\ UNCHANGED buffer

\* Some units not yet done are transformed, each with its own number.
Transform(c) ==
    /\ \E us \in SUBSET {u \in 0 .. units[c] - 1 : buffer[c][u] = << >>} :
          buffer' = [buffer EXCEPT ![c] =
                        [u \in Unit |-> IF u \in us THEN <<u>> ELSE @[u]]]
    /\ UNCHANGED units

\* The caller gets its buffer back (and may reuse it).
Return(c) ==
    /\ units[c] > 0
    /\ buffer[c] = Done(units[c])
    /\ units' = [units EXCEPT ![c] = 0]
    /\ buffer' = [buffer EXCEPT ![c] = Clear]

Next == \E c \in Callers : Call(c) \/ Transform(c) \/ Return(c)

Spec == Init /\ [][Next]_<<units, buffer>>
=============================================================================
