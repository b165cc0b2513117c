-------------------------------- MODULE Sums --------------------------------
(***************************************************************************)
(* Sums: over the rows of a table, the purses of all characters, what the   *)
(* goroutines carry.                                                       *)
(***************************************************************************)
EXTENDS Integers, FiniteSetsExt

\* The sum of f[x] over the members x of a finite set.
SumOver(f, S) == MapThenSumSet(LAMBDA x : f[x], S)

\* Units of item n in the rows among of a table.
UnitsIn(table, among, n) ==
    SumOver([i \in among |-> table[i].amount], {i \in among : table[i].name = n})

=============================================================================
