------------------------------- MODULE Totals -------------------------------
(***************************************************************************)
(* The total of a row of amounts, as a number of units: unit n of x is in  *)
(* the row f when n <= f[x], and the total of f is how many units it has.  *)
(* A cardinality and not a recursive sum, so that what a write to one      *)
(* entry does to the total follows from the theorems on finite sets.       *)
(***************************************************************************)
EXTENDS Integers, FiniteSets

Units(f, top) == {u \in (DOMAIN f) \X (1 .. top) : u[2] <= f[u[1]]}

\* The units that are not of x.
OtherUnits(f, top, x) == {u \in Units(f, top) : u[1] # x}

\* The total of f, whose entries are in 0 .. top.
Total(f, top) == Cardinality(Units(f, top))
=============================================================================
