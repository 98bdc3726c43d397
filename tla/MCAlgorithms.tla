---------------------------- MODULE MCAlgorithms ----------------------------
(***************************************************************************)
(* The inputs that TLC runs the three programs on.                         *)
(***************************************************************************)
EXTENDS Algorithms

CONSTANT MaxEntry       (* bound: entries of the matrices                  *)

\* All matrices up to two rows, and those of three rows out of seven: a zero row,
\* ties of the pivot with either sign, pivots in any row.
Rows == {<<0, 0, 0>>, <<0, 0, 1>>, <<0, -2, 1>>, <<1, 2, 0>>, <<2, -1, 1>>,
         <<-2, 1, 1>>, <<-1, 0, 2>>}

SmallMatrices ==
    UNION {[1..z -> [1..z -> -MaxEntry..MaxEntry]] : z \in 0..2}
        \union [1..3 -> Rows]
=============================================================================
