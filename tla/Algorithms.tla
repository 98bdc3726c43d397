----------------------------- MODULE Algorithms -----------------------------
(***************************************************************************)
(* The programs that compute one result from one input: prefix_sum.cpp,    *)
(* matrix_det.cpp and containers.cpp.  Which of them is run is chosen in   *)
(* the initial state; the variables of the others keep their initial       *)
(* values.                                                                 *)
(***************************************************************************)
EXTENDS Integers, Sequences

CONSTANTS
    Width, MaxN, MaxSum,            (* PrefixSum                           *)
    ThreadCounts, Matrices,         (* MatrixDet                           *)
    MaxTerms, MaxCoef, MaxPow       (* Derivative                          *)

\* With at most 2^30 elements 1 << step never leaves the range of an int.
ASSUME AlgorithmsAssumption ==
    /\ Width \in Nat \ {0} /\ 2 ^ (Width - 1) \in Nat \ {0}
    /\ MaxN \in Nat /\ MaxN <= 2 ^ 30 /\ MaxSum \in Nat
    /\ ThreadCounts \subseteq Nat \ {0}
    /\ \A m \in Matrices :
          Len(m) \in Nat /\ m \in [1..Len(m) -> [1..Len(m) -> Int]]
    /\ MaxTerms \in Nat \ {0} /\ MaxCoef \in Nat /\ MaxPow \in Nat

VARIABLES
    algorithm,                                          (* what is run     *)
    pc, n, sums, shift, i, prevPrefSum, curPrefSum,     (* PrefixSum       *)
    prefSequential,
    stage, threadsCnt, matrix, a, det, column,          (* MatrixDet       *)
    maxValueIndex, localMax, finished,
    at, polynomial, match, constant_by_pow, it, result  (* Derivative      *)

Prefix == INSTANCE PrefixSum
Matrix == INSTANCE MatrixDet
Poly   == INSTANCE Derivative

prefixVars == <<pc, n, sums, shift, i, prevPrefSum, curPrefSum, prefSequential>>
detVars    == <<stage, threadsCnt, matrix, a, det, column, maxValueIndex,
                localMax, finished>>
polyVars   == <<at, polynomial, match, constant_by_pow, it, result>>
allVars    == <<algorithm, prefixVars, detVars, polyVars>>

\* A matrix of integers as a is read.
Floats(m) == [j \in DOMAIN m |-> [k \in DOMAIN m[j] |-> Matrix!Frac(m[j][k])]]

\* The inputs of the algorithm that is run; the first one for the others.
Chosen(name, inputs, first) == IF algorithm = name THEN inputs ELSE {first}

Init ==
    /\ algorithm \in {"prefix_sum", "matrix_det", "derivative"}
    /\ Prefix!PrefixInit(Chosen("prefix_sum", Prefix!Inputs, [k \in {0} |-> 0]))
    /\ Matrix!DetInit(Chosen("matrix_det", {Floats(m) : m \in Matrices}, <<>>))
    /\ algorithm # "matrix_det" => \A c \in ThreadCounts : threadsCnt <= c
    /\ Poly!PolyInit(Chosen("derivative", Poly!Polynomials, <<>>))

Next ==
    /\ \/ /\ algorithm = "prefix_sum" /\ Prefix!PrefixNext
          /\ UNCHANGED <<detVars, polyVars>>
       \/ /\ algorithm = "matrix_det" /\ Matrix!DetNext
          /\ UNCHANGED <<prefixVars, polyVars>>
       \/ /\ algorithm = "derivative" /\ Poly!PolyNext
          /\ UNCHANGED <<prefixVars, detVars>>
    /\ UNCHANGED algorithm

Spec == Init /\ [][Next]_allVars
-----------------------------------------------------------------------------
\* Every pass of the prefix sums, also in the middle of it, has the sums of the
\* right windows; what an int can hold is printed exactly although sums on the
\* way to it have wrapped around.
PrefixSumsAreExact == algorithm = "prefix_sum" => Prefix!PrefixSumsAreExact

\* The determinant is the one of the input after every column, in whichever
\* order the threads report their pivots, and equals the sequential result.
DeterminantIsExact == algorithm = "matrix_det" => Matrix!DeterminantIsExact

\* The text that derivative returns reads as the derivative of its argument.
DerivativeIsFormal == algorithm = "derivative" => Poly!DerivativeIsFormal
=============================================================================
