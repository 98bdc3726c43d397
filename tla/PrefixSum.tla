------------------------------ MODULE PrefixSum -----------------------------
(***************************************************************************)
(* parallel_programming/prefix_sum.cpp: prefix sums in about log2(n)       *)
(* passes, first by prefSum, then by prefSumParallelAlgorithm.  "omp for"  *)
(* of the second stands outside a parallel region, so its team has one     *)
(* thread and both functions do the same.                                  *)
(*                                                                         *)
(* A pass adds to an element the one that is shift = 1 << step before it,  *)
(* from the array before the pass.  An element has Width bits, and         *)
(* additions wrap around, as they do in the build.  The length and shift   *)
(* are ints of 32 bits: with at most 2^30 elements they do not overflow.   *)
(***************************************************************************)
EXTENDS Integers

CONSTANTS
    Width,      (* bits of an element                                      *)
    MaxN,       (* bound: length of the array                              *)
    MaxSum      (* bound: absolute value of a prefix sum                   *)

VARIABLES
    pc,             (* "read", the function that runs, "output", or an end *)
    n,              (* the length of a                                     *)
    sums,           (* the true prefix sums of a, [0..n -> Int]            *)
    shift, i,       (* 1 << step, the index of the inner loop              *)
    prevPrefSum,    (* [0..n-1 -> ints]                                    *)
    curPrefSum,
    prefSequential  (* prefSequentialAlgorithm, what prefSum has returned  *)

prefixVars == <<pc, n, sums, shift, i, prevPrefSum, curPrefSum, prefSequential>>

Half  == 2 ^ (Width - 1)
ints  == -Half..(Half - 1)

Wrap(v) == ((v + Half) % (2 * Half)) - Half

\* Arrays, given by their prefix sums.
Inputs ==
    UNION {{s \in [0..m -> -MaxSum..MaxSum] :
                s[0] = 0 /\ \A k \in 1..m : s[k] - s[k - 1] \in ints} :
           m \in 0..MaxN}

a == [k \in 0..(n - 1) |-> sums[k + 1] - sums[k]]

PrefixInit(inputs) ==
    /\ sums \in inputs
    /\ n = (CHOOSE m \in 0..MaxN : DOMAIN sums = 0..m)
    /\ pc = "read"
    /\ shift = 1 /\ i = 0
    /\ prevPrefSum = <<>> /\ curPrefSum = <<>> /\ prefSequential = <<>>

\* The start of prefSum and of prefSumParallelAlgorithm.
Enter(function) ==
    /\ pc' = function
    /\ prevPrefSum' = a
    /\ curPrefSum' = a
    /\ shift' = 1
    /\ i' = 0

\* main: an argument, the file or an element is missing.
ReadFails ==
    /\ pc = "read"
    /\ pc' = "error"
    /\ UNCHANGED <<n, sums, shift, i, prevPrefSum, curPrefSum, prefSequential>>

Read ==
    /\ pc = "read"
    /\ Enter("prefSum")
    /\ UNCHANGED <<n, sums, prefSequential>>

\* Seeded fault: the element is taken from the array that is written.
FromCurrent == curPrefSum[i]

Addend == prevPrefSum[i]

AtLoop == pc \in {"prefSum", "prefSumParallelAlgorithm"}

Add ==
    /\ AtLoop
    /\ i < n - shift
    /\ curPrefSum' = [curPrefSum EXCEPT ![i + shift] = Wrap(@ + Addend)]
    /\ i' = i + 1
    /\ UNCHANGED <<pc, n, sums, shift, prevPrefSum, prefSequential>>

\* prevPrefSum = curPrefSum; step++
PassEnds ==
    /\ AtLoop
    /\ shift < n
    /\ i >= n - shift
    /\ prevPrefSum' = curPrefSum
    /\ shift' = 2 * shift
    /\ i' = 0
    /\ UNCHANGED <<pc, n, sums, curPrefSum, prefSequential>>

\* The loop over the passes ends, and the function returns.
Return ==
    /\ AtLoop
    /\ shift >= n
    /\ \/ /\ pc = "prefSum"
          /\ prefSequential' = curPrefSum
          /\ Enter("prefSumParallelAlgorithm")
       \/ /\ pc = "prefSumParallelAlgorithm"
          /\ pc' = "output"
          /\ UNCHANGED <<shift, i, prevPrefSum, curPrefSum, prefSequential>>
    /\ UNCHANGED <<n, sums>>

\* The result goes to the terminal, or to a file that may fail to open.
Output ==
    /\ pc = "output"
    /\ pc' \in {"printed", "error"}
    /\ UNCHANGED <<n, sums, shift, i, prevPrefSum, curPrefSum, prefSequential>>

PrefixNext == ReadFails \/ Read \/ Add \/ PassEnds \/ Return \/ Output
-----------------------------------------------------------------------------
PrefixTypeOK ==
    /\ pc \in {"read", "prefSum", "prefSumParallelAlgorithm", "output",
               "printed", "error"}
    /\ n \in 0..MaxN
    /\ sums \in [0..n -> -MaxSum..MaxSum]
    /\ AtLoop => prevPrefSum \in [0..(n - 1) -> ints]
    /\ AtLoop => curPrefSum \in [0..(n - 1) -> ints]

Later(j, k) == IF j >= k THEN j ELSE k

\* After whole passes, element k is the sum of the last w elements up to k.
Window(k, w) == Wrap(sums[k + 1] - sums[Later(0, k + 1 - w)])

\* Within a pass the elements below i + shift have the wider window already, the
\* others and the array before the pass the narrower one.
PassIsSound ==
    AtLoop => \A k \in 0..(n - 1) :
        /\ prevPrefSum[k] = Window(k, shift)
        /\ curPrefSum[k] =
               Window(k, IF k < i + shift THEN 2 * shift ELSE shift)

\* A prefix sum that an int can hold is printed, although sums on the way to it
\* may have wrapped around; and both functions return the same.
ResultIsExact ==
    pc \in {"output", "printed"} =>
        /\ \A k \in 0..(n - 1) : sums[k + 1] \in ints =>
               curPrefSum[k] = sums[k + 1]
        /\ curPrefSum = prefSequential

PrefixSumsAreExact == PrefixTypeOK /\ PassIsSound /\ ResultIsExact
=============================================================================
