------------------------------ MODULE MatrixDet -----------------------------
(***************************************************************************)
(* parallel_programming/matrix_det.cpp: the determinant by elimination     *)
(* with the pivot that is greatest in its column.  For each column a team  *)
(* of threads looks for the pivot, each in its chunk of the rows, and the  *)
(* threads enter a critical section in any order; two more teams exchange  *)
(* the rows and eliminate.  A team starts and ends with a barrier.         *)
(*                                                                         *)
(* Rows and columns count from 1.  A float is an exact fraction here:      *)
(* rounding is left out.                                                   *)
(***************************************************************************)
EXTENDS Integers, Sequences, FiniteSets, FiniteSetsExt

CONSTANT ThreadCounts   (* bound: sizes of the teams                       *)

VARIABLES
    stage,          (* "read", "search", "critical", "test", "swap",       *)
                    (*   "eliminate", "output" or an end                   *)
    threadsCnt,
    matrix,         (* a as it was read                                    *)
    a,              (* a sequence of rows, each a sequence of fractions    *)
    det, column,    (* det, i                                              *)
    maxValueIndex,
    localMax,       (* [Threads -> localMaxValueIndex]                     *)
    finished        (* threads at the barrier of this team                 *)

detVars == <<stage, threadsCnt, matrix, a, det, column, maxValueIndex, localMax,
             finished>>

\* Fractions <<numerator, denominator>>, the denominator greater than zero.
Reduced(p, q) ==
    LET g == Max({d \in 1..q : p % d = 0 /\ q % d = 0}) IN <<p \div g, q \div g>>
Frac(p)       == <<p, 1>>
Times(x, y)   == Reduced(x[1] * y[1], x[2] * y[2])
Minus(x, y)   == Reduced(x[1] * y[2] - y[1] * x[2], x[2] * y[2])
Plus(x, y)    == Reduced(x[1] * y[2] + y[1] * x[2], x[2] * y[2])
Over(x, y)    == IF y[1] > 0 THEN Reduced(x[1] * y[2], x[2] * y[1])
                 ELSE Reduced(-(x[1] * y[2]), -(x[2] * y[1]))
Neg(x)        == <<-x[1], x[2]>>
fabs(x)       == IF x[1] < 0 THEN Neg(x) ELSE x
Greater(x, y) == x[1] * y[2] > y[1] * x[2]

Threads == 1..threadsCnt
LastRow == Len(a)

\* schedule(static): the iterations lo..hi in consecutive chunks, the first ones
\* longer by one if they cannot be equal.
First(t, lo, hi) ==
    LET all == hi - lo + 1
    IN  lo + (t - 1) * (all \div threadsCnt)
           + (IF t - 1 < all % threadsCnt THEN t - 1 ELSE all % threadsCnt)

Chunk(t, lo, hi) == First(t, lo, hi)..(First(t + 1, lo, hi) - 1)

\* The row that a scan of rows lo..hi ends with that has begun with row start.
Scan(m, c, start, lo, hi) ==
    LET best[j \in (lo - 1)..hi] ==
            IF j < lo THEN start
            ELSE IF Greater(fabs(m[j][c]), fabs(m[best[j - 1]][c])) THEN j
            ELSE best[j - 1]
    IN  best[hi]

\* Columns cs of rows r and s exchanged.
Swapped(m, r, s, cs) ==
    [m EXCEPT ![r] = [k \in DOMAIN @ |-> IF k \in cs THEN m[s][k] ELSE @[k]],
              ![s] = [k \in DOMAIN @ |-> IF k \in cs THEN m[r][k] ELSE @[k]]]

\* Column c of the given rows eliminated with row c.
Eliminated(m, c, rows) ==
    [j \in DOMAIN m |->
        IF j \notin rows THEN m[j]
        ELSE [k \in DOMAIN m[j] |->
                 IF k < c THEN m[j][k]
                 ELSE IF k = c THEN Frac(0)
                 ELSE Minus(m[j][k], Times(m[c][k], Over(m[j][c], m[c][c])))]]

\* detWithoutOmp: one column after the other, until a pivot is zero.
Turn(s, c, n) ==
    LET p  == Scan(s.a, c, c, c + 1, n)
        sw == IF p = c THEN s.a ELSE Swapped(s.a, c, p, c..n)
        d  == IF p = c THEN s.det ELSE Neg(s.det)
    IN  IF s.stop THEN s
        ELSE IF s.a[p][c] = Frac(0)
        THEN [s EXCEPT !.det = Frac(0), !.stop = TRUE]
        ELSE [s EXCEPT !.a = Eliminated(sw, c, (c + 1)..n), !.det = Times(d, sw[c][c])]

detWithoutOmp(m) ==
    LET after[c \in 0..Len(m)] ==
            IF c = 0 THEN [a |-> m, det |-> Frac(1), stop |-> FALSE]
            ELSE Turn(after[c - 1], c, Len(m))
    IN  after[Len(m)].det
-----------------------------------------------------------------------------
DetInit(inputs) ==
    /\ matrix \in inputs
    /\ threadsCnt \in ThreadCounts
    /\ stage = "read"
    /\ a = matrix
    /\ det = Frac(1)
    /\ column = 1
    /\ maxValueIndex = 1
    /\ localMax = [t \in Threads |-> 1]
    /\ finished = {}

\* Column c is up: the head of the loop over i.
BeginColumn(c) ==
    /\ column' = c
    /\ stage' = IF c <= LastRow THEN "search" ELSE "output"
    /\ maxValueIndex' = c
    /\ localMax' = [t \in Threads |-> c]
    /\ finished' = {}

Read ==
    /\ stage = "read"
    /\ \/ /\ BeginColumn(1)
       \/ /\ stage' = "error"
          /\ UNCHANGED <<column, maxValueIndex, localMax, finished>>
    /\ UNCHANGED <<threadsCnt, matrix, a, det>>

\* Thread t gets to the barrier; the last one there opens the next stage.
Arrives(t, next) ==
    /\ t \in Threads \ finished
    /\ \/ /\ finished \union {t} # Threads
          /\ finished' = finished \union {t}
          /\ UNCHANGED stage
       \/ /\ finished \union {t} = Threads
          /\ finished' = {}
          /\ stage' = next

Search(t) ==
    /\ stage = "search"
    /\ Arrives(t, "critical")
    /\ localMax' = [localMax EXCEPT ![t] =
                       Scan(a, column, @, First(t, column + 1, LastRow),
                            First(t + 1, column + 1, LastRow) - 1)]
    /\ UNCHANGED <<threadsCnt, matrix, a, det, column, maxValueIndex>>

\* Seeded fault: the rows of the last thread win.
LastWins(j) == j

Better(j) ==
    IF Greater(fabs(a[j][column]), fabs(a[maxValueIndex][column]))
    THEN j ELSE maxValueIndex

Critical(t) ==
    /\ stage = "critical"
    /\ Arrives(t, "test")
    /\ maxValueIndex' = Better(localMax[t])
    /\ UNCHANGED <<threadsCnt, matrix, a, det, column, localMax>>

\* det = 0; break
ZeroPivot ==
    /\ stage = "test"
    /\ a[maxValueIndex][column] = Frac(0)
    /\ det' = Frac(0)
    /\ stage' = "output"
    /\ UNCHANGED <<threadsCnt, matrix, a, column, maxValueIndex, localMax, finished>>

\* The pivot is in its row, or the rows have to be exchanged first.
Pivot ==
    /\ stage = "test"
    /\ a[maxValueIndex][column] # Frac(0)
    /\ \/ /\ maxValueIndex # column
          /\ det' = Neg(det)
          /\ stage' = "swap"
       \/ /\ maxValueIndex = column
          /\ det' = Times(det, a[column][column])
          /\ stage' = "eliminate"
    /\ UNCHANGED <<threadsCnt, matrix, a, column, maxValueIndex, localMax, finished>>

\* The last thread there is followed by det *= a[i][i].
Swap(t) ==
    /\ stage = "swap"
    /\ Arrives(t, "eliminate")
    /\ a' = Swapped(a, column, maxValueIndex, Chunk(t, column, LastRow))
    /\ det' = IF stage' = "eliminate" THEN Times(det, a'[column][column]) ELSE det
    /\ UNCHANGED <<threadsCnt, matrix, column, maxValueIndex, localMax>>

Eliminate(t) ==
    /\ stage = "eliminate"
    /\ a' = Eliminated(a, column, Chunk(t, column + 1, LastRow))
    /\ t \in Threads \ finished
    /\ IF finished \union {t} = Threads
       THEN BeginColumn(column + 1)
       ELSE /\ finished' = finished \union {t}
            /\ UNCHANGED <<stage, column, maxValueIndex, localMax>>
    /\ UNCHANGED <<threadsCnt, matrix, det>>

\* The result goes to the terminal, or to a file that may fail to open.
Output ==
    /\ stage = "output"
    /\ stage' \in {"printed", "error"}
    /\ UNCHANGED <<threadsCnt, matrix, a, det, column, maxValueIndex, localMax,
                   finished>>

DetNext ==
    \/ Read \/ ZeroPivot \/ Pivot \/ Output
    \/ \E t \in Threads : Search(t) \/ Critical(t) \/ Swap(t) \/ Eliminate(t)
-----------------------------------------------------------------------------
SumOf(f, n) ==
    LET upTo[k \in 0..n] == IF k = 0 THEN Frac(0) ELSE Plus(upTo[k - 1], f[k])
    IN  upTo[n]

\* The term of column k of C, with the sign of its place among them.
Signed(C, k, x) == IF Cardinality({l \in C : l < k}) % 2 = 0 THEN x ELSE Neg(x)

\* The determinants of the last d rows of m and the columns in C, expanded along
\* the first of these rows; zero if these are not as many as the columns.
Minors(m) ==
    LET n == Len(m)
        minor[d \in 0..n] ==
            [C \in SUBSET (1..n) |->
                IF d = 0 THEN IF C = {} THEN Frac(1) ELSE Frac(0)
                ELSE SumOf([k \in 1..n |->
                               IF k \notin C THEN Frac(0)
                               ELSE Signed(C, k, Times(m[n - d + 1][k],
                                                       minor[d - 1][C \ {k}]))], n)]
    IN  minor

\* The determinant of rows and columns lo.. of m.
Determinant(m, lo) == Minors(m)[Len(m) - lo + 1][lo..Len(m)]

\* Between the teams that change a, det times the determinant of what is left
\* is the determinant of the input; the result is that determinant and what the
\* sequential function returns, whichever thread finds the pivot.
DeterminantIsExact ==
    /\ stage \in {"search", "critical", "test"} =>
           Times(det, Determinant(a, column)) = Determinant(matrix, 1)
    /\ stage = "output" =>
           det = Determinant(matrix, 1) /\ det = detWithoutOmp(matrix)
=============================================================================
