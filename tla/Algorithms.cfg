CONSTANTS
    Width = 2
    MaxN = 5
    MaxSum = 4
    ThreadCounts = {2, 3}
    MaxEntry = 2
    Matrices <- SmallMatrices
    MaxTerms = 2
    MaxCoef = 2
    MaxPow = 3
SPECIFICATION Spec
INVARIANTS PrefixSumsAreExact DeterminantIsExact DerivativeIsFormal
CHECK_DEADLOCK FALSE
