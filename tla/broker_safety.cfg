SPECIFICATION Spec
CONSTANTS
    Callers = {c1, c2}
    MaxQueries = 3
    Sizes <- TwoSizes
SYMMETRY CallerSymmetry
INVARIANTS AnswersMatch HeapSafe BlocksFreed EventBalanced
CHECK_DEADLOCK FALSE
