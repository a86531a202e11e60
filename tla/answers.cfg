SPECIFICATION MCSpec
CONSTANT None = None
INVARIANTS JourneysAreRight SearchesAreRight VerdictsAreFair
CHECK_DEADLOCK FALSE
