SPECIFICATION BankSpec
CONSTANTS
  Problems = {q1}  Options = {"a"}  Concepts = {k0, k1}  Uncategorized = k0
  Calls = {e1, e2}  PlannedDays = 0  Unset = Unset
INVARIANT ConceptsExist
CHECK_DEADLOCK FALSE
