SPECIFICATION Spec
CONSTANTS
  Subjects = {"s1", "s2"}
  Zips = {"z1", "z2"}
  Structures = {"t1", "t2"}
  Cents = {1}
  MaxRows = 3
INVARIANTS
  ChoiceIsStrictlyBest
  RefusedOnlyForOneKeyTwice
CHECK_DEADLOCK FALSE
