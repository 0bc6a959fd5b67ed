CONSTANTS
  KB_IN_BYTES = 3
  Key = {"a", "up"}
  MaxNest = 2
  MaxDown = 2
  Typists = {"nested"}
SPECIFICATION NestedSpec
INVARIANTS HandlerSaves
