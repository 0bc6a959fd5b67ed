CONSTANTS
  MAX_OPEN_FILE = 3
  Client = {c1, c2}
  Name = {"long", "mixed", "short", "sub", "none", "verbose"}
  TooLong = {"verbose"}
  Dir <- TheDir
  Fat <- EvenFat
  MaxHeld = 2
SPECIFICATION BoundedSpec
INVARIANTS TypeOK HeldFile ReadPrefix
PROPERTIES LostByExit
