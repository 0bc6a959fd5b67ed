CONSTANTS
  MAX_OPEN_FILE = 3
  Client = {c1, c2}
  Name = {"long", "mixed", "short", "sub", "none", "verbose"}
  TooLong = {"verbose"}
  Dir <- TheDir
  Fat <- OddFat
  MaxHeld = 2
SPECIFICATION BoundedSpec
PROPERTIES NextClusterSet
