CONSTANTS
  KB_IN_BYTES = 2
  Key = {"a", "shift", "ctrlr", "prtsc", "pause", "up"}
  MaxNest = 1
  MaxDown = 2
  Typists = {"hurried", "paced"}
SPECIFICATION TypingSpec
INVARIANTS TypeOK RingShape
PROPERTIES RingQueue KeysInOrder DecoderReturns
