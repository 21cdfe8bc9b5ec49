CONSTANTS XLEN = 8
          BYTE = 1
          ShortExp = 3
          ShortMan = 2
          LongExp = 4
SPECIFICATION ASpec
INVARIANTS DivisionIdentity ProductHalves ArithmeticAgrees WordResultsAreSigned
           FloatsAreOrdered FloatsAreNearest FloatExceptions FloatConversions
CHECK_DEADLOCK FALSE
