\* Base 4 has pairs of digits with none, one and two digits between them; threshold 5
\* leaves room for two more digits than a re-keyed list of three needs.
SPECIFICATION ListSpec
CONSTANTS
  Base = 4
  JitterDigits = {1, 3}
  Threshold = 5
  MaxRows = 3
INVARIANTS Ascending OrderIsNumeric KeysStayShort
