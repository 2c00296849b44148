\* Decimals with a positive exponent and several digits.
SPECIFICATION EngineSpec
CONSTANTS
  Inputs <- DecimalInputs
  Threshold = 2
  Mantissas = 65536
  MaxScale = 7
INVARIANT DigitsOfDecimals
CHECK_DEADLOCK FALSE
