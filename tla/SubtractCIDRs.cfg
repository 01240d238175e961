SPECIFICATION LiveSpec
CONSTANTS
  W = 3
  Inputs <- MCInputs
  Bad = Bad
INVARIANTS TypeOK ExactlyTheRest Minimal GuardrailQuiet
PROPERTY Terminates
