SPECIFICATION Spec
CONSTANTS
  Operators = {o1, o2}
  ArgumentLists <- MCArgumentLists
  StartTypes = {"AutoStart", "Disabled", "unsupported"}
  MaxCommands = 3
SYMMETRY OperatorSymmetry
INVARIANTS
  StopAndMaskAnswers
  ImageRunsTheService
