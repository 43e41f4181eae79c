SPECIFICATION PidSpec
CONSTANTS
  Wrappers = {w1, w2, w3}
  IoErrors = TRUE
  MaxJvmId = 2
SYMMETRY WrapperSymmetry
INVARIANTS
  NoFileOutlivesItsWriter
