SPECIFICATION Spec
CONSTANTS
  None = None
  Session = {s1, s2}
  Names = 2
  Configs <- MCConfigs
SYMMETRY Symmetry
PROPERTIES OnlyDeadGivenUp
