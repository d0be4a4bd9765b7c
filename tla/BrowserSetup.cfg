SPECIFICATION SetupFairSpec
CONSTANTS
  Runtimes = {"managed", "docker", "chrome"}
  MaxImports = 2
INVARIANTS ImportAlone ConfiguredMode
PROPERTIES Recovers
