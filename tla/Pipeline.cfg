CONSTANTS
  NMiddle = 3
  HookErrors = {"Io", "Startup"}
SPECIFICATION Spec
INVARIANTS
  PanicContained
  ChainDiscipline
