SPECIFICATION Spec
CONSTANTS
  Task <- MCTask
  Idle = "idle"
  Base <- MCBase
  Object <- MCObject
  Mutex = {"core", "sys"}
  FromISR = {"sem"}
  Size <- MCSize
  Initial <- MCInitial
  Programs <- MCPrograms
  TickMod = 4
  MaxPended = 2
INVARIANTS
  TypeOK
  HighestRuns
  NoLostWakeUp
  NeverLate
  Inherited
PROPERTY NeverEarly
