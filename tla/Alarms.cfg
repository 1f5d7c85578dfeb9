CONSTANTS
  Families <- MCFamilies
  Waiters <- MCWaiters
  Resetters <- MCResetters
  Parent <- MCParent
  MaxRaises <- MCMaxRaises
  MaxCalls = 2
  MaxStops = 1
SPECIFICATION Spec
INVARIANT NotifierWoken
INVARIANT AlarmHasCause
PROPERTY TemperatureRearmed
CHECK_DEADLOCK FALSE
