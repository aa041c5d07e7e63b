SPECIFICATION FairSpec
CONSTANTS
  p1 = p1  p2 = p2  NoProc = NoProc
  Procs <- TwoProcs
  Live <- OneProc
  PerMinute = 3
  PerDay = 5
  SharePercent = 70
  MinuteSpan = 2
  HourSpan = 2
  DaySpan = 4
  KeepWindows = 6
  MaxRows = 2
  MaxSystem = 1
  MaxOpen = 1
  MaxNow = 7
CHECK_DEADLOCK FALSE
INVARIANTS
  DayHeld
  MinuteEstimateHeld
PROPERTIES
  SystemMailGoes
