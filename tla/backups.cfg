SPECIFICATION Spec
CONSTANTS
  MaxBackups = 2
  Keep = 1
  Crons = {daily, five}
  Accepted = {daily}
  MaxEvents = 2
  Broken = Broken
  Live = Live
  None = None
INVARIANTS CompletedHasArchive SomebodyWorks RotationKeeps
  ScheduleIsCurrent DatabaseSurvives
CHECK_DEADLOCK FALSE
