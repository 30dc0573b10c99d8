CONSTANTS
  MaxNotes = 2
  Cap = 1
  MaxKept = 1
  MaxRetries = 2
  Deletes = TRUE
  MaxRestarts = 1
  Channel = {"webhook"}
  Env = {"webhook"}
  Absent = Absent
  NoJob = NoJob
SPECIFICATION Spec
INVARIANTS PendingHasJob DeliveredOnce
CHECK_DEADLOCK FALSE
