CONSTANTS
  MaxNotes = 2
  Cap = 2
  MaxKept = 1
  MaxRetries = 2
  Deletes = FALSE
  MaxRestarts = 0
  Channel = {"webhook"}
  Env = {"webhook"}
  Absent = Absent
  NoJob = NoJob
SPECIFICATION FairSpec
PROPERTIES Settles FailedTriedAgain
CHECK_DEADLOCK FALSE
