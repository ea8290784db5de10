CONSTANTS
  Classes = {"One", "Two"}
  JobsOf <- MCJobsOf
  GroupCounters = 2
  BufferSize = 10
  Threads = 2
  MaxSystems = 3
  MaxGroup = 0
  MaxChunks = 2
SPECIFICATION Spec
INVARIANTS TypeOK ArgumentsIntact JobsInOrder OverflowOnlyByDemand
PROPERTIES CommandsAfterAllJobs RunsEnd
CHECK_DEADLOCK FALSE
