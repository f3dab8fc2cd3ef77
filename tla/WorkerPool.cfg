SPECIFICATION FairSpec
CONSTANTS
  Jobs = {j1, j2, k1}
  CursorJobs = {k1}
  Threads = {t1, t2, t3}
  Min = 2
  Max = 3
  Stop = Stop
  NoJob = NoJob
INVARIANTS CountsExact ThreadCeiling FloorOfWorkers BurstGetsWorkers NoLostWakeup AcceptedJobsRun OkMeansClosed
PROPERTIES EveryJobServed CloseAnswered EngineEnds ShrinksToFloor
