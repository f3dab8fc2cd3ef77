SPECIFICATION Spec
CONSTANTS
  Jobs = {j1, k1}
  CursorJobs = {k1}
  Threads = {t1, t2}
  Min = 1
  Max = 2
  Stop = Stop
  NoJob = NoJob
INVARIANT WorkersAreSoleOwners
