SPECIFICATION FairSpec
CONSTANTS
  w1 = w1
  w2 = w2
  Worker = {w1, w2}
  MaxJobs = 2
  PipeSize = 1
  BufSize = 1
INVARIANTS NoLostWakeup
PROPERTIES ImplementsQueue JobsServed DrainReturns CompletionsNotified
