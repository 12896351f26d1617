SPECIFICATION FairSpec
CHECK_DEADLOCK FALSE
CONSTANTS
  queue1 = queue1
  queue2 = queue2
  Request = {queue1, queue2}
  None = None
  MaxJobs = 3
INVARIANT TypeOK
INVARIANT OwnAnswer
PROPERTY ImplementsAction
PROPERTY StopsAtOnce
PROPERTY EveryJobEnds
