SPECIFICATION FairSpec
CONSTANTS
  alarm = alarm
  order = order
  value = value
  button = button
  NoJob = NoJob
  Header = {alarm, order, value}
  Calls = {alarm, order}
  Other = {button}
  MaxMessages = 4
INVARIANT OwnData
INVARIANT InOrder
PROPERTY ImplementsJobQueue
PROPERTY EveryMessageProcessed
