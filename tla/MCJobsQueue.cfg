SPECIFICATION Spec
CONSTANTS
  s1 = s1  s2 = s2  s3 = s3  s4 = s4  b1 = b1  f1 = f1  f2 = f2  f3 = f3
  Starter = {s1, s2, s3, s4}
  Button = {}
  Function = {f1, f2, f3}
  Action <- StarterAction
  Nobody = Nobody
  Dangling = Dangling
  HighPriority = {f2}
  SilentFunction = {f2}
  UpdateForms = {f1, f3}
  Input = {s1}
  Early = {}
  BlockUndo = {s3, s4}
  AfterUpdate = s4
INVARIANTS JobInOwnTransaction QuietIsClean ActiveIsLive AssertsHold
PROPERTIES OneTransactionEnds ImplementsJobQueue
