SPECIFICATION Spec
CONSTANTS
  s1 = s1  s2 = s2  s3 = s3  s4 = s4  b1 = b1  f1 = f1  f2 = f2  f3 = f3
  Starter = {s1, s2}
  Button = {b1}
  Function = {f1, f2, f3}
  Action <- MixedAction
  Nobody = Nobody
  Dangling = Dangling
  HighPriority = {}
  SilentFunction = {f2}
  UpdateForms = {f1, f2, f3}
  Input = {s1, b1}
  Early = {s1}
  BlockUndo = {s2}
  AfterUpdate = Nobody
CHECK_DEADLOCK FALSE
INVARIANTS TypeOK OneWakeup OwnersKnown UndoBlocked
PROPERTY ImplementsQueueSafely
