SPECIFICATION Spec
CONSTANTS
  s1 = s1  s2 = s2  s3 = s3  s4 = s4  b1 = b1  f1 = f1  f2 = f2  f3 = f3
  Starter = {s1, s2}
  Button = {}
  Function = {f1, f2, f3}
  Action <- FieldAction
  Nobody = Nobody
  Dangling = Dangling
  HighPriority = {}
  SilentFunction = {f2}
  UpdateForms = {f1, f2, f3}
  Input = {s1}
  Early = {s1}
  BlockUndo = {}
  AfterUpdate = Nobody
INVARIANT JobInOwnTransaction
