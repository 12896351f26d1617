SPECIFICATION Spec
CONSTANTS
  Owner = {o1}
  Nobody = Nobody
  Name = {x}
  Global = {}
  Omit = {}
  Protected = {}
  Value = {e, v}
  Empty = e
  Cycle = {c1}
  NoCycle = NoCycle
  Folder = {f}
  Page = {p1, p2}
  FirstPage = p1
  MaxElements = 1
  MaxDepth = 1
  MaxLog = 2
  Calls = {"undo", "switch-page", "switch-in-transaction"}
PROPERTY ImplementsUndoHistory
