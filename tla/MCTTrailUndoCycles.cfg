SPECIFICATION Spec
CONSTANTS
  Owner = {o1}
  Nobody = Nobody
  Name = {x, y}
  Global = {y}
  Omit = {}
  Protected = {}
  Value = {e, v}
  Empty = e
  Cycle = {c1, c2}
  NoCycle = NoCycle
  Folder = {f}
  Page = {p1, p2}
  FirstPage = p1
  MaxElements = 2
  MaxDepth = 1
  MaxLog = 1
  Calls = {"undo", "switch-page", "cycles"}
PROPERTY ImplementsUndoHistory
SYMMETRY Symmetry
VIEW FreedCyclesIgnored
