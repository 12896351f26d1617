SPECIFICATION HistorySpec
CONSTANTS
  Owner = {o1, o2}
  Nobody = Nobody
  Name = {x}
  Global = {}
  Omit = {}
  Protected = {}
  Value = {e, v}
  Empty = e
  Cycle = {c1, c2}
  NoCycle = NoCycle
  Folder = {}
  Page = {p1}
  FirstPage = p1
  MaxElements = 1
  MaxDepth = 2
  MaxLog = 2
  Calls = {"cycles"}
INVARIANT NoDanglingItem
INVARIANT CyclesConsistent
PROPERTY AbortRestores
SYMMETRY Symmetry
VIEW FreedCyclesIgnored
