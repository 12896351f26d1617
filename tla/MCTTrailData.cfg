SPECIFICATION FairSpec
CONSTANTS
  Owner = {o1, o2, o3}
  Nobody = Nobody
  Name = {x, z}
  Global = {}
  Omit = {z}
  Protected = {z}
  Value = {e, v}
  Empty = e
  Cycle = {c1}
  NoCycle = NoCycle
  Folder = {}
  Page = {p1}
  FirstPage = p1
  MaxElements = 1
  MaxDepth = 3
  MaxLog = 2
  Calls = {"undo", "clear-cycle"}
INVARIANT SavedOnce
INVARIANT NoAssertFails
PROPERTY ImplementsNestedTransactions
PROPERTY LoopsEnd
