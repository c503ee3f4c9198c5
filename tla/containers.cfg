\* Two lists share four nodes, of the doubly linked kind three; any four calls
\* on a buffer of the widest value's size.
CONSTANTS
  Node = {n1, n2, n3, n4}
  NULL = NULL
  List = {l1, l2}
  DNode = {d1, d2, d3}
  DNULL = NULL
  DList = {k1, k2}
  Size = 8
  Byte = {0, 1}
  Val <- OneHot
  None = None
  Stores <- TwoStores
  MaxCalls = 4
SPECIFICATION MCSpec
INVARIANTS WithinStore ReadsDecode TailIsLast BothWays
PROPERTIES ImplementsDeque ImplementsLists ImplementsDlists
