CONSTANTS
  Node = {n1, n2, n3, n4, n5}
  Data = {d1, d2}
  NoData = nodata
  Null = null
SPECIFICATION Spec
INVARIANTS TypeOK NodesAccounted
PROPERTIES ImplementsFifo
