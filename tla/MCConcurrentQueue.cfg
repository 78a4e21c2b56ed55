SPECIFICATION Spec
CONSTANTS
  Threads = {t1, t2, t3}
  Nodes = {n1, n2, n3, n4}
  Values = {v1, v2}
  NoThread = NoThread
  NoNode = NoNode
  NoValue = NoValue
  Missed = Missed
SYMMETRY Symmetry
INVARIANTS Inv NoFieldRace NoStranding
PROPERTY RefinesQueue
