SPECIFICATION Spec
CONSTANTS
  Kinds = {"pages"}
  Nothing = Nothing
  Nil = Nil
  Crash = Crash
  Temp = Temp
  Keys = {1, 2, 3, 4, 5, 6}
  MaxNodes = 5
  HashKeys <- MCHashKeys
  Values = {v1, v2}
  Size = 3
  Width = 16
  DefaultSize = 2
  ExtendSize = 2
  MaxObjects = 5
  Handles = {h1, h2, h3}
  MaxNew = 2
  MaxCount = 3
  MaxOrder = 4
  Regions <- MCRegions
  Functors = {f1, f2, f3}
  Callables = {a, b}
  MaxClones = 4
  Vectors = {w1, w2}
  Items = {x, y}
  MaxArrays = 4
  Iterators = {i1, i2}
  MaxText = 4
  NoTarget = NoTarget
  Boxes = {b1, b2}
  Parts = {p1, p2}
  Receiver = Receiver
  Limit <- MCLimit
  Requests = {9, 99, 999}
  MaxRefs = 2
  Threads = {t1, t2, t3}
  MaxInstances = 3
  NoReceipt = NoReceipt
  Hosts <- MCHosts
  BufferSize = 50
  Data <- MCData
  MaxSizes = {2, 4}
  MaxFrames = 1
  Addresses = {o1, o2, o3, o4}
  NoThread = NoThread
  NoObject = NoObject
  MaxWrites = 2
PROPERTY LargestRequestServed
CHECK_DEADLOCK FALSE
