SPECIFICATION Spec
CONSTANTS
  Types <- MCTypes
  Lengths = {0, 3, 4}
  TextSize = 4
  QueueSize = 8
  MaxSends = 4
  Lines = 3
  PipeSize = 2
  Clients = {c1, c2, c3}
  Nobody = Nobody
  Ping = 2
  Backlog = 1
INVARIANT Delivered
PROPERTY ProgramsEnd
CHECK_DEADLOCK FALSE
