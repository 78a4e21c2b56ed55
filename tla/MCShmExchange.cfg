SPECIFICATION Spec
CONSTANTS
  Producers = {p1}
  Consumers = {c1, c2}
  MaxNum = 2
  Lengths <- MCLengths
  MaxKills = 2
INVARIANT Inv
PROPERTIES NothingLost BatchesAreSummed
