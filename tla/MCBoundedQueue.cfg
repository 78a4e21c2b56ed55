\* More threads on each side than there are slots or than the programs start;
\* no symmetry, because of the liveness property.
SPECIFICATION Spec
CONSTANTS
  Producers = {p1, p2, p3}
  Consumers = {c1, c2}
  Capacity = 2
  NoThread = NoThread
INVARIANT Inv
PROPERTY ItemsFlow
