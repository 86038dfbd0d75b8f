SPECIFICATION Spec
CONSTANTS
  Fds <- MCFds
  Wrappers = {w1, w2, w3}
  Threads = {t1, t2}
  Client = client
  NoObject = none
INVARIANTS
  TypeOK
  Exclusive
  NoLeak
PROPERTY ImplementsOwnership
SYMMETRY Symmetry
