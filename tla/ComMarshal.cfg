SPECIFICATION Spec
CONSTANTS
  t1 = t1
  t2 = t2
  t3 = t3
  p1 = p1
  p2 = p2
  Null = Null
  Free = Free
  Threads <- ThreeThreads
  Ptrs <- TwoPtrs
INVARIANT TypeOK
PROPERTIES
  ImplementsRegister
