CONSTANTS
  r1 = r1  r2 = r2  s1 = s1  s2 = s2
  Size = 3
  Readers <- OneReader
  Servants <- OneServant
  Servant <- ItsServant
  Writer = Writer
  Free = Free
  MaxFrames = 5
SPECIFICATION Spec
INVARIANT SlotProtected
