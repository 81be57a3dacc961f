CONSTANTS
  r1 = r1  r2 = r2  s1 = s1  s2 = s2
  Size = 3
  Readers <- TwoReaders
  Servants <- TwoServants
  Servant <- OwnServant
  Writer = Writer
  Free = Free
  MaxFrames = 4
SPECIFICATION WriterSpec
INVARIANTS UnlappedReplyIsLatest ReplyNeverStale
PROPERTIES SaveAlwaysEnds CallsReturn
