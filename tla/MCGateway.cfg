SPECIFICATION FairSpec
CONSTANTS
  d1 = d1
  w1 = w1
  w2 = w2
  Conns = {d1}
  Workers = {w1,w2}
  MaxReq = 2
  MaxChunks = 2
  None = None
INVARIANTS TypeOK AnsweredByOne ClientsBounded
PROPERTIES ReplacedFallsSilent AnsweredUnless
