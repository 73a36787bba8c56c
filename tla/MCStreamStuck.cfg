SPECIFICATION FairSpec
CONSTANTS
  Alphabet = {"cr","lf"}
  Chunk = 3
  AnswerSize = 4
  Room = 3
  MaxBytes = 4
PROPERTIES OutputDrains
