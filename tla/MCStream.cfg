SPECIFICATION FairSpec
CONSTANTS
  Alphabet = {"cr","lf"}
  Chunk = 3
  AnswerSize = 2
  Room = 3
  MaxBytes = 9
INVARIANTS TypeOK MessagesWhole NothingMissed
PROPERTIES MessagesServed
