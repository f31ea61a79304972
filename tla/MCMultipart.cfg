SPECIFICATION Spec
CONSTANTS
  Symbol <- Symbols
  File = {"f", "g"}
  Upload <- Uploads
  Missing = {0, 6}
  Piece = {1, 2, 5, 40}
  NoFile = NoFile
INVARIANTS
  TypeOK
  AnswerTellsTheOutcome
PROPERTIES
  ImplementsParts
  EveryUploadIsAnswered
CHECK_DEADLOCK FALSE
