SPECIFICATION FairSpec
CONSTANTS
  Documents <- SomeDocuments
  Null = Null
INVARIANTS
  TypeOK
  AcceptsItsLanguage
  EveryUnitIsLexed
  OneAnswerPerLine
  NoSilentFailure
PROPERTY ParsingEnds
CHECK_DEADLOCK FALSE
