SPECIFICATION Spec
CONSTANTS
  Documents <- SomeDocuments
  Null = Null
INVARIANTS
  AcceptsDocumentedLanguage
CHECK_DEADLOCK FALSE
