CONSTANTS
  Files = {"a", "b"}
  PageSize = 1
  Others = 1
  MaxActs = 3
SPECIFICATION Spec
INVARIANTS OwnDraft OnlyMatch
PROPERTIES PublishedExact ImplementsLedger
CHECK_DEADLOCK FALSE
