SPECIFICATION Spec
CONSTANTS
  Drafts = {"a", "b"}
  Keyword <- Named
  Similar <- Close
  MaxKeys = 3
  MaxSends = 2
CHECK_DEADLOCK FALSE
INVARIANT InjectedAsShown
