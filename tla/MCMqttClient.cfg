SPECIFICATION ClientSpec
CONSTANTS
  murdock = murdock
  other = other
  Prefixes = {murdock, other}
  Default = murdock
  Values = {on}
  Empty = Empty
  Editors = {e1, e2}
  MaxSession = 3
  MaxEdit = 3
  MaxMessage = 2
CHECK_DEADLOCK FALSE
INVARIANTS
  OnlineIsBacked
  NeverBlind
