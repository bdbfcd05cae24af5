SPECIFICATION Spec
CONSTANTS
  Handlers = {h1, h2}
  Loops = {l1, l2}
  MaxTokens = 2
  MaxSpaces = 2
  MaxRequests = 3
  MaxRestarts = 1
INVARIANTS AttachesAreSerial PausedStaysDetached
PROPERTIES LiveCredentialKept SlotIsFreed FalseBadgeClears
CHECK_DEADLOCK FALSE
