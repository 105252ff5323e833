CONSTANTS
  Text <- MCText
  Chunks <- MCChunks
  MaxChunks = 2
  SeqMod = 3
  Passes = 1
  Hold = 2
  Heartbeat = 2
  Stale = 3
  MaxGap = 2
SPECIFICATION Spec
INVARIANTS NothingLeftUp
PROPERTIES Genuine Follows Forgets
