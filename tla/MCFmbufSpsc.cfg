CONSTANTS
  Size = 3
  MaxSent = 9
SPECIFICATION SSpec
INVARIANT StreamIntact
INVARIANT UnreadKept
