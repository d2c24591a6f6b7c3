SPECIFICATION KeySpec
CONSTANTS
  Codepoint <- MCCodepoint
  BufSize = 9
INVARIANTS
  InBounds
  WholeCharacters
PROPERTY
  ImplementsText
