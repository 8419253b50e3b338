\* Every path of up to six components over two names and "..".
CONSTANTS
  Name = {a, b}
  DotDot = dotdot
  MaxLen = 6
SPECIFICATION FairSpec
INVARIANTS
  TypeOK
  NoDotDotLeft
  PathIsResolved
  PanicsWhenShallow
PROPERTIES
  Terminates
