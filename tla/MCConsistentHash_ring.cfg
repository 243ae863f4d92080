SPECIFICATION Spec
CONSTANTS
  c1 = c1
  c2 = c2
  Callers <- TwoCallers
  NumBackends = 2
  VirtualNodes = 2
  Layouts <- TwoEach
SYMMETRY Symmetry
INVARIANTS TypeOK SoundAlone RoomForAll
PROPERTY FindsOwner
