SPECIFICATION FairSpec
CONSTANTS
  r1 = r1
  p1 = p1
  p2 = p2
  Unset = Unset
  Garbled = Garbled
  Requests <- OneRequest
  Pairs <- TwoPairs
  Environments <- SixEnvironments
  Flags <- OneFlag
INVARIANTS SoundStart CheckedWhileAccepting WholeUnlessCut
PROPERTIES CheckerStops SignalObeyed SettledFilesKept
