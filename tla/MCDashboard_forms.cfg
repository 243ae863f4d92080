SPECIFICATION Spec
CONSTANTS
  p1 = p1
  p2 = p2
  Requests <- TwoPosts
  Posts <- TwoPosts
  Limits <- SomeLimits
  Sizes <- ThreeSizes
  RateMaxes <- ZeroOne
CHECK_DEADLOCK FALSE
SYMMETRY Symmetry
INVARIANTS LimitsWhole Screened CutOnlyIfLowered ShutForGood
