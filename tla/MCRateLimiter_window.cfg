SPECIFICATION Spec
CONSTANTS
  h1 = h1
  h2 = h2
  k1 = k1
  k2 = k2
  Handlers <- TwoHandlers
  Keys <- TwoKeys
  Limits <- SomeLimits
  MaxTime = 4
  MaxGrants = 3
SYMMETRY Symmetry
INVARIANT WindowKept
PROPERTY DeniedOnlyWhenFull
