SPECIFICATION Spec
CONSTANTS
  c1 = c1
  c2 = c2
  c3 = c3
  s1 = s1
  s2 = s2
  Slugs = {s1, s2}
  Callers = {c1, c2, c3}
  Unit = 2
  Burst = 4
  Rate = 1
  MaxTime = 3
SYMMETRY CallerSymmetry
INVARIANTS LimiterInv WithinAllowance BurstServed
