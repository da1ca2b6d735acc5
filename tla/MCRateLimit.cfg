\* Three callers on a bucket of two tokens that earns half a token per tick.
SPECIFICATION Spec
CONSTANTS
  Callers = {c1, c2, c3}
  Burst = 2
  Unit = 2
  Rate = 1
  Poll = 1
  MaxTime = 5
SYMMETRY CallerSymmetry
INVARIANTS RateBound WindowBound
