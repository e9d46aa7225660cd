SPECIFICATION Spec
CONSTANTS
  Surfaces <- MCSurfaces
  Asked <- MCAsked
  Universe <- MCUniverse
  MaxPatterns = 3
INVARIANTS MostSpecificWins RedirectsEnd AllowIsHonest
