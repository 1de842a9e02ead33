\* Every release of up to MaxGroups groups of one or two objects, and of one
\* group more when each has one object, printed in every order.
SPECIFICATION Spec
CONSTANTS
  MaxGroups = 2
  Releases <- SmallReleases
  Cut <- CutAddresses
INVARIANTS TypeOK NeverPanics UnavailableIsSeen AvailableNeverFails ServicesKept IngressesKept
