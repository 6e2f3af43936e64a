CONSTANTS
    Names = {a, b}
    Kinds <- FewKinds
    MaxField = 1
    MaxHandle = 3
    MaxDepth = 2
    Faults = {"self", "refuse", "lost"}
SPECIFICATION Spec
INVARIANT ListingIsRight
PROPERTY DeletesNamed
SYMMETRY Alike
VIEW Read
