SPECIFICATION Spec
CONSTANTS
    s1 = s1
    s2 = s2
    a = a
    b = b
    h = h
    Sessions <- Two
    Names <- ABH
    Hidden <- Dots
    Given <- AB
    Paths <- FivePaths
    Drives <- Both
    MaxHeld = 2
    MaxRenames = 1
SYMMETRY SessionSymmetry
INVARIANTS ActsInView
PROPERTIES MkdNamed RenamesWhatWasNamed ListingFaithful
