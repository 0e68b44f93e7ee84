\* As many calls as leave the counter positive.
CONSTANTS
    Width = 6
    Ranges <- SomeRanges
    MaxRetains = 30
SPECIFICATION Spec
INVARIANTS TypeOK InRange Balanced
