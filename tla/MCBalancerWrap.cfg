\* One call more than fits the int.
CONSTANTS
    Width = 6
    Ranges <- SomeRanges
    MaxRetains = 40
SPECIFICATION Spec
INVARIANTS InRange
