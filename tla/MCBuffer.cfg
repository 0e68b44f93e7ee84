\* Two buffers of up to four bytes, allocated in steps of two.
CONSTANTS
    x = x  y = y  b1 = b1  b2 = b2  Junk = Junk
    Buf <- TwoBufs
    Byte <- TwoBytes
    Align = 2
    SizeLimit = 6
    MaxRequest = 2
SPECIFICATION Spec
SYMMETRY BufferSymmetry
INVARIANTS TypeOK InBounds
PROPERTIES KeepsBytes
