SPECIFICATION Spec
CONSTANTS
    Writers = {w1, w2}
    Blobs = {b1, b2}
    Inodes = {i1, i2, i3, i4}
    Absent = Absent
    NoInode = NoInode
SYMMETRY Symmetry
INVARIANTS
    TypeOK
    NeverHalfWritten
PROPERTIES
    OnlyCrashesLeak
    ImplementsAtomicFile
