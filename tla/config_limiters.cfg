SPECIFICATION Spec
CONSTANTS
    Memory = {m1, m2}
    Custom = {u1}
    Configurers = {g1, g2}
    RPCs = {r1}
    Reinstall = FALSE
    MaxConfigures = 3
    MaxOptions = 4
    NoLimiter = NoLimiter
    NoOne = NoOne
SYMMETRY Symmetry
CHECK_DEADLOCK FALSE
INVARIANTS
    ReplacedIsStopped
    CurrentIsCleaned
    SnapshotIsWhole
