SPECIFICATION FairSpec
CONSTANTS
    Readers = {r1}
    UseIpa = TRUE
    BufferCount = 1
    Modulus = 2
    MaxChanges = 2
    MaxFaults = 1
    ProtectedMayHang = FALSE
    MaxCount = 2
CHECK_DEADLOCK FALSE
INVARIANTS VinstrSound
PROPERTIES CallsEnd
