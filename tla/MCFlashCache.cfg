SPECIFICATION Spec
CONSTANTS
    mp_task = mp_task
    mb_ftp_task = mb_ftp_task
    d1 = d1
    d2 = d2
    Tasks = {mp_task}
    SectorCount = 3
    MaxCount = 2
    Data = {d1, d2}
    Erased = Erased
    Torn = Torn
    NoBlock = NoBlock
    ReadFails = TRUE
    WriteFails = TRUE
SYMMETRY MCSymmetry
INVARIANTS
    TypeOK
    CleanAgrees
PROPERTIES
    ImplementsDisk
    DataKept
