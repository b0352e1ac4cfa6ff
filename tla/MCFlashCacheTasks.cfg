SPECIFICATION Spec
CONSTANTS
    mp_task = mp_task
    mb_ftp_task = mb_ftp_task
    d1 = d1
    d2 = d2
    Tasks = {mp_task, mb_ftp_task}
    SectorCount = 2
    MaxCount = 2
    Data = {d1, d2}
    Erased = Erased
    Torn = Torn
    NoBlock = NoBlock
    ReadFails = FALSE
    WriteFails = FALSE
INVARIANT
    RequestedSectorCached
