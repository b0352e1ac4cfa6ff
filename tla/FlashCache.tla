----------------------------- MODULE FlashCache -----------------------------
(***************************************************************************)
(* The write-back cache of one block in sys/mb_fatfs/drivers/              *)
(* sflash_diskio.c, with the sync of pybflash.c.  A block is one sector    *)
(* (SFLASH_SECTORS_PER_BLOCK is 1).  Several tasks call it and every lock  *)
(* is a TODO, so that each access to the flash or to a static variable is  *)
(* a step of its own.                                                      *)
(***************************************************************************)
EXTENDS Naturals

CONSTANTS
    Tasks,          \* the tasks that use the file system
    SectorCount,    \* SFLASH_FS_SECTOR_COUNT
    MaxCount,       \* bound on the sectors of one call
    Data,           \* what callers write
    Erased,         \* a block after an erase
    Torn,           \* a block some of whose bytes were changed
    NoBlock,        \* UINT32_MAX in sflash_prev_block_addr
    ReadFails,      \* may spi_flash_read fail?
    WriteFails      \* may spi_flash_erase_sector and spi_flash_write fail?

Blocks == 0 .. (SectorCount - 1)

Content == Data \cup {Erased, Torn}

ASSUME FlashAssumption ==
    /\ SectorCount \in Nat \ {0}
    /\ MaxCount \in Nat
    /\ NoBlock \notin Nat
    /\ ReadFails \in BOOLEAN
    /\ WriteFails \in BOOLEAN

VARIABLES
    flash,          \* the file system's blocks in the serial flash
    cache,          \* sflash_block_cache
    addr,           \* sflash_prev_block_addr, as a block number
    dirty,          \* sflash_cache_is_dirty
    pc,             \* where each task is in its call
    req,            \* the call: what it is, its current sector, sectors to go
    res,            \* the DRESULT of the last call of each task
    out,            \* the sector last copied to a caller's buffer
    misread         \* history: the cached block is one whose read failed

vars == <<flash, cache, addr, dirty, pc, req, res, out, misread>>

Steps == {"idle", "check", "flush", "erase", "program", "clean", "load", "fetch",
          "copy", "mark"}

Request == [op : {"read", "write", "sync", "bad"}, sector : Nat, left : Nat]

\* The flash after the first mount: sflash_disk_init has run, pvPortMalloc does
\* not clear the cache.
Init ==
    /\ flash \in [Blocks -> Data \cup {Erased}]
    /\ cache \in Content
    /\ addr = NoBlock
    /\ dirty = FALSE
    /\ pc = [t \in Tasks |-> "idle"]
    /\ req = [t \in Tasks |-> [op |-> "sync", sector |-> 0, left |-> 0]]
    /\ res = [t \in Tasks |-> "OK"]
    /\ out = [sector |-> NoBlock, data |-> Erased]
    /\ misread = FALSE

Goto(t, step) == pc' = [pc EXCEPT ![t] = step]

Return(t, result) == Goto(t, "idle") /\ res' = [res EXCEPT ![t] = result]

\* A range that is empty or leaves the disk is refused, after a flush.  FatFs passes
\* sectors of the volume, so that the sum never wraps in its 32 bits.
OutOfRange(sector, count) == sector + count > SectorCount \/ count = 0

\* sflash_disk_read and sflash_disk_write are called.
Call(t, op, sector, count) ==
    /\ pc[t] = "idle"
    /\ IF OutOfRange(sector, count)
       THEN /\ req' = [req EXCEPT ![t] = [op |-> "bad", sector |-> sector, left |-> count]]
            /\ Goto(t, "flush")
       ELSE /\ req' = [req EXCEPT ![t] = [op |-> op, sector |-> sector, left |-> count]]
            /\ Goto(t, "check")
    /\ UNCHANGED <<flash, cache, addr, dirty, res, out, misread>>

\* pyb_flash_ioctl is called with BP_IOCTL_SYNC or BP_IOCTL_DEINIT.
Sync(t) ==
    /\ pc[t] = "idle"
    /\ req' = [req EXCEPT ![t] = [op |-> "sync", sector |-> 0, left |-> 0]]
    /\ Goto(t, "flush")
    /\ UNCHANGED <<flash, cache, addr, dirty, res, out, misread>>

\* Mutant: the block in the cache is not written back before it is replaced.
Check_noflush(t) ==
    /\ pc[t] = "check"
    /\ Goto(t, IF addr = req[t].sector THEN "copy" ELSE "load")
    /\ UNCHANGED <<flash, cache, addr, dirty, req, res, out, misread>>

Check(t) ==
    /\ pc[t] = "check"
    /\ Goto(t, IF addr = req[t].sector THEN "copy" ELSE "flush")
    /\ UNCHANGED <<flash, cache, addr, dirty, req, res, out, misread>>

\* What the callers of sflash_disk_flush do next: a read or a write goes on or
\* gives up, a refused call and an ioctl return whatever the flush returned.
Flushed(t, good) ==
    CASE req[t].op = "bad"  -> Return(t, "PARERR")
      [] req[t].op = "sync" -> Return(t, "OK")
      [] OTHER -> IF good THEN Goto(t, "load") /\ UNCHANGED res
                  ELSE Return(t, "ERROR")

FlushClean(t) ==
    /\ pc[t] = "flush"
    /\ ~dirty
    /\ Flushed(t, TRUE)
    /\ UNCHANGED <<flash, cache, addr, dirty, req, out, misread>>

FlushDirty(t) ==
    /\ pc[t] = "flush"
    /\ dirty
    /\ Goto(t, "erase")
    /\ UNCHANGED <<flash, cache, addr, dirty, req, res, out, misread>>

Erase(t) ==
    /\ pc[t] = "erase"
    /\ flash' = [flash EXCEPT ![addr] = Erased]
    /\ Goto(t, "program")
    /\ UNCHANGED <<cache, addr, dirty, req, res, out, misread>>

Program(t) ==
    /\ pc[t] = "program"
    /\ flash' = [flash EXCEPT ![addr] = cache]
    /\ Goto(t, "clean")
    /\ UNCHANGED <<cache, addr, dirty, req, res, out, misread>>

\* What an erase or a write that does not finish leaves of the block.
Interrupted(step) ==
    {flash[addr], Torn} \cup (IF step = "erase" THEN {Erased} ELSE {cache})

\* Mutant: the cache counts as clean although it could not be written back.
WriteFailed_clean(t) ==
    /\ WriteFails
    /\ pc[t] \in {"erase", "program"}
    /\ \E d \in Interrupted(pc[t]) : flash' = [flash EXCEPT ![addr] = d]
    /\ Flushed(t, FALSE)
    /\ dirty' = FALSE
    /\ UNCHANGED <<cache, addr, req, out, misread>>

\* sflash_write returns false: the block stays dirty.
WriteFailed(t) ==
    /\ WriteFails
    /\ pc[t] \in {"erase", "program"}
    /\ \E d \in Interrupted(pc[t]) : flash' = [flash EXCEPT ![addr] = d]
    /\ Flushed(t, FALSE)
    /\ UNCHANGED <<cache, addr, dirty, req, out, misread>>

Clean(t) ==
    /\ pc[t] = "clean"
    /\ dirty' = FALSE
    /\ Flushed(t, TRUE)
    /\ UNCHANGED <<flash, cache, addr, req, out, misread>>

\* Mutant: the address of the block after the one asked for.
Load_next(t) ==
    /\ pc[t] = "load"
    /\ addr' = req[t].sector + 1
    /\ misread' = FALSE
    /\ Goto(t, "fetch")
    /\ UNCHANGED <<flash, cache, dirty, req, res, out>>

Load(t) ==
    /\ pc[t] = "load"
    /\ addr' = req[t].sector
    /\ misread' = FALSE
    /\ Goto(t, "fetch")
    /\ UNCHANGED <<flash, cache, dirty, req, res, out>>

\* spi_flash_read takes the address from a local variable, not from addr.
Fetch(t) ==
    /\ pc[t] = "fetch"
    /\ cache' = flash[req[t].sector]
    /\ Goto(t, "copy")
    /\ UNCHANGED <<flash, addr, dirty, req, res, out, misread>>

FetchFailed(t) ==
    /\ ReadFails
    /\ pc[t] = "fetch"
    /\ cache' \in {cache, Torn} /\ misread' = TRUE
    /\ Return(t, "ERROR")
    /\ UNCHANGED <<flash, addr, dirty, req, out>>

\* The loop over the sectors of the call.
NextSector(t) ==
    /\ req' = [req EXCEPT ![t].sector = @ + 1, ![t].left = @ - 1]
    /\ IF req[t].left > 1 THEN Goto(t, "check") /\ UNCHANGED res ELSE Return(t, "OK")

CopyOut(t) ==
    /\ pc[t] = "copy"
    /\ req[t].op = "read"
    /\ out' = [sector |-> req[t].sector, data |-> cache]
    /\ NextSector(t)
    /\ UNCHANGED <<flash, cache, addr, dirty, misread>>

CopyIn(t, d) ==
    /\ pc[t] = "copy"
    /\ req[t].op = "write"
    /\ cache' = d /\ misread' = FALSE
    /\ Goto(t, "mark")
    /\ UNCHANGED <<flash, addr, dirty, req, res, out>>

Mark(t) ==
    /\ pc[t] = "mark"
    /\ dirty' = TRUE
    /\ NextSector(t)
    /\ UNCHANGED <<flash, cache, addr, out, misread>>

\* Power is lost, in the middle of an erase or a write too, and the firmware
\* starts again: the statics are initialised by sflash_disk_init.
PowerLoss ==
    /\ \/ UNCHANGED flash
       \/ \E t \in Tasks : /\ pc[t] \in {"erase", "program"}
                           /\ \E d \in Interrupted(pc[t]) : flash' = [flash EXCEPT ![addr] = d]
    /\ cache' \in Content
    /\ addr' = NoBlock
    /\ dirty' = FALSE /\ misread' = FALSE
    /\ pc' = [t \in Tasks |-> "idle"]
    /\ UNCHANGED <<req, res, out>>

Step(t) ==
    \/ \E op \in {"read", "write"}, s \in 0 .. SectorCount, n \in 0 .. MaxCount :
           Call(t, op, s, n)
    \/ Sync(t)
    \/ Check(t)
    \/ FlushClean(t)
    \/ FlushDirty(t)
    \/ Erase(t)
    \/ Program(t)
    \/ WriteFailed(t)
    \/ Clean(t)
    \/ Load(t)
    \/ Fetch(t)
    \/ FetchFailed(t)
    \/ CopyOut(t)
    \/ \E d \in Data : CopyIn(t, d)
    \/ Mark(t)

Next == PowerLoss \/ \E t \in Tasks : Step(t)

Spec == Init /\ [][Next]_vars

-----------------------------------------------------------------------------
\* The statics of sflash_diskio.c, the flash and the calls keep their types; the
\* address of the cached block is that of a block of the file system.
TypeOK ==
    /\ flash \in [Blocks -> Content]
    /\ cache \in Content
    /\ addr \in Blocks \cup {NoBlock}
    /\ dirty \in BOOLEAN
    /\ pc \in [Tasks -> Steps]
    /\ req \in [Tasks -> Request]
    /\ res \in [Tasks -> {"OK", "ERROR", "PARERR"}]
    /\ out \in [sector : Blocks \cup {NoBlock}, data : Content]
    /\ misread \in BOOLEAN

\* What sflash_disk_read and sflash_disk_write take a hit for: between calls, and
\* wherever the cached block may be used, a clean cache is a copy of its block in
\* the flash, whatever failed or was interrupted before; but not the block whose own
\* read failed, whose address stays in sflash_prev_block_addr.
CleanAgrees ==
    ~dirty /\ ~misread /\ addr # NoBlock /\ (\A t \in Tasks : pc[t] \notin {"fetch", "mark"})
        => cache = flash[addr]

\* What a read of block b is to return: the cached block when it is newer than
\* the flash.
Stored(b) == IF dirty /\ b = addr THEN cache ELSE flash[b]

\* sflash_diskio.c is a disk with one sector of write-back memory: reads return
\* what was written last even when write-backs fail and are repeated, and a power
\* loss, between erase and write too, damages at most the sector not saved yet.  A
\* read that fails spoils the answers for that sector alone, until another sector is
\* read, it is written, or power is lost.
Disk == INSTANCE BlockDevice
            WITH Sector <- Blocks, None <- NoBlock, answer <- out,
                 disk <- [b \in Blocks |-> Stored(b)],
                 unsaved <- IF dirty THEN addr ELSE NoBlock,
                 unread <- IF misread THEN addr ELSE NoBlock

\* Every step of the cache is a step of the abstract disk on what a read returns.
ImplementsDisk == Disk!DiskSpec

\* The comment in sflash_disk_read, "Copy the requested sector from the block
\* cache": when a sector is copied to a caller, the cache holds that sector.
RequestedSectorCached ==
    \A t \in Tasks : pc[t] = "copy" /\ req[t].op = "read" =>
        /\ addr = req[t].sector
        /\ ~dirty => cache = flash[addr]

\* Whatever call into the flash fails, reads included, sflash_diskio.c changes no
\* sector behind the callers' back: a sector only changes while it is being
\* written, or when power is lost before it was saved.
DataKept ==
    [][\A b \in Blocks : Stored(b)' # Stored(b) =>
         \/ \E t \in Tasks : req[t].op = "write" /\ req[t].sector = b /\ pc[t] \in {"copy", "mark"}
         \/ dirty /\ addr = b /\ addr' = NoBlock]_vars
=============================================================================
