---------------------------- MODULE BlockDevice -----------------------------
(***************************************************************************)
(* What a file system may expect of a disk that keeps its newest writes in *)
(* memory: a read returns what was last written to the sector, at most one *)
(* sector is not saved yet, and a power loss costs that sector at most.    *)
(* At most one sector, whose read has failed, may be answered wrongly.     *)
(***************************************************************************)
CONSTANTS
    Sector,     \* the sectors of the disk
    Content,    \* what a sector can hold, a damaged sector included
    None        \* no sector

VARIABLES
    disk,       \* what a read of each sector returns
    unsaved,    \* the sector a power loss may damage, or None
    unread,     \* the sector whose read failed and was not repeated, or None
    answer      \* the sector read last and what the reader got

diskVars == <<disk, unsaved, unread, answer>>

DiskInit ==
    /\ disk \in [Sector -> Content]
    /\ unsaved = None /\ unread = None
    /\ answer \in [sector : Sector \cup {None}, data : Content]

ReadSector(s) ==
    /\ s # unread
    /\ answer' = [sector |-> s, data |-> disk[s]]
    /\ UNCHANGED <<disk, unsaved, unread>>

FailRead(s) ==
    /\ unread' = s
    /\ UNCHANGED <<disk, unsaved, answer>>

\* The caller is told that the read failed, and not that the next ones went wrong.
ReadWrongly(d) ==
    /\ unread # None
    /\ answer' = [sector |-> unread, data |-> d]
    /\ UNCHANGED <<disk, unsaved, unread>>

\* Another sector is read.
Forget ==
    /\ unread' = None
    /\ UNCHANGED <<disk, unsaved, answer>>

\* Another sector has to be saved before this one is accepted.
WriteSector(s, d) ==
    /\ unsaved \in {None, s}
    /\ disk' = [disk EXCEPT ![s] = d]
    /\ unsaved' = s
    /\ unread' = None
    /\ answer' = answer

Save ==
    /\ unsaved' = None
    /\ UNCHANGED <<disk, unread, answer>>

LosePower(d) ==
    /\ unsaved # None
    /\ disk' = [disk EXCEPT ![unsaved] = d]
    /\ unsaved' = None /\ unread' = None
    /\ answer' = answer

DiskNext ==
    \/ \E s \in Sector : ReadSector(s) \/ FailRead(s)
    \/ \E s \in Sector, d \in Content : WriteSector(s, d)
    \/ \E d \in Content : ReadWrongly(d) \/ LosePower(d)
    \/ Save \/ Forget

DiskSpec == DiskInit /\ [][DiskNext]_diskVars
=============================================================================
