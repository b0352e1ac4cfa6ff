------------------------------- MODULE BootFs -------------------------------
(***************************************************************************)
(* Start-up, from main.c: mptask_init_sflash_filesystem makes or mounts    *)
(* the FAT volume and the files a program is run from, mp_task starts the  *)
(* Wi-Fi test access point and runs boot.py and main.py, and Ctrl-D goes   *)
(* back to the beginning.  Any FatFs call may fail, on a disk error or a   *)
(* full volume, and power may fail between any two operations on the       *)
(* volume and inside the creation of a file; each operation is taken as    *)
(* one write to the flash (FlashCache has a failure inside that).  A file  *)
(* is told apart by who wrote it, and one of the user by whether what      *)
(* start-up prints of it has a conversion of printf in it.                 *)
(***************************************************************************)
EXTENDS Naturals

CONSTANTS
    MaxCuts,    \* bound: power failures
    MaxErrors   \* bound: steps in which FatFs calls fail

ASSUME BootAssumption == MaxCuts \in Nat /\ MaxErrors \in Nat

VARIABLES
    fs, dirs, files,    \* the volume: "none" or "fat", its directories and files
    cwd,                \* fatfs.cdir
    step, name, ret,    \* the step of mp_task; the file it creates and what follows
    head,               \* mb_read_buffer: text without or with a printf conversion
    eventLoop,          \* esp_event_loop_init was called since the chip restarted
    saved,              \* history: the user's main.py is on the volume
    failed,             \* history: the FatFs calls that failed in this start so far
    errors, cuts        \* steps with failing calls, and power failures, so far

volume == <<fs, dirs, files>>
creation == <<name, ret>>
faults == <<failed, errors>>
bootVars == <<volume, cwd, step, creation, head, eventLoop, saved, faults, cuts>>

Scripts == {"boot.py", "main.py"}
Made == {"/flash", "/sys", "/lib", "/cert"}
NoFiles == [d \in Made \cup {"/"} |-> [n \in Scripts |-> "absent"]]

\* What the user writes.
Own == {"user", "format"}

BootInit ==
    /\ fs = "none" /\ dirs = {} /\ files = NoFiles
    /\ cwd = "/" /\ step = "mount" /\ name = "main.py" /\ ret = "/sys"
    /\ head = "plain" /\ eventLoop = FALSE /\ saved = FALSE
    /\ failed = {} /\ errors = 0 /\ cuts = 0

\* The calls of this step that fail although what they are asked for is there.
Fail(bad) ==
    /\ bad # {} => errors < MaxErrors
    /\ errors' = IF bad = {} THEN errors ELSE errors + 1
    /\ failed' = failed \cup bad

\* f_chdir from directory c: it stays as it is when there is none of that name.
Chdir(c, d, bad) == IF d \in dirs /\ "f_chdir" \notin bad THEN d ELSE c

\* f_stat is anything but FR_OK.
Missing(d, n, bad) == files[d][n] = "absent" \/ "f_stat" \in bad

\* Called with the directory that the f_chdir before it leaves.
CreateIf(missing, n, made, found) ==
    IF missing
    THEN step' = "open" /\ name' = n /\ ret' = made
    ELSE step' = found /\ UNCHANGED creation

\* Mutant: no f_chdir between f_mount and f_stat.
Mount_nochdir ==
    /\ step = "mount" /\ fs = "fat"
    /\ \E bad \in SUBSET {"f_chdir", "f_stat"} :
           /\ Fail(bad)
           /\ cwd' = "/"
           /\ CreateIf(Missing(cwd', "main.py", bad), "main.py", "/sys", "/sys")
    /\ UNCHANGED <<volume, head, eventLoop, saved, cuts>>

\* f_mount returns FR_OK, in the root of the volume.
Mount ==
    /\ step = "mount" /\ fs = "fat"
    /\ \E bad \in SUBSET {"f_chdir", "f_stat"} :
           /\ Fail(bad)
           /\ cwd' = Chdir("/", "/flash", bad)
           /\ CreateIf(Missing(cwd', "main.py", bad), "main.py", "/sys", "/sys")
    /\ UNCHANGED <<volume, head, eventLoop, saved, cuts>>

\* f_mount finds no volume for another reason than FR_NO_FILESYSTEM; the next FatFs
\* call mounts again, if it can.
MountFails ==
    /\ step = "mount"
    /\ Fail({"f_mount"})
    /\ cwd' = "/" /\ step' = "/sys"
    /\ UNCHANGED <<volume, creation, head, eventLoop, saved, cuts>>

\* FR_NO_FILESYSTEM: f_mkfs, which may fail, and the second f_mount.
Format ==
    /\ step = "mount" /\ fs = "none"
    /\ \/ fs' = "fat" /\ Fail({})
       \/ fs' = "none" /\ Fail({"f_mkfs"})
    /\ cwd' = "/" /\ step' = "mkdir"
    /\ UNCHANGED <<dirs, files, creation, head, eventLoop, saved, cuts>>

\* f_mkdir, which makes nothing without a volume.
Mkdir(d, bad) ==
    dirs' = IF fs = "fat" /\ "f_mkdir" \notin bad THEN dirs \cup {d} ELSE dirs

MakeFlash ==
    /\ step = "mkdir"
    /\ \E bad \in SUBSET {"f_mkdir"} : Fail(bad) /\ Mkdir("/flash", bad)
    /\ step' = "open" /\ name' = "main.py" /\ ret' = "/sys"
    /\ UNCHANGED <<fs, files, cwd, head, eventLoop, saved, cuts>>

\* mptask_create_main_py, and the same lines for boot.py: f_chdir first.
Open ==
    /\ step = "open" /\ step' = "close"
    /\ \E bad \in SUBSET {"f_chdir"} : Fail(bad) /\ cwd' = Chdir(cwd, "/flash", bad)
    /\ UNCHANGED <<volume, creation, head, eventLoop, saved, cuts>>

\* f_open with FA_CREATE_ALWAYS, f_write and f_close.  When one of them fails, called
\* f_write here, the file is as it was, or empty.
Close ==
    /\ step = "close" /\ step' = ret
    /\ \/ Fail({}) /\ files' = IF fs = "fat" THEN [files EXCEPT ![cwd][name] = "fresh"]
                               ELSE files
       \/ /\ fs = "fat"
          /\ Fail({"f_write"})
          /\ files' \in {files, [files EXCEPT ![cwd][name] = "empty"]}
    /\ name' = "main.py" /\ ret' = "/sys"
    /\ UNCHANGED <<fs, dirs, cwd, head, eventLoop, saved, cuts>>

\* f_chdir, or f_mkdir when that fails: three times.
Directory ==
    /\ step \in {"/sys", "/lib", "/cert"}
    /\ \E bad \in SUBSET {"f_chdir", "f_mkdir"} :
           Fail(bad) /\ Mkdir(step, bad) /\ cwd' = Chdir(cwd, step, bad)
    /\ step' = CASE step = "/sys" -> "/lib" [] step = "/lib" -> "/cert" [] OTHER -> "boot"
    /\ UNCHANGED <<fs, files, creation, head, eventLoop, saved, cuts>>

\* Mutant: the directory is left as the loop over the directories found it.
Boot_nochdir ==
    /\ step = "boot" /\ UNCHANGED cwd
    /\ \E bad \in SUBSET {"f_stat"} :
           /\ Fail(bad)
           /\ CreateIf(Missing(cwd, "boot.py", bad), "boot.py", "main", "show_boot")
    /\ head' = "plain"
    /\ UNCHANGED <<volume, eventLoop, saved, cuts>>

\* mb_read_buffer is filled with X, boot.py looked for.
Boot ==
    /\ step = "boot"
    /\ \E bad \in SUBSET {"f_chdir", "f_stat"} :
           /\ Fail(bad)
           /\ cwd' = Chdir(cwd, "/flash", bad)
           /\ CreateIf(Missing(cwd', "boot.py", bad), "boot.py", "main", "show_boot")
    /\ head' = "plain"
    /\ UNCHANGED <<volume, eventLoop, saved, cuts>>

Main ==
    /\ step = "main"
    /\ \E bad \in SUBSET {"f_chdir", "f_stat"} :
           /\ Fail(bad)
           /\ cwd' = Chdir(cwd, "/flash", bad)
           /\ CreateIf(Missing(cwd', "main.py", bad), "main.py", "wifi", "show_main")
    /\ UNCHANGED <<volume, head, eventLoop, saved, cuts>>

\* What f_read leaves in mb_read_buffer: a file shorter than what is asked for, or one
\* that cannot be read, leaves some or all of what was there before.
Heads(file, bad) ==
    CASE "f_read" \in bad \/ file \in {"absent", "empty"} -> {head}
      [] file = "format" -> {"format"}
      [] file = "user" -> {"plain", head}
      [] file = "fresh" -> {"plain"}

\* A script that is there is read and printf(mb_read_buffer) prints its head: with a
\* conversion in it printf takes an argument that is not there, and may crash.
Show(n, at, next) ==
    /\ step = at
    /\ \E bad \in SUBSET {"f_chdir", "f_read"} :
           /\ Fail(bad)
           /\ cwd' = Chdir(cwd, "/flash", bad)
           /\ head' \in Heads(files[cwd'][n], bad)
    /\ step' \in {next} \cup IF head' = "format" THEN {"abort"} ELSE {}
    /\ UNCHANGED <<volume, creation, eventLoop, saved, cuts>>

\* mb_initialise_wifi: ESP_ERROR_CHECK(esp_event_loop_init(...)) aborts when there
\* is an event loop already; otherwise the boot scripts run from the directory.  The
\* buffer was local to the function before it.
Wifi ==
    /\ step = "wifi"
    /\ step' = IF eventLoop THEN "abort" ELSE "run"
    /\ eventLoop' = TRUE
    /\ head' = "plain" /\ failed' = {}
    /\ UNCHANGED <<volume, cwd, creation, saved, errors, cuts>>

BootStep ==
    \/ Mount \/ MountFails \/ Format \/ MakeFlash \/ Open \/ Close \/ Directory
    \/ Boot \/ Show("boot.py", "show_boot", "main")
    \/ Main \/ Show("main.py", "show_main", "wifi")
    \/ Wifi

\* The user's program or file transfer writes or removes a script where it runs.
Save(n, text) ==
    /\ step = "run" /\ fs = "fat"
    /\ files' = [files EXCEPT ![cwd][n] = text]
    /\ saved' = (saved \/ n = "main.py")
    /\ UNCHANGED <<fs, dirs, cwd, step, creation, head, eventLoop, faults, cuts>>

Remove(n) ==
    /\ step = "run" /\ files[cwd][n] # "absent"
    /\ files' = [files EXCEPT ![cwd][n] = "absent"]
    /\ saved' = (saved /\ n # "main.py")
    /\ UNCHANGED <<fs, dirs, cwd, step, creation, head, eventLoop, faults, cuts>>

\* Ctrl-D at the prompt: goto soft_reset
SoftReset ==
    /\ step = "run" /\ step' = "mount"
    /\ UNCHANGED <<volume, cwd, creation, head, eventLoop, saved, faults, cuts>>

\* Mutant: the event loop survives.
Restart_kept ==
    /\ step' = "mount" /\ head' = "plain" /\ failed' = {}
    /\ name' = "main.py" /\ ret' = "/sys" /\ cwd' = "/"
    /\ UNCHANGED <<eventLoop, errors>>

\* The chip starts again: what was in memory is gone.
Restart ==
    /\ step' = "mount" /\ head' = "plain" /\ failed' = {}
    /\ name' = "main.py" /\ ret' = "/sys" /\ cwd' = "/"
    /\ eventLoop' = FALSE
    /\ UNCHANGED errors

\* abort(), or a crash, restarts the chip.
Panic ==
    /\ step = "abort" /\ Restart
    /\ UNCHANGED <<volume, saved, cuts>>

\* A power failure: a file being created is there, empty, or is not.
PowerCut ==
    /\ cuts < MaxCuts /\ cuts' = cuts + 1
    /\ Restart
    /\ \/ UNCHANGED files
       \/ step = "close" /\ fs = "fat" /\ files' = [files EXCEPT ![cwd][name] = "empty"]
    /\ UNCHANGED <<fs, dirs, saved>>

Users ==
    \/ \E n \in Scripts : Remove(n) \/ \E text \in Own : Save(n, text)
    \/ SoftReset

BootNext == BootStep \/ Users \/ Panic \/ PowerCut

\* The MicroPython task goes on starting up and abort() restarts the chip; nothing
\* makes the user do anything, a call fail or the power fail.
BootSpec == BootInit /\ [][BootNext]_bootVars /\ WF_bootVars(BootStep \/ Panic)

-----------------------------------------------------------------------------
BootTypeOK ==
    /\ fs \in {"none", "fat"} /\ dirs \subseteq Made /\ cwd \in dirs \cup {"/"}
    /\ files \in [Made \cup {"/"} -> [Scripts -> {"absent", "empty", "fresh"} \cup Own]]
    /\ step \in Made \cup {"mount", "mkdir", "open", "close", "boot", "show_boot", "main",
                         "show_main", "wifi", "run", "abort"}
    /\ name \in Scripts /\ ret \in {"/sys", "main", "wifi"}
    /\ head \in {"plain", "format"}
    /\ eventLoop \in BOOLEAN /\ saved \in BOOLEAN
    /\ errors \in 0 .. MaxErrors /\ cuts \in 0 .. MaxCuts

\* Start-up, however often it is cut off between its operations and whatever fails in
\* making, opening, writing or reading files, overwrites a script of the user only in a
\* start in which an f_stat or an f_chdir failed (FA_CREATE_ALWAYS then meets a script
\* that is there): without that only the user's own actions take one away.
UserFilesKept ==
    [][~Users /\ (\E d \in Made \cup {"/"}, n \in Scripts :
                      files[d][n] \in Own /\ files'[d][n] # files[d][n])
       => failed \cap {"f_stat", "f_chdir"} # {}]_bootVars

\* When the scripts are about to run on a formatted volume, after a start in which no
\* FatFs call failed, both are there in the directory they are run from, with /sys, /lib
\* and /cert, whatever earlier starts, cut off or with failing calls, have left; and when
\* no call ever failed the main.py found is the one the user saved last, unless power
\* failed between f_mkfs and f_mkdir("/flash"), after which nothing makes that directory
\* and the last one changed to is used instead (see SavedProgramRuns).
RunsUserProgram ==
    step = "wifi" /\ fs = "fat" /\ failed = {} =>
        /\ {"/sys", "/lib", "/cert"} \subseteq dirs
        /\ \A n \in Scripts : files[cwd][n] # "absent"
        /\ saved /\ "/flash" \in dirs /\ errors = 0 =>
               cwd = "/flash" /\ files["/flash"]["main.py"] \in Own

\* Start-up, once it has begun, reaches the point where the scripts begin: after every
\* power failure and failing call, and after every Ctrl-D, although a soft reset takes
\* esp_event_loop_init's abort() and a restart to get there.  The exception is a script
\* whose head is taken for a printf format, which may crash every start.
ReachesScripts ==
    (step # "mount") ~>
        \/ step = "run"
        \/ \E d \in Made \cup {"/"}, n \in Scripts : files[d][n] = "format"

\* What the message "main.py can't find,created a new one!" and the documentation of
\* boot.py and main.py say: start-up makes a new main.py only when there is none, and
\* what runs after boot.py is the main.py the user has saved.
SavedProgramRuns == step = "wifi" /\ saved => files[cwd]["main.py"] \in Own
=============================================================================
