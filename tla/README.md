# Verification of the Makeblock ESP32 firmware

TLA+ models of the firmware in `src/micropython-esp32/esp32`, checked with TLC
and, where it pays, proved with TLAPS. The repository is a MicroPython port for
the ESP32 (`src/micropython-esp32`, mostly upstream), on a copy of ESP-IDF
(`src/esp-idf`, vendored). What is the firmware's own is the ESP32 port
directory and, in it, `makeblock/`: an FTP server, a FAT file system on the
serial flash, a serial protocol for sensors and motors, Wi-Fi and BLE glue.

## Inventory

Paths are relative to `src/micropython-esp32/esp32`; `mk` stands for
`makeblock/src`.

| Component | State it keeps | Operations | Interacts with | What is hard | What makes it correct |
|---|---|---|---|---|---|
| FIFO (`mk/wifi/mb_ftp/drive/fifo.c`) | slots, `uiFirst`, `uiLast`, count | push, pop, peek, flush | socket FIFO | wrap-around, full, empty | it is a bounded queue |
| Socket FIFO (`mk/wifi/mb_ftp/drive/socketfifo.c`) | FIFO of replies and chunks | push, pop, peek, flush with free | FTP server, heap | who owns the data of an element | each block is freed exactly once |
| FTP server (`mk/wifi/mb_ftp/mb_ftp.c`) | `mb_ftp_manager`: control and data state, four descriptors, login, counters, open file | `mb_ftp_run` every 20 ms, 22 commands | lwIP, FatFs, heap, client | drops, EAGAIN, timeouts and resets between any two runs; descriptors shared with the other tasks | no stale or lost descriptor, no stranded chunk or upload, transfers end, the next client gets in |
| FTP task (`mk/wifi/mb_ftp/mb_ftp_task.c`) | request flags | enable, (disable, reset: no effect) | FTP server | | the server is enabled before it runs |
| Flash cache (`mk/sys/mb_fatfs/drivers/sflash_diskio.c`) | one cached block, its address, dirty | read, write, flush | SPI flash, FatFs, two tasks | failed reads and writes, power loss between erase and write, no locks | what was written is read back; a failure does not corrupt another block |
| Serial channel (`mk/mb_processcmd.c`) | receive buffer, response flag, echo mode | send a request, receive a frame | UART task, sensor drivers | the flag is raised before the frame is copied; late and lost answers | a reading has nothing from before its call; every call returns |
| Command loop (`mptask.c`) | the frame parser's statics, `py_data` | one byte per call; parse, read a sensor, run a module | console, drivers | any bytes between frames, lengths up to the limit | every frame is parsed, with nothing of the one before |
| Start-up (`main.c`) | the volume, the current directory | mount, format, create directories and scripts, print their heads, start Wi-Fi, soft reset | flash cache, FatFs, Wi-Fi | power failures between the steps, FatFs calls that fail and whose results are ignored or misread | the user's scripts survive and are the ones that run |
| Wi-Fi (`modnetwork.c`, `mk/wifi/mb_wifi_test.c`) | event handler, reconnect flag | import, active, connect, disconnect | ESP-IDF event task and driver | events between two statements of a call | it reconnects when, and only when, asked |
| Sockets (`modsocket.c`) | retries | settimeout, accept, recv, read, send, sendall, sendto, write | lwIP, MicroPython | timeouts counted in retries, Ctrl-C, partial sends | a call waits as long as asked and no longer, and reports what it did |
| Console input (`mphalport.c`, `uart.c`, `py/ringbuf.h`) | ring buffer, pending exception | put from the interrupt, get | UART interrupt | a full ring, an interrupt between any two accesses | no accepted character is lost (in a build that stores `iget` once), repeated or reordered |
| BLE (`mk/bt/device/mb_ble_device.c`) | interface, connection, services | start-up, GAP and GATT events | Bluedroid | order of events, requests that fail | one link, and a device that can be found again |
| Vibrating motor (`mk/hardware/onboard/mb_vibratingmotor_board.c`) | frequency, running time | run, one task per run | MicroPython | runs that overlap on one set of parameters, a frequency of 0 | the motor stops; one run alone never divides by zero |
| Drivers (`mk/hardware/...`) | little | one request, one answer | serial channel, registers | | |

Not in the build, and left out: `drive/updater.c`, `mb_wlan.c`,
`mb_fatfs/drivers/diskio.c`, `sd_diskio.c`, `mb_fatfs/notused`, `esp32_mphal.c`.

## Modules

| Module | What it is |
|---|---|
| `BoundedQueue` | abstract specification: a queue that refuses when full |
| `Fifo` | `fifo.c`: the ring buffer, one action per function and outcome |
| `SocketFifo` | `socketfifo.c` over `Fifo`, with the heap blocks of the replies |
| `FtpServer` | `mb_ftp.c`: the server, its sockets, its queue and its client |
| `BlockDevice` | abstract specification: a disk with one sector of write-back memory |
| `FlashCache` | `sflash_diskio.c` and the sync of `pybflash.c`, called by several tasks |
| `FtpPath` | `mb_ftp.c`: the working directory and the path a rename starts from |
| `StdinRing` | `ringbuf.h` between the UART interrupt and the console reader |
| `SerialChannel` | `mb_processcmd.c`: the receive task against the sensor drivers |
| `CmdFrame` | `mptask.c`: the frame parser of the command mode |
| `WifiStation` | `modnetwork.c` and `mb_wifi_test.c`: calls, event handlers, driver |
| `SocketRetry` | `modsocket.c`: timeouts as retries, the seven waiting calls |
| `BootFs` | `main.c`: start-up under power failures and failing FatFs calls |
| `BleDevice` | `mb_ble_device.c`: start-up and callbacks |
| `VibMotor` | `mb_vibratingmotor_board.c`: overlapping runs |
| `MCFtpServer`, `MCFtpServerLive`, `MCFlashCache` | the instances TLC checks of the server and of the cache |
| `MCNetwork` | the instance of `WifiStation`, `SocketRetry`, `BleDevice`, `FtpPath` and `SocketFifo` |
| `MCBoard` | the instance of `BootFs`, `StdinRing`, `CmdFrame`, `SerialChannel`, `VibMotor` and `Fifo` |
| `FifoProofs`, `SocketFifoProofs`, `FtpServerProofs`, `FlashCacheProofs`, `StdinRingProofs`, `CmdFrameProofs` | the theorems about one module each |
| `NetworkProofs` | the theorems about `FtpPath`, `WifiStation`, `BleDevice`, `SocketRetry` and their composition |
| `BoardProofs` | the theorems about `BootFs`, `SerialChannel`, `VibMotor` and the composition of the board |

`MCNetwork` and `MCBoard` extend several modules whose components share no variable and do
not call each other. A behaviour picks one component in its initial state (`component`)
and runs it under its own next-state relation and fairness; the others stay as they
begin. Interleaving them would multiply the states and add no behaviour of any of
them, and every property speaks of one component's variables. Each module also has
its own specification (`WifiSpec`, `BootSpec` and so on), which is what most proofs are about;
the two type invariants of the compositions are proved of the compositions.

### Fifo and SocketFifo

The variables are the fields of `FIFO_t`; `ok` and `pvElement` are what a call
returns, so that the abstract queue can be asked for the same answers. A push
to a full and a get from an empty queue are actions of their own.
`Fifo` implements `BoundedQueue` under the mapping `queue <- Contents`, the slots
from `uiFirst` on around the ring.

`SocketFifo` instantiates `Fifo` with elements that own a heap block (`freedata`,
replies) or borrow `ftpBuffer` (chunks), and tracks the set `live` of blocks
allocated and not yet freed. `SOCKETFIFO_Flush` pops until the queue is empty:
unlike `FIFO_Flush` it does not reset the indices.

### FtpServer

One call of `mb_ftp_run` is four steps, which `pc` tells apart: the switch on the
control state, the data channel, the transmit queue, and the final check for a
lost data socket. They are separate because the other tasks may take or return
lwIP descriptors between them. Each case of each switch, with each outcome of the
library call it makes, is an action.

| Variable | Code |
|---|---|
| `state`, `data_trans_state`, `sc_sd`, `sd_sd`, `cc_sd`, `cd_sd`, `txRetries`, `dtimeout`, `loggin`, `e_open`, `listroot`, `volcount`, `enabled` | the fields of `mb_ftp_manager` |
| `fifo` | the socket FIFO: which descriptor variable an element points to and which sockets it closes. `Fifo` and `SocketFifo` justify the sequence |
| `mine`, `others` | the lwIP descriptor table: what `socket()` and `accept()` gave this server and the other tasks, until `closesocket()` |
| `dirty` | the open file holds written bytes that `f_close` has not saved |
| `left` | how many full buffers the open file or directory still has |
| `buf` | whether `ftpBuffer` holds a chunk or the text of a command |

What is abstracted. The result of every call into lwIP, FatFs or the heap is a
choice among what the code tells apart. A reply can always be lost for want of
heap. Message texts, addresses, names, paths and directory entry formats are
left out; a command is its branch. `ctimeout`, `logginRetries` and `passvalid` are
written and never decide anything; `special_file` is never set. `dtimeout` stops
growing once it is past both limits. CWD opens a directory in the union that also
holds the file; it only runs in CONTROL_CONNECTED, where `NoUnsavedData` says no
file with data is open. The code compares descriptors with 0 in two ways, `> 0`
(send, close, create) and `< 0` (accept, end of run): the three classes `PosFds`,
`Fd0` and `NoFd` keep the difference.

### FlashCache

`flash` is the file system's part of the serial flash; `cache`, `addr` and `dirty` are
the statics of `sflash_diskio.c`; `pc` and `req` say where each task is in its call, `res`
is what it returned and `out` the sector last copied to a caller. A block is a sector
(`SFLASH_SECTORS_PER_BLOCK` is 1), so that a write replaces the whole block. Each access
to the flash or to a static is a step of its own: the lock calls around them are TODO
comments, FatFs is built without `_FS_REENTRANT`, and the MicroPython task and the FTP
task run at the same priority on one core (`main.c:317`), so that either may be
preempted at any point. A `memcpy` of a sector and an operation of the SPI flash are
single steps; what remains of a block when an erase or a write fails or loses power is
any of: the old contents, the intended contents, or `Torn`. `PowerLoss` restarts the
firmware, `sflash_disk_init` included. A refused call flushes first; an ioctl returns
success whatever its flush returned.

`FlashCache` implements `BlockDevice` with `disk` mapped to what a read returns (the
cached block when it is newer, else the flash) and `unsaved` to the dirty block. A read that
fails leaves the address of its sector over the contents of another one (the address is
stored first, `sflash_diskio.c:68`), so that the next read of that sector is a hit on
them. The history variable `misread` marks this, and `BlockDevice` has the same weakness in its own
terms: `unread` is the one sector that may be answered wrongly, until another sector is read,
it is written, or power is lost. `CleanAgrees` is about every other state.

### FtpPath

`mb_ftp_path` is one string that a command extends by its parameter and cuts back by the
parameter's length; the strings are sequences of characters because the lengths are the
point. Whether a path exists is a choice. `buffer` is the string in `ftpBuffer`, which
RNFR, SIZE, MDTM, PASV, listings and transfers share. `Navigates` is about relative
parameters and successful CWDs: what the code does with an absolute parameter to a
file command (the session is in `/` afterwards) and with a failed CWD on an absolute
or a two-part path (it is in the parent of what was asked for) is in the model and
contradicts no text of the repository. A parameter like `/a/` is longer than the path
it makes and the unsigned difference wraps; `ParamAssumption` leaves it out, since an
index outside the string has no meaning in the model. It also leaves out empty names: of
`a//` only the last slash is cut, the path ends in `/`, and the next relative parameter is
appended behind a second one. `Navigates` has two parts: `Moves` (a CWD enters what
it names, CDUP leaves one directory) and `Stays` (everything else leaves the session where
it is). That RNTO renames what RNFR named is `RenamesNamed`, which the code does not keep.

### StdinRing

A character is its number of arrival. `ringbuf_get` is three steps (test, load with
`iget++`, wrap), and the interrupt handler, which the task cannot interrupt, may run
between them. Nothing in the source makes the fields `volatile`: a build may keep
`iget` in a register and store it once, or store `iget + 1` and then 0. The variable `once`
chooses from `StoreOnce`; in the second kind of build the byte may also be loaded after
the first store, and the handler may meet `iget` = size and not see that the ring is
full. In
the first kind nothing is lost; in the second, characters can be lost but none is
repeated or reordered (`NothingLost`).

### SerialChannel

The receive buffer is its header and two halves of the float, so that a copy and a
decoding can interleave; each byte remembers the frame and the number of calls begun
when it was copied. `process_serial_data` and the MicroPython task have one priority and
share a core, so that either is preempted between any two steps. The extension board
may answer late or not at all. `mb_ultrasonic_sensor_value` stands for the drivers that
wait for a float; `ValueCmd` and `RunCmd` are the requests nobody waits for.

### CmdFrame

`pyexec_pure_cmd_repl` takes one byte. The host sends frames and, between
them, any bytes. `FrameParsed` is about frames that start while the parser waits for
one: after stray bytes that look like a header the parser is inside a frame of its
own, and takes the next one for its contents until its length or the limit is reached.
`py_data` has 128 bytes and the limit is 140: a byte written behind the array is not
represented, and payloads are those that fit. `main.c` enters this mode only when the
REPL mode is neither raw nor friendly.

### WifiStation

`mp_task` calls `mb_initialise_wifi` before any program runs, and `esp_event_loop_init`
takes one handler; `Builds` holds whether the build does so. With `{TRUE}` (the
repository's `main.c`) the handler of `mb_wifi_test.c` is installed and `import network`
raises; the handler of `modnetwork.c` runs only in a build without that call, which
is what `FALSE` stands for. The event task has the higher priority: a handler is one
step, between any two of the MicroPython task. `wanted` is history: the last request of
the user, or "ended" when the handler gave it up. The handler gives up on a refused
password, a late refusal of an earlier attempt included, and when the station is
lost between `esp_wifi_connect` and the assignment of the flag (`modnetwork.c:244` and `:245`);
`Reassociation` says that there is no other way to lose a station for good.

### SocketRetry

One try of an lwIP call, with the look at the pending exception after it, is a step.
Time is counted in units of half a poll (100 ms), bytes in units, and the counters
have two bits, so that UINT_MAX retries and the wrap of the counter are in reach.
`read` and `write` go through `mp_stream_rw`, which starts the count again after every
byte received or sent. Arrivals, acknowledgements, the end of the stream and
Ctrl-C come at any time; any try may fail with an error.

`SocketAssumption` bounds the timeouts by what the counter can count, which the comment
at `modsocket.c:220` puts at 13 years; past that `retries` wraps and the call waits for the
remainder. A receiving call asks for at least one byte; a send may be of none.

`OutcomeTrue` says what a result is worth in the code: `recv` and `accept` raise ETIMEDOUT, and
`read` comes back short of the end of the stream, only after the whole timeout; a send that
has tries raises it only after the timeout cut down to whole polls; what sending calls
report is what lwIP took. Two kinds of sends are outside its bound because they make no try: with
a timeout below one poll, and of no bytes (`modsocket.c:296` takes the 0 for a timeout, on a
blocking socket too). `TimeoutRaised` is what the documentation and the comment at
`modsocket.c:372` say instead, and the run `read_timeout` violates it.

### BootFs

Each operation on the volume is a step, so that power can fail between them, and the
creation of a file has a point where the file is there and empty. An operation is
atomic on the flash: what a failure inside the write-back of one sector does is
`FlashCache`'s subject, and the directory entry of a user's file shares that fate.

Every FatFs call of start-up may fail: `f_mount`, `f_mkfs`, `f_stat`, `f_chdir`, `f_mkdir`, and the
creation of a file (called `f_write`, whichever of its three calls it was), `f_read`. `bad` in an
action is the set of its calls that fail, `failed` the history of them in this start. `main.c`
looks at a result only to tell FR_OK from anything else, so that an `f_stat` that fails on a disk
error (`sflash_diskio.c:66` and `71` return RES_ERROR) means "create the script" and an `f_chdir` that
fails means "go on in this directory". Accordingly `UserFilesKept` is what is left: without a
failing `f_stat` or `f_chdir`, whatever else fails and wherever power is lost, no script of the
user is overwritten. `RunsUserProgram` is about a start in which nothing failed, on
whatever earlier starts have left. `SavedProgramRuns`, without these conditions, is
violated (run `boot`).

After a power failure between `f_mkfs` and `f_mkdir` nothing ever makes `/flash`, and the scripts
are then looked for in the last directory that could be changed to, which is the root in
the first start and `/cert` from the second on. `RunsUserProgram` promises the user's
`main.py` for the other volumes; `SavedProgramRuns` fails on this one too, with a power
failure and no failing call.

`Show` is the other branch of `main.c:215` and `234`: a script that is there is read into
`mb_read_buffer`, and `printf` takes the buffer for its format. A script of the user is told apart by
whether its head has a conversion in it (`"format"`) or not (`"user"`); with one `printf` may crash
(`"abort"`). A read that fails or is short leaves what was in the buffer, the head of boot.py
when main.py is printed.

A soft reset calls `mb_initialise_wifi` again, whose `ESP_ERROR_CHECK` aborts: the chip
restarts, and `ReachesScripts`, which ends where `pyexec_file("boot.py")` is called, goes through that.

### BleDevice and VibMotor

In `BleDevice` every request to Bluedroid is answered by one event, with success or
failure, in any order, the starts of the two services included; connections end
advertising, as the controller does. `refused` is the history of failing answers, which
`Serves` needs because the code looks at none of them.

In `VibMotor` each `run()` stores its two parameters in the one object in two steps and starts
a task, for which there may be no memory, or raises an exception between the two; each
read of a parameter by a task is a step. Frequencies begin at 0, as the comment at
`mb_vibratingmotor_board.c:74` has them: one run with 0 makes no round and never divides by
it, but the 0 divides in the loop of an earlier run (`ZeroNeedsOverlap`, and the
exception in `MotorStops`).

## Runs

| Run | Checks | Shows |
|---|---|---|
| `ftp_safety` | `TypeOK`, `SocketsExclusive`, `NoSocketLeak`, `AcceptOnOpenSocket`, `DataInFlight`, `TransferNeedsLogin`, `NoUnsavedData`, `RetryBound`, `RootListingComplete`, `AcknowledgedClosed` | descriptor 0 in play, another task that opens and closes a socket |
| `ftp_liveness` | `TransferTerminates`, `QueueDrains`, `AvailableAgain` | the server makes progress on descriptors above 0 |
| `flash_disk` | `TypeOK`, `CleanAgrees`, `ImplementsDisk`, `DataKept` | one task, three blocks, calls of up to two sectors, failing reads, writes and erases, power losses: a disk that loses at most the unsaved sector and answers wrongly at most for the sector whose read failed; no other sector changes |
| `flash_two_tasks` | `RequestedSectorCached`, violated | a second task takes a hit on a block the first has announced and not read yet |
| `ftp_stale_replies` | `QueueRemovedWithSocket`, violated | what is queued for a client that dropped is sent to the next one |
| `ftp_descriptor_zero` | `DroppedOnlyWhenClosed`, violated | replies to a client on descriptor 0 are dropped |
| `network`, Wi-Fi | `StaysDisconnected`, `Reassociation` | both kinds of build, four queued events: the station comes back when, and only when, it should |
| `network`, sockets | `OutcomeTrue`, `CallEnds` | timeouts of 0, half a poll, one poll, two and a half and for ever, sends of no bytes: calls wait and report as said above, and end |
| `network`, BLE | `OneLink`, `Serves` | two clients, four queued events, requests that fail |
| `network`, FTP paths | `Navigates` | seven kinds of parameters, paths of up to six characters: a session is where it went |
| `network`, reply queue | `HeapOwnership`, `RingAfterFlush` | three slots, four blocks: no leak, no double free, no free of the shared buffer, whatever is queued when a flush strikes |
| `network`, all | `NetworkTypeOK` | the type invariants of the five modules |
| `rename` | `RenamesNamed`, violated | RNTO renames a text that a command after RNFR left in the buffer |
| `read_timeout` | `TimeoutRaised`, violated | a read waits its timeout out and returns as at the end of the stream |
| `board`, start-up | `RunsUserProgram`, `UserFilesKept`, `ReachesScripts` | two power failures, one step with failing FatFs calls, any number of resets |
| `board`, console | `NothingLost`, `InputDelivered` | three slots, seven characters, both kinds of build: nothing is lost when `iget` is stored once, nothing reordered in either, and Ctrl-C is raised |
| `board`, frame parser | `FrameParsed` | bytes of two bits, a buffer of five, a limit of six: every stream |
| `board`, serial channel | `ReadingFromThisCall`, `CallReturns` | three requests, whose answers may be late or lost; a late answer that arrives during a call counts as one of the call |
| `board`, motor | `MotorStops`, `ZeroNeedsOverlap` | two overlapping runs, frequencies from 0 to above the cut |
| `board`, ring of replies | `RingConsistent`, `ImplementsQueue` | four slots (the server's size), three elements: the ring is a bounded queue |
| `board`, all | `BoardTypeOK` | the type invariants of the six modules |
| `boot` | `SavedProgramRuns`, violated | a failing `f_stat` costs the user a main.py that is there |
| `serial_flag` | `AnswerReturned`, violated | a reading of 0 for an answer that came in time |

Bounds of `ftp_safety`: four descriptors above 0, one for each role, plus
descriptor 0 and one socket of another task, so that the table can be full;
a queue of three (the code has four), which a NOOP fills with a reply left over;
one retry, with a counter of four values in place of 256, so that the wrap is
in reach; timeouts that expire in the second silent run (10^7 and 10^8 in the
code); one full buffer per file, one volume. Symmetry permutes the descriptors
above 0. `ftp_liveness` has no symmetry, numbers the descriptors and takes the
first free one, as lwIP does, and leaves descriptor 0 and other tasks out: on
descriptor 0 none of the three holds, which is what `ftp_descriptor_zero` is about.

Bounds of the flash runs: three blocks are a block in the cache, one to replace it and
one that must not be touched; two values tell a new block from an old one; a call of
two sectors goes round the loop and can run off the disk. Symmetry permutes the values.

Bounds of the others: three slots are the smallest ring with two characters in it, and
seven characters go round it twice; three requests let a call meet the late answers of
a call and of a command before it; four events are a start, two losses and one more;
a counter of two bits wraps within the longest timeout; paths of six characters are
three directories deep; two power failures can hit
the format and a script, and one step with failing calls leaves its mark for the starts
that follow (each further one only repeats it, and the proofs are for any number); two runs
or two clients are the fewest that overlap; a limit of one more than the buffer lets the parser run past it and give up.

Fairness. `mb_ftp_task` calls `mb_ftp_run` for ever and nothing in it blocks (the
sockets are non-blocking), hence weak fairness of the whole of `mb_ftp_run`, and
of no single outcome: the client may be silent, drop or answer EAGAIN for ever.
An upload is not among the transfers that terminate: a client that keeps sending
keeps it going.

The console reader and the two tasks of the serial channel get their time slices and
their waits end with the tick; Wi-Fi events are handled, since the event task has the
highest priority of those involved; each lwIP call ends by its own timeout; the
tasks of the motor are scheduled; start-up goes on and a restarted chip starts; Bluedroid
answers each request. Nothing is assumed of
users, peers, hosts, answers on the serial line or access points. `InputDelivered`
uses that input pauses (the number of characters is bounded): the reader looks at the
flag when it finds the ring empty.

`CHECK_DEADLOCK` is off in `network` and `board`: a program may make no more sensor calls
(`SerialChannel`), all characters may have been read (`StdinRing`), the motor's runs end
(`VibMotor`), and a BLE device whose start-up or registration failed does nothing more
(`BleDevice`).

## Findings

Each is a counterexample of a run to what a comment or a document says.

1. `ftp_stale_replies`: `mb_ftp.c:455`, "socket closed, remove it from the queue". An
   element is removed only when its turn comes and the socket is closed at that moment.
   It holds the address of `cc_sd`, so that after a drop and a quick reconnect the old
   replies go to the new client, in front of its 220, among them a 221 that closes it.
2. `ftp_descriptor_zero`: `mb_ftp.c:364`, `430`, `463`, `527` test `> 0` where lwIP's first
   descriptor is 0. A connection on descriptor 0 is accepted, never answered and never
   closed, and a listening socket on it is lost.
3. `flash_two_tasks`: at `sflash_diskio.c:58` the locks are TODO comments, and two tasks
   use the file system.
4. `rename`: `mb_ftp.c:1309`, "old path was saved in the data buffer" (and 1299, "save the
   current path"). PASV, SIZE, MDTM, listings and transfers write to the same buffer, and an RNTO
   behind one of them renames what they left.
5. `read_timeout`: `modsocket.c:372`, "causes a timeout error to be raised", and `usocket.rst:191`.
   `mp_stream_rw` takes the 0 for the end of the stream, so that a read that timed out returns what
   it has. (A send with a timeout below one poll breaks the same property, without one try:
   `modsocket.c:288`, `333`, `377`.)
6. `boot`: `main.c:232`, "main.py can't find,created a new one!", and
   `esp8266/tutorial/filesystem.rst:60`. Lines 158, 204 and 229 take every result of `f_stat` but
   FR_OK for a missing file and create it with FA_CREATE_ALWAYS.
7. `serial_flag`: `mb_processcmd.c:147` raises the response flag before line 152 copies the
   frame.

## Observed while modelling

What the models have because the code has it, and what the properties therefore do
not claim. No run is about these.

- `mb_ftp.c:1101` serves the data channel, timeouts included, only once a client is
  logged in, while PASV is served before. PASV and a drop leave the server in
  LISTEN_FOR_DATA, where it accepts no control client (line 981): `AvailableAgain` is
  about a client that had logged in.
- `sflash_diskio.c:68` and `104` set the address of the cached block before the block is
  read: the sector `unread` of `BlockDevice`.
- `pybflash.c:74` drops the result of the flush: a sync whose write-back failed is a
  success to FatFs (`Flushed`).
- `modnetwork.c:244`: the window of `Reassociation`, see `WifiStation`. And `import network`,
  which `help.c:50` recommends, raises after `mb_initialise_wifi` has taken the event loop.
- `main.c:269`: a soft reset (`help.c:60`) repeats `mb_initialise_wifi` and restarts the chip.
- `main.c:142` is the only place that creates `/flash`, on the path that formats.
- `main.c:225` and `244` print the head of a script of the user as a format, see `BootFs`.
- `main.c:187` to `195` make a directory and do not change to it: after a first start the
  directory is `/`, after the next `/cert`, where the scripts are created and run when `/flash`
  is missing or `f_chdir` fails.
- `modsocket.c:296`: a send of no bytes raises ETIMEDOUT, see `SocketRetry`.
- `mb_vibratingmotor_board.c:140` divides by a frequency that another run may set to 0, see
  `VibMotor`.
- `mb_ble_device.c:545`: a refused start of a service, or of advertising, is not repeated.

## Proofs

| Theorem | States | Rests on |
|---|---|---|
| `FifoCorrect` | `[](FifoTypeOK /\ RingConsistent)` | itself inductive |
| `FifoImplementsQueue` | `Fifo` implements `BoundedQueue` | `PushAppends`, `PopTails`: what a push and a pop do to `Contents` |
| `QueueTypeCorrect`, `QueueOwnsItsBlocks`, `RingSurvivesFlush` | `SocketFifoTypeOK`, `HeapOwnership`, `RingAfterFlush` of `SocketFifo` | `OwnershipInv` |
| `TypeCorrect` | `[]TypeOK` of `FtpServer` | itself inductive |
| `SocketsSafe` | `[](SocketsExclusive /\ NoSocketLeak /\ AcceptOnOpenSocket)`; the last two again by name in `DescriptorsKept`, `AcceptsSafe` | `SocketInv` |
| `FlowSafe` | `[](DataInFlight /\ TransferNeedsLogin /\ NoUnsavedData /\ RootListingComplete)`; the last three again in `TransfersLoggedIn`, `UploadsSaved`, `RootListingsComplete` | `FlowInv`, `SocketInv` |
| `AcknowledgedSafe` | `AcknowledgedClosed` | the actions that end a transfer |
| `RetrySafe` | `[]RetryBound` | `RetryPhase` |
| `CacheTypeCorrect` | `[]TypeOK` of `FlashCache`, any number of tasks | `CallRange` |
| `CacheKeepsData` | `DataKept`, one task | `CacheInv` |
| `CacheAgrees` | `[]CleanAgrees`, one task | `CacheInv` |
| `CacheImplementsDisk` | `FlashCache` implements `BlockDevice`, one task | `CacheInv`, `CleanAgrees` |
| `PathTypeCorrect`, `PathStays` | `PathTypeOK`, `[][Stays]_pathVars` | `PathInv` |
| `WifiTypeCorrect`, `WifiStaysDisconnected`, `WifiReassociates` | `WifiTypeOK`, `StaysDisconnected`, `Reassociation` | `WifiInv` |
| `BleTypeCorrect`, `BleOneLink` | `BleTypeOK`, `OneLink` | `BleInv` |
| `SocketTypeCorrect`, `SocketOutcomeTrue` | `SocketTypeOK`, `OutcomeTrue` | `SocketInv` |
| `NetworkTypeCorrect` | `[]NetworkTypeOK` of `MCNetwork` | the five invariants together |
| `BootTypeCorrect`, `BootRunsUserProgram`, `BootKeepsScripts` | `BootTypeOK`, `RunsUserProgram`, `UserFilesKept` | `BootInv` |
| `StdinTypeCorrect`, `StdinNothingLost` | `StdinTypeOK`, `NothingLost` | `StdinInv` |
| `FrameTypeCorrect`, `FrameFound` | `FrameTypeOK`, `FrameParsed` | `FrameInv` |
| `SerialTypeCorrect`, `SerialReadingFresh` | `SerialTypeOK`, `ReadingFromThisCall` | `SerialInv` |
| `VibTypeCorrect`, `MotorZeroNeedsOverlap` | `VibTypeOK`, `ZeroNeedsOverlap` | `VibInv`, `ZeroStored` |
| `BoardTypeCorrect` | `[]BoardTypeOK` of `MCBoard` | the six invariants together |

So every invariant that a passing run checks is also proved, and every action property but
one part of `Navigates`.

The assumptions on the constants. A ring has at least one slot (`FifoAssumption`,
`RingAssumption`); `JunkAssumption` only says that what an unwritten slot holds is an element.
Descriptors, queue length of at least two, retry limit, timeout, file size and number of
volumes of the server are any (`FdAssumption`, `BoundAssumption`: natural numbers, a limit
that leaves the counter room for one more, descriptors distinct from each other).
`FlashAssumption` gives the flash at least one sector and makes the invalid address no
sector. `FrameAssumption` has a buffer of more than a header, no larger than the limit, whose
payloads have a length that fits a byte (128, 140 and 8 bits in the code) and two different
header bytes. `ParamAssumption` and `SocketAssumption` are discussed with their modules.
Counts of requests, events and of the motor's largest frequency are at least 1 (100 in
the code); counts of clients, power failures and characters are any.

None of the safety properties is inductive alone, but the two ring buffer facts and
the server's types. What is added:

- The server. `SocketInv` adds `SocketPhases`. `ControlStart` overwrites `sc_sd`, so nothing
  is lost only because in DISABLED and CONTROL_START the old control socket is gone; and
  `DataAccept` overwrites `cd_sd`, so a data socket above 0 must exist only on a
  CONNECTED channel, and PASV must have closed it.
- `FlowInv` has five parts. `ChunkPhase`: at most one chunk is queued, it is first,
  and its state, socket and buffer go with it. `ListPhase`: a root listing between two
  volumes has no reply queued that could close its socket. `UploadPhase`: an upload has
  its file open, and received bytes exist only with an empty queue, because a queued
  error reply would close the data socket under it. `LinkPhase`: between runs a
  transfer has its data socket, which the end of each run restores. `ListenPhase`: a
  listening channel has a data socket only inside the run that is about to look at it.
- `RetryPhase`: a counter past the limit exists only after the reset it caused, when
  there is neither a client nor a data channel to send to, and the next client clears
  it (`ControlAccept`). Descriptor 0 is the exception, since the reset does not close it.
- The cache. `CallRange` keeps the sectors of a call on the disk, through the loop.
  `CacheInv` says how the statics agree with each step: a block is written back only
  while dirty, replaced only once clean, equal to the flash between the write and the
  clearing of the flag, and its address is that of the sector being copied. The last
  three theorems assume `OneTask`, which the run `flash_two_tasks` shows to be needed.
- The reply queue. `OwnershipInv` speaks of positions in the queue in place of sets of
  blocks: a queued reply's block is live, a live block is in a queued reply, and no
  two queued replies own the same block. A push takes a block that is not live, so that the
  third part survives it; a pop of the first element moves the others up by one.
- The FTP path. `PathInv`: the path begins with "/", has no empty name and, but for
  the root, no "/" at its end. Only then does cutting the parameter's length off undo
  appending it, with the separator that was put between them or not
  (`open_child`'s three cases). 
- Wi-Fi. `WifiInv` ties the flag, the queue and the call in progress together: no request is
  under way before `event_handler` is installed (`HandlerRoles`); the flag is clear from the
  moment the user asks to disconnect, and set for a wanted station once the call that asked for
  it has returned (`FlagFollows`); and a wanted station that has lost its link finds the loss
  last in the queue, so that no event before it can take it for something else
  (`LossReported`).
- BLE. `OneCause`: of the things that lead to advertising (the unanswered request, the
  queued events that will start it, the disconnection of the last client, advertising
  itself, a link) there is at most one at a time, as a chain in which each handler
  replaces one cause by the next. `ConnectedClient`: a queued connection is that of the
  link there is, or its disconnection is queued behind it; a link without such an event is in
  `conn_id`.
- Sockets. `SocketInv`: `retries` is the timeout in whole polls, or UINT_MAX, and on a socket
  with a timeout the loop counter times the poll is the time waited since the last progress
  (`ReceiveCount`, `SendCount`), from which the bounds of `OutcomeTrue` follow. A counter
  that may wrap around, on a blocking socket, needs no count: the receiving loops
  compare with `<=`, which holds of UINT_MAX whatever the counter is.
- Start-up. `BootInv` says for each step which directories and scripts exist already
  (`DirectoriesMade`, `ScriptsMade`) and in which directory the task is (`RunsHere`), as long as no
  call of this start has failed; that a script is created only where there is none of its
  name, as long as no `f_stat` or `f_chdir` has failed (`CreatesMissing`); that a volume is empty
  until it is formatted and `f_mkdir("/flash")` was called (`FreshVolume`); and that, when no call has
  ever failed, what the user saved is in `/flash` if that directory is there (`SavedKept`).
- The console ring. `StdinInv`: the slots between `iget` and `iput` hold the characters
  put and not returned, in order (`HeldInOrder`); what `ringbuf_get` has loaded is the next
  character, also when it gave up the slot already and the handler writes into it (`InGet`);
  and with one store each accepted character is at its place among those returned or in its
  slot (`Accounted`).
- The frame parser. `FrameInv`: an idle parser has a blank buffer, and one that met the
  start of the host's frame while idle has stored exactly the bytes sent so far, with as many
  to come as `dataLen` says (`RestOfFrame`, `Following`).
- The serial channel and the motor. `SerialInv`: once the driver has cleared the buffer every
  byte in it was copied during this call (`NothingOld`). `VibInv`: the loop
  counter of a task is bounded by a pair of parameters that calls asked for; `ZeroStored`:
  a task enters its loop only with a frequency above 0, so that a 0 met inside the loop
  was stored by another call.

The step from an invariant to itself is one lemma per part of the component and one proof
step per action.

With TLC only:

- The liveness properties, which are beyond the prover: `TransferTerminates`, `QueueDrains`,
  `AvailableAgain`, `CallEnds`, `Serves`, `ReachesScripts`, `InputDelivered`, `CallReturns` and
  that the motor's tasks end (`MotorStops`).
- `Moves`: the names of a path are a recursive function of the string, and what it returns for
  a string with one name appended is an induction over data.

## Not modelled

- The gyroscope and the infrared board: floating-point filtering, register I/O. The
  angles are doubles written by one task and read by another.
- The other on-board devices (LED matrix, light, sound, button, potentiometer): single
  accesses to registers.
- `parseData` behind the frame parser: a dispatch to drivers, without state of its own.
- `scan`, `isconnected`, `ifconfig` and `config` of the network module, `connect`, `bind`, `listen`
  and `poll` of sockets: single calls into ESP-IDF or lwIP.
- Formatting: replies, directory entries, dates, log messages.
- ESP-IDF, lwIP, FatFs, Bluedroid and the MicroPython core, which are the bulk of the
  repository and vendored: they appear as the environment of the modules above.

## Plan

All modules of the plan are written and checked, and the safety properties are proved. What
is left:

1. `FlashCache` with two tasks: what is still guaranteed beyond the types.
2. An abstract specification of the console input (a bounded queue that drops when full)
   with `StdinRing` shown to implement it for the builds that store `iget` once.
