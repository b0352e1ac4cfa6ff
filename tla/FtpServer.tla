------------------------------ MODULE FtpServer ------------------------------
(***************************************************************************)
(* The FTP server of wifi/mb_ftp/mb_ftp.c: the manager structure, the      *)
(* state machine mb_ftp_run() that mb_ftp_task() calls every 20 ms, the    *)
(* command handlers and the queue of replies and data chunks.              *)
(*                                                                         *)
(* One call of mb_ftp_run() is four steps, told apart by pc: the switch on *)
(* the control state ("switch"), the data channel ("data"), the transmit   *)
(* queue ("send") and the final check for a lost data socket ("end").  The *)
(* sockets are lwIP descriptors shared with the other tasks, which open    *)
(* and close theirs at any time.  Every result lwIP, FatFs, the heap or    *)
(* the client can produce is a choice.                                     *)
(***************************************************************************)
EXTENDS Integers, Sequences, FiniteSets

CONSTANTS
    PosFds,       \* the descriptors greater than 0
    Fd0,          \* descriptor 0
    NoFd,         \* -1, no descriptor
    ZeroUsable,   \* whether lwIP may hand out descriptor 0
    Pick(_),      \* the free descriptors lwIP may choose from
    QueueMax,     \* MB_FTP_SOCKETFIFO_ELEMENTS_MAX
    TxRetriesMax, \* MB_FTP_TX_RETRIES_MAX
    Uint8,        \* the number of values of the uint8_t txRetries, 256
    RxTimeout,    \* cycles an upload may stay silent
    DataTimeout,  \* cycles a data socket may stay unused
    MaxChunks,    \* bound: longest file or directory, in buffers
    Volumes,      \* mounted volumes, the entries of the root directory
    MaxOthers,    \* bound: sockets the other tasks have open at a time
    ListItems     \* entries mb_ftp_list_dir prints per buffer

ASSUME FdAssumption ==
    /\ Fd0 \notin PosFds
    /\ NoFd \notin PosFds
    /\ NoFd # Fd0
    /\ ZeroUsable \in BOOLEAN
    /\ \A S \in SUBSET (PosFds \cup {Fd0}) : Pick(S) \subseteq S

\* The queue must hold the last data chunk and the reply that follows it.
ASSUME BoundAssumption ==
    /\ QueueMax \in Nat /\ QueueMax >= 2
    /\ TxRetriesMax \in Nat
    /\ Uint8 \in Nat /\ Uint8 > TxRetriesMax + 1
    /\ RxTimeout \in Nat
    /\ DataTimeout \in Nat
    /\ MaxChunks \in Nat
    /\ Volumes \in Nat
    /\ MaxOthers \in Nat
    /\ ListItems \in Nat \ {0}

VARIABLES
    pc,                \* the next part of mb_ftp_run
    enabled,
    state,             \* control state
    data_trans_state,  \* data channel state
    sc_sd, sd_sd,      \* listening sockets: control, data
    cc_sd, cd_sd,      \* client sockets: control, data
    mine,              \* descriptors lwIP has given to this server
    others,            \* descriptors held by the other tasks
    fifo,              \* queued replies and data chunks (see Fifo)
    txRetries,
    dtimeout,
    loggin,
    e_open,            \* what the FIL/DIR union holds open
    dirty,             \* the open file holds received bytes not yet closed
    left,              \* buffers left in the file or directory being sent
    listroot,
    volcount,
    buf                \* what ftpBuffer holds: a data chunk, or text of a command

sockets == <<sc_sd, sd_sd, cc_sd, cd_sd, mine>>
files   == <<e_open, dirty, left, listroot, volcount>>
channel == <<state, data_trans_state>>
vars    == <<pc, enabled, channel, sockets, others, fifo, txRetries, dtimeout,
             loggin, files, buf>>

-----------------------------------------------------------------------------
States == {"DISABLED", "CONTROL_START", "CONTROL_CONNECTED", "END_TRANSFER",
           "CONTINUE_LISTING", "CONTINUE_FILE_TX", "CONTINUE_FILE_RX"}

\* The states the code compares as state > MB_FTP_CONTROL_CONNECTED.
Transferring == {"END_TRANSFER", "CONTINUE_LISTING", "CONTINUE_FILE_TX",
                 "CONTINUE_FILE_RX"}

Fds == PosFds \cup (IF ZeroUsable THEN {Fd0} ELSE {})
AnyFd == PosFds \cup {Fd0, NoFd}
Free == Fds \ (mine \cup others)

Element == [sd : {"cc_sd", "cd_sd"}, closesockets : {"NONE", "DATA", "CMD_AND_DATA"}]

\* The sockets a reply closes once it is sent, from its status code.
CloseOf(status) ==
    CASE status = 221 -> "CMD_AND_DATA"
      [] status \in {426, 451, 550} -> "DATA"
      [] OTHER -> "NONE"

\* SOCKETFIFO_Push refuses an element when the queue is full.
Push(q, e) == IF Len(q) < QueueMax THEN Append(q, e) ELSE q

\* mb_ftp_send_reply: the reply is queued, or lost for want of heap or of room.
send_reply(q, status) ==
    {q, Push(q, [sd |-> "cc_sd", closesockets |-> CloseOf(status)])}

\* mb_ftp_send_data_to_fifo: the chunk itself stays in ftpBuffer.
send_data_to_fifo(q) == Push(q, [sd |-> "cd_sd", closesockets |-> "NONE"])

\* Mutant: the closed descriptor is not replaced by -1.
Closed_kept(sd) == sd

\* mb_ftp_close_socket: only a descriptor greater than 0 is closed.
Closed(sd) == IF sd \in PosFds THEN NoFd ELSE sd
Released(S) == mine \ (S \cap PosFds)

\* mb_ftp_close_files: f_close or f_closedir, whichever e_open says.
close_files == e_open' = "NOTHING" /\ dirty' = FALSE /\ left' = 0

close_client_sockets ==
    /\ cc_sd' = Closed(cc_sd)
    /\ cd_sd' = Closed(cd_sd)
    /\ close_files

\* Mutant: the control state is not reset.
Reset_state(cc, cd) ==
    /\ sc_sd' = Closed(sc_sd) /\ sd_sd' = Closed(sd_sd)
    /\ cc_sd' = Closed(cc) /\ cd_sd' = Closed(cd)
    /\ mine' = Released({sc_sd, sd_sd, cc, cd})
    /\ close_files
    /\ data_trans_state' = "DISCONNECTED"
    /\ volcount' = 0
    /\ fifo' = <<>>
    /\ UNCHANGED <<state, listroot>>

\* Mutant: a listing that is cut short keeps its place in the mount table.
Reset_volcount(cc, cd) ==
    /\ sc_sd' = Closed(sc_sd) /\ sd_sd' = Closed(sd_sd)
    /\ cc_sd' = Closed(cc) /\ cd_sd' = Closed(cd)
    /\ mine' = Released({sc_sd, sd_sd, cc, cd})
    /\ close_files
    /\ state' = "CONTROL_START"
    /\ data_trans_state' = "DISCONNECTED"
    /\ fifo' = <<>>
    /\ UNCHANGED <<listroot, volcount>>

\* mb_ftp_reset, with the value cc and cd have when it is called.
Reset(cc, cd) ==
    /\ sc_sd' = Closed(sc_sd)
    /\ sd_sd' = Closed(sd_sd)
    /\ cc_sd' = Closed(cc)
    /\ cd_sd' = Closed(cd)
    /\ mine' = Released({sc_sd, sd_sd, cc, cd})
    /\ close_files
    /\ state' = "CONTROL_START"
    /\ data_trans_state' = "DISCONNECTED"
    /\ volcount' = 0
    /\ fifo' = <<>>
    /\ UNCHANGED listroot

Init ==
    /\ pc = "task"
    /\ enabled = FALSE
    /\ state = "DISABLED"
    /\ data_trans_state = "DISCONNECTED"
    /\ sc_sd = NoFd /\ sd_sd = NoFd /\ cc_sd = NoFd /\ cd_sd = NoFd
    /\ mine = {} /\ others = {}
    /\ fifo = <<>>
    /\ txRetries = 0 /\ dtimeout = 0
    /\ loggin = [uservalid |-> FALSE, userloggined |-> FALSE]
    /\ e_open = "NOTHING" /\ dirty = FALSE
    /\ left = 0 /\ listroot = FALSE /\ volcount = 0
    /\ buf = "other"

-----------------------------------------------------------------------------
(* The switch on the control state. *)

Switch(s) == pc = "switch" /\ state = s /\ pc' = "data"

\* mb_ftp_task: do_enable is served before the first mb_ftp_run.
mb_ftp_enable ==
    /\ pc = "task" /\ pc' = "switch"
    /\ enabled' = TRUE
    /\ UNCHANGED <<channel, sockets, others, fifo, txRetries, dtimeout, loggin, files, buf>>

mb_ftp_enabled_check ==
    /\ Switch("DISABLED")
    /\ state' = IF enabled THEN "CONTROL_START" ELSE state
    /\ UNCHANGED <<enabled, data_trans_state, sockets, others, fifo, txRetries, dtimeout,
                   loggin, files, buf>>

\* Mutant: the socket is not closed when bind() or listen() fails.
NewSocket_open(free, created) ==
    IF created THEN Pick(free) \cap PosFds ELSE {NoFd} \cup Pick(free)

\* mb_ftp_create_controlanddata_socket: a listening socket, or -1 when
\* socket(), bind() or listen() fails, or 0, which the code takes for a failure
\* and does not close.
NewSocket(free, created) ==
    IF created THEN Pick(free) \cap PosFds ELSE {NoFd} \cup (Pick(free) \cap {Fd0})

ControlStart ==
    /\ Switch("CONTROL_START")
    /\ \E created \in BOOLEAN : \E fd \in NewSocket(Free, created) :
          /\ sc_sd' = fd
          /\ mine' = mine \cup ({fd} \ {NoFd})
          /\ state' = IF created THEN "CONTROL_CONNECTED" ELSE state
    /\ UNCHANGED <<enabled, data_trans_state, sd_sd, cc_sd, cd_sd, others, fifo, txRetries,
                   dtimeout, loggin, files, buf>>

\* No control client and no data channel: wait for a client.
AcceptsControl ==
    /\ Switch("CONTROL_CONNECTED")
    /\ cc_sd = NoFd
    /\ data_trans_state = "DISCONNECTED"

\* Mutant: the retries of the previous client count for the new one.
ControlAccept_retries ==
    /\ AcceptsControl
    /\ sc_sd \in PosFds
    /\ \E fd \in Pick(Free) : cc_sd' = fd /\ mine' = mine \cup {fd}
    /\ loggin' = [uservalid |-> FALSE, userloggined |-> FALSE]
    /\ fifo' \in send_reply(fifo, 220)
    /\ UNCHANGED <<enabled, channel, sc_sd, sd_sd, cd_sd, others, txRetries, dtimeout, files, buf>>

ControlAccept ==
    /\ AcceptsControl
    /\ sc_sd \in PosFds
    /\ \E fd \in Pick(Free) : cc_sd' = fd /\ mine' = mine \cup {fd}
    /\ txRetries' = 0
    /\ loggin' = [uservalid |-> FALSE, userloggined |-> FALSE]
    /\ fifo' \in send_reply(fifo, 220)
    /\ UNCHANGED <<enabled, channel, sc_sd, sd_sd, cd_sd, others, dtimeout, files, buf>>

\* EAGAIN: nobody is waiting.
ControlAcceptNone ==
    /\ AcceptsControl
    /\ sc_sd \in PosFds
    /\ UNCHANGED <<enabled, channel, sockets, others, fifo, txRetries, dtimeout, loggin,
                   files, buf>>

\* Any other error of accept(), a full descriptor table for one.
ControlAcceptError ==
    /\ AcceptsControl
    /\ Reset(NoFd, cd_sd)
    /\ UNCHANGED <<enabled, others, txRetries, dtimeout, loggin, buf>>

-----------------------------------------------------------------------------
(* mb_ftp_cmd_process: one command per run, read from the control socket. *)

CmdProcess ==
    /\ Switch("CONTROL_CONNECTED")
    /\ ~(cc_sd = NoFd /\ data_trans_state = "DISCONNECTED")

\* recv() of the control socket returned a command.
Command == CmdProcess /\ cc_sd # NoFd

\* EAGAIN; the timeout counter of this branch has no effect.
CmdNone ==
    /\ Command
    /\ UNCHANGED <<enabled, channel, sockets, others, fifo, txRetries, dtimeout, loggin,
                   files, buf>>

\* The peer closed, an error, or there is no control socket to read from.
CmdFailed ==
    /\ CmdProcess
    /\ close_client_sockets
    /\ mine' = Released({cc_sd, cd_sd})
    /\ UNCHANGED <<enabled, channel, sc_sd, sd_sd, others, fifo, txRetries, dtimeout,
                   loggin, listroot, volcount, buf>>

\* PASV closes the data socket and listens again, on the old socket if there is one.
CmdPASV ==
    /\ Command
    /\ cd_sd' = Closed(cd_sd)
    /\ \E created \in BOOLEAN :
          /\ \/ /\ sd_sd # NoFd /\ created
                /\ sd_sd' = sd_sd /\ mine' = Released({cd_sd})
             \/ /\ sd_sd = NoFd
                /\ \E fd \in NewSocket(Free \cup ({cd_sd} \cap PosFds), created) :
                      /\ sd_sd' = fd
                      /\ mine' = Released({cd_sd}) \cup ({fd} \ {NoFd})
          /\ data_trans_state' = IF created THEN "LISTEN_FOR_DATA" ELSE "DISCONNECTED"
          /\ dtimeout' = IF created THEN 0 ELSE dtimeout
          /\ buf' = IF created THEN "other" ELSE buf
          /\ fifo' \in send_reply(fifo, IF created THEN 227 ELSE 425)
    /\ UNCHANGED <<enabled, state, sc_sd, cc_sd, others, txRetries, loggin, files>>

\* USER: the wrong name is neither answered nor recorded.
CmdUSER ==
    /\ Command
    /\ \/ /\ loggin' = [loggin EXCEPT !.uservalid = TRUE]
          /\ fifo' \in send_reply(fifo, 331)
       \/ UNCHANGED <<loggin, fifo>>
    /\ UNCHANGED <<enabled, channel, sockets, others, txRetries, dtimeout, files, buf>>

\* PASS counts only after a valid USER; a wrong one does not log out.
CmdPASS ==
    /\ Command
    /\ \/ /\ loggin.uservalid
          /\ loggin' = [loggin EXCEPT !.userloggined = TRUE]
          /\ fifo' \in send_reply(fifo, 230)
       \/ /\ UNCHANGED loggin
          /\ fifo' \in send_reply(fifo, 530)
    /\ UNCHANGED <<enabled, channel, sockets, others, txRetries, dtimeout, files, buf>>

\* A command that only answers, with a status of its branch.
Answers(statuses) ==
    /\ Command
    /\ \E status \in statuses : fifo' \in send_reply(fifo, status)
    /\ UNCHANGED <<enabled, channel, sockets, others, txRetries, dtimeout, loggin, files>>

CmdCWD == Answers({250, 550}) /\ UNCHANGED buf

CmdDELE == Answers({250, 550}) /\ UNCHANGED buf

CmdMKD == Answers({250, 550}) /\ UNCHANGED buf

\* CDUP, PWD, XPWD, TYPE, FEAT, SYST and the unknown command.
CmdInfo == Answers({200, 211, 215, 250, 257, 502}) /\ UNCHANGED buf

\* SIZE and MDTM print their answer into ftpBuffer.
CmdSIZE ==
    \/ Answers({213}) /\ buf' = "other"
    \/ Answers({550}) /\ UNCHANGED buf

\* RNFR keeps the old path in ftpBuffer, where RNTO looks for it.
CmdRNFR ==
    \/ Answers({350}) /\ buf' = "other"
    \/ Answers({550}) /\ UNCHANGED buf

CmdRNTO == Answers({250, 550}) /\ UNCHANGED buf

CmdQUIT == Answers({221}) /\ UNCHANGED buf

\* The NOOP branch has no break: it goes on to QUIT.
CmdNOOP ==
    /\ Command
    /\ \E q \in send_reply(fifo, 200) : fifo' \in send_reply(q, 221)
    /\ UNCHANGED <<enabled, channel, sockets, others, txRetries, dtimeout, loggin, files, buf>>

\* LIST: "/" is listed from the mount table, any other path from its directory.
CmdLIST ==
    /\ Command
    /\ \/ /\ listroot' = TRUE
          /\ state' = "CONTINUE_LISTING"
          /\ fifo' \in send_reply(fifo, 150)
          /\ UNCHANGED <<e_open, left>>
       \/ /\ listroot' = FALSE
          /\ e_open' = "DIR"
          /\ left' \in 0 .. MaxChunks
          /\ state' = "CONTINUE_LISTING"
          /\ fifo' \in send_reply(fifo, 150)
       \/ /\ fifo' \in send_reply(fifo, 550)
          /\ UNCHANGED <<state, listroot, e_open, left>>
    /\ UNCHANGED <<enabled, data_trans_state, sockets, others, txRetries, dtimeout, loggin,
                   dirty, volcount, buf>>

\* RETR and STOR open the file (STOR truncates it); a failure goes to END_TRANSFER.
OpensFile(transfer, size) ==
    /\ Command
    /\ \/ /\ e_open' = "FILE"
          /\ left' \in 0 .. size
          /\ state' = transfer
          /\ fifo' \in send_reply(fifo, 150)
       \/ /\ state' = "END_TRANSFER"
          /\ fifo' \in send_reply(fifo, 550)
          /\ UNCHANGED <<e_open, left>>
    /\ UNCHANGED <<enabled, data_trans_state, sockets, others, txRetries, dtimeout, loggin,
                   dirty, listroot, volcount, buf>>

CmdRETR == OpensFile("CONTINUE_FILE_TX", MaxChunks)

CmdSTOR == OpensFile("CONTINUE_FILE_RX", 0)

-----------------------------------------------------------------------------
(* The transfers: each goes on only when the transmit queue is empty. *)

Waits ==
    /\ \E s \in Transferring : Switch(s)
    /\ fifo # <<>> \/ state = "END_TRANSFER"
    /\ UNCHANGED <<enabled, channel, sockets, others, fifo, txRetries, dtimeout, loggin,
                   files, buf>>

\* mb_ftp_list_dir found entries: one more buffer is queued.  A directory that
\* ends, or fails, within the buffer is closed; the next read of it is in vain.
ListMore ==
    /\ Switch("CONTINUE_LISTING")
    /\ fifo = <<>>
    /\ \/ /\ listroot
          /\ volcount < Volumes
          /\ volcount' = IF volcount + ListItems < Volumes THEN volcount + ListItems ELSE Volumes
          /\ UNCHANGED <<e_open, dirty, left>>
       \/ /\ ~listroot
          /\ left > 0
          /\ \/ left' = left - 1 /\ UNCHANGED <<e_open, dirty>>
             \/ close_files
          /\ UNCHANGED volcount
    /\ fifo' = send_data_to_fifo(fifo)
    /\ buf' = "data"
    /\ UNCHANGED <<enabled, channel, sockets, others, txRetries, dtimeout, loggin, listroot>>

\* Nothing more to list, or f_readdir failed: 226.  Only a real directory is closed.
ListDone ==
    /\ Switch("CONTINUE_LISTING")
    /\ fifo = <<>>
    /\ \/ /\ listroot
          /\ volcount >= Volumes
          /\ volcount' = 0
          /\ UNCHANGED <<e_open, dirty, left>>
       \/ /\ ~listroot
          /\ close_files
          /\ UNCHANGED volcount
    /\ fifo' \in send_reply(fifo, 226)
    /\ state' = "END_TRANSFER"
    /\ UNCHANGED <<enabled, data_trans_state, sockets, others, txRetries, dtimeout, loggin,
                   listroot, buf>>

\* Mutant: the next chunk is read before the last one is sent.
FileTxMore_eager ==
    /\ Switch("CONTINUE_FILE_TX")
    /\ left > 0
    /\ left' = left - 1
    /\ fifo' = send_data_to_fifo(fifo)
    /\ buf' = "data"
    /\ UNCHANGED <<enabled, channel, sockets, others, txRetries, dtimeout, loggin,
                   e_open, dirty, listroot, volcount>>

\* A full buffer was read: the file goes on.
FileTxMore ==
    /\ Switch("CONTINUE_FILE_TX")
    /\ fifo = <<>>
    /\ left > 0
    /\ left' = left - 1
    /\ fifo' = send_data_to_fifo(fifo)
    /\ buf' = "data"
    /\ UNCHANGED <<enabled, channel, sockets, others, txRetries, dtimeout, loggin,
                   e_open, dirty, listroot, volcount>>

\* Mutant: a read error leaves the file open.
FileTxDone_open ==
    /\ Switch("CONTINUE_FILE_TX")
    /\ fifo = <<>>
    /\ fifo' \in send_reply(fifo, 451) /\ buf' = "data"
    /\ state' = "END_TRANSFER"
    /\ UNCHANGED <<enabled, data_trans_state, sockets, others, txRetries, dtimeout, loggin,
                   files>>

\* A short read ends the file: its last bytes, if any, and 226; or an error: 451.
FileTxDone ==
    /\ Switch("CONTINUE_FILE_TX")
    /\ fifo = <<>>
    /\ \/ /\ left = 0
          /\ \/ fifo' \in send_reply(fifo, 226) /\ UNCHANGED buf
             \/ fifo' \in send_reply(send_data_to_fifo(fifo), 226) /\ buf' = "data"
       \/ fifo' \in send_reply(fifo, 451) /\ buf' = "data"
    /\ close_files
    /\ state' = "END_TRANSFER"
    /\ UNCHANGED <<enabled, data_trans_state, sockets, others, txRetries, dtimeout, loggin,
                   listroot, volcount>>

\* Upload: the bytes that arrived are written to the file, or 451.
FileRxData ==
    /\ Switch("CONTINUE_FILE_RX")
    /\ fifo = <<>>
    /\ cd_sd # NoFd
    /\ buf' = "data"
    /\ dtimeout' = 0
    /\ \/ dirty' = TRUE /\ UNCHANGED <<e_open, left, state, fifo>>
       \/ close_files /\ state' = "END_TRANSFER" /\ fifo' \in send_reply(fifo, 451)
    /\ UNCHANGED <<enabled, data_trans_state, sockets, others, txRetries, loggin,
                   listroot, volcount>>

\* dtimeout++, up to a value past both limits: no comparison tells more apart.
Later(n) == IF n <= RxTimeout \/ n <= DataTimeout THEN n + 1 ELSE n

\* Mutant: the timeout of an upload does not close the file.
FileRxNone_open ==
    /\ Switch("CONTINUE_FILE_RX")
    /\ fifo = <<>>
    /\ cd_sd # NoFd
    /\ dtimeout' = Later(dtimeout)
    /\ \/ dtimeout <= RxTimeout /\ UNCHANGED <<state, fifo>>
       \/ /\ dtimeout > RxTimeout
          /\ state' = "END_TRANSFER"
          /\ fifo' \in send_reply(fifo, 426)
    /\ UNCHANGED <<enabled, data_trans_state, sockets, others, txRetries, loggin, files, buf>>

\* Upload: nothing arrived; too long a silence is answered with 426.
FileRxNone ==
    /\ Switch("CONTINUE_FILE_RX")
    /\ fifo = <<>>
    /\ cd_sd # NoFd
    /\ dtimeout' = Later(dtimeout)
    /\ \/ /\ dtimeout <= RxTimeout
          /\ UNCHANGED <<e_open, dirty, left, state, fifo>>
       \/ /\ dtimeout > RxTimeout
          /\ close_files
          /\ state' = "END_TRANSFER"
          /\ fifo' \in send_reply(fifo, 426)
    /\ UNCHANGED <<enabled, data_trans_state, sockets, others, txRetries, loggin,
                   listroot, volcount, buf>>

\* Upload: the client closed the data connection, the file is complete.
FileRxClosed ==
    /\ Switch("CONTINUE_FILE_RX")
    /\ fifo = <<>>
    /\ close_files
    /\ state' = "END_TRANSFER"
    /\ fifo' \in send_reply(fifo, 226)
    /\ UNCHANGED <<enabled, data_trans_state, sockets, others, txRetries, dtimeout, loggin,
                   listroot, volcount, buf>>

-----------------------------------------------------------------------------
(* The data channel, served only once a client has logged in. *)

DataStep(d) ==
    /\ pc = "data" /\ pc' = "send"
    /\ loggin.userloggined
    /\ data_trans_state = d

DataIdle ==
    /\ pc = "data" /\ pc' = "send"
    /\ \/ ~loggin.userloggined
       \/ data_trans_state = "DISCONNECTED"
       \/ data_trans_state = "CONNECTED" /\ state # "CONTROL_CONNECTED"
    /\ UNCHANGED <<enabled, channel, sockets, others, fifo, txRetries, dtimeout, loggin,
                   files, buf>>

\* Mutant: the cycles of an unused data channel are not counted.
Tick_never == dtimeout' = dtimeout

\* dtimeout++ > DataTimeout, and the reset of the counter when it is.
Tick == dtimeout' = IF dtimeout > DataTimeout THEN 0 ELSE Later(dtimeout)

DataAccept ==
    /\ DataStep("LISTEN_FOR_DATA")
    /\ sd_sd \in PosFds
    /\ \E fd \in Pick(Free) : cd_sd' = fd /\ mine' = mine \cup {fd}
    /\ dtimeout' = 0
    /\ data_trans_state' = "CONNECTED"
    /\ UNCHANGED <<enabled, state, sc_sd, sd_sd, cc_sd, others, fifo, txRetries, loggin,
                   files, buf>>

\* EAGAIN: accept() has stored -1 in cd_sd; the listening socket times out.
DataAcceptNone ==
    /\ DataStep("LISTEN_FOR_DATA")
    /\ sd_sd \in PosFds
    /\ cd_sd' = NoFd
    /\ Tick
    /\ \/ /\ dtimeout <= DataTimeout
          /\ UNCHANGED <<data_trans_state, sd_sd, mine>>
       \/ /\ dtimeout > DataTimeout
          /\ data_trans_state' = "DISCONNECTED"
          /\ sd_sd' = Closed(sd_sd)
          /\ mine' = Released({sd_sd})
    /\ UNCHANGED <<enabled, state, sc_sd, cc_sd, others, fifo, txRetries, loggin, files, buf>>

DataAcceptError ==
    /\ DataStep("LISTEN_FOR_DATA")
    /\ Reset(cc_sd, NoFd)
    /\ Tick
    /\ UNCHANGED <<enabled, others, txRetries, loggin, buf>>

\* An accepted data connection no command uses times out.
DataUnused ==
    /\ DataStep("CONNECTED")
    /\ state = "CONTROL_CONNECTED"
    /\ Tick
    /\ \/ /\ dtimeout <= DataTimeout
          /\ UNCHANGED <<data_trans_state, sd_sd, cd_sd, mine, e_open, dirty, left>>
       \/ /\ dtimeout > DataTimeout
          /\ data_trans_state' = "DISCONNECTED"
          /\ sd_sd' = Closed(sd_sd)
          /\ cd_sd' = Closed(cd_sd)
          /\ mine' = Released({sd_sd, cd_sd})
          /\ close_files
    /\ UNCHANGED <<enabled, state, sc_sd, cc_sd, others, fifo, txRetries, loggin,
                   listroot, volcount, buf>>

-----------------------------------------------------------------------------
(* mb_ftp_send_from_fifo: at most one element per run. *)

SendStep == pc = "send" /\ pc' = "end"

\* The element's socket pointer is followed when it is sent, not when queued.
TargetOf(e) == IF e.sd = "cc_sd" THEN cc_sd ELSE cd_sd

\* Mutant: a wider counter.
Incremented_wide(n) == n + 1

\* ++txRetries of a uint8_t.
Incremented(n) == IF n + 1 = Uint8 THEN 0 ELSE n + 1

\* send() took bytes (all of them as far as the code can tell).
SendOk ==
    /\ SendStep
    /\ fifo # <<>>
    /\ TargetOf(Head(fifo)) \in PosFds
    /\ fifo' = Tail(fifo)
    /\ txRetries' = 0
    /\ \/ /\ Head(fifo).closesockets = "NONE"
          /\ UNCHANGED <<sockets, data_trans_state>>
       \/ /\ Head(fifo).closesockets = "DATA"
          /\ cd_sd' = Closed(cd_sd)
          /\ mine' = Released({cd_sd})
          /\ UNCHANGED <<sc_sd, sd_sd, cc_sd, data_trans_state>>
       \/ /\ Head(fifo).closesockets = "CMD_AND_DATA"
          /\ cd_sd' = Closed(cd_sd)
          /\ sd_sd' = Closed(sd_sd)
          /\ cc_sd' = Closed(cc_sd)
          /\ mine' = Released({cd_sd, sd_sd, cc_sd})
          /\ data_trans_state' = "DISCONNECTED"
          /\ UNCHANGED sc_sd
    /\ UNCHANGED <<enabled, state, others, dtimeout, loggin, files, buf>>

\* Mutant: EAGAIN is retried without a limit.
SendRetry_unbounded ==
    /\ SendStep
    /\ fifo # <<>>
    /\ TargetOf(Head(fifo)) \in PosFds
    /\ UNCHANGED <<enabled, channel, sockets, others, fifo, txRetries, dtimeout, loggin,
                   files, buf>>

\* EAGAIN, a limited number of times in a row.
SendRetry ==
    /\ SendStep
    /\ fifo # <<>>
    /\ TargetOf(Head(fifo)) \in PosFds
    /\ Incremented(txRetries) <= TxRetriesMax
    /\ txRetries' = Incremented(txRetries)
    /\ UNCHANGED <<enabled, channel, sockets, others, fifo, dtimeout, loggin, files, buf>>

\* Another error, or one EAGAIN too many: the whole server is reset.
SendError ==
    /\ SendStep
    /\ fifo # <<>>
    /\ TargetOf(Head(fifo)) \in PosFds
    /\ txRetries' = Incremented(txRetries)
    /\ Reset(cc_sd, cd_sd)
    /\ UNCHANGED <<enabled, others, dtimeout, loggin, buf>>

\* Mutant: an element whose socket is gone stays at the head of the queue.
SendDrop_kept ==
    /\ SendStep
    /\ fifo # <<>>
    /\ TargetOf(Head(fifo)) \notin PosFds
    /\ UNCHANGED <<enabled, channel, sockets, others, fifo, txRetries, dtimeout, loggin,
                   files, buf>>

\* The socket is closed (or is descriptor 0): the element is dropped.
SendDrop ==
    /\ SendStep
    /\ fifo # <<>>
    /\ TargetOf(Head(fifo)) \notin PosFds
    /\ fifo' = Tail(fifo)
    /\ UNCHANGED <<enabled, channel, sockets, others, txRetries, dtimeout, loggin, files, buf>>

\* Everything is sent and the transfer is over: the data sockets are closed.
SendFinished ==
    /\ SendStep
    /\ fifo = <<>>
    /\ state = "END_TRANSFER" /\ cd_sd \in PosFds
    /\ sd_sd' = Closed(sd_sd)
    /\ cd_sd' = Closed(cd_sd)
    /\ mine' = Released({sd_sd, cd_sd})
    /\ UNCHANGED <<enabled, channel, sc_sd, cc_sd, others, fifo, txRetries, dtimeout, loggin,
                   files, buf>>

SendNothing ==
    /\ SendStep
    /\ fifo = <<>>
    /\ ~(state = "END_TRANSFER" /\ cd_sd \in PosFds)
    /\ UNCHANGED <<enabled, channel, sockets, others, fifo, txRetries, dtimeout, loggin,
                   files, buf>>

\* Mutant: a transfer is kept up without its data socket.
EndOfRun_stays ==
    /\ pc = "end" /\ pc' = "switch"
    /\ UNCHANGED <<enabled, channel, sockets, others, fifo, txRetries, dtimeout, loggin,
                   files, buf>>

\* Without a data socket the transfer is given up; its file stays open.
EndOfRun ==
    /\ pc = "end" /\ pc' = "switch"
    /\ \/ /\ cd_sd = NoFd /\ state \in Transferring
          /\ data_trans_state' = "DISCONNECTED"
          /\ state' = "CONTROL_CONNECTED"
       \/ /\ ~(cd_sd = NoFd /\ state \in Transferring)
          /\ UNCHANGED channel
    /\ UNCHANGED <<enabled, sockets, others, fifo, txRetries, dtimeout, loggin, files, buf>>

-----------------------------------------------------------------------------
(* The other tasks of the firmware open and close sockets of their own. *)

OtherOpen ==
    /\ Cardinality(others) < MaxOthers
    /\ \E fd \in Pick(Free) : others' = others \cup {fd}
    /\ UNCHANGED <<pc, enabled, channel, sockets, fifo, txRetries, dtimeout, loggin, files, buf>>

OtherClose ==
    /\ \E fd \in others : others' = others \ {fd}
    /\ UNCHANGED <<pc, enabled, channel, sockets, fifo, txRetries, dtimeout, loggin, files, buf>>

Control ==
    \/ mb_ftp_enable \/ mb_ftp_enabled_check \/ ControlStart
    \/ ControlAccept \/ ControlAcceptNone \/ ControlAcceptError

CmdStep ==
    \/ CmdNone \/ CmdFailed \/ CmdPASV \/ CmdUSER \/ CmdPASS \/ CmdCWD \/ CmdDELE
    \/ CmdMKD \/ CmdInfo \/ CmdSIZE \/ CmdRNFR \/ CmdRNTO \/ CmdQUIT \/ CmdNOOP
    \/ CmdLIST \/ CmdRETR \/ CmdSTOR

Transfer ==
    \/ Waits \/ ListMore \/ ListDone \/ FileTxMore \/ FileTxDone
    \/ FileRxData \/ FileRxNone \/ FileRxClosed

DataChannel == DataIdle \/ DataAccept \/ DataAcceptNone \/ DataAcceptError \/ DataUnused

Transmit == SendOk \/ SendRetry \/ SendError \/ SendDrop \/ SendFinished \/ SendNothing

mb_ftp_run == Control \/ CmdStep \/ Transfer \/ DataChannel \/ Transmit \/ EndOfRun

Next == mb_ftp_run \/ OtherOpen \/ OtherClose

Spec == Init /\ [][Next]_vars

\* The task loops for ever and nothing in mb_ftp_run blocks.
FairSpec == Spec /\ WF_vars(mb_ftp_run)

-----------------------------------------------------------------------------
\* Type correctness of the manager structure, the queue and the descriptors.
TypeOK ==
    /\ pc \in {"task", "switch", "data", "send", "end"}
    /\ enabled \in BOOLEAN
    /\ state \in States
    /\ data_trans_state \in {"DISCONNECTED", "LISTEN_FOR_DATA", "CONNECTED"}
    /\ sc_sd \in AnyFd /\ sd_sd \in AnyFd /\ cc_sd \in AnyFd /\ cd_sd \in AnyFd
    /\ mine \subseteq Fds
    /\ others \subseteq Fds
    /\ fifo \in Seq(Element)
    /\ txRetries \in 0 .. (Uint8 - 1)
    /\ dtimeout \in Nat
    /\ loggin \in [uservalid : BOOLEAN, userloggined : BOOLEAN]
    /\ e_open \in {"NOTHING", "FILE", "DIR"}
    /\ dirty \in BOOLEAN
    /\ left \in Nat
    /\ listroot \in BOOLEAN
    /\ volcount \in 0 .. Volumes
    /\ buf \in {"other", "data"}

Held == {sc_sd, sd_sd, cc_sd, cd_sd} \ {NoFd}

\* No descriptor the server still uses belongs to another task: closing,
\* resetting and QUIT never leave a closed descriptor number in the manager
\* that lwIP could give away (mb_ftp_close_socket stores -1 every time), and no
\* two of the four roles share a descriptor.
SocketsExclusive ==
    /\ mine \cap others = {}
    /\ Held \subseteq mine
    /\ sc_sd \in PosFds => sc_sd \notin {sd_sd, cc_sd, cd_sd}
    /\ sd_sd \in PosFds => sd_sd \notin {cc_sd, cd_sd}
    /\ cc_sd \in PosFds => cc_sd # cd_sd

\* Whatever the order of commands, drops, timeouts and resets, the only
\* descriptor the server can lose without closing it is descriptor 0.
NoSocketLeak == mine \ Held \subseteq {Fd0}

\* accept() is never called on a socket that was closed: a server past
\* CONTROL_START has its control socket, a channel in LISTEN_FOR_DATA its data
\* socket (an EBADF there would reset the whole server).
AcceptOnOpenSocket ==
    /\ state \in Transferring \cup {"CONTROL_CONNECTED"} => sc_sd \in PosFds
    /\ data_trans_state = "LISTEN_FOR_DATA" => sd_sd # NoFd

\* A chunk waits in the queue only while the transfer that read it lasts: its
\* data socket is still there, no command runs that could overwrite ftpBuffer,
\* and no element is ahead of it that could close the socket.
DataInFlight ==
    \A i \in DOMAIN fifo : fifo[i].sd = "cd_sd" =>
        /\ i = 1
        /\ state \in {"CONTINUE_LISTING", "CONTINUE_FILE_TX", "END_TRANSFER"}
        /\ cd_sd # NoFd
        /\ buf = "data"

\* When mb_ftp_run starts in a transfer state there is a data connection, and
\* unless it sits on descriptor 0 it was opened by a client that logged in:
\* no handler but PASS looks at the login.
TransferNeedsLogin ==
    pc = "switch" /\ state \in Transferring =>
        /\ cd_sd # NoFd
        /\ cd_sd # Fd0 => loggin.userloggined

\* Bytes of an upload that were written and not yet closed belong to the
\* upload in progress: no error path, timeout, reset or new command abandons a
\* file that holds data (mb_ftp_run gives up a transfer without closing files).
NoUnsavedData == dirty => e_open = "FILE" /\ state = "CONTINUE_FILE_RX"

\* txRetries is a uint8_t that mb_ftp_reset does not clear: with a control
\* session on a descriptor the reset can close, it never gets past the limit by
\* more than one, so that the retry limit is never skipped by a wrap-around.
RetryBound == txRetries <= TxRetriesMax + 1 \/ cc_sd = Fd0

\* A root listing always starts with the first volume: no path leaves volcount
\* behind when a listing is cut short.
RootListingComplete == state # "CONTINUE_LISTING" => volcount = 0

\* A download or an upload is acknowledged (or refused) only with its file closed.
AcknowledgedClosed ==
    [][(/\ state \in {"CONTINUE_FILE_TX", "CONTINUE_FILE_RX"}
        /\ state' = "END_TRANSFER") => (e_open' = "NOTHING" /\ dirty' = FALSE)]_vars

-----------------------------------------------------------------------------
\* A download, a listing and the end of any transfer come to an end by
\* themselves, whatever the sockets do: EAGAIN is retried a limited number of
\* times and then resets the server (for descriptors above 0).
TransferTerminates ==
    state \in {"CONTINUE_LISTING", "CONTINUE_FILE_TX", "END_TRANSFER"} ~>
        state \in {"CONTROL_CONNECTED", "CONTROL_START"}

\* A full queue does not stay full: its head is sent, dropped, or flushed by the
\* reset that follows too many retries.
QueueDrains == Len(fifo) = QueueMax ~> Len(fifo) < QueueMax

\* A logged-in client that drops its control connection with a data channel
\* pending does not block the server for ever: the data timeout (or a reset)
\* lets the next control client in.
AvailableAgain ==
    (cc_sd = NoFd /\ loggin.userloggined) ~>
        (data_trans_state = "DISCONNECTED" \/ cc_sd # NoFd)

-----------------------------------------------------------------------------
(* What comments of mb_ftp.c say of it, and TLC refutes. *)

\* "socket closed, remove it from the queue": when a control client is gone,
\* what was queued for it is gone before the next client is accepted.
QueueRemovedWithSocket ==
    [][(cc_sd = NoFd /\ cc_sd' # NoFd) => fifo = <<>>]_vars

\* The same comment for the socket itself: an element is dropped unsent only
\* when the socket it was meant for is closed.
DroppedOnlyWhenClosed == [][SendDrop => TargetOf(Head(fifo)) = NoFd]_vars
=============================================================================
