--------------------------- MODULE FtpServerProofs ---------------------------
(***************************************************************************)
(* The FTP server of mb_ftp.c is safe for every number of descriptors,     *)
(* every queue length and every timeout: type correctness and the socket,  *)
(* data-in-flight, login and upload invariants of FtpServer.               *)
(***************************************************************************)
EXTENDS FtpServer, SequenceTheorems, FiniteSetTheorems, TLAPS

\* What the sockets invariants rest on: a listening socket is only created
\* where the old one is gone, and a data socket only exists on a connected
\* channel of a logged-in client.
SocketPhases ==
    /\ state \in {"DISABLED", "CONTROL_START"} => sc_sd \notin PosFds
    /\ cd_sd \in PosFds => data_trans_state = "CONNECTED" /\ loggin.userloggined

SocketInv == SocketsExclusive /\ NoSocketLeak /\ AcceptOnOpenSocket /\ SocketPhases

\* The queue: whether it holds chunks or replies, and that a chunk can only be
\* its head and closes nothing when it is sent.
DataIn(q) == \E i \in DOMAIN q : q[i].sd = "cd_sd"
ReplyIn(q) == \E i \in DOMAIN q : q[i].sd # "cd_sd"
DataFirst(q) == \A i \in DOMAIN q : q[i].sd = "cd_sd" => i = 1 /\ q[i].closesockets = "NONE"

\* A chunk is queued only by a transfer that still has its data socket.
ChunkPhase ==
    /\ DataFirst(fifo)
    /\ DataIn(fifo) => /\ state \in {"CONTINUE_LISTING", "CONTINUE_FILE_TX", "END_TRANSFER"}
                       /\ cd_sd # NoFd
                       /\ buf = "data"

\* While a root listing is under way no reply is queued that could close its
\* data socket.
ListPhase ==
    volcount # 0 => listroot /\ state = "CONTINUE_LISTING" /\ cd_sd # NoFd /\ ~ReplyIn(fifo)

\* The same for an upload that has received bytes, for which the queue is empty.
UploadPhase ==
    /\ state = "CONTINUE_FILE_RX" => e_open = "FILE"
    /\ dirty => state = "CONTINUE_FILE_RX" /\ fifo = <<>> /\ cd_sd # NoFd

\* A transfer has a data socket whenever mb_ftp_run starts.
LinkPhase ==
    /\ pc = "task" => state = "DISABLED"
    /\ pc = "switch" /\ state \in Transferring => cd_sd # NoFd

\* Descriptor 0 can stay in cd_sd while the channel listens again; the next
\* look at the data channel of a logged-in client removes it.
ListenPhase ==
    data_trans_state = "LISTEN_FOR_DATA" /\ cd_sd # NoFd /\ loggin.userloggined =>
        pc = "data" /\ state = "CONTROL_CONNECTED"

\* The retry counter passes its limit only in the reset that takes the client.
RetryPhase ==
    /\ RetryBound
    /\ txRetries > TxRetriesMax /\ cc_sd # Fd0 =>
           cc_sd = NoFd /\ data_trans_state = "DISCONNECTED"

FlowInv == ChunkPhase /\ ListPhase /\ UploadPhase /\ LinkPhase /\ ListenPhase

-----------------------------------------------------------------------------
(* What the operators of FtpServer return. *)

\* A push, accepted or refused, leaves a queue of elements.
LEMMA PushType ==
    ASSUME NEW q \in Seq(Element), NEW e \in Element
    PROVE  Push(q, e) \in Seq(Element)
BY DEF Push

\* Every status code selects one of the three ways to close sockets.
LEMMA CloseOfType == \A status : CloseOf(status) \in {"NONE", "DATA", "CMD_AND_DATA"}
BY DEF CloseOf

\* Queueing a reply, or losing it, leaves a queue of elements.
LEMMA ReplyType ==
    ASSUME NEW q \in Seq(Element), NEW status, NEW r \in send_reply(q, status)
    PROVE  r \in Seq(Element)
<1>1. [sd |-> "cc_sd", closesockets |-> CloseOf(status)] \in Element
  BY CloseOfType DEF Element
<1>2. QED
  BY <1>1, PushType DEF send_reply

\* Queueing a chunk leaves a queue of elements.
LEMMA DataType ==
    ASSUME NEW q \in Seq(Element)
    PROVE  send_data_to_fifo(q) \in Seq(Element)
BY PushType DEF send_data_to_fifo, Element

\* The descriptors of lwIP are not -1 and lie in the range of the four fields.
LEMMA FdsType == Fds \subseteq PosFds \cup {Fd0} /\ Fds \subseteq AnyFd /\ NoFd \notin Fds
BY FdAssumption DEF Fds, AnyFd

\* lwIP picks among the descriptors that are free.
LEMMA PickType ==
    ASSUME NEW S, S \subseteq Fds
    PROVE  Pick(S) \subseteq S
BY FdsType, FdAssumption

\* Creating a listening socket: a new descriptor above 0 or, failed, 0 or -1.
LEMMA NewSocketType ==
    ASSUME NEW S, S \subseteq Fds, NEW created \in BOOLEAN, NEW fd \in NewSocket(S, created)
    PROVE  /\ fd \in S \cup {NoFd}
           /\ created => fd \in PosFds
           /\ ~created => fd \in {Fd0, NoFd}
BY PickType DEF NewSocket

\* Closing leaves a value of the range of the four fields.
LEMMA ClosedType ==
    ASSUME NEW sd \in AnyFd
    PROVE  Closed(sd) \in AnyFd
BY DEF Closed, AnyFd

\* What socket() and accept() return was free.
LEMMA FreeType == Free \subseteq Fds /\ Pick(Free) \subseteq Free
BY PickType DEF Free

\* -1 and every descriptor are values of the four fields.
LEMMA NoFdType == NoFd \in AnyFd /\ Fds \subseteq AnyFd
BY FdsType DEF AnyFd

-----------------------------------------------------------------------------
\* TypeOK in three parts, which different provers can deal with.
SocketTypes ==
    /\ sc_sd \in AnyFd /\ sd_sd \in AnyFd /\ cc_sd \in AnyFd /\ cd_sd \in AnyFd
    /\ mine \subseteq Fds
    /\ others \subseteq Fds
    /\ fifo \in Seq(Element)

CounterTypes ==
    /\ txRetries \in 0 .. (Uint8 - 1)
    /\ dtimeout \in Nat
    /\ left \in Nat
    /\ volcount \in 0 .. Volumes

FlagTypes ==
    /\ pc \in {"task", "switch", "data", "send", "end"}
    /\ enabled \in BOOLEAN
    /\ state \in States
    /\ data_trans_state \in {"DISCONNECTED", "LISTEN_FOR_DATA", "CONNECTED"}
    /\ loggin \in [uservalid : BOOLEAN, userloggined : BOOLEAN]
    /\ e_open \in {"NOTHING", "FILE", "DIR"}
    /\ dirty \in BOOLEAN
    /\ listroot \in BOOLEAN
    /\ buf \in {"other", "data"}

\* The three parts are TypeOK.
LEMMA TypeParts == TypeOK <=> SocketTypes /\ CounterTypes /\ FlagTypes
BY DEF TypeOK, SocketTypes, CounterTypes, FlagTypes

\* Start-up, and accepting or losing a control client, keep the types.
LEMMA TypeControl == TypeOK /\ Control => TypeOK'
  <1> SUFFICES ASSUME TypeOK, Control
               PROVE  TypeOK'
    OBVIOUS
  <1> USE FreeType, NoFdType, ReplyType, DataType, ClosedType, BoundAssumption DEF
       TypeOK, sockets, files, channel, States
  <1>1. CASE mb_ftp_enable
    BY <1>1 DEF mb_ftp_enable
  <1>2. CASE mb_ftp_enabled_check
    BY <1>2 DEF mb_ftp_enabled_check, Switch
  <1>3. CASE ControlStart
    <2>1. SocketTypes'
      BY <1>3, NewSocketType DEF ControlStart, Switch, SocketTypes
    <2>2. CounterTypes'
      BY <1>3 DEF ControlStart, Switch, CounterTypes
    <2>3. FlagTypes'
      BY <1>3 DEF ControlStart, Switch, FlagTypes
    <2>4. QED
      BY <2>1, <2>2, <2>3 DEF SocketTypes, CounterTypes, FlagTypes
  <1>4. CASE ControlAccept
    BY <1>4 DEF ControlAccept, AcceptsControl, Switch
  <1>5. CASE ControlAcceptNone
    BY <1>5 DEF ControlAcceptNone, AcceptsControl, Switch
  <1>6. CASE ControlAcceptError
    <2>1. SocketTypes'
      BY <1>6 DEF ControlAcceptError, AcceptsControl, Switch, Reset, close_files,
           Released, SocketTypes
    <2>2. CounterTypes'
      BY <1>6 DEF ControlAcceptError, AcceptsControl, Switch, Reset, close_files,
           Released, CounterTypes
    <2>3. FlagTypes'
      BY <1>6 DEF ControlAcceptError, AcceptsControl, Switch, Reset, close_files,
           Released, FlagTypes
    <2>4. QED
      BY <2>1, <2>2, <2>3 DEF SocketTypes, CounterTypes, FlagTypes
  <1>7. QED
    BY <1>1, <1>2, <1>3, <1>4, <1>5, <1>6 DEF Control

\* Every command keeps the types.
LEMMA TypeCmdStep == TypeOK /\ CmdStep => TypeOK'
  <1> SUFFICES ASSUME TypeOK, CmdStep
               PROVE  TypeOK'
    OBVIOUS
  <1> USE FreeType, NoFdType, ReplyType, DataType, ClosedType, BoundAssumption DEF
       TypeOK, sockets, files, channel, States
  <1>1. CASE CmdNone
    BY <1>1 DEF CmdNone, Command, CmdProcess, Switch
  <1>2. CASE CmdFailed
    BY <1>2 DEF CmdFailed, Command, CmdProcess, Switch, close_client_sockets,
         close_files, Released
  <1>3. CASE CmdPASV
    <2>1. SocketTypes'
      <3>1. Free \cup ({cd_sd} \cap PosFds) \subseteq Fds
        BY FreeType DEF Fds
      <3>2. fifo' \in Seq(Element)
        BY <1>3 DEF CmdPASV
      <3>3. /\ UNCHANGED <<sc_sd, cc_sd, others>>
            /\ cd_sd' = Closed(cd_sd)
        BY <1>3 DEF CmdPASV
      <3>4. sd_sd' \in AnyFd /\ mine' \subseteq Fds
        BY <1>3, <3>1, NewSocketType DEF CmdPASV, Released
      <3>5. QED
        BY <3>2, <3>3, <3>4 DEF SocketTypes
    <2>2. CounterTypes'
      BY <1>3 DEF CmdPASV, Command, CmdProcess, Switch, Released, CounterTypes
    <2>3. FlagTypes'
      BY <1>3 DEF CmdPASV, Command, CmdProcess, Switch, Released, FlagTypes
    <2>4. QED
      BY <2>1, <2>2, <2>3 DEF SocketTypes, CounterTypes, FlagTypes
  <1>4. CASE CmdUSER
    BY <1>4 DEF CmdUSER, Command, CmdProcess, Switch
  <1>5. CASE CmdPASS
    BY <1>5, ZenonT(30) DEF CmdPASS, Command, CmdProcess, Switch
  <1>6. CASE CmdCWD
    BY <1>6 DEF CmdCWD, Command, CmdProcess, Switch, Answers
  <1>7. CASE CmdDELE
    BY <1>7 DEF CmdDELE, Command, CmdProcess, Switch, Answers
  <1>8. CASE CmdMKD
    BY <1>8 DEF CmdMKD, Command, CmdProcess, Switch, Answers
  <1>9. CASE CmdInfo
    BY <1>9 DEF CmdInfo, Command, CmdProcess, Switch, Answers
  <1>10. CASE CmdSIZE
    BY <1>10 DEF CmdSIZE, Command, CmdProcess, Switch, Answers
  <1>11. CASE CmdRNFR
    BY <1>11 DEF CmdRNFR, Command, CmdProcess, Switch, Answers
  <1>12. CASE CmdRNTO
    BY <1>12 DEF CmdRNTO, Command, CmdProcess, Switch, Answers
  <1>13. CASE CmdQUIT
    BY <1>13 DEF CmdQUIT, Command, CmdProcess, Switch, Answers
  <1>14. CASE CmdNOOP
    BY <1>14 DEF CmdNOOP, Command, CmdProcess, Switch
  <1>15. CASE CmdLIST
    <2>1. SocketTypes'
      BY <1>15 DEF CmdLIST, Command, CmdProcess, Switch, SocketTypes
    <2>2. CounterTypes'
      BY <1>15 DEF CmdLIST, Command, CmdProcess, Switch, CounterTypes
    <2>3. FlagTypes'
      BY <1>15 DEF CmdLIST, Command, CmdProcess, Switch, FlagTypes
    <2>4. QED
      BY <2>1, <2>2, <2>3 DEF SocketTypes, CounterTypes, FlagTypes
  <1>16. CASE CmdRETR
    BY <1>16 DEF CmdRETR, Command, CmdProcess, Switch, OpensFile
  <1>17. CASE CmdSTOR
    BY <1>17 DEF CmdSTOR, Command, CmdProcess, Switch, OpensFile
  <1>18. QED
    BY <1>1, <1>2, <1>3, <1>4, <1>5, <1>6, <1>7, <1>8, <1>9, <1>10, <1>11, <1>12,
         <1>13, <1>14, <1>15, <1>16, <1>17 DEF CmdStep

\* Listings, downloads and uploads keep the types.
LEMMA TypeTransfer == TypeOK /\ Transfer => TypeOK'
  <1> SUFFICES ASSUME TypeOK, Transfer
               PROVE  TypeOK'
    OBVIOUS
  <1> USE FreeType, NoFdType, ReplyType, DataType, ClosedType, BoundAssumption DEF
       TypeOK, sockets, files, channel, States
  <1>1. CASE Waits
    BY <1>1 DEF Waits, Switch
  <1>2. CASE ListMore
    <2>1. SocketTypes'
      BY <1>2 DEF ListMore, Switch, close_files, SocketTypes
    <2>2. CounterTypes'
      BY <1>2 DEF ListMore, Switch, close_files, CounterTypes
    <2>3. FlagTypes'
      BY <1>2 DEF ListMore, Switch, close_files, FlagTypes
    <2>4. QED
      BY <2>1, <2>2, <2>3 DEF SocketTypes, CounterTypes, FlagTypes
  <1>3. CASE ListDone
    <2>1. SocketTypes'
      BY <1>3 DEF ListDone, Switch, close_files, SocketTypes
    <2>2. CounterTypes'
      BY <1>3 DEF ListDone, Switch, close_files, CounterTypes
    <2>3. FlagTypes'
      BY <1>3 DEF ListDone, Switch, close_files, FlagTypes
    <2>4. QED
      BY <2>1, <2>2, <2>3 DEF SocketTypes, CounterTypes, FlagTypes
  <1>4. CASE FileTxMore
    <2>1. SocketTypes'
      BY <1>4 DEF FileTxMore, Switch, SocketTypes
    <2>2. CounterTypes'
      BY <1>4 DEF FileTxMore, Switch, CounterTypes
    <2>3. FlagTypes'
      BY <1>4 DEF FileTxMore, Switch, FlagTypes
    <2>4. QED
      BY <2>1, <2>2, <2>3 DEF SocketTypes, CounterTypes, FlagTypes
  <1>5. CASE FileTxDone
    BY <1>5, ZenonT(30) DEF FileTxDone, Switch, close_files
  <1>6. CASE FileRxData
    <2>1. SocketTypes'
      BY <1>6 DEF FileRxData, Switch, close_files, SocketTypes
    <2>2. CounterTypes'
      BY <1>6 DEF FileRxData, Switch, close_files, CounterTypes
    <2>3. FlagTypes'
      BY <1>6 DEF FileRxData, Switch, close_files, FlagTypes
    <2>4. QED
      BY <2>1, <2>2, <2>3 DEF SocketTypes, CounterTypes, FlagTypes
  <1>7. CASE FileRxNone
    <2>1. SocketTypes'
      BY <1>7 DEF FileRxNone, Switch, close_files, Later, SocketTypes
    <2>2. CounterTypes'
      BY <1>7 DEF FileRxNone, Switch, close_files, Later, CounterTypes
    <2>3. FlagTypes'
      BY <1>7 DEF FileRxNone, Switch, close_files, Later, FlagTypes
    <2>4. QED
      BY <2>1, <2>2, <2>3 DEF SocketTypes, CounterTypes, FlagTypes
  <1>8. CASE FileRxClosed
    BY <1>8 DEF FileRxClosed, Switch, close_files
  <1>9. QED
    BY <1>1, <1>2, <1>3, <1>4, <1>5, <1>6, <1>7, <1>8 DEF Transfer

\* The data channel keeps the types.
LEMMA TypeDataChannel == TypeOK /\ DataChannel => TypeOK'
  <1> SUFFICES ASSUME TypeOK, DataChannel
               PROVE  TypeOK'
    OBVIOUS
  <1> USE FreeType, NoFdType, ReplyType, DataType, ClosedType, BoundAssumption DEF
       TypeOK, sockets, files, channel, States
  <1>1. CASE DataIdle
    BY <1>1 DEF DataIdle
  <1>2. CASE DataAccept
    BY <1>2 DEF DataAccept, DataStep
  <1>3. CASE DataAcceptNone
    BY <1>3 DEF DataAcceptNone, DataStep, Tick, Later, Released
  <1>4. CASE DataAcceptError
    <2>1. SocketTypes'
      BY <1>4 DEF DataAcceptError, DataStep, Tick, Later, Reset, close_files,
           Released, SocketTypes
    <2>2. CounterTypes'
      BY <1>4 DEF DataAcceptError, DataStep, Tick, Later, Reset, close_files,
           Released, CounterTypes
    <2>3. FlagTypes'
      BY <1>4 DEF DataAcceptError, DataStep, Tick, Later, Reset, close_files,
           Released, FlagTypes
    <2>4. QED
      BY <2>1, <2>2, <2>3 DEF SocketTypes, CounterTypes, FlagTypes
  <1>5. CASE DataUnused
    <2>1. SocketTypes'
      BY <1>5 DEF DataUnused, DataStep, Tick, Later, Released, close_files, SocketTypes
    <2>2. CounterTypes'
      BY <1>5 DEF DataUnused, DataStep, Tick, Later, Released, close_files, CounterTypes
    <2>3. FlagTypes'
      BY <1>5 DEF DataUnused, DataStep, Tick, Later, Released, close_files, FlagTypes
    <2>4. QED
      BY <2>1, <2>2, <2>3 DEF SocketTypes, CounterTypes, FlagTypes
  <1>6. QED
    BY <1>1, <1>2, <1>3, <1>4, <1>5 DEF DataChannel

\* Sending from the queue keeps the types.
LEMMA TypeTransmit == TypeOK /\ Transmit => TypeOK'
  <1> SUFFICES ASSUME TypeOK, Transmit
               PROVE  TypeOK'
    OBVIOUS
  <1> USE FreeType, NoFdType, ReplyType, DataType, ClosedType, BoundAssumption DEF
       TypeOK, sockets, files, channel, States
  <1>1. CASE SendOk
    BY <1>1 DEF SendOk, SendStep, Released
  <1>2. CASE SendRetry
    BY <1>2 DEF SendRetry, SendStep, Incremented
  <1>3. CASE SendError
    <2>1. SocketTypes'
      BY <1>3 DEF SendError, SendStep, Incremented, Reset, close_files, Released,
           SocketTypes
    <2>2. CounterTypes'
      BY <1>3 DEF SendError, SendStep, Incremented, Reset, close_files, Released,
           CounterTypes
    <2>3. FlagTypes'
      BY <1>3 DEF SendError, SendStep, Incremented, Reset, close_files, Released, FlagTypes
    <2>4. QED
      BY <2>1, <2>2, <2>3 DEF SocketTypes, CounterTypes, FlagTypes
  <1>4. CASE SendDrop
    BY <1>4 DEF SendDrop, SendStep
  <1>5. CASE SendFinished
    BY <1>5 DEF SendFinished, SendStep, Released
  <1>6. CASE SendNothing
    BY <1>6 DEF SendNothing, SendStep
  <1>7. QED
    BY <1>1, <1>2, <1>3, <1>4, <1>5, <1>6 DEF Transmit

\* Every step of the server and of the other tasks keeps the types.
LEMMA TypeNext == TypeOK /\ [Next]_vars => TypeOK'
  <1> SUFFICES ASSUME TypeOK, [Next]_vars
               PROVE  TypeOK'
    OBVIOUS
  <1>1. CASE EndOfRun
    BY <1>1 DEF EndOfRun, TypeOK, channel, sockets, files, States
  <1>2. CASE OtherOpen
    BY <1>2, FreeType DEF OtherOpen, TypeOK, channel, sockets, files
  <1>3. CASE OtherClose
    BY <1>3 DEF OtherClose, TypeOK, channel, sockets, files
  <1>4. CASE UNCHANGED vars
    BY <1>4 DEF vars, TypeOK, channel, sockets, files
  <1>5. QED
    BY <1>1, <1>2, <1>3, <1>4, TypeControl, TypeCmdStep, TypeTransfer,
         TypeDataChannel, TypeTransmit
    DEF Next, mb_ftp_run

\* mb_ftp_init establishes the types.
LEMMA TypeInit == Init => TypeOK
  <1> SUFFICES ASSUME Init
               PROVE  TypeOK
    OBVIOUS
  <1>1. SocketTypes
    BY NoFdType DEF Init, SocketTypes
  <1>2. CounterTypes
    BY BoundAssumption DEF Init, CounterTypes
  <1>3. FlagTypes
    BY DEF Init, FlagTypes, States
  <1>4. QED
    BY <1>1, <1>2, <1>3, TypeParts

\* Type correctness: whatever lwIP, FatFs, the heap and the client answer, the
\* fields of mb_ftp_manager keep their types and the queue its elements.
THEOREM TypeCorrect == Spec => []TypeOK
BY TypeInit, TypeNext, PTL DEF Spec

-----------------------------------------------------------------------------
(* The descriptors. *)

Served == Transferring \cup {"CONTROL_CONNECTED"}

\* Steps that leave the sockets and the data channel alone and stay within the
\* served states, or do not change the state, keep the socket invariant.
LEMMA SocketSame ==
    ASSUME SocketInv,
           UNCHANGED <<sockets, others, data_trans_state>>,
           state' = state \/ (state \in Served /\ state' \in Served),
           loggin.userloggined => loggin'.userloggined
    PROVE  SocketInv'
BY DEF SocketInv, SocketsExclusive, NoSocketLeak, AcceptOnOpenSocket, SocketPhases, Held,
       sockets, Served, Transferring

\* Start-up and accept() hand out only new descriptors; a reset closes all.
LEMMA SocketControl == TypeOK /\ SocketInv /\ Control => SocketInv'
  <1> SUFFICES ASSUME TypeOK, SocketInv, Control
               PROVE  SocketInv'
    OBVIOUS
  <1>1. CASE mb_ftp_enable
    BY <1>1, SocketSame DEF mb_ftp_enable, channel, sockets, Served, Transferring, TypeOK
  <1>2. CASE mb_ftp_enabled_check
    BY <1>2 DEF mb_ftp_enabled_check, Switch, sockets, Transferring,
       SocketInv, SocketsExclusive, NoSocketLeak, AcceptOnOpenSocket, SocketPhases, Held
  <1>3. CASE ControlStart
    <2>0. PICK created \in BOOLEAN : \E fd \in NewSocket(Free, created) :
              /\ sc_sd' = fd
              /\ mine' = mine \cup ({fd} \ {NoFd})
              /\ state' = IF created THEN "CONTROL_CONNECTED" ELSE state
      BY <1>3 DEF ControlStart
    <2>1. PICK fd \in NewSocket(Free, created) :
              /\ sc_sd' = fd
              /\ mine' = mine \cup ({fd} \ {NoFd})
              /\ state' = IF created THEN "CONTROL_CONNECTED" ELSE state
      BY <2>0
    <2>2. /\ fd \in Free \cup {NoFd}
          /\ created => fd \in PosFds
          /\ ~created => fd \in {Fd0, NoFd}
      BY FreeType, NewSocketType
    <2>3. UNCHANGED <<data_trans_state, sd_sd, cc_sd, cd_sd, others, loggin>>
      BY <1>3 DEF ControlStart
    <2>4. state = "CONTROL_START"
      BY <1>3 DEF ControlStart, Switch
    <2>5. QED
      BY <2>1, <2>2, <2>3, <2>4, FdAssumption, FreeType, FdsType
      DEF Free, AnyFd, TypeOK, Transferring,
          SocketInv, SocketsExclusive, NoSocketLeak, AcceptOnOpenSocket, SocketPhases, Held
  <1>4. CASE ControlAccept
    <2>1. PICK fd \in Pick(Free) : cc_sd' = fd /\ mine' = mine \cup {fd}
      BY <1>4 DEF ControlAccept
    <2>2. fd \in Fds /\ fd \notin mine /\ fd \notin others /\ fd # NoFd
      BY FreeType, FdsType DEF Free
    <2>3. QED
      BY <1>4, <2>1, <2>2, FdAssumption
      DEF ControlAccept, AcceptsControl, Switch, channel, AnyFd, TypeOK, Transferring,
          SocketInv, SocketsExclusive, NoSocketLeak, AcceptOnOpenSocket, SocketPhases, Held
  <1>5. CASE ControlAcceptNone
    BY <1>5, SocketSame DEF ControlAcceptNone, AcceptsControl, Switch, channel,
         sockets, Served, Transferring, TypeOK
  <1>6. CASE ControlAcceptError
    BY <1>6, FreeType, FdAssumption DEF ControlAcceptError, AcceptsControl, Switch,
         Reset, close_files, Released, channel, sockets, Transferring, TypeOK, SocketInv,
         SocketsExclusive, NoSocketLeak, AcceptOnOpenSocket, SocketPhases, Held, AnyFd,
         Closed, Free, States
  <1>7. QED
    BY <1>1, <1>2, <1>3, <1>4, <1>5, <1>6 DEF Control

\* Commands: PASV and a lost client are the two that touch descriptors.
LEMMA SocketCmdStep == TypeOK /\ SocketInv /\ CmdStep => SocketInv'
  <1> SUFFICES ASSUME TypeOK, SocketInv, CmdStep
               PROVE  SocketInv'
    OBVIOUS
  <1>1. CASE CmdNone
    BY <1>1, SocketSame DEF CmdNone, Command, CmdProcess, Switch, channel, sockets,
         Served, Transferring, TypeOK
  <1>2. CASE CmdFailed
    BY <1>2, FreeType, FdAssumption DEF CmdFailed, Command, CmdProcess, Switch,
         close_client_sockets, close_files, Released, channel, sockets, Transferring,
         TypeOK, SocketInv, SocketsExclusive, NoSocketLeak, AcceptOnOpenSocket,
         SocketPhases, Held, AnyFd, Closed, Free, States
  <1>3. CASE CmdPASV
    <2>1. state = "CONTROL_CONNECTED" /\ UNCHANGED <<state, sc_sd, cc_sd, others, loggin>>
      BY <1>3 DEF CmdPASV, Command, CmdProcess, Switch
    <2>2. cd_sd' = Closed(cd_sd) /\ cd_sd' \notin PosFds
      BY <1>3, FdAssumption DEF CmdPASV, Closed
    <2>3. CASE sd_sd # NoFd
      <3>1. sd_sd' = sd_sd /\ mine' = Released({cd_sd})
        BY <1>3, <2>3 DEF CmdPASV
      <3>2. QED
        BY <2>1, <2>2, <2>3, <3>1, FdAssumption
        DEF Closed, Released, AnyFd, TypeOK, Transferring,
            SocketInv, SocketsExclusive, NoSocketLeak, AcceptOnOpenSocket,
                 SocketPhases, Held
    <2>4. CASE sd_sd = NoFd
      <3>0. PICK created \in BOOLEAN :
              /\ \E fd \in NewSocket(Free \cup ({cd_sd} \cap PosFds), created) :
                    /\ sd_sd' = fd
                    /\ mine' = Released({cd_sd}) \cup ({fd} \ {NoFd})
              /\ data_trans_state' = IF created THEN "LISTEN_FOR_DATA" ELSE "DISCONNECTED"
        BY <1>3, <2>4 DEF CmdPASV
      <3>1. PICK fd \in NewSocket(Free \cup ({cd_sd} \cap PosFds), created) :
                /\ sd_sd' = fd
                /\ mine' = Released({cd_sd}) \cup ({fd} \ {NoFd})
                /\ data_trans_state' = IF created THEN "LISTEN_FOR_DATA" ELSE "DISCONNECTED"
        BY <3>0
      <3>2. Free \cup ({cd_sd} \cap PosFds) \subseteq Fds
        BY FreeType DEF Fds
      <3>3. /\ fd \in Free \cup ({cd_sd} \cap PosFds) \cup {NoFd}
            /\ created => fd \in PosFds
        BY <3>2, NewSocketType
      <3>4. QED
        BY <2>1, <2>2, <2>4, <3>1, <3>2, <3>3, FdAssumption
        DEF Closed, Released, Free, AnyFd, TypeOK, Transferring,
            SocketInv, SocketsExclusive, NoSocketLeak, AcceptOnOpenSocket,
                 SocketPhases, Held
    <2>5. QED
      BY <2>3, <2>4
  <1>4. CASE CmdUSER
    BY <1>4, SocketSame DEF CmdUSER, Command, CmdProcess, Switch, channel, sockets,
         Served, Transferring, TypeOK
  <1>5. CASE CmdPASS
    BY <1>5, SocketSame DEF CmdPASS, Command, CmdProcess, Switch, channel, sockets,
         Served, Transferring, TypeOK
  <1>6. CASE CmdCWD
    BY <1>6, SocketSame DEF CmdCWD, Command, CmdProcess, Switch, Answers, channel,
         sockets, Served, Transferring, TypeOK
  <1>7. CASE CmdDELE
    BY <1>7, SocketSame DEF CmdDELE, Command, CmdProcess, Switch, Answers, channel,
         sockets, Served, Transferring, TypeOK
  <1>8. CASE CmdMKD
    BY <1>8, SocketSame DEF CmdMKD, Command, CmdProcess, Switch, Answers, channel,
         sockets, Served, Transferring, TypeOK
  <1>9. CASE CmdInfo
    BY <1>9, SocketSame DEF CmdInfo, Command, CmdProcess, Switch, Answers, channel,
         sockets, Served, Transferring, TypeOK
  <1>10. CASE CmdSIZE
    BY <1>10, SocketSame DEF CmdSIZE, Command, CmdProcess, Switch, Answers, channel,
         sockets, Served, Transferring, TypeOK
  <1>11. CASE CmdRNFR
    BY <1>11, SocketSame DEF CmdRNFR, Command, CmdProcess, Switch, Answers, channel,
         sockets, Served, Transferring, TypeOK
  <1>12. CASE CmdRNTO
    BY <1>12, SocketSame DEF CmdRNTO, Command, CmdProcess, Switch, Answers, channel,
         sockets, Served, Transferring, TypeOK
  <1>13. CASE CmdQUIT
    BY <1>13, SocketSame DEF CmdQUIT, Command, CmdProcess, Switch, Answers, channel,
         sockets, Served, Transferring, TypeOK
  <1>14. CASE CmdNOOP
    BY <1>14, SocketSame DEF CmdNOOP, Command, CmdProcess, Switch, channel, sockets,
         Served, Transferring, TypeOK
  <1>15. CASE CmdLIST
    BY <1>15, SocketSame DEF CmdLIST, Command, CmdProcess, Switch, channel, sockets,
         Served, Transferring, TypeOK
  <1>16. CASE CmdRETR
    BY <1>16, SocketSame DEF CmdRETR, Command, CmdProcess, Switch, OpensFile,
         channel, sockets, Served, Transferring, TypeOK
  <1>17. CASE CmdSTOR
    BY <1>17, SocketSame DEF CmdSTOR, Command, CmdProcess, Switch, OpensFile,
         channel, sockets, Served, Transferring, TypeOK
  <1>18. QED
    BY <1>1, <1>2, <1>3, <1>4, <1>5, <1>6, <1>7, <1>8, <1>9, <1>10, <1>11, <1>12,
         <1>13, <1>14, <1>15, <1>16, <1>17 DEF CmdStep

\* Transfers leave the descriptors alone.
LEMMA SocketTransfer == TypeOK /\ SocketInv /\ Transfer => SocketInv'
  <1> SUFFICES ASSUME TypeOK, SocketInv, Transfer
               PROVE  SocketInv'
    OBVIOUS
  <1>1. CASE Waits
    BY <1>1, SocketSame DEF Waits, Switch, channel, sockets, Served, Transferring, TypeOK
  <1>2. CASE ListMore
    BY <1>2, SocketSame DEF ListMore, Switch, close_files, channel, sockets, Served,
         Transferring, TypeOK
  <1>3. CASE ListDone
    BY <1>3, SocketSame DEF ListDone, Switch, close_files, channel, sockets, Served,
         Transferring, TypeOK
  <1>4. CASE FileTxMore
    BY <1>4, SocketSame DEF FileTxMore, Switch, channel, sockets, Served,
         Transferring, TypeOK
  <1>5. CASE FileTxDone
    BY <1>5, SocketSame DEF FileTxDone, Switch, close_files, channel, sockets,
         Served, Transferring, TypeOK
  <1>6. CASE FileRxData
    BY <1>6, SocketSame DEF FileRxData, Switch, close_files, channel, sockets,
         Served, Transferring, TypeOK
  <1>7. CASE FileRxNone
    BY <1>7, SocketSame DEF FileRxNone, Switch, close_files, Later, channel, sockets,
         Served, Transferring, TypeOK
  <1>8. CASE FileRxClosed
    BY <1>8, SocketSame DEF FileRxClosed, Switch, close_files, channel, sockets,
         Served, Transferring, TypeOK
  <1>9. QED
    BY <1>1, <1>2, <1>3, <1>4, <1>5, <1>6, <1>7, <1>8 DEF Transfer

\* The data channel stores a new descriptor only where none above 0 was.
LEMMA SocketDataChannel == TypeOK /\ SocketInv /\ DataChannel => SocketInv'
  <1> SUFFICES ASSUME TypeOK, SocketInv, DataChannel
               PROVE  SocketInv'
    OBVIOUS
  <1>1. CASE DataIdle
    BY <1>1, SocketSame DEF DataIdle, channel, sockets, Served, Transferring, TypeOK
  <1>2. CASE DataAccept
    <2>1. PICK fd \in Pick(Free) : cd_sd' = fd /\ mine' = mine \cup {fd}
      BY <1>2 DEF DataAccept
    <2>2. fd \in Fds /\ fd \notin mine /\ fd \notin others /\ fd # NoFd
      BY FreeType, FdsType DEF Free
    <2>3. QED
      BY <1>2, <2>1, <2>2, FdAssumption
      DEF DataAccept, DataStep, channel, AnyFd, TypeOK, Transferring,
          SocketInv, SocketsExclusive, NoSocketLeak, AcceptOnOpenSocket, SocketPhases, Held
  <1>3. CASE DataAcceptNone
    BY <1>3, FreeType, FdAssumption DEF DataAcceptNone, DataStep, Tick, Later,
         Released, channel, sockets, Transferring, TypeOK, SocketInv, SocketsExclusive,
         NoSocketLeak, AcceptOnOpenSocket, SocketPhases, Held, AnyFd, Closed, Free, States
  <1>4. CASE DataAcceptError
    BY <1>4, FreeType, FdAssumption DEF DataAcceptError, DataStep, Tick, Later,
         Reset, close_files, Released, channel, sockets, Transferring, TypeOK, SocketInv,
         SocketsExclusive, NoSocketLeak, AcceptOnOpenSocket, SocketPhases, Held, AnyFd,
         Closed, Free, States
  <1>5. CASE DataUnused
    BY <1>5, FreeType, FdAssumption DEF DataUnused, DataStep, Tick, Later, Released,
         close_files, channel, sockets, Transferring, TypeOK, SocketInv, SocketsExclusive,
         NoSocketLeak, AcceptOnOpenSocket, SocketPhases, Held, AnyFd, Closed, Free, States
  <1>6. QED
    BY <1>1, <1>2, <1>3, <1>4, <1>5 DEF DataChannel

\* The replies that close sockets, the reset and the end of a transfer.
LEMMA SocketTransmit == TypeOK /\ SocketInv /\ Transmit => SocketInv'
  <1> SUFFICES ASSUME TypeOK, SocketInv, Transmit
               PROVE  SocketInv'
    OBVIOUS
  <1>1. CASE SendOk
    BY <1>1, FreeType, FdAssumption DEF SendOk, SendStep, Released, channel, sockets,
         Transferring, TypeOK, SocketInv, SocketsExclusive, NoSocketLeak,
         AcceptOnOpenSocket, SocketPhases, Held, AnyFd, Closed, Free, States
  <1>2. CASE SendRetry
    BY <1>2, SocketSame DEF SendRetry, SendStep, Incremented, channel, sockets,
         Served, Transferring, TypeOK
  <1>3. CASE SendError
    BY <1>3, FreeType, FdAssumption DEF SendError, SendStep, Incremented, Reset,
         close_files, Released, channel, sockets, Transferring, TypeOK, SocketInv,
         SocketsExclusive, NoSocketLeak, AcceptOnOpenSocket, SocketPhases, Held, AnyFd,
         Closed, Free, States
  <1>4. CASE SendDrop
    BY <1>4, SocketSame DEF SendDrop, SendStep, channel, sockets, Served,
         Transferring, TypeOK
  <1>5. CASE SendFinished
    BY <1>5, FreeType, FdAssumption DEF SendFinished, SendStep, Released, channel,
         sockets, Transferring, TypeOK, SocketInv, SocketsExclusive, NoSocketLeak,
         AcceptOnOpenSocket, SocketPhases, Held, AnyFd, Closed, Free, States
  <1>6. CASE SendNothing
    BY <1>6, SocketSame DEF SendNothing, SendStep, channel, sockets, Served,
         Transferring, TypeOK
  <1>7. QED
    BY <1>1, <1>2, <1>3, <1>4, <1>5, <1>6 DEF Transmit

\* The server starts without a descriptor.
LEMMA SocketInit == Init => SocketInv
BY FdAssumption DEF Init, Transferring, SocketInv, SocketsExclusive, NoSocketLeak,
     AcceptOnOpenSocket, SocketPhases, Held

\* The socket invariant is inductive relative to the types.
LEMMA SocketNext == TypeOK /\ SocketInv /\ [Next]_vars => SocketInv'
  <1> SUFFICES ASSUME TypeOK, SocketInv, [Next]_vars
               PROVE  SocketInv'
    OBVIOUS
  <1>1. CASE EndOfRun
    BY <1>1, FdAssumption DEF EndOfRun, channel, sockets, Transferring,
       SocketInv, SocketsExclusive, NoSocketLeak, AcceptOnOpenSocket, SocketPhases, Held
  <1>2. CASE OtherOpen
    BY <1>2, FreeType DEF OtherOpen, Free, channel, sockets,
       SocketInv, SocketsExclusive, NoSocketLeak, AcceptOnOpenSocket, SocketPhases, Held
  <1>3. CASE OtherClose
    BY <1>3 DEF OtherClose, channel, sockets,
       SocketInv, SocketsExclusive, NoSocketLeak, AcceptOnOpenSocket, SocketPhases, Held
  <1>4. CASE UNCHANGED vars
    BY <1>4, SocketSame DEF vars, channel, sockets
  <1>5. QED
    BY <1>1, <1>2, <1>3, <1>4, SocketControl, SocketCmdStep, SocketTransfer,
       SocketDataChannel, SocketTransmit DEF Next, mb_ftp_run

\* For every number of descriptors and of other sockets: no descriptor the
\* server uses was closed or belongs to another task, none above 0 is lost, and
\* accept() is only called on sockets that are open.
THEOREM SocketsSafe == Spec => [](SocketsExclusive /\ NoSocketLeak /\ AcceptOnOpenSocket)
  <1>1. Spec => [](TypeOK /\ SocketInv)
    BY TypeInit, TypeNext, SocketInit, SocketNext, PTL DEF Spec
  <1>2. SocketInv => SocketsExclusive /\ NoSocketLeak /\ AcceptOnOpenSocket
    BY DEF SocketInv
  <1>3. QED
    BY <1>1, <1>2, PTL

\* Every descriptor above 0 that the server opened and has not closed is in one of its
\* variables, however a reset, a lost client or a failed accept ended a connection.
THEOREM DescriptorsKept == Spec => []NoSocketLeak
BY SocketsSafe, PTL

\* The states that accept a connection have their listening socket.
THEOREM AcceptsSafe == Spec => []AcceptOnOpenSocket
BY SocketsSafe, PTL

-----------------------------------------------------------------------------
(* The queue of chunks and replies. *)

\* The empty queue has neither chunks nor replies.
LEMMA EmptyQueue == DataFirst(<<>>) /\ ~DataIn(<<>>) /\ ~ReplyIn(<<>>)
BY DEF DataFirst, DataIn, ReplyIn

\* A reply never is a chunk, and the queue before it stays as it is.
LEMMA ReplyKeeps ==
    ASSUME NEW q \in Seq(Element), NEW status, NEW r \in send_reply(q, status)
    PROVE  /\ DataFirst(q) => DataFirst(r)
           /\ DataIn(r) => DataIn(q)
  <1> DEFINE e == [sd |-> "cc_sd", closesockets |-> CloseOf(status)]
  <1>1. e \in Element /\ e.sd = "cc_sd"
    BY CloseOfType DEF Element
  <1>2. r = q \/ r = Append(q, e)
    BY DEF send_reply, Push
  <1>3. CASE r = Append(q, e)
    <2> HIDE DEF e
    <2>1. /\ Len(r) = Len(q) + 1
          /\ \A i \in 1 .. Len(q) : r[i] = q[i]
          /\ r[Len(q) + 1] = e
      BY <1>1, <1>3, AppendProperties
    <2>2. r \in Seq(Element)
      BY <1>1, <1>3
    <2>3. DOMAIN q = 1 .. Len(q) /\ DOMAIN r = 1 .. Len(r) /\ Len(q) \in Nat
      BY <2>2, LenProperties
    <2>4. \A i \in DOMAIN r : r[i].sd = "cd_sd" => i \in DOMAIN q /\ r[i] = q[i]
      BY <1>1, <2>1, <2>3
    <2>5. QED
      BY <2>4 DEF DataFirst, DataIn
  <1>4. QED
    BY <1>2, <1>3

\* A reply queued behind nothing leaves no chunk in the queue.
LEMMA ReplyOnEmpty ==
    ASSUME NEW status, NEW r \in send_reply(<<>>, status)
    PROVE  DataFirst(r) /\ ~DataIn(r)
  <1>1. <<>> \in Seq(Element)
    OBVIOUS
  <1>2. QED
    BY <1>1, ReplyKeeps, EmptyQueue

\* A chunk is queued by an empty queue, of which it is the head.
LEMMA ChunkAlone ==
    /\ DataFirst(send_data_to_fifo(<<>>))
    /\ ~ReplyIn(send_data_to_fifo(<<>>))
  <1> DEFINE e == [sd |-> "cd_sd", closesockets |-> "NONE"]
  <1>1. send_data_to_fifo(<<>>) = <<e>>
    BY BoundAssumption DEF send_data_to_fifo, Push
  <1>2. QED
    BY <1>1 DEF DataFirst, ReplyIn

\* Sending or dropping the head removes the only chunk there can be.
LEMMA TailKeeps ==
    ASSUME NEW q \in Seq(Element), q # <<>>, DataFirst(q)
    PROVE  /\ ~DataIn(Tail(q)) /\ DataFirst(Tail(q))
           /\ ~ReplyIn(q) => ~ReplyIn(Tail(q))
           /\ ~ReplyIn(q) => Head(q).closesockets = "NONE"
           /\ Head(q) \in Element
  <1>1. /\ Tail(q) \in Seq(Element)
        /\ Len(Tail(q)) = Len(q) - 1
        /\ \A i \in 1 .. Len(Tail(q)) : Tail(q)[i] = q[i + 1]
        /\ Head(q) = q[1] /\ Head(q) \in Element
    BY HeadTailProperties
  <1>2. /\ DOMAIN q = 1 .. Len(q) /\ DOMAIN Tail(q) = 1 .. Len(Tail(q))
        /\ Len(q) \in Nat /\ Len(q) # 0
    BY <1>1, LenProperties, EmptySeq
  <1>3. \A i \in DOMAIN Tail(q) : i + 1 \in DOMAIN q /\ i + 1 # 1 /\ Tail(q)[i] = q[i + 1]
    BY <1>1, <1>2
  <1>4. 1 \in DOMAIN q
    BY <1>2
  <1>5. QED
    BY <1>1, <1>3, <1>4 DEF DataIn, DataFirst, ReplyIn

-----------------------------------------------------------------------------
(* Chunks, listings, uploads and the login. *)

\* Start-up, accept() and reset keep the flow invariant.
LEMMA FlowControl == TypeOK /\ SocketInv /\ FlowInv /\ Control => FlowInv'
  <1> SUFFICES ASSUME TypeOK, SocketInv, FlowInv, Control
               PROVE  FlowInv'
    OBVIOUS
  <1> USE EmptyQueue, ReplyKeeps, ChunkAlone, TailKeeps, FdAssumption DEF FlowInv,
       ChunkPhase, ListPhase, UploadPhase, LinkPhase, ListenPhase, TypeOK, Transferring,
       channel, sockets, files
  <1>1. CASE mb_ftp_enable
    BY <1>1 DEF mb_ftp_enable
  <1>2. CASE mb_ftp_enabled_check
    BY <1>2 DEF mb_ftp_enabled_check, Switch
  <1>3. CASE ControlStart
    BY <1>3 DEF ControlStart, Switch
  <1>4. CASE ControlAccept
    BY <1>4 DEF ControlAccept, AcceptsControl, Switch
  <1>5. CASE ControlAcceptNone
    BY <1>5 DEF ControlAcceptNone, AcceptsControl, Switch
  <1>6. CASE ControlAcceptError
    BY <1>6 DEF ControlAcceptError, AcceptsControl, Switch, Reset, close_files
  <1>7. QED
    BY <1>1, <1>2, <1>3, <1>4, <1>5, <1>6 DEF Control

\* Commands run with no chunk queued, no listing and no upload under way.
LEMMA FlowCmdStep == TypeOK /\ SocketInv /\ FlowInv /\ CmdStep => FlowInv'
  <1> SUFFICES ASSUME TypeOK, SocketInv, FlowInv, CmdStep
               PROVE  FlowInv'
    OBVIOUS
  <1> USE EmptyQueue, ReplyKeeps, ChunkAlone, TailKeeps, FdAssumption DEF FlowInv,
       ChunkPhase, ListPhase, UploadPhase, LinkPhase, ListenPhase, TypeOK, Transferring,
       channel, sockets, files
  <1>1. CASE CmdNone
    BY <1>1 DEF CmdNone, Command, CmdProcess, Switch
  <1>2. CASE CmdFailed
    BY <1>2 DEF CmdFailed, Command, CmdProcess, Switch, close_client_sockets, close_files
  <1>3. CASE CmdPASV
    BY <1>3 DEF CmdPASV, Command, CmdProcess, Switch
  <1>4. CASE CmdUSER
    BY <1>4 DEF CmdUSER, Command, CmdProcess, Switch
  <1>5. CASE CmdPASS
    BY <1>5 DEF CmdPASS, Command, CmdProcess, Switch
  <1>6. CASE CmdCWD
    BY <1>6 DEF CmdCWD, Command, CmdProcess, Switch, Answers
  <1>7. CASE CmdDELE
    BY <1>7 DEF CmdDELE, Command, CmdProcess, Switch, Answers
  <1>8. CASE CmdMKD
    BY <1>8 DEF CmdMKD, Command, CmdProcess, Switch, Answers
  <1>9. CASE CmdInfo
    BY <1>9 DEF CmdInfo, Command, CmdProcess, Switch, Answers
  <1>10. CASE CmdSIZE
    BY <1>10 DEF CmdSIZE, Command, CmdProcess, Switch, Answers
  <1>11. CASE CmdRNFR
    BY <1>11 DEF CmdRNFR, Command, CmdProcess, Switch, Answers
  <1>12. CASE CmdRNTO
    BY <1>12 DEF CmdRNTO, Command, CmdProcess, Switch, Answers
  <1>13. CASE CmdQUIT
    BY <1>13 DEF CmdQUIT, Command, CmdProcess, Switch, Answers
  <1>14. CASE CmdNOOP
    <2>1. PICK q \in send_reply(fifo, 200) : fifo' \in send_reply(q, 221)
      BY <1>14 DEF CmdNOOP
    <2>2. q \in Seq(Element) /\ (DataFirst(fifo) => DataFirst(q)) /\ (DataIn(q) =>
         DataIn(fifo))
      BY ReplyType
    <2>3. (DataFirst(q) => DataFirst(fifo')) /\ (DataIn(fifo') => DataIn(q))
      BY <2>1, <2>2
    <2>4. QED
      BY <1>14, <2>2, <2>3 DEF CmdNOOP, Command, CmdProcess, Switch
  <1>15. CASE CmdLIST
    BY <1>15 DEF CmdLIST, Command, CmdProcess, Switch
  <1>16. CASE CmdRETR
    BY <1>16 DEF CmdRETR, Command, CmdProcess, Switch, OpensFile
  <1>17. CASE CmdSTOR
    BY <1>17 DEF CmdSTOR, Command, CmdProcess, Switch, OpensFile
  <1>18. QED
    BY <1>1, <1>2, <1>3, <1>4, <1>5, <1>6, <1>7, <1>8, <1>9, <1>10, <1>11, <1>12,
         <1>13, <1>14, <1>15, <1>16, <1>17 DEF CmdStep

\* Transfers go on only with an empty queue and a data socket.
LEMMA FlowTransfer == TypeOK /\ SocketInv /\ FlowInv /\ Transfer => FlowInv'
  <1> SUFFICES ASSUME TypeOK, SocketInv, FlowInv, Transfer
               PROVE  FlowInv'
    OBVIOUS
  <1> USE EmptyQueue, ReplyKeeps, ChunkAlone, TailKeeps, FdAssumption DEF FlowInv,
       ChunkPhase, ListPhase, UploadPhase, LinkPhase, ListenPhase, TypeOK, Transferring,
       channel, sockets, files
  <1>1. CASE Waits
    BY <1>1 DEF Waits, Switch
  <1>2. CASE ListMore
    BY <1>2 DEF ListMore, Switch, close_files
  <1>3. CASE ListDone
    <2>0. DataFirst(fifo') /\ ~DataIn(fifo')
      <3>1. fifo = <<>> /\ (fifo' = fifo \/ \E status : fifo' \in send_reply(fifo, status))
        BY ONLY <1>3 DEF ListDone
      <3>2. QED
        BY ONLY <3>1, EmptyQueue, ReplyOnEmpty
    <2>1. ChunkPhase'
      BY <1>3, <2>0 DEF ListDone, Switch, close_files
    <2>2. ListPhase'
      BY <1>3 DEF ListDone, Switch, close_files
    <2>3. UploadPhase'
      BY <1>3 DEF ListDone, Switch, close_files
    <2>4. LinkPhase'
      BY <1>3 DEF ListDone, Switch, close_files
    <2>5. ListenPhase'
      BY <1>3 DEF ListDone, Switch, close_files
    <2>6. QED
      BY <2>1, <2>2, <2>3, <2>4, <2>5
  <1>4. CASE FileTxMore
    BY <1>4 DEF FileTxMore, Switch
  <1>5. CASE FileTxDone
    <2>0. DataFirst(fifo')
      <3>1. DataFirst(send_data_to_fifo(fifo)) /\ send_data_to_fifo(fifo) \in Seq(Element)
        BY <1>5, DataType DEF FileTxDone
      <3>2. \/ \E status : fifo' \in send_reply(fifo, status)
            \/ fifo' \in send_reply(send_data_to_fifo(fifo), 226)
        BY <1>5 DEF FileTxDone
      <3>3. QED
        BY <3>1, <3>2, ReplyKeeps
    <2>1. ChunkPhase'
      BY <1>5, <2>0 DEF FileTxDone, Switch, close_files
    <2>2. ListPhase'
      BY <1>5 DEF FileTxDone, Switch, close_files
    <2>3. UploadPhase'
      BY <1>5 DEF FileTxDone, Switch, close_files
    <2>4. LinkPhase'
      BY <1>5 DEF FileTxDone, Switch, close_files
    <2>5. ListenPhase'
      BY <1>5 DEF FileTxDone, Switch, close_files
    <2>6. QED
      BY <2>1, <2>2, <2>3, <2>4, <2>5
  <1>6. CASE FileRxData
    <2>0. DataFirst(fifo') /\ ~DataIn(fifo')
      <3>1. fifo = <<>> /\ (fifo' = fifo \/ \E status : fifo' \in send_reply(fifo, status))
        BY ONLY <1>6 DEF FileRxData
      <3>2. QED
        BY ONLY <3>1, EmptyQueue, ReplyOnEmpty
    <2>1. ChunkPhase'
      BY <1>6, <2>0 DEF FileRxData, Switch, close_files
    <2>2. ListPhase'
      BY <1>6 DEF FileRxData, Switch, close_files
    <2>3. UploadPhase'
      BY <1>6 DEF FileRxData, Switch, close_files
    <2>4. LinkPhase'
      BY <1>6 DEF FileRxData, Switch, close_files
    <2>5. ListenPhase'
      BY <1>6 DEF FileRxData, Switch, close_files
    <2>6. QED
      BY <2>1, <2>2, <2>3, <2>4, <2>5
  <1>7. CASE FileRxNone
    <2>0. DataFirst(fifo') /\ ~DataIn(fifo')
      <3>1. fifo = <<>> /\ (fifo' = fifo \/ \E status : fifo' \in send_reply(fifo, status))
        BY ONLY <1>7 DEF FileRxNone
      <3>2. QED
        BY ONLY <3>1, EmptyQueue, ReplyOnEmpty
    <2>1. ChunkPhase'
      BY <1>7, <2>0 DEF FileRxNone, Switch, close_files
    <2>2. ListPhase'
      BY <1>7 DEF FileRxNone, Switch, close_files
    <2>3. UploadPhase'
      BY <1>7 DEF FileRxNone, Switch, close_files
    <2>4. LinkPhase'
      BY <1>7 DEF FileRxNone, Switch, close_files
    <2>5. ListenPhase'
      BY <1>7 DEF FileRxNone, Switch, close_files
    <2>6. QED
      BY <2>1, <2>2, <2>3, <2>4, <2>5
  <1>8. CASE FileRxClosed
    BY <1>8, ZenonT(30) DEF FileRxClosed, Switch, close_files
  <1>9. QED
    BY <1>1, <1>2, <1>3, <1>4, <1>5, <1>6, <1>7, <1>8 DEF Transfer

\* The data channel never takes the socket of a transfer in progress.
LEMMA FlowDataChannel == TypeOK /\ SocketInv /\ FlowInv /\ DataChannel => FlowInv'
  <1> SUFFICES ASSUME TypeOK, SocketInv, FlowInv, DataChannel
               PROVE  FlowInv'
    OBVIOUS
  <1> USE EmptyQueue, ReplyKeeps, ChunkAlone, TailKeeps, FdAssumption DEF FlowInv,
       ChunkPhase, ListPhase, UploadPhase, LinkPhase, ListenPhase, TypeOK, Transferring,
       channel, sockets, files
  <1>1. CASE DataIdle
    BY <1>1 DEF DataIdle
  <1>2. CASE DataAccept
    BY <1>2 DEF DataAccept, DataStep
  <1>3. CASE DataAcceptNone
    BY <1>3 DEF DataAcceptNone, DataStep, Tick, Later
  <1>4. CASE DataAcceptError
    BY <1>4 DEF DataAcceptError, DataStep, Tick, Later, Reset, close_files
  <1>5. CASE DataUnused
    BY <1>5 DEF DataUnused, DataStep, Tick, Later, close_files
  <1>6. QED
    BY <1>1, <1>2, <1>3, <1>4, <1>5 DEF DataChannel

\* No element sent in a listing or an upload closes the data socket.
LEMMA FlowTransmit == TypeOK /\ SocketInv /\ FlowInv /\ Transmit => FlowInv'
  <1> SUFFICES ASSUME TypeOK, SocketInv, FlowInv, Transmit
               PROVE  FlowInv'
    OBVIOUS
  <1> USE EmptyQueue, ReplyKeeps, ChunkAlone, TailKeeps, FdAssumption DEF FlowInv,
       ChunkPhase, ListPhase, UploadPhase, LinkPhase, ListenPhase, TypeOK, Transferring,
       channel, sockets, files
  <1>1. CASE SendOk
    <2>1. ChunkPhase'
      BY <1>1 DEF SendOk, SendStep, Closed
    <2>2. ListPhase'
      BY <1>1 DEF SendOk, SendStep, Closed
    <2>3. UploadPhase'
      BY <1>1 DEF SendOk, SendStep, Closed
    <2>4. LinkPhase'
      BY <1>1 DEF SendOk, SendStep, Closed
    <2>5. ListenPhase'
      BY <1>1 DEF SendOk, SendStep, Closed
    <2>6. QED
      BY <2>1, <2>2, <2>3, <2>4, <2>5
  <1>2. CASE SendRetry
    BY <1>2 DEF SendRetry, SendStep, Incremented
  <1>3. CASE SendError
    BY <1>3 DEF SendError, SendStep, Incremented, Reset, close_files
  <1>4. CASE SendDrop
    BY <1>4 DEF SendDrop, SendStep
  <1>5. CASE SendFinished
    BY <1>5 DEF SendFinished, SendStep
  <1>6. CASE SendNothing
    BY <1>6 DEF SendNothing, SendStep
  <1>7. QED
    BY <1>1, <1>2, <1>3, <1>4, <1>5, <1>6 DEF Transmit

\* The server starts with an empty queue and no transfer.
LEMMA FlowInit == Init => FlowInv
BY EmptyQueue, FdAssumption DEF Init, Transferring, FlowInv, ChunkPhase, ListPhase,
     UploadPhase, LinkPhase, ListenPhase

\* The flow invariant is inductive relative to types and sockets.
LEMMA FlowNext == TypeOK /\ SocketInv /\ FlowInv /\ [Next]_vars => FlowInv'
  <1> SUFFICES ASSUME TypeOK, SocketInv, FlowInv, [Next]_vars
               PROVE  FlowInv'
    OBVIOUS
  <1> USE DEF FlowInv, ChunkPhase, ListPhase, UploadPhase, LinkPhase, ListenPhase,
       channel, sockets, files
  <1>1. CASE EndOfRun
    BY <1>1 DEF EndOfRun, Transferring
  <1>2. CASE OtherOpen
    BY <1>2 DEF OtherOpen
  <1>3. CASE OtherClose
    BY <1>3 DEF OtherClose
  <1>4. CASE UNCHANGED vars
    BY <1>4 DEF vars
  <1>5. QED
    BY <1>1, <1>2, <1>3, <1>4, FlowControl, FlowCmdStep, FlowTransfer,
       FlowDataChannel, FlowTransmit DEF Next, mb_ftp_run

\* Types, descriptors and flow together are inductive.
LEMMA ServerInvariant == Spec => [](TypeOK /\ SocketInv /\ FlowInv)
BY TypeInit, TypeNext, SocketInit, SocketNext, FlowInit, FlowNext, PTL DEF Spec

\* For every queue length, file size, timeout and order of events: a queued
\* chunk has its transfer and its data socket, a transfer its login, bytes
\* received belong to the upload in progress, and a root listing starts with the
\* first volume.
THEOREM FlowSafe ==
    Spec => [](DataInFlight /\ TransferNeedsLogin /\ NoUnsavedData /\ RootListingComplete)
  <1>1. ASSUME TypeOK, SocketInv, FlowInv
        PROVE  DataInFlight /\ TransferNeedsLogin /\ NoUnsavedData /\ RootListingComplete
    <2>1. DataInFlight
      BY <1>1 DEF FlowInv, ChunkPhase, ListPhase, UploadPhase, LinkPhase,
           ListenPhase, DataFirst, DataIn, DataInFlight
    <2>2. TransferNeedsLogin
      BY <1>1 DEF FlowInv, ChunkPhase, ListPhase, UploadPhase, LinkPhase,
           ListenPhase, SocketInv, SocketPhases, TransferNeedsLogin, TypeOK, AnyFd
    <2>3. NoUnsavedData /\ RootListingComplete
      BY <1>1 DEF FlowInv, ChunkPhase, ListPhase, UploadPhase, LinkPhase,
           ListenPhase, NoUnsavedData, RootListingComplete
    <2>4. QED
      BY <2>1, <2>2, <2>3
  <1>2. QED
    BY <1>1, ServerInvariant, PTL

\* In no order of commands, losses and timeouts does mb_ftp_run find a transfer without
\* its data connection, or, unless that is descriptor 0, without a login.
THEOREM TransfersLoggedIn == Spec => []TransferNeedsLogin
BY FlowSafe, PTL

\* A file that was written and not closed is the one of the upload in progress.
THEOREM UploadsSaved == Spec => []NoUnsavedData
BY FlowSafe, PTL

\* A listing of the root begins with the first volume, whatever was listed before.
THEOREM RootListingsComplete == Spec => []RootListingComplete
BY FlowSafe, PTL

\* A transfer of a file that ends with a reply has closed its file: every
\* branch of mb_ftp_run that goes to END_TRANSFER closes it first.
THEOREM AcknowledgedSafe == Spec => AcknowledgedClosed
  <1>1. ASSUME [Next]_vars
        PROVE  [(/\ state \in {"CONTINUE_FILE_TX", "CONTINUE_FILE_RX"}
                 /\ state' = "END_TRANSFER") => (e_open' = "NOTHING" /\ dirty' =
                      FALSE)]_vars
    <2> SUFFICES ASSUME Next,
                        state \in {"CONTINUE_FILE_TX", "CONTINUE_FILE_RX"},
                        state' = "END_TRANSFER"
                 PROVE  e_open' = "NOTHING" /\ dirty' = FALSE
      BY <1>1
    <2>1. CASE Control
      BY <2>1 DEF Control, mb_ftp_enable, mb_ftp_enabled_check, ControlStart, ControlAccept,
                  ControlAcceptNone, ControlAcceptError, AcceptsControl, Switch, channel
    <2>2. CASE CmdStep
      <3>1. CmdStep => state = "CONTROL_CONNECTED"
        BY DEF CmdStep, CmdNone, CmdFailed, CmdPASV, CmdUSER, CmdPASS, CmdCWD,
             CmdDELE, CmdMKD,
               CmdInfo, CmdSIZE, CmdRNFR, CmdRNTO, CmdQUIT, CmdNOOP, CmdLIST,
                    CmdRETR, CmdSTOR,
               Answers, OpensFile, Command, CmdProcess, Switch
      <3>2. QED
        BY <2>2, <3>1
    <2>3. CASE Transfer
      BY <2>3 DEF Transfer, Waits, ListMore, ListDone, FileTxMore, FileTxDone, FileRxData,
                  FileRxNone, FileRxClosed, Switch, close_files, channel
    <2>4. CASE DataChannel
      BY <2>4 DEF DataChannel, DataIdle, DataAccept, DataAcceptNone, DataAcceptError,
           DataUnused,
                  Reset, channel
    <2>5. CASE Transmit
      BY <2>5 DEF Transmit, SendOk, SendRetry, SendError, SendDrop, SendFinished,
           SendNothing,
                  Reset, channel
    <2>6. CASE EndOfRun \/ OtherOpen \/ OtherClose
      BY <2>6 DEF EndOfRun, OtherOpen, OtherClose, channel
    <2>7. QED
      BY <2>1, <2>2, <2>3, <2>4, <2>5, <2>6 DEF Next, mb_ftp_run
  <1>2. QED
    BY <1>1, PTL DEF Spec, AcknowledgedClosed

-----------------------------------------------------------------------------
(* The retry counter. *)

\* A new client starts with a counter of 0.
LEMMA RetryControl == TypeOK /\ SocketInv /\ RetryPhase /\ Control => RetryPhase'
  <1> SUFFICES ASSUME TypeOK, SocketInv, RetryPhase, Control
               PROVE  RetryPhase'
    OBVIOUS
  <1> USE FdAssumption, BoundAssumption DEF RetryPhase, RetryBound, channel, sockets,
       TypeOK, AnyFd
  <1>1. CASE mb_ftp_enable
    BY <1>1 DEF mb_ftp_enable
  <1>2. CASE mb_ftp_enabled_check
    BY <1>2 DEF mb_ftp_enabled_check, Switch
  <1>3. CASE ControlStart
    BY <1>3 DEF ControlStart, Switch
  <1>4. CASE ControlAccept
    BY <1>4 DEF ControlAccept, AcceptsControl, Switch
  <1>5. CASE ControlAcceptNone
    BY <1>5 DEF ControlAcceptNone, AcceptsControl, Switch
  <1>6. CASE ControlAcceptError
    BY <1>6 DEF ControlAcceptError, AcceptsControl, Switch, Reset, Closed
  <1>7. QED
    BY <1>1, <1>2, <1>3, <1>4, <1>5, <1>6 DEF Control

\* Commands leave the counter alone and PASV needs a client.
LEMMA RetryCmdStep == TypeOK /\ SocketInv /\ RetryPhase /\ CmdStep => RetryPhase'
  <1> SUFFICES ASSUME TypeOK, SocketInv, RetryPhase, CmdStep
               PROVE  RetryPhase'
    OBVIOUS
  <1> USE FdAssumption, BoundAssumption DEF RetryPhase, RetryBound, channel, sockets,
       TypeOK, AnyFd
  <1>1. CASE CmdNone
    BY <1>1 DEF CmdNone, Command, CmdProcess, Switch
  <1>2. CASE CmdFailed
    BY <1>2 DEF CmdFailed, Command, CmdProcess, Switch, close_client_sockets, Closed
  <1>3. CASE CmdPASV
    BY <1>3 DEF CmdPASV, Command, CmdProcess, Switch
  <1>4. CASE CmdUSER
    BY <1>4 DEF CmdUSER, Command, CmdProcess, Switch
  <1>5. CASE CmdPASS
    BY <1>5 DEF CmdPASS, Command, CmdProcess, Switch
  <1>6. CASE CmdCWD
    BY <1>6 DEF CmdCWD, Command, CmdProcess, Switch, Answers
  <1>7. CASE CmdDELE
    BY <1>7 DEF CmdDELE, Command, CmdProcess, Switch, Answers
  <1>8. CASE CmdMKD
    BY <1>8 DEF CmdMKD, Command, CmdProcess, Switch, Answers
  <1>9. CASE CmdInfo
    BY <1>9 DEF CmdInfo, Command, CmdProcess, Switch, Answers
  <1>10. CASE CmdSIZE
    BY <1>10 DEF CmdSIZE, Command, CmdProcess, Switch, Answers
  <1>11. CASE CmdRNFR
    BY <1>11 DEF CmdRNFR, Command, CmdProcess, Switch, Answers
  <1>12. CASE CmdRNTO
    BY <1>12 DEF CmdRNTO, Command, CmdProcess, Switch, Answers
  <1>13. CASE CmdQUIT
    BY <1>13 DEF CmdQUIT, Command, CmdProcess, Switch, Answers
  <1>14. CASE CmdNOOP
    BY <1>14 DEF CmdNOOP, Command, CmdProcess, Switch
  <1>15. CASE CmdLIST
    BY <1>15 DEF CmdLIST, Command, CmdProcess, Switch
  <1>16. CASE CmdRETR
    BY <1>16 DEF CmdRETR, Command, CmdProcess, Switch, OpensFile
  <1>17. CASE CmdSTOR
    BY <1>17 DEF CmdSTOR, Command, CmdProcess, Switch, OpensFile
  <1>18. QED
    BY <1>1, <1>2, <1>3, <1>4, <1>5, <1>6, <1>7, <1>8, <1>9, <1>10, <1>11, <1>12,
         <1>13, <1>14, <1>15, <1>16, <1>17 DEF CmdStep

\* Transfers leave the counter alone.
LEMMA RetryTransfer == TypeOK /\ SocketInv /\ RetryPhase /\ Transfer => RetryPhase'
  <1> SUFFICES ASSUME TypeOK, SocketInv, RetryPhase, Transfer
               PROVE  RetryPhase'
    OBVIOUS
  <1> USE FdAssumption, BoundAssumption DEF RetryPhase, RetryBound, channel, sockets,
       TypeOK, AnyFd
  <1>1. CASE Waits
    BY <1>1 DEF Waits, Switch
  <1>2. CASE ListMore
    BY <1>2 DEF ListMore, Switch
  <1>3. CASE ListDone
    BY <1>3 DEF ListDone, Switch
  <1>4. CASE FileTxMore
    BY <1>4 DEF FileTxMore, Switch
  <1>5. CASE FileTxDone
    BY <1>5 DEF FileTxDone, Switch
  <1>6. CASE FileRxData
    BY <1>6 DEF FileRxData, Switch
  <1>7. CASE FileRxNone
    BY <1>7 DEF FileRxNone, Switch
  <1>8. CASE FileRxClosed
    BY <1>8 DEF FileRxClosed, Switch
  <1>9. QED
    BY <1>1, <1>2, <1>3, <1>4, <1>5, <1>6, <1>7, <1>8 DEF Transfer

\* The data channel leaves the counter alone.
LEMMA RetryDataChannel == TypeOK /\ SocketInv /\ RetryPhase /\ DataChannel => RetryPhase'
  <1> SUFFICES ASSUME TypeOK, SocketInv, RetryPhase, DataChannel
               PROVE  RetryPhase'
    OBVIOUS
  <1> USE FdAssumption, BoundAssumption DEF RetryPhase, RetryBound, channel, sockets,
       TypeOK, AnyFd
  <1>1. CASE DataIdle
    BY <1>1 DEF DataIdle
  <1>2. CASE DataAccept
    BY <1>2 DEF DataAccept, DataStep
  <1>3. CASE DataAcceptNone
    BY <1>3 DEF DataAcceptNone, DataStep, Tick
  <1>4. CASE DataAcceptError
    BY <1>4 DEF DataAcceptError, DataStep, Tick, Reset, Closed
  <1>5. CASE DataUnused
    BY <1>5 DEF DataUnused, DataStep, Tick
  <1>6. QED
    BY <1>1, <1>2, <1>3, <1>4, <1>5 DEF DataChannel

\* Past the limit there is no socket left on which send() could fail.
LEMMA RetryTransmit == TypeOK /\ SocketInv /\ RetryPhase /\ Transmit => RetryPhase'
  <1> SUFFICES ASSUME TypeOK, SocketInv, RetryPhase, Transmit
               PROVE  RetryPhase'
    OBVIOUS
  <1> USE FdAssumption, BoundAssumption DEF RetryPhase, RetryBound, channel, sockets,
       TypeOK, AnyFd
  <1>1. CASE SendOk
    BY <1>1 DEF SendOk, SendStep, Closed
  <1>2. CASE SendRetry
    BY <1>2 DEF SendRetry, SendStep, Incremented
  <1>3. CASE SendError
    BY <1>3 DEF SendError, SendStep, Incremented, Reset, Closed, TargetOf, SocketInv,
         SocketPhases
  <1>4. CASE SendDrop
    BY <1>4 DEF SendDrop, SendStep
  <1>5. CASE SendFinished
    BY <1>5 DEF SendFinished, SendStep
  <1>6. CASE SendNothing
    BY <1>6 DEF SendNothing, SendStep
  <1>7. QED
    BY <1>1, <1>2, <1>3, <1>4, <1>5, <1>6 DEF Transmit

\* The server starts with a counter of 0.
LEMMA RetryInit == Init => RetryPhase
BY BoundAssumption DEF Init, RetryPhase, RetryBound

\* The retry invariant is inductive relative to types and sockets.
LEMMA RetryNext == TypeOK /\ SocketInv /\ RetryPhase /\ [Next]_vars => RetryPhase'
  <1> SUFFICES ASSUME TypeOK, SocketInv, RetryPhase, [Next]_vars
               PROVE  RetryPhase'
    OBVIOUS
  <1> USE DEF RetryPhase, RetryBound, channel, sockets
  <1>1. CASE EndOfRun
    BY <1>1 DEF EndOfRun
  <1>2. CASE OtherOpen \/ OtherClose
    BY <1>2 DEF OtherOpen, OtherClose
  <1>3. CASE UNCHANGED vars
    BY <1>3 DEF vars
  <1>4. QED
    BY <1>1, <1>2, <1>3, RetryControl, RetryCmdStep, RetryTransfer, RetryDataChannel,
       RetryTransmit DEF Next, mb_ftp_run

\* The uint8_t retry counter stays within one of its limit as long as the
\* control client is on a descriptor that mb_ftp_reset closes, for every limit
\* below the range of the counter: it cannot wrap around and retry for ever.
THEOREM RetrySafe == Spec => []RetryBound
  <1>1. Spec => [](TypeOK /\ SocketInv /\ RetryPhase)
    BY TypeInit, TypeNext, SocketInit, SocketNext, RetryInit, RetryNext, PTL DEF Spec
  <1>2. QED
    BY <1>1, PTL DEF RetryPhase

=============================================================================
