----------------------------- MODULE BoardProofs -----------------------------
(***************************************************************************)
(* Start-up finds the user's program and overwrites it only where a lookup *)
(* fails, a sensor reading contains no byte from before its call, and the  *)
(* motor divides by zero only when calls overlap: for any number of power  *)
(* failures, failing FatFs calls, requests and calls.  The type invariants *)
(* of the components hold in the composition that the run checks.          *)
(***************************************************************************)
EXTENDS MCBoard, StdinRingProofs, CmdFrameProofs, FifoProofs, TLAPS

USE BootAssumption

-----------------------------------------------------------------------------
(* BootFs *)

\* Where f_chdir("/flash") leads from here when it does not fail.
Here == IF "/flash" \in dirs THEN "/flash" ELSE cwd

\* In this start no f_stat and no f_chdir has failed.
Found == failed \cap {"f_stat", "f_chdir"} = {}

\* Nothing was ever stored on the volume.
Untouched == dirs = {} /\ files = NoFiles /\ ~saved

\* The volume is untouched until it is formatted and its first directory made.
FreshVolume == (fs = "none" \/ step = "mkdir") => Untouched

\* A script is created only where there is none of its name.
CreatesMissing ==
    Found =>
        /\ step = "open" => files[Here][name] = "absent"
        /\ step = "close" => cwd = Here /\ files[cwd][name] = "absent"

\* Which script a step creates follows from where it goes on.
NameOfRet == name = IF ret = "main" THEN "boot.py" ELSE "main.py"

\* The loop over the directories, behind boot.py, and boot.py, behind main.py.
Behind(r) == step \in {"open", "close"} /\ ret \in r

DirectoriesMade ==
    fs = "fat" /\ failed = {} =>
        /\ step \in {"/lib", "/cert"} => "/sys" \in dirs
        /\ step = "/cert" => "/lib" \in dirs
        /\ \/ step \in {"boot", "show_boot", "main", "show_main", "wifi"}
           \/ Behind({"main", "wifi"})
           => {"/sys", "/lib", "/cert"} \subseteq dirs

ScriptsMade ==
    fs = "fat" /\ failed = {} =>
        /\ step \in {"show_boot", "main", "show_main", "wifi"} \/ Behind({"wifi"}) =>
               files[Here]["boot.py"] # "absent"
        /\ step \in {"show_main", "wifi"} => files[Here]["main.py"] # "absent"

\* A failing call is counted.
ErrorsCounted == errors = 0 => failed = {}

\* The scripts are run, and written by the user, in /flash when it is there.
RunsHere ==
    (step = "wifi" /\ failed = {}) \/ (step = "run" /\ errors = 0) => cwd = Here

\* What the user saved is in /flash, when it is there.
SavedKept ==
    saved /\ "/flash" \in dirs /\ errors = 0 => files["/flash"]["main.py"] \in Own

BootInv ==
    /\ BootTypeOK /\ FreshVolume /\ CreatesMissing /\ NameOfRet
    /\ DirectoriesMade /\ ScriptsMade /\ ErrorsCounted /\ RunsHere /\ SavedKept

Texts == {"absent", "empty", "fresh"} \cup Own

\* The first boot of a blank chip.
LEMMA BootInvInit == BootInit => BootInv
  <1> SUFFICES ASSUME BootInit
               PROVE  BootInv
    OBVIOUS
  <1>1. files \in [Made \cup {"/"} -> [Scripts -> Texts]]
    <2>1. [n \in Scripts |-> "absent"] \in [Scripts -> Texts]
      BY DEF Texts
    <2>2. QED
      BY <2>1, Zenon DEF BootInit, NoFiles
  <1>2. BootTypeOK
    <2>1. cuts \in 0 .. MaxCuts /\ errors \in 0 .. MaxErrors
      BY DEF BootInit
    <2>2. QED
      BY <1>1, <2>1, Zenon DEF BootInit, BootTypeOK, Scripts, Texts
  <1>3. FreshVolume /\ CreatesMissing /\ NameOfRet /\ DirectoriesMade /\ ScriptsMade
    BY DEF BootInit, FreshVolume, Untouched, CreatesMissing, NameOfRet, Behind,
           DirectoriesMade, ScriptsMade
  <1>4. QED
    BY <1>2, <1>3 DEF BootInit, BootInv, ErrorsCounted, RunsHere, SavedKept

\* What a step's failing calls add to the history.
LEMMA Failing ==
    ASSUME BootInv, NEW bad, Fail(bad)
    PROVE  /\ errors' \in 0 .. MaxErrors
           /\ failed' = failed \cup bad
           /\ failed' = {} => failed = {} /\ bad = {}
           /\ errors' = 0 => errors = 0 /\ bad = {}
           /\ ErrorsCounted'
  <1>1. errors \in 0 .. MaxErrors /\ MaxErrors \in Nat
    BY DEF BootInv, BootTypeOK
  <1>2. CASE bad = {}
    BY <1>1, <1>2 DEF Fail, BootInv, ErrorsCounted
  <1>3. CASE bad # {}
    BY <1>1, <1>3 DEF Fail, BootInv, ErrorsCounted
  <1>4. QED
    BY <1>2, <1>3

\* Start-up, the user, a panic and a power failure preserve it.
LEMMA BootInvNext == BootInv /\ [BootNext]_bootVars => BootInv'
  <1> SUFFICES ASSUME BootInv, [BootNext]_bootVars
               PROVE  BootInv'
    OBVIOUS
  <1> USE DEF BootInv, BootTypeOK, FreshVolume, Untouched, CreatesMissing, NameOfRet,
              Behind, DirectoriesMade, ScriptsMade, RunsHere, SavedKept, Found, Own,
              Scripts, Made, Here, volume, creation, faults
  <1>1. CASE Mount
    <2>1. PICK bad \in SUBSET {"f_chdir", "f_stat"} :
              /\ Fail(bad)
              /\ cwd' = Chdir("/", "/flash", bad)
              /\ CreateIf(Missing(cwd', "main.py", bad), "main.py", "/sys", "/sys")
      BY <1>1 DEF Mount
    <2>2. QED
      BY <1>1, <2>1, Failing DEF Mount, CreateIf, Chdir, Missing
  <1>2. CASE MountFails
    BY <1>2, Failing DEF MountFails
  <1>3. CASE Format
    BY <1>3, Failing DEF Format
  <1>4. CASE MakeFlash
    <2>1. PICK bad \in SUBSET {"f_mkdir"} : Fail(bad) /\ Mkdir("/flash", bad)
      BY <1>4 DEF MakeFlash
    <2>2. QED
      BY <1>4, <2>1, Failing DEF MakeFlash, Mkdir, NoFiles
  <1>5. CASE Open
    <2>1. PICK bad \in SUBSET {"f_chdir"} : Fail(bad) /\ cwd' = Chdir(cwd, "/flash", bad)
      BY <1>5 DEF Open
    <2>2. QED
      BY <1>5, <2>1, Failing DEF Open, Chdir
  <1>6. CASE Close
    <2>1. /\ step = "close" /\ step' = ret /\ name' = "main.py" /\ ret' = "/sys"
          /\ UNCHANGED <<fs, dirs, cwd, head, eventLoop, saved, cuts>>
      BY <1>6 DEF Close
    <2>2. CASE /\ Fail({})
               /\ files' = IF fs = "fat" THEN [files EXCEPT ![cwd][name] = "fresh"] ELSE files
      <3>1. BootTypeOK'
        BY <2>1, <2>2, Failing
      <3>2. DirectoriesMade' /\ ScriptsMade'
        BY <2>1, <2>2, Failing
      <3>3. SavedKept'
        BY <2>1, <2>2, Failing DEF ErrorsCounted
      <3>4. QED
        BY <2>1, <2>2, <3>1, <3>2, <3>3, Failing
    <2>3. CASE /\ fs = "fat" /\ Fail({"f_write"})
               /\ files' \in {files, [files EXCEPT ![cwd][name] = "empty"]}
      <3>1. failed' # {} /\ errors' # 0 /\ ErrorsCounted' /\ errors' \in 0 .. MaxErrors
        BY <2>3, Failing
      <3>2. BootTypeOK'
        BY <2>1, <2>3, <3>1
      <3>3. QED
        BY <2>1, <2>3, <3>1, <3>2
    <2>4. QED
      BY <1>6, <2>2, <2>3 DEF Close
  <1>7. CASE Directory
    <2>1. PICK bad \in SUBSET {"f_chdir", "f_mkdir"} :
              Fail(bad) /\ Mkdir(step, bad) /\ cwd' = Chdir(cwd, step, bad)
      BY <1>7 DEF Directory
    <2>2. QED
      BY <1>7, <2>1, Failing DEF Directory, Mkdir, Chdir
  <1>8. CASE Boot
    <2>1. PICK bad \in SUBSET {"f_chdir", "f_stat"} :
              /\ Fail(bad)
              /\ cwd' = Chdir(cwd, "/flash", bad)
              /\ CreateIf(Missing(cwd', "boot.py", bad), "boot.py", "main", "show_boot")
      BY <1>8 DEF Boot
    <2>2. QED
      BY <1>8, <2>1, Failing DEF Boot, CreateIf, Chdir, Missing
  <1>9. CASE Main
    <2>1. PICK bad \in SUBSET {"f_chdir", "f_stat"} :
              /\ Fail(bad)
              /\ cwd' = Chdir(cwd, "/flash", bad)
              /\ CreateIf(Missing(cwd', "main.py", bad), "main.py", "wifi", "show_main")
      BY <1>9 DEF Main
    <2>2. QED
      BY <1>9, <2>1, Failing DEF Main, CreateIf, Chdir, Missing
  <1>10. ASSUME NEW n \in Scripts, NEW at, NEW next, Show(n, at, next),
                <<at, next>> \in {<<"show_boot", "main">>, <<"show_main", "wifi">>}
        PROVE  BootInv'
    <2>1. PICK bad \in SUBSET {"f_chdir", "f_read"} :
              /\ Fail(bad)
              /\ cwd' = Chdir(cwd, "/flash", bad)
              /\ head' \in Heads(files[cwd'][n], bad)
      BY <1>10 DEF Show
    <2>2. head' \in {"plain", "format"}
      BY <1>10, <2>1 DEF Heads, Chdir
    <2>3. QED
      BY <1>10, <2>1, <2>2, Failing DEF Show, Chdir
  <1>11. CASE Wifi
    BY <1>11 DEF Wifi, ErrorsCounted
  <1>12. ASSUME NEW n \in Scripts, NEW text \in Own, Save(n, text)
        PROVE  BootInv'
    BY <1>12 DEF Save, ErrorsCounted
  <1>13. ASSUME NEW n \in Scripts, Remove(n)
        PROVE  BootInv'
    <2>1. fs = "fat"
      BY <1>13 DEF Remove, NoFiles
    <2>2. QED
      BY <1>13, <2>1 DEF Remove, ErrorsCounted
  <1>14. CASE SoftReset
    BY <1>14 DEF SoftReset, ErrorsCounted
  <1>15. CASE Panic
    BY <1>15 DEF Panic, Restart, ErrorsCounted
  <1>16. CASE PowerCut
    <2>1. cuts' \in 0 .. MaxCuts
      BY <1>16 DEF PowerCut
    <2>2. CASE UNCHANGED files
      BY <1>16, <2>1, <2>2 DEF PowerCut, Restart, ErrorsCounted
    <2>3. CASE step = "close" /\ fs = "fat" /\ files' = [files EXCEPT ![cwd][name] = "empty"]
      <3>1. files' \in [Made \cup {"/"} -> [Scripts -> Texts]]
        BY <2>3 DEF Texts
      <3>2. BootTypeOK' /\ FreshVolume' /\ NameOfRet'
        BY <1>16, <2>1, <2>3, <3>1 DEF PowerCut, Restart, Texts
      <3>3. SavedKept'
        BY <1>16, <2>3 DEF PowerCut, Restart, ErrorsCounted
      <3>4. QED
        BY <1>16, <3>2, <3>3 DEF PowerCut, Restart, ErrorsCounted
    <2>4. QED
      BY <1>16, <2>2, <2>3 DEF PowerCut
  <1>17. CASE UNCHANGED bootVars
    BY <1>17 DEF bootVars, ErrorsCounted
  <1>18. QED
    BY <1>1, <1>2, <1>3, <1>4, <1>5, <1>6, <1>7, <1>8, <1>9, <1>10, <1>11, <1>12, <1>13,
       <1>14, <1>15, <1>16, <1>17
    DEF BootNext, BootStep, Users

\* The state of the volume and of start-up stays well typed through any number of
\* power failures and failing FatFs calls.
THEOREM BootTypeCorrect == BootSpec => []BootTypeOK
  <1>1. BootSpec => []BootInv
    BY BootInvInit, BootInvNext, PTL DEF BootSpec
  <1>2. QED
    BY <1>1, PTL DEF BootInv

\* When the scripts are about to run after a start in which no FatFs call failed, both
\* exist where they are run, whatever earlier starts have left; and when no call ever
\* failed and /flash was made, main.py is the one the user saved last.
THEOREM BootRunsUserProgram == BootSpec => []RunsUserProgram
  <1>1. BootInv => RunsUserProgram
    BY DEF BootInv, BootTypeOK, RunsUserProgram, DirectoriesMade, ScriptsMade, RunsHere,
           SavedKept, Here, Scripts
  <1>2. BootSpec => []BootInv
    BY BootInvInit, BootInvNext, PTL DEF BootSpec
  <1>3. QED
    BY <1>1, <1>2, PTL

\* A step of start-up, a panic or a power failure that changes a script of the user comes
\* after a failing f_stat or f_chdir: without one f_open with FA_CREATE_ALWAYS is reached
\* only where there is no such script.
LEMMA BootKeepsUserFiles ==
    ASSUME BootInv, [BootNext]_bootVars, ~Users,
           NEW d \in Made \cup {"/"}, NEW n \in Scripts,
           files[d][n] \in Own, files'[d][n] # files[d][n]
    PROVE  failed \cap {"f_stat", "f_chdir"} # {}
  <1> SUFFICES ASSUME Found
               PROVE  FALSE
    BY DEF Found
  <1> USE DEF BootInv, BootTypeOK, CreatesMissing, Own
  <1>1. CASE Close
    BY <1>1 DEF Close
  <1>2. CASE PowerCut
    BY <1>2 DEF PowerCut
  <1>3. CASE UNCHANGED files
    BY <1>3
  <1>4. QED
    BY <1>1, <1>2, <1>3
    DEF BootNext, BootStep, Mount, MountFails, Format, MakeFlash, Open, Directory, Boot,
        Main, Show, Wifi, Panic, bootVars, volume

\* Start-up overwrites a script the user has written only in a start in which an f_stat
\* or an f_chdir failed.
THEOREM BootKeepsScripts == BootSpec => UserFilesKept
  <1>1. BootInv /\ [BootNext]_bootVars =>
            [~Users /\ (\E d \in Made \cup {"/"}, n \in Scripts :
                            files[d][n] \in Own /\ files'[d][n] # files[d][n])
             => failed \cap {"f_stat", "f_chdir"} # {}]_bootVars
    BY BootKeepsUserFiles
  <1>2. BootSpec => []BootInv
    BY BootInvInit, BootInvNext, PTL DEF BootSpec
  <1>3. QED
    BY <1>1, <1>2, PTL DEF BootSpec, UserFilesKept

-----------------------------------------------------------------------------
(* SerialChannel *)

USE SerialAssumption

\* The driver is between the beginning of a call and its request.
Asking == {"mode", "free", "send"}

\* Every call begun has sent its request, or can still send it.
CallsCounted ==
    IF driver \in Asking THEN calls <= requests + 1 /\ requests < MaxRequests
    ELSE calls <= requests

\* Between the beginning of the call and the clearing of the buffer nothing was read;
\* from then on the buffer has only bytes that were copied during the call.
NothingOld ==
    /\ driver \in {"mode", "free"} => \A p \in Halves : value[p] = Zero
    /\ driver \notin {"idle", "mode", "free"} =>
           \A p \in Parts : read_buffer_data[p] # Zero => read_buffer_data[p].during = calls

SerialInv == SerialTypeOK /\ CallsCounted /\ NothingOld /\ ReadingFromThisCall

\* A byte of the buffer: Zero, or from a frame.
Content == [request : 0 .. MaxRequests, float : BOOLEAN, during : 0 .. MaxRequests]

\* What is written to the buffer is a byte.
LEMMA ByteType ==
    ASSUME SerialTypeOK
    PROVE  /\ Zero \in Content
           /\ Byte(frame) \in Content /\ Byte(frame).during = calls
  BY DEF SerialTypeOK, Content, Zero, Byte, Frame

\* A request is counted and its answer is a frame.
LEMMA RequestType ==
    ASSUME SerialTypeOK, NEW float \in BOOLEAN, Request(float)
    PROVE  /\ requests' \in 0 .. MaxRequests /\ requests' = requests + 1
           /\ requests < MaxRequests
           /\ wire' \subseteq Frame
  <1>1. requests' \in 1 .. MaxRequests /\ requests' = requests + 1 /\ requests < MaxRequests
    BY DEF SerialTypeOK, Request
  <1>2. [request |-> requests', float |-> float] \in Frame
    BY <1>1, Zenon DEF Frame
  <1>3. wire' = wire \cup {[request |-> requests', float |-> float]}
    BY <1>1 DEF Request
  <1>4. QED
    BY <1>1, <1>2, <1>3 DEF SerialTypeOK

\* Both tasks idle, the buffer clear.
LEMMA SerialInvInit == SerialInit => SerialInv
  <1> SUFFICES ASSUME SerialInit
               PROVE  SerialInv
    OBVIOUS
  <1>1. Zero \in Content /\ frame \in Frame
    BY DEF SerialInit, Content, Zero, Frame
  <1>2. read_buffer_data \in [Parts -> Content] /\ value \in [Halves -> Content]
    BY <1>1 DEF SerialInit
  <1>3. calls \in 0 .. MaxRequests /\ requests \in 0 .. MaxRequests /\ CallsCounted
    BY DEF SerialInit, CallsCounted, Asking
  <1>4. SerialTypeOK
    BY <1>1, <1>2, <1>3, Zenon DEF SerialInit, SerialTypeOK, Content
  <1>5. NothingOld /\ ReadingFromThisCall
    BY DEF SerialInit, NothingOld, ReadingFromThisCall
  <1>6. QED
    BY <1>3, <1>4, <1>5 DEF SerialInv

\* Every step of the receive task, of the driver and of the wire preserves it.
LEMMA SerialInvNext == SerialInv /\ [SerialNext]_serialVars => SerialInv'
  <1> SUFFICES ASSUME SerialInv, [SerialNext]_serialVars
               PROVE  SerialInv'
    OBVIOUS
  <1> USE ByteType DEF SerialInv, SerialTypeOK, CallsCounted, NothingOld, ReadingFromThisCall,
              Asking, channel, reading, Content
  <1>1. ASSUME NEW f \in wire, RxRead(f)
        PROVE  SerialInv'
    BY <1>1 DEF RxRead, Receive
  <1>2. CASE RxFlag
    BY <1>2 DEF RxFlag, Receive
  <1>3. CASE RxEcho
    BY <1>3 DEF RxEcho, Receive, Parts
  <1>4. CASE RxCopy
    BY <1>4 DEF RxCopy, Copy, Receive, Parts, Halves
  <1>5. ASSUME NEW f \in wire, Lose(f)
        PROVE  SerialInv'
    BY <1>5 DEF Lose
  <1>6. CASE ValueCmd
    <2>1. requests' \in 0 .. MaxRequests /\ requests' = requests + 1 /\ wire' \subseteq Frame
      BY <1>6, RequestType DEF ValueCmd
    <2>2. QED
      <3>1. SerialTypeOK'
        BY <1>6, <2>1, Zenon DEF ValueCmd
      <3>2. CallsCounted'
        BY <1>6, <2>1 DEF ValueCmd
      <3>3. NothingOld' /\ ReadingFromThisCall'
        BY <1>6 DEF ValueCmd
      <3>4. QED
        BY <3>1, <3>2, <3>3
  <1>7. CASE RunCmd
    <2>1. requests' \in 0 .. MaxRequests /\ requests' = requests + 1 /\ wire' \subseteq Frame
      BY <1>7, RequestType DEF RunCmd
    <2>2. QED
      BY <1>7, <2>1 DEF RunCmd
  <1>8. CASE ValueCall
    <2>1. calls' \in 0 .. MaxRequests /\ calls' <= requests + 1
      BY <1>8 DEF ValueCall, DriverStep
    <2>2. value' \in [Halves -> Content] /\ \A p \in Halves : value'[p] = Zero
      BY <1>8 DEF ValueCall
    <2>3. QED
      BY <1>8, <2>1, <2>2 DEF ValueCall, DriverStep
  <1>9. CASE Mode
    BY <1>9 DEF Mode, DriverStep
  <1>10. CASE free_the_read_buffer
    BY <1>10 DEF free_the_read_buffer, DriverStep
  <1>11. CASE Send
    BY <1>11, RequestType DEF Send, DriverStep
  <1>12. CASE WaitFlag
    BY <1>12 DEF WaitFlag, DriverStep
  <1>13. CASE Timeout
    BY <1>13 DEF Timeout, DriverStep
  <1>14. CASE Check
    BY <1>14 DEF Check, DriverStep
  <1>15. CASE ReadFloat
    BY <1>15 DEF ReadFloat, DriverStep, Halves, Parts
  <1>16. CASE Return
    BY <1>16 DEF Return, DriverStep
  <1>17. CASE UNCHANGED serialVars
    BY <1>17 DEF serialVars
  <1>18. QED
    BY <1>1, <1>2, <1>3, <1>4, <1>5, <1>6, <1>7, <1>8, <1>9, <1>10, <1>11, <1>12, <1>13,
       <1>14, <1>15, <1>16, <1>17
    DEF SerialNext, RxTask, InCall

\* The steps of both tasks, the counters and the contents of read_buffer_data stay well
\* typed, for any number of requests.
THEOREM SerialTypeCorrect == SerialSpec => []SerialTypeOK
  <1>1. SerialSpec => []SerialInv
    BY SerialInvInit, SerialInvNext, PTL DEF SerialSpec
  <1>2. QED
    BY <1>1, PTL DEF SerialInv

\* A reading has no byte that was in read_buffer_data before the call.
THEOREM SerialReadingFresh == SerialSpec => []ReadingFromThisCall
  <1>1. SerialSpec => []SerialInv
    BY SerialInvInit, SerialInvNext, PTL DEF SerialSpec
  <1>2. QED
    BY <1>1, PTL DEF SerialInv

-----------------------------------------------------------------------------
(* VibMotor *)

USE MotorAssumption

\* The frequency in use is no larger than one that was asked for.
Asked == \E f \in Frequences \cup {0} : frequence <= f

\* A task inside its loop has rounds left for some pair of parameters.
InLoop == {"on", "wait_on", "off", "wait_off"}

RoundsLeft ==
    \A t \in Runs : pc[t] \in InLoop =>
        \E f \in Frequences \cup {0}, r \in Runtimes \cup {0} : tim[t] < (f * r) \div 2

VibInv == VibTypeOK /\ tim \in [Runs -> Nat] /\ Asked /\ RoundsLeft

\* A larger factor makes a product, and its half, no smaller.
LEMMA HalfMonotone ==
    ASSUME NEW a \in Nat, NEW b \in Nat, NEW r \in Nat, NEW n \in Nat,
           a <= b, n < (r * a) \div 2
    PROVE  n < (b * r) \div 2
  <1>1. r * a <= b * r
    BY SMT
  <1>2. r * a \in Nat /\ b * r \in Nat
    BY SMT
  <1>3. \A x, y \in Nat : x <= y => x \div 2 <= y \div 2
    BY SMT
  <1> DEFINE x == r * a
             y == b * r
  <1>4. x \in Nat /\ y \in Nat /\ x <= y /\ n < x \div 2
    BY <1>1, <1>2
  <1> HIDE DEF x, y
  <1>5. n < y \div 2
    BY <1>3, <1>4
  <1>6. QED
    BY <1>5 DEF y

\* No task, the motor off.
LEMMA VibInvInit == VibInit => VibInv
  <1> SUFFICES ASSUME VibInit
               PROVE  VibInv
    OBVIOUS
  <1>1. \A t \in Runs : tim[t] \in 0 .. (0 * 0) \div 2
    BY DEF VibInit
  <1>2. pc \in [Runs -> {"none"}] /\ tim \in [Runs -> Nat]
    BY DEF VibInit
  <1>3. VibTypeOK
    BY <1>1, <1>2 DEF VibInit, VibTypeOK
  <1>4. Asked /\ RoundsLeft
    BY <1>2 DEF VibInit, Asked, RoundsLeft, InLoop
  <1>5. QED
    BY <1>2, <1>3, <1>4 DEF VibInv

\* Calls of run() and the steps of every task preserve it.
LEMMA VibInvNext == VibInv /\ [VibNext]_vibVars => VibInv'
  <1> SUFFICES ASSUME VibInv, [VibNext]_vibVars
               PROVE  VibInv'
    OBVIOUS
  <1> USE DEF VibInv, VibTypeOK, Asked, RoundsLeft, InLoop, Goto
  <1>1. ASSUME NEW t \in Runs, NEW f \in Frequences, Run(t, f)
        PROVE  VibInv'
    <2>1. frequence' \in Frequences /\ frequence' <= frequence'
      BY <1>1 DEF Run
    <2>2. Asked'
      BY <2>1
    <2>3. QED
      BY <1>1, <2>1, <2>2 DEF Run
  <1>2. ASSUME NEW t \in Runs, Called(t)
        PROVE  VibInv'
    BY <1>2 DEF Called, Raise, Create
  <1>3. ASSUME NEW t \in Runs, Clamp(t)
        PROVE  VibInv'
    BY <1>3 DEF Clamp
  <1>4. ASSUME NEW t \in Runs, Test(t)
        PROVE  VibInv'
    <2>1. CASE More(t) /\ Goto(t, "test", "on")
      <3>1. PICK f \in Frequences \cup {0} : frequence <= f
        OBVIOUS
      <3>2. runtime_s \in Runtimes \cup {0} /\ tim[t] < (f * runtime_s) \div 2
        BY <2>1, <3>1, HalfMonotone DEF More
      <3>3. RoundsLeft'
        BY <1>4, <2>1, <3>2 DEF Test
      <3>4. QED
        BY <1>4, <2>1, <3>3 DEF Test
    <2>2. CASE ~More(t) /\ Goto(t, "test", "deleted")
      BY <1>4, <2>2 DEF Test
    <2>3. QED
      BY <1>4, <2>1, <2>2 DEF Test
  <1>5. ASSUME NEW t \in Runs, On(t)
        PROVE  VibInv'
    BY <1>5 DEF On
  <1>6. ASSUME NEW t \in Runs, WaitOn(t)
        PROVE  VibInv'
    BY <1>6 DEF WaitOn, Delay
  <1>7. ASSUME NEW t \in Runs, Off(t)
        PROVE  VibInv'
    BY <1>7 DEF Off
  <1>8. ASSUME NEW t \in Runs, WaitOff(t)
        PROVE  VibInv'
    <2>1. PICK f \in Frequences \cup {0}, r \in Runtimes \cup {0} : tim[t] < (f * r) \div 2
      BY <1>8 DEF WaitOff, Delay
    <2>2. (f * r) \div 2 \in Nat
      OBVIOUS
    <2>3. tim' \in [Runs -> Nat] /\ tim'[t] \in 0 .. (f * r) \div 2
      BY <1>8, <2>1, <2>2 DEF WaitOff
    <2>4. \A u \in Runs : u # t => tim'[u] = tim[u] /\ pc'[u] = pc[u]
      BY <1>8 DEF WaitOff, Delay
    <2>5. \A u \in Runs : \E g \in Frequences \cup {0}, q \in Runtimes \cup {0} :
               tim'[u] \in 0 .. (g * q) \div 2
      BY <2>3, <2>4
    <2>6. VibTypeOK'
      BY <1>8, <2>5 DEF WaitOff, Delay
    <2>7. Asked' /\ RoundsLeft'
      BY <1>8, <2>4 DEF WaitOff, Delay
    <2>8. QED
      BY <2>3, <2>6, <2>7
  <1>9. CASE UNCHANGED vibVars
    BY <1>9 DEF vibVars
  <1>10. QED
    BY <1>1, <1>2, <1>3, <1>4, <1>5, <1>6, <1>7, <1>8, <1>9
    DEF VibNext, mb_vibratingmotor_TASK

\* However many calls of run() overlap, each task's loop counter stays below what some
\* pair of the parameters asked for allows.
THEOREM VibTypeCorrect == VibSpec => []VibTypeOK
  <1>1. VibSpec => []VibInv
    BY VibInvInit, VibInvNext, PTL DEF VibSpec
  <1>2. QED
    BY <1>1, PTL DEF VibInv

\* Two calls of run() have begun.
Overlap == \E t, u \in Runs : t # u /\ pc[t] # "none" /\ pc[u] # "none"

\* A task is in its loop with the frequency 0 only when another call has stored it: its
\* own loop begins with a round left, which the frequency 0 does not have.
ZeroStored ==
    /\ crashed => frequence = 0
    /\ crashed \/ (frequence = 0 /\ \E t \in Runs : pc[t] \in InLoop) => Overlap

\* Calls of run() and the steps of every task keep it so.
LEMMA ZeroStoredNext == VibInv /\ ZeroStored /\ [VibNext]_vibVars => ZeroStored'
  <1> SUFFICES ASSUME VibInv, ZeroStored, [VibNext]_vibVars
               PROVE  ZeroStored'
    OBVIOUS
  <1> USE DEF ZeroStored, Overlap, InLoop, VibInv, VibTypeOK, Goto
  <1>1. ASSUME NEW t \in Runs, NEW f \in Frequences, Run(t, f)
        PROVE  ZeroStored'
    BY <1>1 DEF Run
  <1>2. ASSUME NEW t \in Runs, Called(t)
        PROVE  ZeroStored'
    BY <1>2 DEF Called, Raise, Create
  <1>3. ASSUME NEW t \in Runs, Clamp(t)
        PROVE  ZeroStored'
    BY <1>3 DEF Clamp
  <1>4. ASSUME NEW t \in Runs, Test(t)
        PROVE  ZeroStored'
    <2>1. CASE More(t) /\ Goto(t, "test", "on")
      <3>1. runtime_s \in Nat /\ tim[t] \in Nat
        OBVIOUS
      <3>2. ~(tim[t] < (runtime_s * 0) \div 2)
        BY <3>1
      <3>3. frequence # 0
        BY <2>1, <3>2 DEF More
      <3>4. QED
        BY <1>4, <2>1, <3>3 DEF Test
    <2>2. CASE ~More(t) /\ Goto(t, "test", "deleted")
      BY <1>4, <2>2 DEF Test
    <2>3. QED
      BY <1>4, <2>1, <2>2 DEF Test
  <1>5. ASSUME NEW t \in Runs, On(t) \/ Off(t)
        PROVE  ZeroStored'
    BY <1>5 DEF On, Off
  <1>6. ASSUME NEW t \in Runs, WaitOn(t) \/ WaitOff(t)
        PROVE  ZeroStored'
    BY <1>6 DEF WaitOn, WaitOff, Delay
  <1>7. CASE UNCHANGED vibVars
    BY <1>7 DEF vibVars
  <1>8. QED
    BY <1>1, <1>2, <1>3, <1>4, <1>5, <1>6, <1>7 DEF VibNext, mb_vibratingmotor_TASK

\* Whatever frequencies are asked for, 0 included, a division by zero takes a second call
\* of run() that stores a 0 under the loop of the first one's task.
THEOREM MotorZeroNeedsOverlap == VibSpec => []ZeroNeedsOverlap
  <1>1. VibInit => ZeroStored
    BY DEF VibInit, ZeroStored, InLoop
  <1>2. VibSpec => []ZeroStored
    BY <1>1, VibInvInit, VibInvNext, ZeroStoredNext, PTL DEF VibSpec
  <1>3. ZeroStored => ZeroNeedsOverlap
    BY DEF ZeroStored, ZeroNeedsOverlap, Overlap
  <1>4. QED
    BY <1>2, <1>3, PTL

-----------------------------------------------------------------------------
(* The composition that the run checks. *)

\* The inductive invariants of the components.
BoardInv == BootInv /\ StdinInv /\ FrameInv /\ SerialInv /\ VibInv /\ FifoInv

\* A component that does not run keeps its invariant.
LEMMA BoardInvNext ==
    ASSUME BoardInv, [Next]_<<component, bootVars, stdinVars, frameVars, serialVars, vibVars,
                       fifoVars>>
    PROVE  BoardInv'
  <1>1. /\ [BootNext]_bootVars /\ [StdinNext]_stdinVars /\ [FrameNext]_frameVars
        /\ [SerialNext]_serialVars /\ [VibNext]_vibVars /\ [FifoNext]_fifoVars
    BY DEF Next
  <1>2. QED
    BY <1>1, BootInvNext, StdinInvNext, FrameInvNext, SerialInvNext, VibInvNext, FifoInvNext
    DEF BoardInv

\* The type invariants of start-up, console, command frames, serial channel, motor
\* and ring buffer hold together in the composition.
THEOREM BoardTypeCorrect == Spec => []BoardTypeOK
  <1>1. Init => BoardInv
    BY BootInvInit, StdinInvInit, FrameInvInit, SerialInvInit, VibInvInit, FifoInvInit
    DEF Init, BoardInv
  <1>2. Spec => []BoardInv
    BY <1>1, BoardInvNext, PTL DEF Spec
  <1>3. BoardInv => BoardTypeOK
    BY DEF BoardInv, BoardTypeOK, BootInv, StdinInv, FrameInv, SerialInv, VibInv, FifoInv
  <1>4. QED
    BY <1>2, <1>3, PTL

=============================================================================
