------------------------------ MODULE MCBoard ------------------------------
(***************************************************************************)
(* Start-up, console, peripherals and ring buffer for TLC.  They share no  *)
(* variable and no call, so that their interleavings would add states and  *)
(* no behaviour: a behaviour picks one component, which runs as its own    *)
(* module says while the others stay as they begin.                        *)
(***************************************************************************)
EXTENDS BootFs, StdinRing, CmdFrame, SerialChannel, VibMotor, Fifo

CONSTANT Components     \* those that are run

VARIABLE component      \* the one that runs

Init ==
    /\ component \in Components
    /\ BootInit /\ StdinInit /\ FrameInit /\ SerialInit /\ VibInit /\ FIFO_Init
    /\ component # "stdin" => once   \* one build is enough for the others

Next ==
    /\ \/ /\ component = "boot" /\ BootNext
          /\ UNCHANGED <<stdinVars, frameVars, serialVars, vibVars, fifoVars>>
       \/ /\ component = "stdin" /\ StdinNext
          /\ UNCHANGED <<bootVars, frameVars, serialVars, vibVars, fifoVars>>
       \/ /\ component = "frame" /\ FrameNext
          /\ UNCHANGED <<bootVars, stdinVars, serialVars, vibVars, fifoVars>>
       \/ /\ component = "serial" /\ SerialNext
          /\ UNCHANGED <<bootVars, stdinVars, frameVars, vibVars, fifoVars>>
       \/ /\ component = "vib" /\ VibNext
          /\ UNCHANGED <<bootVars, stdinVars, frameVars, serialVars, fifoVars>>
       \/ /\ component = "fifo" /\ FifoNext
          /\ UNCHANGED <<bootVars, stdinVars, frameVars, serialVars, vibVars>>
    /\ UNCHANGED component

\* The fairness of each component's own specification.
Fairness ==
    /\ WF_bootVars(component = "boot" /\ (BootStep \/ Panic))
    /\ WF_stdinVars(component = "stdin" /\ Task)
    /\ WF_serialVars(component = "serial" /\ RxTask)
    /\ WF_serialVars(component = "serial" /\ InCall)
    /\ \A t \in Runs :
           /\ WF_vibVars(component = "vib" /\ mb_vibratingmotor_TASK(t))
           /\ WF_vibVars(component = "vib" /\ Called(t))

Spec ==
    /\ Init
    /\ [][Next]_<<component, bootVars, stdinVars, frameVars, serialVars, vibVars, fifoVars>>
    /\ Fairness

-----------------------------------------------------------------------------
\* The type invariants of the components, which say where each one's indices, counters
\* and steps have to stay.
BoardTypeOK ==
    BootTypeOK /\ StdinTypeOK /\ FrameTypeOK /\ SerialTypeOK /\ VibTypeOK /\ FifoTypeOK
=============================================================================
