------------------------------ MODULE VibMotor ------------------------------
(***************************************************************************)
(* The vibrating motor of mb_vibratingmotor_board.c.  Each run() stores    *)
(* its two parameters in the one shared object and starts a task of its    *)
(* own that reads them over and over; calls may overlap, and all tasks     *)
(* have the priority of the caller.                                        *)
(***************************************************************************)
EXTENDS Naturals

CONSTANTS
    Frequences, \* the frequencies programs ask for (a uint8_t)
    Runtimes,   \* the running times in seconds (a uint8_t)
    FreqMax,    \* 100 in the code: what a frequency is cut down to
    Runs        \* bound: the calls of run(), a task each

ASSUME MotorAssumption ==
    Frequences \subseteq Nat /\ Runtimes \subseteq Nat /\ FreqMax \in Nat \ {0}

VARIABLES
    frequence, runtime_s,   \* mb_vibratingmotor_board_obj
    level,                  \* the GPIO level
    pc, tim,                \* per task: its step and its loop counter
    crashed                 \* a division by zero was executed

vibVars == <<frequence, runtime_s, level, pc, tim, crashed>>

VibInit ==
    /\ frequence = 0 /\ runtime_s = 0
    /\ level = "MOTOR_STOP"
    /\ pc = [t \in Runs |-> "none"]
    /\ tim = [t \in Runs |-> 0]
    /\ crashed = FALSE

Goto(t, from, to) == pc[t] = from /\ pc' = [pc EXCEPT ![t] = to] /\ ~crashed

\* mb_vibratingmotor_board_run: one parameter, the other, and the task.
Run(t, f) ==
    /\ Goto(t, "none", "runtime")
    /\ \A u \in Runs : pc[u] # "runtime"
    /\ frequence' = f
    /\ UNCHANGED <<runtime_s, level, tim, crashed>>

\* xTaskCreatePinnedToCore may find no memory for the task; run() does not look.
Create(t, r) ==
    /\ Goto(t, "runtime", "clamp") \/ Goto(t, "runtime", "deleted")
    /\ runtime_s' = r
    /\ UNCHANGED <<frequence, level, tim, crashed>>

\* mp_obj_get_int raises an exception: the second parameter is no integer.
Raise(t) ==
    /\ Goto(t, "runtime", "deleted")
    /\ UNCHANGED <<frequence, runtime_s, level, tim, crashed>>

Called(t) == Raise(t) \/ \E r \in Runtimes : Create(t, r)

\* mb_vibratingmotor_TASK
Clamp(t) ==
    /\ Goto(t, "clamp", "test")
    /\ frequence' = IF frequence >= FreqMax THEN FreqMax ELSE frequence
    /\ UNCHANGED <<runtime_s, level, tim, crashed>>

\* Mutant: one round more.
More_lastround(t) == tim[t] <= (runtime_s * frequence) \div 2

More(t) == tim[t] < (runtime_s * frequence) \div 2

Test(t) ==
    /\ \/ More(t) /\ Goto(t, "test", "on")
       \/ ~More(t) /\ Goto(t, "test", "deleted")
    /\ UNCHANGED <<frequence, runtime_s, level, tim, crashed>>

On(t) ==
    /\ Goto(t, "on", "wait_on")
    /\ level' = "MOTOR_RUN"
    /\ UNCHANGED <<frequence, runtime_s, tim, crashed>>

\* vTaskDelay(1000 / frequence): the division of both delays.
Delay(t, from, to) ==
    /\ Goto(t, from, to)
    /\ crashed' = (frequence = 0)

WaitOn(t) == Delay(t, "wait_on", "off") /\ UNCHANGED <<frequence, runtime_s, level, tim>>

\* Mutant: the motor is switched off only after the loop of another task.
Off_forgotten(t) ==
    Goto(t, "off", "wait_off") /\ UNCHANGED <<frequence, runtime_s, level, tim, crashed>>

Off(t) ==
    /\ Goto(t, "off", "wait_off")
    /\ level' = "MOTOR_STOP"
    /\ UNCHANGED <<frequence, runtime_s, tim, crashed>>

WaitOff(t) ==
    /\ Delay(t, "wait_off", "test")
    /\ tim' = [tim EXCEPT ![t] = @ + 1]
    /\ UNCHANGED <<frequence, runtime_s, level>>

mb_vibratingmotor_TASK(t) == Clamp(t) \/ Test(t) \/ On(t) \/ WaitOn(t) \/ Off(t) \/ WaitOff(t)

VibNext == \E t \in Runs :
    \/ \E f \in Frequences : Run(t, f)
    \/ Called(t)
    \/ mb_vibratingmotor_TASK(t)

\* Every task gets its time slices; run() finishes once called.
VibSpec ==
    /\ VibInit /\ [][VibNext]_vibVars
    /\ \A t \in Runs :
           /\ WF_vibVars(mb_vibratingmotor_TASK(t))
           /\ WF_vibVars(Called(t))

-----------------------------------------------------------------------------
\* The loop counter stays below what the largest uint8_t parameters allow, which
\* the uint16_t tim can hold.
VibTypeOK ==
    /\ frequence \in Frequences \cup {0, FreqMax}
    /\ runtime_s \in Runtimes \cup {0}
    /\ level \in {"MOTOR_STOP", "MOTOR_RUN"}
    /\ pc \in [Runs -> {"none", "runtime", "clamp", "test", "on", "wait_on", "off",
                        "wait_off", "deleted"}]
    /\ \A t \in Runs : \E f \in Frequences \cup {0}, r \in Runtimes \cup {0} :
           tim[t] \in 0 .. (f * r) \div 2
    /\ crashed \in BOOLEAN

\* run() takes any frequency, 0 too, which alone does no harm: the loop of its task has no
\* round.  The division by zero takes a second call of run(), which stores the 0 (also
\* when no task comes of the call) under the loop of the first one's task.
ZeroNeedsOverlap ==
    crashed =>
        /\ frequence = 0
        /\ \E t, u \in Runs : t # u /\ pc[t] # "none" /\ pc[u] # "none"

\* However calls of run() overlap and change the parameters under each other's loops,
\* all tasks end and the motor is left switched off, unless one divides by zero, which
\* restarts the chip.
MotorStops ==
    <>[](\/ crashed
         \/ level = "MOTOR_STOP" /\ \A t \in Runs : pc[t] \in {"none", "deleted"})
=============================================================================
