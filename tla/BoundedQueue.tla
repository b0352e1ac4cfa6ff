---------------------------- MODULE BoundedQueue ----------------------------
(***************************************************************************)
(* What a bounded first-in first-out queue promises to its user: a push    *)
(* appends or is refused when the queue is full, a pop hands over the      *)
(* oldest element, a peek shows it, a flush empties the queue.             *)
(***************************************************************************)
EXTENDS Naturals, Sequences

CONSTANTS
    Elem,       \* the values that can be queued
    Capacity    \* how many of them fit

VARIABLES
    queue,      \* the queued values, oldest first
    ok,         \* the Boolean result of the last operation
    got         \* the value the last successful pop or peek handed over

absVars == <<queue, ok, got>>

AbsInit ==
    /\ queue = <<>>
    /\ ok = FALSE
    /\ got \in Elem

Accept(e) ==
    /\ Len(queue) < Capacity
    /\ queue' = Append(queue, e)
    /\ ok' = TRUE
    /\ got' = got

Take ==
    /\ queue # <<>>
    /\ got' = Head(queue)
    /\ queue' = Tail(queue)
    /\ ok' = TRUE

Look ==
    /\ queue # <<>>
    /\ got' = Head(queue)
    /\ queue' = queue
    /\ ok' = TRUE

Refuse ==
    /\ Len(queue) = Capacity \/ queue = <<>>
    /\ ok' = FALSE
    /\ UNCHANGED <<queue, got>>

Clear ==
    /\ queue' = <<>>
    /\ UNCHANGED <<ok, got>>

AbsNext ==
    \/ \E e \in Elem : Accept(e)
    \/ Take
    \/ Look
    \/ Refuse
    \/ Clear

AbsSpec == AbsInit /\ [][AbsNext]_absVars
=============================================================================
