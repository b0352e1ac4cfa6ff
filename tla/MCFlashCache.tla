---------------------------- MODULE MCFlashCache ----------------------------
(***************************************************************************)
(* The flash cache for TLC: a few blocks, two values and two tasks.        *)
(***************************************************************************)
EXTENDS FlashCache, TLC

CONSTANTS mp_task, mb_ftp_task, d1, d2

\* The two values are interchangeable.
MCSymmetry == Permutations({d1, d2})
=============================================================================
