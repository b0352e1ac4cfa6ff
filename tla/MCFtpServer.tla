---------------------------- MODULE MCFtpServer -----------------------------
(***************************************************************************)
(* The FTP server for TLC: as many descriptors above 0 as the server has   *)
(* roles, shared with one socket of another task, and descriptor 0 where   *)
(* the run allows it.                                                      *)
(***************************************************************************)
EXTENDS FtpServer, TLC

CONSTANTS f1, f2, f3, f4

FourFds == {f1, f2, f3, f4}

\* lwIP may return any free descriptor.
AnyFree(S) == S

FdSymmetry == Permutations(FourFds)
=============================================================================
