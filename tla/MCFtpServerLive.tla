-------------------------- MODULE MCFtpServerLive ---------------------------
(***************************************************************************)
(* The FTP server for the liveness runs: numbered descriptors, of which    *)
(* lwIP returns the first free one, and no symmetry.                       *)
(***************************************************************************)
EXTENDS FtpServer, FiniteSetsExt

MinusOne == -1

FirstFree(S) == IF S = {} THEN {} ELSE {Min(S)}
=============================================================================
