------------------------------- MODULE FtpPath -------------------------------
(***************************************************************************)
(* The working directory of an FTP session and the path a rename starts    *)
(* from, in mb_ftp.c.  The directory is one string that commands extend by *)
(* their parameter and cut back by its length, so paths and parameters are *)
(* sequences of characters here.  The volume decides which paths exist.    *)
(***************************************************************************)
EXTENDS Integers, Sequences

CONSTANTS
    Chars,      \* the characters of names, and "/"
    Params,     \* the parameters clients send
    MaxPath     \* bound: the length of the path

\* No two "/" follow each other.
NoEmptyName(p) == \A k \in 2 .. Len(p) : p[k] = "/" => p[k - 1] # "/"

\* A parameter like "/a/" is longer than the path it makes, and the unsigned
\* difference of mb_ftp_return_to_previous_path wraps; one like "a//" leaves a "/" at the
\* end of the path: see README.
ASSUME ParamAssumption ==
    /\ "/" \in Chars /\ Params \subseteq Seq(Chars) /\ MaxPath \in Nat \ {0}
    /\ \A d \in Params :
           /\ NoEmptyName(d)
           /\ Len(d) > 1 /\ d[1] = "/" => d[Len(d)] # "/"

VARIABLES
    path,       \* mb_ftp_path
    buffer,     \* the string in ftpBuffer
    named,      \* history: what the last successful RNFR named, until RNTO
    last        \* history: the last command, its parameter and whether it succeeded

pathVars == <<path, buffer, named, last>>

Root == <<"/">>
Text == <<"text">>  \* a reply or the content of a file or directory

Absolute(d) == d # <<>> /\ d[1] = "/"

open_child(pwd, dir) ==
    LET p == IF Absolute(dir) THEN dir
             ELSE IF Len(pwd) > 1 THEN pwd \o Root \o dir ELSE pwd \o dir
    IN  IF Len(p) > 1 /\ p[Len(p)] = "/" THEN SubSeq(p, 1, Len(p) - 1) ELSE p

\* Mutant: the string is cut at its first character too.
close_child_empty(pwd) ==
    SubSeq(pwd, 1, CHOOSE k \in 0 .. Len(pwd) - 1 :
        pwd[k + 1] = "/" /\ \A j \in k + 2 .. Len(pwd) : pwd[j] # "/")

\* The last '/' but for the first character ends the parent; counted from 0.
close_child(pwd) ==
    LET cuts == {k \in 1 .. Len(pwd) - 1 : pwd[k + 1] = "/"}
    IN  IF cuts = {} THEN Root
        ELSE SubSeq(pwd, 1, CHOOSE k \in cuts : \A j \in cuts : j <= k)

\* Mutant: the difference of the lengths is taken as it is.
return_to_previous_path_slash(pwd, dir) ==
    LET newlen == Len(pwd) - Len(dir)
    IN  IF newlen = 0 THEN Root ELSE SubSeq(pwd, 1, newlen)

return_to_previous_path(pwd, dir) ==
    LET newlen == Len(pwd) - Len(dir)
    IN  IF newlen > 2 /\ pwd[newlen] = "/" THEN SubSeq(pwd, 1, newlen - 1)
        ELSE IF newlen = 0 THEN Root
        ELSE SubSeq(pwd, 1, newlen)

PathInit ==
    /\ path = Root /\ buffer = <<>> /\ named = <<>>
    /\ last = [cmd |-> "none", param |-> <<>>, ok |-> TRUE]

Command(cmd, dir, ok) == last' = [cmd |-> cmd, param |-> dir, ok |-> ok]

CWD(dir, ok) ==
    LET p == open_child(path, dir) IN
    /\ Len(p) <= MaxPath
    /\ p = Root => ok
    /\ path' = IF ok THEN p ELSE close_child(p)
    /\ Command("CWD", dir, ok)
    /\ UNCHANGED <<buffer, named>>

CDUP ==
    /\ path' = close_child(path)
    /\ Command("CDUP", <<>>, TRUE)
    /\ UNCHANGED <<buffer, named>>

\* get_param_and_open_child, and closechild at the end of the command.
Child(cmd, dir, ok) ==
    /\ path' = return_to_previous_path(open_child(path, dir), dir)
    /\ Command(cmd, dir, ok)

\* RETR, STOR, DELE, RMD and MKD
File(dir, ok) == Child("file", dir, ok) /\ UNCHANGED <<buffer, named>>

\* f_stat finds any path but the root, which has no name.
Found(dir, ok) == ok => open_child(path, dir) # Root

\* SIZE and MDTM print their answer into the buffer.
Info(dir, ok) ==
    /\ Child("info", dir, ok) /\ Found(dir, ok)
    /\ buffer' = IF ok THEN Text ELSE buffer
    /\ UNCHANGED named

RNFR(dir, ok) ==
    LET p == open_child(path, dir) IN
    /\ Child("RNFR", dir, ok) /\ Found(dir, ok)
    /\ buffer' = IF ok THEN p ELSE buffer
    /\ named' = IF ok THEN p ELSE named

\* f_rename_helper(ftpBuffer, mb_ftp_path)
RNTO(dir, ok) ==
    /\ Child("RNTO", dir, ok)
    /\ named' = <<>>
    /\ UNCHANGED buffer

\* PASV's address, and the blocks of a listing or a transfer.
Overwrite ==
    /\ buffer' = Text
    /\ Command("data", <<>>, TRUE)
    /\ UNCHANGED <<path, named>>

PathNext ==
    \/ \E dir \in Params, ok \in BOOLEAN :
           CWD(dir, ok) \/ File(dir, ok) \/ Info(dir, ok) \/ RNFR(dir, ok) \/ RNTO(dir, ok)
    \/ CDUP \/ Overwrite

PathSpec == PathInit /\ [][PathNext]_pathVars

-----------------------------------------------------------------------------
\* The names a path or parameter is made of.
Names(p) ==
    LET cut[k \in 0 .. Len(p)] ==
            IF k = 0 THEN <<<<>>>>
            ELSE IF p[k] = "/" THEN Append(cut[k - 1], <<>>)
            ELSE [cut[k - 1] EXCEPT ![Len(cut[k - 1])] = Append(@, p[k])]
    IN  SelectSeq(cut[Len(p)], LAMBDA n : n # <<>>)

\* One name, with or without a "/" behind it.
OneName(dir) == dir # <<>> /\ \A k \in 1 .. Len(dir) : dir[k] = "/" => k > 1 /\ k = Len(dir)

\* The path is a string that FatFs takes as absolute.
PathTypeOK ==
    /\ path \in Seq(Chars) /\ Absolute(path) /\ Len(path) <= MaxPath
    /\ path # Root => path[Len(path)] # "/"
    /\ last.ok \in BOOLEAN

\* CWD enters what it names and CDUP leaves one directory.
Moves ==
    /\ last'.cmd = "CWD" /\ last'.ok =>
           Names(path') = IF Absolute(last'.param) THEN Names(last'.param)
                          ELSE Names(path) \o Names(last'.param)
    /\ last'.cmd = "CDUP" =>
           Names(path') = IF path = Root THEN <<>>
                          ELSE SubSeq(Names(path), 1, Len(Names(path)) - 1)

\* A CWD that fails on one name and every command on a relative path leave the session in
\* its directory.
Stays ==
    /\ last'.cmd = "CWD" /\ ~last'.ok /\ OneName(last'.param) => path' = path
    /\ last'.cmd \in {"file", "info", "RNFR", "RNTO"} /\ ~Absolute(last'.param) =>
           path' = path

\* The client stays where it went.
Navigates == [][Moves /\ Stays]_pathVars

\* RNTO renames what the last RNFR named: the code says at RNFR "save the current path"
\* and at RNTO "old path was saved in the data buffer".
RenamesNamed == [][last'.cmd = "RNTO" /\ named # <<>> => buffer = named]_pathVars
=============================================================================
