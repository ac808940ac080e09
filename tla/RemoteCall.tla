------------------------------ MODULE RemoteCall ------------------------------
(***************************************************************************)
(* What the master of a multi-machine deployment is promised when it sends *)
(* a command to the other server: a call is answered with what the server  *)
(* computed for that very call, or the master gives up on it.  The server  *)
(* carries out commands in the order they were issued and none twice, and  *)
(* it may carry out a command after the master gave up on it, or never.    *)
(*                                                                         *)
(* Nothing here knows of files, polling or "eof" marks: CommandChannel     *)
(* implements this specification with two text files.                      *)
(***************************************************************************)
EXTENDS Naturals, Sequences

CONSTANTS
    Command,     \* commands, [op |-> .., id |-> ..]: the id is the time stamp
    Result,      \* what carrying out a command can yield
    Repeatable,  \* operations the server may carry out twice
    NoCommand    \* not a command

VARIABLES
    issued,   \* stamp of the newest command issued so far
    pending,  \* the call the master is in, or NoCommand
    log,      \* what the server carried out, in order, with its results
    returned  \* <<c, r>> for the last call that returned, else << >>

vars == <<issued, pending, log, returned>>

Init ==
    /\ issued = 0
    /\ pending = NoCommand
    /\ log = << >>
    /\ returned = << >>

Call(c) ==
    /\ pending = NoCommand
    /\ c.id > issued
    /\ issued' = c.id
    /\ pending' = c
    /\ UNCHANGED <<log, returned>>

(* A command may follow every entry of the log: it is newer than each of   *)
(* them, or repeats one that is repeatable.                                *)
InOrder(c) ==
    \A i \in 1..Len(log) :
        \/ log[i].cmd.id < c.id
        \/ log[i].cmd = c /\ c.op \in Repeatable

CarryOut(c, r) ==
    /\ c.id <= issued
    /\ InOrder(c)
    /\ log' = Append(log, [cmd |-> c, res |-> r])
    /\ UNCHANGED <<issued, pending, returned>>

Answer(r) ==
    /\ pending # NoCommand
    /\ \E i \in 1..Len(log) : log[i] = [cmd |-> pending, res |-> r]
    /\ returned' = <<pending, r>>
    /\ pending' = NoCommand
    /\ UNCHANGED <<issued, log>>

GiveUp ==
    /\ pending # NoCommand
    /\ returned' = << >>
    /\ pending' = NoCommand
    /\ UNCHANGED <<issued, log>>

Next ==
    \/ \E c \in Command : Call(c)
    \/ \E c \in Command, r \in Result : CarryOut(c, r)
    \/ \E r \in Result : Answer(r)
    \/ GiveUp

Spec == Init /\ [][Next]_vars
===============================================================================
