---------------------------- MODULE CommandChannel ----------------------------
(***************************************************************************)
(* The command channel of a multi-machine deployment of the optimizer.     *)
(* Two text files on a shared directory carry commands one way and answers *)
(* the other: the master writes cmd_file and polls res_file, the server on *)
(* the second machine does the opposite.  CommunicationForFile             *)
(* (communication.py) is used at both ends; the loop that carries out the  *)
(* commands is Scheduler of server.py.                                     *)
(*                                                                         *)
(* Every access to a file is one step (each holds the FileLock of that     *)
(* file); between two of them the other side may run.  The master is any   *)
(* client that issues one command after the other.  "Faults" names which   *)
(* of the things that can go wrong do: a clock running out, the server or  *)
(* the master ending anywhere and being started again, with the files left *)
(* on the disk as they were.                                               *)
(***************************************************************************)
EXTENDS Naturals, Sequences

CONSTANTS
    MaxStamp,   \* bound: commands the master issues
    MaxTries,   \* times the server looks for "init" before it gives up (60)
    MaxStarts,  \* bound: times the server is started again
    Ops,        \* the operations the master uses
    Faults      \* subset of AllFaults

AllOps == {"init", "backup", "start", "check_success", "process_poll", "stop"}
AllFaults == {"callTimeout", "clearTimeout", "serverEnds", "masterRestart"}

ASSUME ConstantsAssumption ==
    /\ MaxStamp \in Nat /\ MaxTries \in Nat \ {0} /\ MaxStarts \in Nat
    /\ Ops \subseteq AllOps
    /\ Faults \subseteq AllFaults

Stamp == 1..MaxStamp
Command == [op : AllOps, id : Stamp]
NoCommand == [op |-> "none", id |-> 0]
Result == {"done", "true", "false", "none", "code", "silent"}

Empty == [kind |-> "empty"]
Eof == [kind |-> "eof"]
CommandText(c) == [kind |-> "command", cmd |-> c]
AnswerText(c, r) == [kind |-> "answer", cmd |-> c, res |-> r]
Text == {Empty, Eof} \cup {CommandText(c) : c \in Command}
          \cup {AnswerText(c, r) : c \in Command, r \in Result}

VARIABLES
    cmdFile, resFile,  \* the two files
    issued,            \* stamp of the newest command: time_ns() never repeats
    mpc,               \* where the master is in clear_command / clear_res
    mcmd,              \* the command it waits for
    mstatus,           \* the status it read
    returned,          \* <<command, status>> of the call that last returned
    spc,               \* where the server is
    history,           \* commands the server has read (CustomCommand.history)
    current,           \* history[-1]
    answer,            \* the answer it is about to send
    tries,             \* how often it looked for "init"
    simulator,         \* its simulator: no object, process alive, or exited
    starts,            \* how often it was started again
    log                \* what it carried out: kept for the properties only

master == <<issued, mpc, mcmd, mstatus, returned>>
serverLocal == <<history, current, answer, tries>>
server == <<spc, history, current, answer, tries, simulator, starts, log>>
vars == <<cmdFile, resFile, master, server>>

TypeOK ==
    /\ cmdFile \in Text /\ resFile \in Text
    /\ issued \in 0..MaxStamp
    /\ mpc \in {"idle", "poll", "putEof", "clear", "ackEof"}
    /\ mcmd \in Command \cup {NoCommand}
    /\ mstatus \in Result
    /\ returned \in {<< >>} \cup (Command \X Result)
    /\ spc \in {"down", "init", "main", "reinit", "exec", "reply", "clear", "ackEof"}
    /\ history \subseteq Command
    /\ current \in Command \cup {NoCommand}
    /\ answer \in Result
    /\ tries \in 0..MaxTries
    /\ simulator \in {"absent", "alive", "exited"}
    /\ starts \in 0..MaxStarts
    /\ log \in Seq([cmd : Command, res : Result])

Init ==
    /\ cmdFile = Empty /\ resFile = Empty
    /\ issued = 0
    /\ mpc = "idle" /\ mcmd = NoCommand /\ mstatus = "none" /\ returned = << >>
    /\ spc = "init" /\ history = {} /\ current = NoCommand /\ answer = "none"
    /\ tries = 0 /\ simulator = "absent" /\ starts = 0 /\ log = << >>

-------------------------------------------------------------------------------
(* The master: send_command followed by clear_command.                     *)

MasterSend(op) ==
    /\ mpc = "idle" /\ issued < MaxStamp
    /\ LET c == [op |-> op, id |-> issued + 1] IN
         /\ cmdFile' = CommandText(c)
         /\ mcmd' = c
    /\ issued' = issued + 1
    /\ mpc' = "poll"
    /\ UNCHANGED <<resFile, mstatus, returned, server>>

(* A bug: any answer ends the wait.                                        *)
MasterReadAny ==
    /\ mpc = "poll"
    /\ \E c \in Command, r \in Result :
         /\ resFile = AnswerText(c, r)
         /\ mstatus' = r
    /\ mpc' = "putEof"
    /\ UNCHANGED <<cmdFile, resFile, issued, mcmd, returned, server>>

(* recv_command in clear_command: only a text that holds this very command *)
(* ends the wait.                                                          *)
MasterRead ==
    /\ mpc = "poll"
    /\ \E r \in Result :
         /\ resFile = AnswerText(mcmd, r)
         /\ mstatus' = r
    /\ mpc' = "putEof"
    /\ UNCHANGED <<cmdFile, resFile, issued, mcmd, returned, server>>

(* A bug: out of time, the status of an earlier call is returned.          *)
MasterTimeoutAsAnswer ==
    /\ "callTimeout" \in Faults
    /\ mpc = "poll"
    /\ mpc' = "idle" /\ mcmd' = NoCommand /\ returned' = <<mcmd, mstatus>>
    /\ UNCHANGED <<cmdFile, resFile, issued, mstatus, server>>

(* TimeoutError: the clock is looked at before the file is.                *)
MasterTimeout ==
    /\ "callTimeout" \in Faults
    /\ mpc = "poll"
    /\ mpc' = "idle" /\ mcmd' = NoCommand /\ returned' = << >>
    /\ UNCHANGED <<cmdFile, resFile, issued, mstatus, server>>

(* A bug: the command stays in the file.                                   *)
MasterPutNoEof ==
    /\ mpc = "putEof"
    /\ mpc' = "clear"
    /\ UNCHANGED <<cmdFile, resFile, issued, mcmd, mstatus, returned, server>>

MasterPutEof ==
    /\ mpc = "putEof"
    /\ cmdFile' = Eof
    /\ mpc' = "clear"
    /\ UNCHANGED <<resFile, issued, mcmd, mstatus, returned, server>>

(* clear_res: wait until the other side says eof too, 10 seconds at most.  *)
MasterClear ==
    /\ mpc = "clear" /\ resFile = Eof
    /\ mpc' = "ackEof"
    /\ UNCHANGED <<cmdFile, resFile, issued, mcmd, mstatus, returned, server>>

MasterReturn ==
    /\ mpc' = "idle" /\ mcmd' = NoCommand
    /\ returned' = <<mcmd, mstatus>>
    /\ UNCHANGED <<resFile, issued, mstatus, server>>

(* A bug: clear_res has no time limit.                                     *)
MasterClearNoTimeout == FALSE

MasterClearTimeout ==
    /\ "clearTimeout" \in Faults
    /\ mpc = "clear" /\ resFile # Eof
    /\ MasterReturn
    /\ UNCHANGED cmdFile

MasterAckEof ==
    /\ mpc = "ackEof"
    /\ cmdFile' = Eof
    /\ MasterReturn

(* The master ends in the middle of a call; a new one starts issuing.      *)
MasterRestart ==
    /\ "masterRestart" \in Faults
    /\ mpc # "idle"
    /\ mpc' = "idle" /\ mcmd' = NoCommand /\ returned' = << >>
    /\ UNCHANGED <<cmdFile, resFile, issued, mstatus, server>>

-------------------------------------------------------------------------------
(* The server: get_cmd_param reads cmd_file and remembers what it read.    *)

(* A bug: the history is not looked at.                                    *)
FreshAlways(c) == cmdFile = CommandText(c)

Fresh(c) == cmdFile = CommandText(c) /\ c \notin history

NothingFresh == \A c \in Command : ~Fresh(c)

Remember(c) ==
    /\ history' = history \cup {c}
    /\ current' = c

CarriedOut(r) == log' = Append(log, [cmd |-> current, res |-> r])

(* init(): "init" is answered at once, in the step that reads it.          *)
AnswerInit(c) ==
    /\ c.op = "init"
    /\ Remember(c)
    /\ answer' = "done"
    /\ log' = Append(log, [cmd |-> c, res |-> "done"])
    /\ spc' = "reply"
    /\ UNCHANGED tries

(* One of the attempts of main(): any other command is remembered, and so  *)
(* never carried out; after the last attempt ValueError ends the server.   *)
InitAttempt ==
    /\ spc = "init"
    /\ \/ \E c \in Command : Fresh(c) /\ AnswerInit(c)
       \/ /\ \/ NothingFresh /\ UNCHANGED <<history, current>>
             \/ \E c \in Command : Fresh(c) /\ c.op # "init" /\ Remember(c)
          /\ tries' = tries + 1
          /\ spc' = IF tries + 1 = MaxTries THEN "down" ELSE "init"
          /\ UNCHANGED <<answer, log>>
    /\ UNCHANGED <<cmdFile, resFile, master, simulator, starts>>

(* A bug: every method reads the file once more, as init() does.           *)
RunReadsAgain ==
    /\ spc = "main"
    /\ \E c \in Command : Fresh(c) /\ Remember(c)
    /\ spc' = "reinit"
    /\ UNCHANGED <<cmdFile, resFile, master, answer, tries, simulator, starts, log>>

(* run() picks up a command and dispatches on its name.                    *)
Run ==
    /\ spc = "main"
    /\ \E c \in Command :
         /\ Fresh(c)
         /\ Remember(c)
         /\ spc' = IF c.op = "init" THEN "reinit" ELSE "exec"
    /\ UNCHANGED <<cmdFile, resFile, master, answer, tries, simulator, starts, log>>

(* run() dispatched "init" to init(), which reads the file once more: the  *)
(* command it was called for is in the history by now.                     *)
RunInit ==
    /\ spc = "reinit"
    /\ \/ \E c \in Command : Fresh(c) /\ AnswerInit(c)
       \/ /\ \/ NothingFresh /\ UNCHANGED <<history, current>>
             \/ \E c \in Command : Fresh(c) /\ c.op # "init" /\ Remember(c)
          /\ spc' = "main"
          /\ UNCHANGED <<answer, tries, log>>
    /\ UNCHANGED <<cmdFile, resFile, master, simulator, starts>>

Executing(op) ==
    /\ spc = "exec" /\ current.op = op
    /\ UNCHANGED <<cmdFile, resFile, master, history, current, tries, starts>>

Answering(r) ==
    /\ answer' = r
    /\ spc' = "reply"
    /\ CarriedOut(r)

Silently ==
    /\ spc' = "main"
    /\ CarriedOut("silent")
    /\ UNCHANGED answer

Backup == Executing("backup") /\ Answering("done") /\ UNCHANGED simulator

(* A new Simulator replaces the old object; its run() kills what is left   *)
(* of an earlier process.                                                  *)
Start == Executing("start") /\ Answering("done") /\ simulator' = "alive"

(* Without a simulator nothing is sent.  With one, the call ends the       *)
(* server: the Simulator that server.py imports has no check_success.      *)
CheckSuccess ==
    /\ Executing("check_success")
    /\ \/ simulator = "absent" /\ Silently
       \/ /\ simulator # "absent" /\ spc' = "down"
          /\ CarriedOut("silent") /\ UNCHANGED answer
    /\ UNCHANGED simulator

ProcessPoll ==
    /\ Executing("process_poll")
    /\ Answering(IF simulator = "exited" THEN "code" ELSE "none")
    /\ UNCHANGED simulator

(* SimulatorInterface.stop is empty: the process outlives it.              *)
Stop ==
    /\ Executing("stop")
    /\ \/ simulator = "absent" /\ Silently
       \/ simulator # "absent" /\ Answering("done")
    /\ UNCHANGED simulator

Reply ==
    /\ spc = "reply"
    /\ resFile' = AnswerText(current, answer)
    /\ spc' = "clear"
    /\ UNCHANGED <<cmdFile, master, serverLocal, simulator, starts, log>>

(* A bug: the answer is replaced by eof before the master has said eof.    *)
ServerClearAtOnce ==
    /\ spc = "clear"
    /\ spc' = "ackEof"
    /\ UNCHANGED <<cmdFile, resFile, master, serverLocal, simulator, starts, log>>

ServerClear ==
    /\ spc = "clear" /\ cmdFile = Eof
    /\ spc' = "ackEof"
    /\ UNCHANGED <<cmdFile, resFile, master, serverLocal, simulator, starts, log>>

ServerClearTimeout ==
    /\ "clearTimeout" \in Faults
    /\ spc = "clear" /\ cmdFile # Eof
    /\ spc' = "main"
    /\ UNCHANGED <<cmdFile, resFile, master, serverLocal, simulator, starts, log>>

ServerAckEof ==
    /\ spc = "ackEof"
    /\ resFile' = Eof
    /\ spc' = "main"
    /\ UNCHANGED <<cmdFile, master, serverLocal, simulator, starts, log>>

-------------------------------------------------------------------------------
(* Around the server: its simulator exits by itself, an exception that     *)
(* main() does not catch or a kill ends it, someone starts it again.       *)

SimulatorExits ==
    /\ simulator = "alive"
    /\ simulator' = "exited"
    /\ UNCHANGED <<cmdFile, resFile, master, spc, serverLocal, starts, log>>

ServerEnds ==
    /\ "serverEnds" \in Faults
    /\ spc # "down"
    /\ spc' = "down"
    /\ UNCHANGED <<cmdFile, resFile, master, serverLocal, simulator, starts, log>>

ServerStarts ==
    /\ spc = "down" /\ starts < MaxStarts
    /\ starts' = starts + 1
    /\ spc' = "init" /\ history' = {} /\ current' = NoCommand /\ answer' = "none"
    /\ tries' = 0 /\ simulator' = "absent"
    /\ UNCHANGED <<cmdFile, resFile, master, log>>

ServerStep ==
    \/ InitAttempt \/ Run \/ RunInit
    \/ Backup \/ Start \/ CheckSuccess \/ ProcessPoll \/ Stop
    \/ Reply \/ ServerClear \/ ServerClearTimeout \/ ServerAckEof

MasterStep ==
    \/ MasterRead \/ MasterTimeout \/ MasterPutEof
    \/ MasterClear \/ MasterClearTimeout \/ MasterAckEof

Next ==
    \/ \E op \in Ops : MasterSend(op)
    \/ MasterStep \/ MasterRestart
    \/ ServerStep \/ ServerEnds \/ ServerStarts \/ SimulatorExits

Spec == Init /\ [][Next]_vars

-------------------------------------------------------------------------------
(* A status the master accepts for a command was computed by the server    *)
(* for that very command, although the files still hold texts of earlier   *)
(* calls, of calls the master gave up on and of earlier runs: the test     *)
(* "command not in cmd_res" of clear_command is enough.                    *)
Logged(c, r) == \E i \in 1..Len(log) : log[i] = [cmd |-> c, res |-> r]

AnswersAreOwn ==
    /\ mpc \in {"putEof", "clear", "ackEof"} => Logged(mcmd, mstatus)
    /\ returned # << >> => Logged(returned[1], returned[2])

(* The server carries out commands in the order in which they were issued  *)
(* and none twice, whatever times out, and even when it is started again   *)
(* with the old command file on the disk and an empty history: its attempts*)
(* to find "init" swallow what is left there.  Only "init" itself may be   *)
(* answered again.                                                         *)
InOrderOnce ==
    \A i, j \in 1..Len(log) : i < j =>
        \/ log[i].cmd.id < log[j].cmd.id
        \/ log[i].cmd = log[j].cmd /\ log[i].cmd.op = "init"

(* A command the server has read and does not carry out is lost for good,  *)
(* since get_cmd_param has put it into the history.  That happens only to  *)
(* a command read while init() looks for "init": before the first one, or  *)
(* next to one that the main loop dispatched and that is never answered.   *)
(* Whatever else is read is carried out, unless the server ends first.     *)
NeverDone(c) == \A i \in 1..Len(log) : log[i].cmd # c

Lost(c) ==
    /\ c.op # "init" /\ NeverDone(c)
    /\ ~(current = c /\ spc \in {"exec", "down"})

LostAroundInit ==
    \A c \in history : Lost(c) =>
        \/ \A d \in history : d.op = "init" => c.id < d.id
        \/ \E d \in history :
             /\ d.op = "init" /\ NeverDone(d) /\ d.id < c.id
             /\ \A e \in history : ~(d.id < e.id /\ e.id < c.id)

(* An answer the master still waits for is not overwritten, neither by the *)
(* server's eof mark nor by an answer to another command.                  *)
Unread == mpc = "poll" /\ resFile.kind = "answer" /\ resFile.cmd = mcmd

AnswerKept == [][Unread /\ mpc' = "poll" => resFile' = resFile]_vars

(* The channel implements RemoteCall: polling, eof marks and time limits   *)
(* on both sides are steps nobody outside sees.                            *)
RC == INSTANCE RemoteCall WITH
        Repeatable <- {"init"},
        pending <- mcmd

ImplementsRemoteCall == RC!Spec

(* Fairness: neither loop blocks; each poll comes round after its sleep,   *)
(* and a clock that is looked at runs out in the end.  Nothing is assumed  *)
(* of the client, the faults or the simulator.                             *)
Fairness == WF_vars(MasterStep) /\ WF_vars(ServerStep)

LiveSpec == Spec /\ Fairness

(* With the time limits of clear_command and clear_res, no call lasts for  *)
(* ever, whatever the server does: it may be gone, never answer, or have   *)
(* died between its answer and its eof mark.                               *)
CallReturns == mpc # "idle" ~> mpc = "idle"

(* When nothing fails and no clock runs out, a command the server is ready *)
(* for and has to answer is answered, and both sides see both eof marks:   *)
(* the handshake needs no time limit to get through.                       *)
Answerable(c) ==
    /\ mpc = "poll" /\ mcmd = c /\ Fresh(c)
    /\ \/ spc = "init" /\ c.op = "init"
       \/ /\ spc = "main"
          /\ \/ c.op \in {"backup", "start", "process_poll"}
             \/ c.op = "stop" /\ simulator # "absent"

HandshakeCompletes ==
    \A c \in Command :
        Answerable(c) ~> (mpc = "idle" /\ returned # << >> /\ returned[1] = c)
===============================================================================
