------------------------- MODULE CommandChannelProofs -------------------------
(***************************************************************************)
(* Proofs about CommandChannel for every number of commands, attempts and  *)
(* restarts and every set of operations and faults: the type invariant,    *)
(* that accepted answers are the server's answers to the same command,     *)
(* that commands are carried out in order and once, and that the channel   *)
(* implements RemoteCall.                                                  *)
(*                                                                         *)
(* The two safety properties are not inductive.  The server's half rests   *)
(* on what it has read compared with what is in the file (FileNotOlder,    *)
(* LoggedIsRemembered, ExecutingIsNew), the master's half on where the     *)
(* texts in res_file come from (TextsAreLogged).                           *)
(***************************************************************************)
EXTENDS CommandChannel, TLAPS

Entry == [cmd : Command, res : Result]

(* The master is in a call exactly when it has a command to wait for.      *)
CallHasCommand ==
    /\ mpc = "idle" => mcmd = NoCommand
    /\ mpc # "idle" => mcmd \in Command

(* A server in its "init" phase has an attempt left.                       *)
AttemptLeft == spc = "init" => tries < MaxTries

(* Nothing the server knows of is newer than the newest command issued.    *)
NothingFromTheFuture ==
    /\ \A i \in 1..Len(log) : log[i].cmd.id <= issued
    /\ \A c \in Command : cmdFile = CommandText(c) => c.id <= issued

(* A command in the file is not older than anything carried out, and two   *)
(* commands with one stamp are one command.                                *)
FileNotOlder ==
    \A c \in Command : cmdFile = CommandText(c) =>
        \A i \in 1..Len(log) :
            log[i].cmd.id < c.id \/ log[i].cmd = c

(* A server that is past its "init" phase remembers the command in the     *)
(* file if it was carried out, by itself or by an earlier server.          *)
LoggedIsRemembered ==
    spc \notin {"down", "init"} =>
        \A c \in Command : cmdFile = CommandText(c) =>
            \A i \in 1..Len(log) : log[i].cmd = c => c \in history

(* The command being executed is newer than all that was carried out.      *)
ExecutingIsNew ==
    spc = "exec" =>
        /\ current \in Command /\ current \in history
        /\ current.op # "init"
        /\ current.id <= issued
        /\ \A i \in 1..Len(log) : log[i].cmd.id < current.id
        /\ \A c \in Command : cmdFile = CommandText(c) =>
               current.id < c.id \/ current = c

(* Every answer on its way is in the log.                                  *)
TextsAreLogged ==
    /\ spc = "reply" => current \in Command /\ Logged(current, answer)
    /\ \A c \in Command, r \in Result : resFile = AnswerText(c, r) => Logged(c, r)

IInv ==
    /\ TypeOK
    /\ CallHasCommand
    /\ AttemptLeft
    /\ NothingFromTheFuture
    /\ FileNotOlder
    /\ LoggedIsRemembered
    /\ ExecutingIsNew
    /\ TextsAreLogged
    /\ AnswersAreOwn
    /\ InOrderOnce

-------------------------------------------------------------------------------
(* What appending an entry does to the log.                                *)
LEMMA LogGrows ==
    ASSUME log \in Seq(Entry), NEW c \in Command, NEW r \in Result,
           log' = Append(log, [cmd |-> c, res |-> r])
    PROVE  /\ log' \in Seq(Entry)
           /\ Len(log) \in Nat
           /\ Len(log') = Len(log) + 1
           /\ \A i \in 1..Len(log) : log'[i] = log[i]
           /\ log'[Len(log) + 1] = [cmd |-> c, res |-> r]
           /\ \A i \in 1..Len(log) : log[i] \in Entry
<1>1. [cmd |-> c, res |-> r] \in Entry
  BY DEF Entry
<1> QED
  BY <1>1

(* The log remembers: what was logged stays logged, the new entry is.      *)
LEMMA LoggedGrows ==
    ASSUME log \in Seq(Entry), NEW c \in Command, NEW r \in Result,
           log' = Append(log, [cmd |-> c, res |-> r])
    PROVE  /\ Logged(c, r)'
           /\ \A d, q : Logged(d, q) => Logged(d, q)'
<1>1. PICK n \in Nat : n = Len(log)
  BY LogGrows
<1>2. Len(log') = n + 1 /\ \A i \in 1..n : log'[i] = log[i]
  BY <1>1, LogGrows
<1>3. Logged(c, r)'
  <2>1. n + 1 \in 1..Len(log') /\ log'[n + 1] = [cmd |-> c, res |-> r]
    BY <1>1, <1>2, LogGrows
  <2> QED
    BY <2>1 DEF Logged
<1>4. ASSUME NEW d, NEW q, Logged(d, q)
      PROVE  Logged(d, q)'
  <2>1. PICK i \in 1..n : log[i] = [cmd |-> d, res |-> q]
    BY <1>1, <1>4 DEF Logged
  <2>2. i \in 1..Len(log') /\ log'[i] = [cmd |-> d, res |-> q]
    BY <1>2, <2>1
  <2> QED
    BY <2>2 DEF Logged
<1> QED
  BY <1>3, <1>4

(* Appending a command that is in order keeps the log in order.            *)
LEMMA OrderGrows ==
    ASSUME log \in Seq(Entry), InOrderOnce,
           NEW c \in Command, NEW r \in Result,
           log' = Append(log, [cmd |-> c, res |-> r]),
           \A i \in 1..Len(log) :
               log[i].cmd.id < c.id \/ (log[i].cmd = c /\ c.op = "init")
    PROVE  InOrderOnce'
<1>1. PICK n \in Nat : n = Len(log)
  BY LogGrows
<1>2. /\ Len(log') = n + 1 /\ \A i \in 1..n : log'[i] = log[i]
      /\ log'[n + 1] = [cmd |-> c, res |-> r]
  BY <1>1, LogGrows
<1>3. SUFFICES ASSUME NEW i \in 1..(n + 1), NEW j \in 1..(n + 1), i < j
               PROVE  \/ log'[i].cmd.id < log'[j].cmd.id
                      \/ log'[i].cmd = log'[j].cmd /\ log'[i].cmd.op = "init"
  BY <1>2 DEF InOrderOnce
<1>4. CASE j \in 1..n
  BY <1>1, <1>2, <1>3, <1>4 DEF InOrderOnce
<1>5. CASE j = n + 1
  <2>1. i \in 1..n
    BY <1>3, <1>5
  <2> QED
    BY <1>1, <1>2, <1>5, <2>1
<1> QED
  BY <1>1, <1>3, <1>4, <1>5

-------------------------------------------------------------------------------
(* Type correctness                                                        *)

LEMMA TextTypes ==
    /\ Empty \in Text /\ Eof \in Text
    /\ \A c \in Command : CommandText(c) \in Text
    /\ \A c \in Command, r \in Result : AnswerText(c, r) \in Text
    /\ NoCommand \notin Command
BY DEF Text, Command, NoCommand, Stamp

LEMMA TypeStep ==
    ASSUME TypeOK, CallHasCommand, AttemptLeft, TextsAreLogged, [Next]_vars
    PROVE  TypeOK'
<1> USE ConstantsAssumption DEF TypeOK
<1>1. ASSUME NEW op \in Ops, MasterSend(op) PROVE TypeOK'
  <2>1. [op |-> op, id |-> issued + 1] \in Command
    BY <1>1 DEF MasterSend, Command, Stamp
  <2> QED
    BY <1>1, <2>1, TextTypes DEF MasterSend, server
<1>2. CASE MasterRead
  BY <1>2, TextTypes DEF MasterRead, server
<1>3. CASE MasterTimeout
  BY <1>3, TextTypes DEF MasterTimeout, server
<1>4. CASE MasterPutEof
  BY <1>4, TextTypes DEF MasterPutEof, server
<1>5. CASE MasterClear
  BY <1>5, TextTypes DEF MasterClear, server
<1>6. CASE MasterClearTimeout
  BY <1>6, TextTypes DEF MasterClearTimeout, MasterReturn, CallHasCommand, server
<1>7. CASE MasterAckEof
  BY <1>7, TextTypes DEF MasterAckEof, MasterReturn, CallHasCommand, server
<1>8. CASE MasterRestart
  BY <1>8, TextTypes DEF MasterRestart, server
<1>9. CASE Reply
  BY <1>9, TextTypes DEF Reply, TextsAreLogged, master, serverLocal
<1>10. CASE ServerClear
  BY <1>10, TextTypes DEF ServerClear, master, serverLocal
<1>11. CASE ServerClearTimeout
  BY <1>11, TextTypes DEF ServerClearTimeout, master, serverLocal
<1>12. CASE ServerAckEof
  BY <1>12, TextTypes DEF ServerAckEof, master, serverLocal
<1>13. CASE SimulatorExits
  BY <1>13, TextTypes DEF SimulatorExits, master, serverLocal
<1>14. CASE ServerEnds
  BY <1>14, TextTypes DEF ServerEnds, master, serverLocal
<1>15. CASE ServerStarts
  BY <1>15, TextTypes DEF ServerStarts, Result, master, serverLocal
<1>16. ASSUME NEW c \in Command, AnswerInit(c)
       PROVE  /\ history' \subseteq Command /\ current' \in Command
              /\ answer' \in Result /\ log' \in Seq([cmd : Command, res : Result])
              /\ spc' = "reply" /\ tries' = tries
  <2>1. [cmd |-> c, res |-> "done"] \in [cmd : Command, res : Result]
    BY DEF Result
  <2>2. log' \in Seq([cmd : Command, res : Result])
    BY <1>16, <2>1 DEF AnswerInit
  <2> QED
    BY <1>16, <2>2 DEF AnswerInit, Remember, Result
<1>17. CASE InitAttempt
  <2>1. CASE \E c \in Command : Fresh(c) /\ AnswerInit(c)
    BY <1>16, <1>17, <2>1 DEF InitAttempt, master
  <2>2. CASE ~ \E c \in Command : Fresh(c) /\ AnswerInit(c)
    <3>1. UNCHANGED <<answer, log, cmdFile, resFile, master, simulator, starts>>
      BY <1>17, <2>2 DEF InitAttempt
    <3>2. tries' = tries + 1 /\ spc' = IF tries + 1 = MaxTries THEN "down" ELSE "init"
      BY <1>17, <2>2 DEF InitAttempt
    <3>3. history' \subseteq Command /\ current' \in Command \cup {NoCommand}
      BY <1>17, <2>2 DEF InitAttempt, Remember
    <3>4. tries < MaxTries
      BY <1>17 DEF InitAttempt, AttemptLeft
    <3> QED
      BY <3>1, <3>2, <3>3, <3>4 DEF master
  <2> QED
    BY <2>1, <2>2
<1>18. CASE Run
  BY <1>18 DEF Run, Remember, master
<1>19. CASE RunInit
  <2>1. CASE \E c \in Command : Fresh(c) /\ AnswerInit(c)
    BY <1>16, <1>19, <2>1 DEF RunInit, master
  <2>2. CASE ~ \E c \in Command : Fresh(c) /\ AnswerInit(c)
    BY <1>19, <2>2 DEF RunInit, Remember, master
  <2> QED
    BY <2>1, <2>2
<1>20. ASSUME NEW op \in AllOps, Executing(op), NEW r \in Result, CarriedOut(r)
       PROVE  /\ log' \in Seq([cmd : Command, res : Result])
              /\ UNCHANGED <<cmdFile, resFile, issued, mpc, mcmd, mstatus, returned,
                              history, current, tries, starts>>
  <2>1. current \in Command
    BY <1>20 DEF Executing, NoCommand, AllOps
  <2>2. [cmd |-> current, res |-> r] \in [cmd : Command, res : Result]
    BY <2>1
  <2> QED
    BY <1>20, <2>2 DEF Executing, CarriedOut, master
<1>21. CASE Backup
  BY <1>20, <1>21 DEF Backup, Answering, AllOps, Result
<1>22. CASE Start
  BY <1>20, <1>22 DEF Start, Answering, AllOps, Result
<1>23. CASE CheckSuccess
  BY <1>20, <1>23 DEF CheckSuccess, Silently, AllOps, Result
<1>24. CASE ProcessPoll
  BY <1>20, <1>24 DEF ProcessPoll, Answering, AllOps, Result
<1>25. CASE Stop
  BY <1>20, <1>25 DEF Stop, Silently, Answering, AllOps, Result
<1>26. CASE UNCHANGED vars
  BY <1>26 DEF vars, master, server
<1> QED
  BY <1>1, <1>2, <1>3, <1>4, <1>5, <1>6, <1>7, <1>8, <1>9, <1>10, <1>11, <1>12,
     <1>13, <1>14, <1>15, <1>17, <1>18, <1>19, <1>21, <1>22, <1>23, <1>24, <1>25,
     <1>26 DEF Next, MasterStep, ServerStep

-------------------------------------------------------------------------------
(* The steps that add to the log: the server answers "init" in the step    *)
(* that reads it, or ends the execution of another command.  Either way    *)
(* the command is remembered, in order, and not from the future.           *)

CarriesOut(c, r) ==
    /\ log' = Append(log, [cmd |-> c, res |-> r])
    /\ c \in history'
    /\ c.id <= issued
    /\ \A i \in 1..Len(log) :
           log[i].cmd.id < c.id \/ (log[i].cmd = c /\ c.op = "init")
    /\ \A d \in Command : cmdFile = CommandText(d) => c.id < d.id \/ c = d
    /\ UNCHANGED <<cmdFile, resFile, master>>
    /\ spc' \in {"main", "reply", "down"}
    /\ history \subseteq history'
    /\ spc' = "reply" => current' = c /\ answer' = r
    /\ spc \in {"init", "reinit", "exec"}
    /\ spc = "init" => c \in history' /\ cmdFile = CommandText(c)

LEMMA CommandTextInjective ==
    \A c, d : CommandText(c) = CommandText(d) => c = d
<1> SUFFICES ASSUME NEW c, NEW d, CommandText(c) = CommandText(d) PROVE c = d
  OBVIOUS
<1>1. CommandText(c).cmd = CommandText(d).cmd
  OBVIOUS
<1> QED
  BY <1>1 DEF CommandText

LEMMA InitCarriesOut ==
    ASSUME IInv, NEW c \in Command, Fresh(c), AnswerInit(c),
           spc \in {"init", "reinit"},
           UNCHANGED <<cmdFile, resFile, master, simulator, starts>>
    PROVE  CarriesOut(c, "done")
<1>1. \A i \in 1..Len(log) : log[i].cmd.id < c.id \/ (log[i].cmd = c /\ c.op = "init")
  BY DEF IInv, FileNotOlder, Fresh, AnswerInit
<1>2. \A d \in Command : cmdFile = CommandText(d) => c.id < d.id \/ c = d
  BY CommandTextInjective DEF Fresh
<1> QED
  BY <1>1, <1>2 DEF CarriesOut, AnswerInit, Remember, Fresh, IInv, NothingFromTheFuture

LEMMA ExecCarriesOut ==
    ASSUME IInv, NEW op, Executing(op), NEW r \in Result, CarriedOut(r),
           spc' \in {"main", "reply", "down"},
           spc' = "reply" => answer' = r
    PROVE  current \in Command /\ CarriesOut(current, r)
BY DEF IInv, ExecutingIsNew, Executing, CarriedOut, CarriesOut

LEMMA CarriesOutStep ==
    ASSUME IInv, NEW c \in Command, NEW r \in Result, CarriesOut(c, r)
    PROVE  /\ CallHasCommand' /\ AttemptLeft' /\ NothingFromTheFuture'
           /\ FileNotOlder' /\ LoggedIsRemembered' /\ ExecutingIsNew'
           /\ TextsAreLogged' /\ AnswersAreOwn' /\ InOrderOnce'
<1>1. log \in Seq(Entry) /\ log' = Append(log, [cmd |-> c, res |-> r])
  BY DEF IInv, TypeOK, Entry, CarriesOut
<1>2. PICK n \in Nat : n = Len(log)
  BY <1>1, LogGrows
<1>3. /\ Len(log') = n + 1 /\ \A i \in 1..n : log'[i] = log[i]
      /\ log'[n + 1] = [cmd |-> c, res |-> r]
      /\ \A i \in 1..n : log[i] \in Entry
  BY <1>1, <1>2, LogGrows
<1>4. \A i \in 1..Len(log') : i \in 1..n \/ i = n + 1
  BY <1>3
<1>5. InOrderOnce'
  BY <1>1, OrderGrows DEF IInv, CarriesOut
<1>6. CallHasCommand' /\ AttemptLeft' /\ ExecutingIsNew'
  BY DEF IInv, CarriesOut, CallHasCommand, AttemptLeft, ExecutingIsNew, master
<1>7. NothingFromTheFuture'
  BY <1>2, <1>3, <1>4 DEF IInv, CarriesOut, NothingFromTheFuture, master
<1>8. FileNotOlder'
  BY <1>2, <1>3, <1>4 DEF IInv, CarriesOut, FileNotOlder
<1>9. LoggedIsRemembered'
  <2> SUFFICES ASSUME spc' \notin {"down", "init"}, NEW d \in Command,
                      cmdFile' = CommandText(d), NEW i \in 1..Len(log'), log'[i].cmd = d
               PROVE  d \in history'
    BY DEF LoggedIsRemembered
  <2>1. CASE i = n + 1
    BY <1>3, <2>1 DEF CarriesOut
  <2>2. CASE i \in 1..n /\ spc = "init"
    BY <2>2, CommandTextInjective DEF CarriesOut
  <2>3. CASE i \in 1..n /\ spc # "init"
    BY <1>2, <1>3, <2>3 DEF CarriesOut, IInv, LoggedIsRemembered
  <2> QED
    BY <1>4, <2>1, <2>2, <2>3
<1>10. Logged(c, r)' /\ \A d, q : Logged(d, q) => Logged(d, q)'
  BY <1>1, LoggedGrows
<1>11. TextsAreLogged'
  BY <1>10 DEF IInv, CarriesOut, TextsAreLogged
<1>12. AnswersAreOwn'
  <2>1. UNCHANGED <<mpc, mcmd, mstatus, returned>>
    BY DEF CarriesOut, master
  <2> QED
    BY <1>10, <2>1 DEF IInv, AnswersAreOwn
<1> QED
  BY <1>5, <1>6, <1>7, <1>8, <1>9, <1>11, <1>12

-------------------------------------------------------------------------------
(* The inductive invariant                                                 *)

LEMMA TextsDiffer ==
    /\ \A c : CommandText(c) # Eof /\ CommandText(c) # Empty
    /\ \A c, r : AnswerText(c, r) # Eof /\ AnswerText(c, r) # Empty
    /\ \A c, r, d : AnswerText(c, r) # CommandText(d)
BY DEF CommandText, AnswerText, Eof, Empty

LEMMA AnswerTextInjective ==
    \A c, r, d, q : AnswerText(c, r) = AnswerText(d, q) => c = d /\ r = q
<1> SUFFICES ASSUME NEW c, NEW r, NEW d, NEW q, AnswerText(c, r) = AnswerText(d, q)
             PROVE  c = d /\ r = q
  OBVIOUS
<1>1. /\ AnswerText(c, r).cmd = AnswerText(d, q).cmd
      /\ AnswerText(c, r).res = AnswerText(d, q).res
  OBVIOUS
<1> QED
  BY <1>1 DEF AnswerText

LEMMA StepInv ==
    ASSUME IInv, [Next]_vars
    PROVE  IInv'
<1> DEFINE Rest ==
       /\ CallHasCommand /\ AttemptLeft /\ NothingFromTheFuture
       /\ FileNotOlder /\ LoggedIsRemembered /\ ExecutingIsNew
       /\ TextsAreLogged /\ AnswersAreOwn /\ InOrderOnce
<1>0. TypeOK'
  BY TypeStep DEF IInv
<1> SUFFICES Rest'
  BY <1>0 DEF IInv
<1>1. ASSUME NEW op \in Ops, MasterSend(op) PROVE Rest'
  <2> DEFINE c == [op |-> op, id |-> issued + 1]
  <2>1. /\ c \in Command /\ cmdFile' = CommandText(c) /\ mcmd' = c
        /\ issued' = c.id /\ mpc' = "poll"
        /\ UNCHANGED <<resFile, returned, server>>
    BY <1>1, ConstantsAssumption DEF MasterSend, IInv, TypeOK, Command, Stamp
  <2>2. /\ issued \in Nat /\ c.id = issued + 1 /\ log \in Seq(Entry)
        /\ \A i \in 1..Len(log) : log[i] \in Entry
    <3>1. issued \in Nat /\ log \in Seq(Entry)
      BY ConstantsAssumption DEF IInv, TypeOK, Entry
    <3>2. c.id = issued + 1
      OBVIOUS
    <3> QED
      BY <3>1, <3>2
  <2>3. \A d \in Command : cmdFile' = CommandText(d) => d = c
    BY <2>1, CommandTextInjective
  <2>4. \A i \in 1..Len(log) : log[i].cmd.id < c.id /\ log[i].cmd.id \in Nat
    <3>1. \A i \in 1..Len(log) : log[i].cmd.id \in Nat
      BY <2>2 DEF Entry, Command, Stamp
    <3> QED
      BY <2>2, <3>1 DEF IInv, NothingFromTheFuture
  <2> HIDE DEF c
  <2>5. CallHasCommand' /\ AttemptLeft'
    BY <2>1 DEF IInv, CallHasCommand, AttemptLeft, server
  <2>6. NothingFromTheFuture'
    BY <2>1, <2>2, <2>3, <2>4 DEF NothingFromTheFuture, server, Command, Stamp
  <2>7. FileNotOlder'
    BY <2>1, <2>3, <2>4 DEF FileNotOlder, server
  <2>8. LoggedIsRemembered'
    BY <2>1, <2>3, <2>4 DEF LoggedIsRemembered, server, Command, Stamp
  <2>9. ExecutingIsNew'
    BY <2>1, <2>2, <2>3 DEF IInv, ExecutingIsNew, server, Command, Stamp
  <2>10. TextsAreLogged' /\ AnswersAreOwn' /\ InOrderOnce'
    BY <2>1 DEF IInv, TextsAreLogged, AnswersAreOwn, InOrderOnce, Logged, server
  <2> QED
    BY <2>5, <2>6, <2>7, <2>8, <2>9, <2>10
<1>2. CASE MasterRead
  BY <1>2, TextsDiffer, AnswerTextInjective DEF MasterRead, server, IInv, TypeOK,
     CallHasCommand, AttemptLeft, NothingFromTheFuture,
     FileNotOlder, LoggedIsRemembered, ExecutingIsNew, TextsAreLogged,
     AnswersAreOwn, InOrderOnce, Logged
<1>3. CASE MasterTimeout
  BY <1>3, TextsDiffer, AnswerTextInjective DEF MasterTimeout, server, IInv, TypeOK,
     CallHasCommand, AttemptLeft, NothingFromTheFuture,
     FileNotOlder, LoggedIsRemembered, ExecutingIsNew, TextsAreLogged,
     AnswersAreOwn, InOrderOnce, Logged
<1>4. CASE MasterPutEof
  BY <1>4, TextsDiffer, AnswerTextInjective DEF MasterPutEof, server, IInv, TypeOK,
     CallHasCommand, AttemptLeft, NothingFromTheFuture,
     FileNotOlder, LoggedIsRemembered, ExecutingIsNew, TextsAreLogged,
     AnswersAreOwn, InOrderOnce, Logged
<1>5. CASE MasterClear
  BY <1>5, TextsDiffer, AnswerTextInjective DEF MasterClear, server, IInv, TypeOK,
     CallHasCommand, AttemptLeft, NothingFromTheFuture,
     FileNotOlder, LoggedIsRemembered, ExecutingIsNew, TextsAreLogged,
     AnswersAreOwn, InOrderOnce, Logged
<1>6. CASE MasterClearTimeout
  BY <1>6, TextsDiffer, AnswerTextInjective DEF MasterClearTimeout, MasterReturn, server, IInv, TypeOK,
     CallHasCommand, AttemptLeft, NothingFromTheFuture,
     FileNotOlder, LoggedIsRemembered, ExecutingIsNew, TextsAreLogged,
     AnswersAreOwn, InOrderOnce, Logged
<1>7. CASE MasterAckEof
  BY <1>7, TextsDiffer, AnswerTextInjective DEF MasterAckEof, MasterReturn, server, IInv, TypeOK,
     CallHasCommand, AttemptLeft, NothingFromTheFuture,
     FileNotOlder, LoggedIsRemembered, ExecutingIsNew, TextsAreLogged,
     AnswersAreOwn, InOrderOnce, Logged
<1>8. CASE MasterRestart
  BY <1>8, TextsDiffer, AnswerTextInjective DEF MasterRestart, server, IInv, TypeOK,
     CallHasCommand, AttemptLeft, NothingFromTheFuture,
     FileNotOlder, LoggedIsRemembered, ExecutingIsNew, TextsAreLogged,
     AnswersAreOwn, InOrderOnce, Logged
<1>9. CASE Reply
  BY <1>9, TextsDiffer, AnswerTextInjective DEF Reply, master, serverLocal, IInv, TypeOK,
     CallHasCommand, AttemptLeft, NothingFromTheFuture,
     FileNotOlder, LoggedIsRemembered, ExecutingIsNew, TextsAreLogged,
     AnswersAreOwn, InOrderOnce, Logged
<1>10. CASE ServerClear
  BY <1>10, TextsDiffer, AnswerTextInjective DEF ServerClear, master, serverLocal, IInv, TypeOK,
     CallHasCommand, AttemptLeft, NothingFromTheFuture,
     FileNotOlder, LoggedIsRemembered, ExecutingIsNew, TextsAreLogged,
     AnswersAreOwn, InOrderOnce, Logged
<1>11. CASE ServerClearTimeout
  BY <1>11, TextsDiffer, AnswerTextInjective DEF ServerClearTimeout, master, serverLocal, IInv, TypeOK,
     CallHasCommand, AttemptLeft, NothingFromTheFuture,
     FileNotOlder, LoggedIsRemembered, ExecutingIsNew, TextsAreLogged,
     AnswersAreOwn, InOrderOnce, Logged
<1>12. CASE ServerAckEof
  BY <1>12, TextsDiffer, AnswerTextInjective DEF ServerAckEof, master, serverLocal, IInv, TypeOK,
     CallHasCommand, AttemptLeft, NothingFromTheFuture,
     FileNotOlder, LoggedIsRemembered, ExecutingIsNew, TextsAreLogged,
     AnswersAreOwn, InOrderOnce, Logged
<1>13. CASE SimulatorExits
  BY <1>13, TextsDiffer, AnswerTextInjective DEF SimulatorExits, master, serverLocal, IInv, TypeOK,
     CallHasCommand, AttemptLeft, NothingFromTheFuture,
     FileNotOlder, LoggedIsRemembered, ExecutingIsNew, TextsAreLogged,
     AnswersAreOwn, InOrderOnce, Logged
<1>14. CASE ServerEnds
  BY <1>14, TextsDiffer, AnswerTextInjective DEF ServerEnds, master, serverLocal, IInv, TypeOK,
     CallHasCommand, AttemptLeft, NothingFromTheFuture,
     FileNotOlder, LoggedIsRemembered, ExecutingIsNew, TextsAreLogged,
     AnswersAreOwn, InOrderOnce, Logged
<1>15. CASE ServerStarts
  BY <1>15, ConstantsAssumption, TextsDiffer, AnswerTextInjective DEF ServerStarts, master, serverLocal, IInv, TypeOK,
     CallHasCommand, AttemptLeft, NothingFromTheFuture,
     FileNotOlder, LoggedIsRemembered, ExecutingIsNew, TextsAreLogged,
     AnswersAreOwn, InOrderOnce, Logged
<1>16. CASE Run
  <2> PICK c \in Command : Fresh(c) /\ Remember(c)
                          /\ spc' = IF c.op = "init" THEN "reinit" ELSE "exec"
    BY <1>16 DEF Run
  <2>1. UNCHANGED <<cmdFile, resFile, master, answer, tries, simulator, starts, log>>
        /\ spc = "main" /\ spc' \in {"reinit", "exec"}
    BY <1>16 DEF Run
  <2>2. \A d \in Command : cmdFile = CommandText(d) => d = c
    BY CommandTextInjective DEF Fresh
  <2>3. \A i \in 1..Len(log) : log[i].cmd.id < c.id
    BY <2>1 DEF Fresh, IInv, FileNotOlder, LoggedIsRemembered
  <2>4. ExecutingIsNew'
    BY <2>1, <2>2, <2>3 DEF ExecutingIsNew, Remember, Fresh, IInv, NothingFromTheFuture, master
  <2>5. LoggedIsRemembered'
    BY <2>1 DEF LoggedIsRemembered, Remember, IInv
  <2> QED
    BY <2>1, <2>4, <2>5 DEF Remember, master, IInv,
       CallHasCommand, AttemptLeft, NothingFromTheFuture, FileNotOlder,
       TextsAreLogged, AnswersAreOwn, InOrderOnce, Logged
<1>17. CASE InitAttempt
  <2>1. CASE \E c \in Command : Fresh(c) /\ AnswerInit(c)
    BY <1>17, <2>1, InitCarriesOut, CarriesOutStep DEF InitAttempt, Result
  <2>2. CASE ~ \E c \in Command : Fresh(c) /\ AnswerInit(c)
    <3>1. /\ UNCHANGED <<cmdFile, resFile, master, answer, simulator, starts, log>>
          /\ tries' = tries + 1
          /\ spc' = IF tries + 1 = MaxTries THEN "down" ELSE "init"
      BY <1>17, <2>2 DEF InitAttempt
    <3>2. AttemptLeft'
      BY <3>1, <1>17, ConstantsAssumption DEF InitAttempt, IInv, TypeOK, AttemptLeft
    <3> QED
      BY <3>1, <3>2 DEF master, IInv, CallHasCommand, NothingFromTheFuture,
         FileNotOlder, LoggedIsRemembered, ExecutingIsNew, TextsAreLogged,
         AnswersAreOwn, InOrderOnce, Logged
  <2> QED
    BY <2>1, <2>2
<1>18. CASE RunInit
  <2>1. CASE \E c \in Command : Fresh(c) /\ AnswerInit(c)
    BY <1>18, <2>1, InitCarriesOut, CarriesOutStep DEF RunInit, Result
  <2>2. CASE ~ \E c \in Command : Fresh(c) /\ AnswerInit(c)
    <3>1. /\ UNCHANGED <<cmdFile, resFile, master, answer, tries, simulator, starts, log>>
          /\ spc = "reinit" /\ spc' = "main" /\ history \subseteq history'
      BY <1>18, <2>2 DEF RunInit, Remember
    <3> QED
      BY <3>1 DEF master, IInv, CallHasCommand, AttemptLeft, NothingFromTheFuture,
         FileNotOlder, LoggedIsRemembered, ExecutingIsNew, TextsAreLogged,
         AnswersAreOwn, InOrderOnce, Logged
  <2> QED
    BY <2>1, <2>2
<1>19. CASE Backup
  BY <1>19, ExecCarriesOut, CarriesOutStep DEF Backup, Answering, Result
<1>20. CASE Start
  BY <1>20, ExecCarriesOut, CarriesOutStep DEF Start, Answering, Result
<1>21. CASE CheckSuccess
  BY <1>21, ExecCarriesOut, CarriesOutStep DEF CheckSuccess, Silently, Result
<1>22. CASE ProcessPoll
  BY <1>22, ExecCarriesOut, CarriesOutStep DEF ProcessPoll, Answering, Result
<1>23. CASE Stop
  BY <1>23, ExecCarriesOut, CarriesOutStep DEF Stop, Silently, Answering, Result
<1>24. CASE UNCHANGED vars
  BY <1>24 DEF vars, master, server, IInv, TypeOK,
     CallHasCommand, AttemptLeft, NothingFromTheFuture,
     FileNotOlder, LoggedIsRemembered, ExecutingIsNew, TextsAreLogged,
     AnswersAreOwn, InOrderOnce, Logged
<1> QED
  BY <1>1, <1>2, <1>3, <1>4, <1>5, <1>6, <1>7, <1>8, <1>9, <1>10, <1>11, <1>12, <1>13,
     <1>14, <1>15, <1>16, <1>17, <1>18, <1>19, <1>20, <1>21, <1>22, <1>23, <1>24
     DEF Next, MasterStep, ServerStep

LEMMA InitInv ==
    ASSUME Init
    PROVE  IInv
<1>1. TypeOK
  BY TextTypes, ConstantsAssumption DEF Init, TypeOK, Result
<1>2. AttemptLeft
  BY ConstantsAssumption DEF Init, AttemptLeft
<1>3. Len(log) = 0
  BY DEF Init
<1> QED
  BY <1>1, <1>2, <1>3, TextsDiffer DEF Init, IInv, CallHasCommand,
     NothingFromTheFuture, FileNotOlder, LoggedIsRemembered, ExecutingIsNew,
     TextsAreLogged, AnswersAreOwn, InOrderOnce

(* IInv holds in every reachable state of both files and both programs.    *)
THEOREM Inductive == Spec => []IInv
BY InitInv, StepInv, PTL DEF Spec

(* Files, program counters and histories stay within their types, whatever *)
(* is issued and whatever fails.                                           *)
THEOREM TypeCorrect == Spec => []TypeOK
<1>1. IInv => TypeOK
  BY DEF IInv
<1> QED
  BY <1>1, Inductive, PTL

(* clear_command's textual test is enough: the master only ever returns a  *)
(* status the server computed for that very command.                       *)
THEOREM AnswersTheorem == Spec => []AnswersAreOwn
<1>1. IInv => AnswersAreOwn
  BY DEF IInv
<1> QED
  BY <1>1, Inductive, PTL

(* The history of get_cmd_param and the attempts of main() are enough: no  *)
(* command but "init" is carried out twice or late, however often the      *)
(* server is started again over old files.                                 *)
THEOREM OrderTheorem == Spec => []InOrderOnce
<1>1. IInv => InOrderOnce
  BY DEF IInv
<1> QED
  BY <1>1, Inductive, PTL

-------------------------------------------------------------------------------
(* Refinement                                                              *)

LEMMA CarriesOutMaps ==
    ASSUME IInv, NEW c \in Command, NEW r \in Result, CarriesOut(c, r)
    PROVE  RC!CarryOut(c, r)
BY DEF CarriesOut, RC!CarryOut, RC!InOrder, master

(* A step that touches neither the log nor what the master's client sees.  *)
LEMMA Stutters ==
    ASSUME UNCHANGED <<issued, mcmd, log, returned>>
    PROVE  UNCHANGED RC!vars
BY DEF RC!vars

LEMMA ReturnMaps ==
    ASSUME IInv, MasterReturn, mpc \in {"clear", "ackEof"}
    PROVE  RC!Answer(mstatus)
<1>1. mcmd # NoCommand /\ Logged(mcmd, mstatus)
  BY TextTypes DEF IInv, CallHasCommand, AnswersAreOwn
<1> QED
  BY <1>1 DEF MasterReturn, RC!Answer, Logged, server

LEMMA StepMaps ==
    ASSUME IInv, [Next]_vars
    PROVE  [RC!Next]_(RC!vars)
<1> SUFFICES RC!Next \/ UNCHANGED RC!vars
  OBVIOUS
<1> DEFINE Maps == RC!Next \/ UNCHANGED RC!vars
<1>1. ASSUME NEW op \in Ops, MasterSend(op) PROVE Maps
  <2> DEFINE c == [op |-> op, id |-> issued + 1]
  <2>1. c \in Command
    BY <1>1, ConstantsAssumption DEF MasterSend, IInv, TypeOK, Command, Stamp
  <2>2. c.id = issued + 1 /\ issued \in Nat
    BY ConstantsAssumption DEF IInv, TypeOK
  <2>3. RC!Call(c)
    BY <1>1, <2>2 DEF MasterSend, RC!Call, IInv, CallHasCommand, server
  <2> QED
    BY <2>1, <2>3 DEF RC!Next
<1>2. ASSUME NEW c \in Command, NEW r \in Result, CarriesOut(c, r) PROVE Maps
  BY <1>2, CarriesOutMaps DEF RC!Next
<1>3. CASE MasterTimeout \/ MasterRestart
  <2>1. RC!GiveUp
    BY <1>3, TextTypes DEF MasterTimeout, MasterRestart, RC!GiveUp, IInv, CallHasCommand, server
  <2> QED
    BY <2>1 DEF RC!Next
<1>4. CASE MasterClearTimeout \/ MasterAckEof
  <2>1. RC!Answer(mstatus)
    BY <1>4, ReturnMaps DEF MasterClearTimeout, MasterAckEof
  <2> QED
    BY <2>1 DEF RC!Next, IInv, TypeOK
<1>5. CASE MasterRead \/ MasterPutEof \/ MasterClear
  BY <1>5, Stutters DEF MasterRead, MasterPutEof, MasterClear, server
<1>6. CASE \/ Reply \/ ServerClear \/ ServerClearTimeout \/ ServerAckEof
           \/ SimulatorExits \/ ServerEnds \/ ServerStarts \/ Run
  BY <1>6, Stutters DEF Reply, ServerClear, ServerClearTimeout, ServerAckEof,
     SimulatorExits, ServerEnds, ServerStarts, Run, master
<1>7. CASE InitAttempt \/ RunInit
  <2>1. CASE \E c \in Command : Fresh(c) /\ AnswerInit(c)
    BY <1>2, <1>7, <2>1, InitCarriesOut DEF InitAttempt, RunInit, Result
  <2>2. CASE ~ \E c \in Command : Fresh(c) /\ AnswerInit(c)
    BY <1>7, <2>2, Stutters DEF InitAttempt, RunInit, master
  <2> QED
    BY <2>1, <2>2
<1>8. CASE Backup \/ Start \/ ProcessPoll
  BY <1>2, <1>8, ExecCarriesOut DEF Backup, Start, ProcessPoll, Answering, Result
<1>9. CASE CheckSuccess \/ Stop
  BY <1>2, <1>9, ExecCarriesOut DEF CheckSuccess, Stop, Silently, Answering, Result
<1>10. CASE UNCHANGED vars
  BY <1>10, Stutters DEF vars, master, server
<1> QED
  BY <1>1, <1>3, <1>4, <1>5, <1>6, <1>7, <1>8, <1>9, <1>10 DEF Next, MasterStep, ServerStep

(* Two polled text files implement the abstract remote call: every answer  *)
(* is the answer of RemoteCall, and the handshake is invisible outside.    *)
THEOREM Refinement == Spec => ImplementsRemoteCall
<1>1. Init => RC!Init
  BY DEF Init, RC!Init
<1>2. IInv /\ [Next]_vars => [RC!Next]_(RC!vars)
  BY StepMaps
<1> QED
  BY <1>1, <1>2, Inductive, PTL DEF Spec, ImplementsRemoteCall, RC!Spec


-------------------------------------------------------------------------------
(* What is read is carried out                                             *)

(* The server has read nothing newer than what is in the file.             *)
FileIsNewest ==
    /\ \A h \in history : h.id <= issued
    /\ \A c \in Command : cmdFile = CommandText(c) =>
           \A h \in history : h.id < c.id \/ h = c

(* Looking for "init" the server has read none; after that the command it  *)
(* read last is the newest it knows of, and an "init" is not carried out.  *)
ReadLast ==
    /\ spc = "init" => \A d \in history : d.op # "init"
    /\ spc \notin {"init", "down"} =>
           current \in history /\ \A h \in history : h.id <= current.id
    /\ spc = "reinit" => current.op = "init" /\ NeverDone(current)

HInv == FileIsNewest /\ ReadLast /\ LostAroundInit

(* The server reads a command: it is newer than all it has read.           *)
LEMMA ReadIsNewest ==
    ASSUME IInv, HInv, NEW c \in Command, Fresh(c), Remember(c), UNCHANGED <<cmdFile, issued>>
    PROVE  /\ \A h \in history : h.id < c.id /\ h # c
           /\ FileIsNewest' /\ current' = c /\ history' = history \cup {c}
           /\ \A h \in history' : h.id <= current'.id
           /\ c.id \in Nat /\ \A h \in history : h.id \in Nat
<1>1. c.id \in Nat /\ \A h \in history : h.id \in Nat
  BY DEF IInv, TypeOK, Command, Stamp
<1>2. c.id <= issued /\ \A h \in history : h.id < c.id /\ h # c
  BY DEF Fresh, IInv, NothingFromTheFuture, HInv, FileIsNewest
<1>3. current' = c /\ history' = history \cup {c}
  BY DEF Remember
<1>4. \A d \in Command : cmdFile = CommandText(d) => d = c
  BY CommandTextInjective DEF Fresh
<1>5. FileIsNewest'
  BY <1>1, <1>2, <1>3, <1>4 DEF HInv, FileIsNewest
<1> QED
  BY <1>1, <1>2, <1>3, <1>5

(* What was lost before a command is read was lost around an "init", and   *)
(* stays so.                                                               *)
LEMMA OldLosses ==
    ASSUME HInv, NEW c, history' = history \cup {c},
           \A h \in history : h.id < c.id /\ h.id \in Nat, c.id \in Nat,
           \A d \in history : NeverDone(d) => NeverDone(d)',
           NEW b \in history, Lost(b)
    PROVE  \/ \A d \in history' : d.op = "init" => b.id < d.id
           \/ \E d \in history' :
                /\ d.op = "init" /\ NeverDone(d)' /\ d.id < b.id
                /\ \A e \in history' : ~(d.id < e.id /\ e.id < b.id)
<1>1. CASE \A d \in history : d.op = "init" => b.id < d.id
  BY <1>1
<1>2. CASE \E d \in history :
             /\ d.op = "init" /\ NeverDone(d) /\ d.id < b.id
             /\ \A e \in history : ~(d.id < e.id /\ e.id < b.id)
  <2>1. PICK d \in history :
             /\ d.op = "init" /\ NeverDone(d) /\ d.id < b.id
             /\ \A e \in history : ~(d.id < e.id /\ e.id < b.id)
    BY <1>2
  <2>2. ~(c.id < b.id)
    OBVIOUS
  <2>3. NeverDone(d)'
    BY <2>1
  <2> QED
    BY <2>1, <2>2, <2>3
<1> QED
  BY <1>1, <1>2 DEF HInv, LostAroundInit

(* A command is carried out: it is no loss, and no loss becomes another.   *)
LEMMA HCarriesOut ==
    ASSUME IInv, HInv, NEW c \in Command, NEW r \in Result, CarriesOut(c, r)
    PROVE  /\ \A d : d # c => (NeverDone(d)' <=> NeverDone(d))
           /\ ~NeverDone(c)'
<1>1. log \in Seq(Entry) /\ log' = Append(log, [cmd |-> c, res |-> r])
  BY DEF IInv, TypeOK, Entry, CarriesOut
<1>2. PICK n \in Nat : n = Len(log)
  BY <1>1, LogGrows
<1>3. /\ Len(log') = n + 1 /\ \A i \in 1..n : log'[i] = log[i]
      /\ log'[n + 1] = [cmd |-> c, res |-> r]
  BY <1>1, <1>2, LogGrows
<1>4. n + 1 \in 1..Len(log') /\ log'[n + 1].cmd = c
  BY <1>3
<1>5. ~NeverDone(c)'
  BY <1>4 DEF NeverDone
<1>6. ASSUME NEW d, d # c PROVE NeverDone(d)' <=> NeverDone(d)
  <2>1. \A i \in 1..n + 1 : i \in 1..n \/ i = n + 1
    OBVIOUS
  <2> QED
    BY <1>2, <1>3, <1>6, <2>1 DEF NeverDone
<1> QED
  BY <1>5, <1>6

LEMMA InitIsRead ==
    ASSUME IInv, HInv, NEW c \in Command, Fresh(c), AnswerInit(c), spc \in {"init", "reinit"},
           UNCHANGED <<cmdFile, resFile, master, simulator, starts>>
    PROVE  HInv'
<1>1. Remember(c) /\ spc' = "reply" /\ c.op = "init" /\ UNCHANGED issued
  BY DEF AnswerInit, master
<1>2. /\ \A h \in history : h.id < c.id /\ h # c
      /\ FileIsNewest' /\ current' = c /\ history' = history \cup {c}
      /\ \A h \in history' : h.id <= current'.id
      /\ c.id \in Nat /\ \A h \in history : h.id \in Nat
  BY <1>1, ReadIsNewest
<1>3. /\ \A d : d # c => (NeverDone(d)' <=> NeverDone(d))
      /\ ~NeverDone(c)'
  BY InitCarriesOut, HCarriesOut DEF Result
<1>4. ReadLast'
  BY <1>1, <1>2 DEF ReadLast
<1>5. LostAroundInit'
  <2>1. \A b \in history' : Lost(b)' => b \in history /\ Lost(b)
    BY <1>1, <1>2, <1>3 DEF Lost
  <2>2. \A b \in history : Lost(b) =>
           \/ \A d \in history' : d.op = "init" => b.id < d.id
           \/ \E d \in history' :
                /\ d.op = "init" /\ NeverDone(d)' /\ d.id < b.id
                /\ \A e \in history' : ~(d.id < e.id /\ e.id < b.id)
    BY <1>2, <1>3, OldLosses
  <2> QED
    BY <2>1, <2>2 DEF LostAroundInit
<1> QED
  BY <1>2, <1>4, <1>5 DEF HInv

(* Another command is read.                                                *)
LEMMA CommandIsRead ==
    ASSUME IInv, HInv, NEW c \in Command, Fresh(c), Remember(c),
           UNCHANGED <<cmdFile, resFile, master, log>>,
           \/ spc = "init" /\ spc' \in {"init", "down"} /\ c.op # "init"
           \/ spc = "main" /\ spc' = IF c.op = "init" THEN "reinit" ELSE "exec"
           \/ spc = "reinit" /\ spc' = "main" /\ c.op # "init"
    PROVE  HInv'
<1>0. UNCHANGED issued
  BY DEF master
<1>1. /\ \A h \in history : h.id < c.id /\ h # c
      /\ FileIsNewest' /\ current' = c /\ history' = history \cup {c}
      /\ \A h \in history' : h.id <= current'.id
      /\ c.id \in Nat /\ \A h \in history : h.id \in Nat
  BY <1>0, ReadIsNewest
<1>2. \A d : NeverDone(d)' <=> NeverDone(d)
  BY DEF NeverDone
<1>3. spc = "main" => NeverDone(c)
  BY DEF NeverDone, Fresh, IInv, LoggedIsRemembered
<1>4. ReadLast'
  BY <1>1, <1>2, <1>3 DEF HInv, ReadLast
<1>5. LostAroundInit'
  <2> SUFFICES ASSUME NEW b \in history', Lost(b)'
               PROVE  \/ \A d \in history' : d.op = "init" => b.id < d.id
                      \/ \E d \in history' :
                           /\ d.op = "init" /\ NeverDone(d)' /\ d.id < b.id
                           /\ \A e \in history' : ~(d.id < e.id /\ e.id < b.id)
    BY DEF LostAroundInit
  <2>1. CASE b \in history
    <3>1. Lost(b)
      BY <1>2, <2>1 DEF Lost
    <3> QED
      BY <1>1, <1>2, <2>1, <3>1, OldLosses
  <2>2. CASE b = c /\ spc = "init"
    BY <1>1, <2>2 DEF HInv, ReadLast
  <2>3. CASE b = c /\ spc = "reinit"
    <3>1. /\ current \in history /\ current.op = "init" /\ NeverDone(current)
          /\ \A h \in history : h.id <= current.id
      BY <2>3 DEF HInv, ReadLast
    <3>2. \A e \in history' : ~(current.id < e.id /\ e.id < b.id)
      BY <1>1, <2>3, <3>1
    <3> QED
      BY <1>1, <1>2, <2>3, <3>1, <3>2
  <2>4. CASE b = c /\ spc = "main"
    BY <1>1, <2>4 DEF Lost
  <2> QED
    BY <1>1, <2>1, <2>2, <2>3, <2>4
<1> QED
  BY <1>1, <1>4, <1>5 DEF HInv

LEMMA ExecutedIsNoLoss ==
    ASSUME IInv, HInv, NEW op, Executing(op), NEW r \in Result, CarriedOut(r),
           spc' \in {"main", "reply", "down"}, spc' = "reply" => answer' = r
    PROVE  HInv'
<1>1. /\ current \in Command /\ CarriesOut(current, r) /\ spc = "exec"
      /\ current.op # "init"
      /\ UNCHANGED <<history, current, cmdFile, issued>>
  BY ExecCarriesOut DEF Executing, IInv, ExecutingIsNew, master
<1>2. /\ \A d : d # current => (NeverDone(d)' <=> NeverDone(d))
      /\ ~NeverDone(current)'
  BY <1>1, HCarriesOut
<1>3. FileIsNewest' /\ ReadLast'
  BY <1>1 DEF HInv, FileIsNewest, ReadLast
<1>4. \A b : Lost(b)' => Lost(b)
  BY <1>1, <1>2 DEF Lost
<1>5. \A d : d.op = "init" => (NeverDone(d)' <=> NeverDone(d))
  BY <1>1, <1>2
<1>6. LostAroundInit'
  BY <1>1, <1>4, <1>5 DEF HInv, LostAroundInit
<1> QED
  BY <1>3, <1>6 DEF HInv

(* A step that reads and carries out nothing.                              *)
LEMMA NothingIsRead ==
    ASSUME HInv, UNCHANGED <<history, current, log, cmdFile, issued>>,
           spc' = spc \/ (spc' \in {"main", "clear", "ackEof", "down"}
                          /\ spc \notin {"init", "down", "exec"})
                     \/ spc' = "down"
    PROVE  HInv'
<1>1. FileIsNewest' /\ (\A d : NeverDone(d)' <=> NeverDone(d))
  BY DEF HInv, FileIsNewest, NeverDone
<1>2. ReadLast'
  BY <1>1 DEF HInv, ReadLast
<1>3. \A b : Lost(b)' => Lost(b)
  BY <1>1 DEF Lost
<1>4. LostAroundInit'
  BY <1>1, <1>3 DEF HInv, LostAroundInit
<1> QED
  BY <1>1, <1>2, <1>4 DEF HInv

(* The master writes to the file, or looks at its clock.                   *)
LEMMA MasterIsNewer ==
    ASSUME IInv, HInv, UNCHANGED server,
           \/ \E op \in Ops : MasterSend(op)
           \/ cmdFile' \in {cmdFile, Eof} /\ UNCHANGED issued
    PROVE  HInv'
<1>1. UNCHANGED <<spc, history, current, log>>
  BY DEF server
<1>2. issued \in Nat /\ \A h \in history : h.id \in Nat
  BY ConstantsAssumption DEF IInv, TypeOK, Command, Stamp
<1>3. FileIsNewest'
  <2>1. CASE \E op \in Ops : MasterSend(op)
    <3>1. PICK op \in Ops : MasterSend(op)
      BY <2>1
    <3> DEFINE c == [op |-> op, id |-> issued + 1]
    <3>2. cmdFile' = CommandText(c) /\ issued' = issued + 1 /\ c.id = issued + 1
      BY <3>1 DEF MasterSend
    <3> HIDE DEF c
    <3>3. \A d \in Command : cmdFile' = CommandText(d) => d = c
      BY <3>2, CommandTextInjective
    <3> QED
      BY <1>1, <1>2, <3>2, <3>3 DEF HInv, FileIsNewest
  <2>2. CASE cmdFile' \in {cmdFile, Eof} /\ UNCHANGED issued
    BY <1>1, <2>2, TextsDiffer DEF HInv, FileIsNewest
  <2> QED
    BY <2>1, <2>2
<1>4. ReadLast' /\ LostAroundInit'
  BY <1>1 DEF HInv, ReadLast, LostAroundInit, Lost, NeverDone
<1> QED
  BY <1>3, <1>4 DEF HInv

LEMMA HStepInv ==
    ASSUME IInv, HInv, [Next]_vars
    PROVE  HInv'
<1>1. CASE \E op \in Ops : MasterSend(op)
  BY <1>1, MasterIsNewer DEF MasterSend
<1>2. CASE MasterStep \/ MasterRestart
  <2>1. UNCHANGED server /\ cmdFile' \in {cmdFile, Eof} /\ UNCHANGED issued
    BY <1>2 DEF MasterStep, MasterRead, MasterTimeout, MasterPutEof, MasterClear,
       MasterClearTimeout, MasterAckEof, MasterReturn, MasterRestart
  <2> QED
    BY <2>1, MasterIsNewer
<1>3. CASE InitAttempt \/ RunInit
  <2>1. CASE \E c \in Command : Fresh(c) /\ AnswerInit(c)
    BY <1>3, <2>1, InitIsRead DEF InitAttempt, RunInit
  <2>2. CASE \E c \in Command : Fresh(c) /\ c.op # "init" /\ Remember(c)
    <3>1. PICK c \in Command : Fresh(c) /\ c.op # "init" /\ Remember(c)
      BY <2>2
    <3>2. ~ \E d \in Command : Fresh(d) /\ AnswerInit(d)
      BY <3>1, CommandTextInjective DEF Fresh, AnswerInit
    <3> QED
      BY <1>3, <3>1, <3>2, CommandIsRead DEF InitAttempt, RunInit
  <2>3. CASE /\ ~ \E c \in Command : Fresh(c) /\ AnswerInit(c)
             /\ ~ \E c \in Command : Fresh(c) /\ c.op # "init" /\ Remember(c)
    <3>1. UNCHANGED <<history, current, log, cmdFile, issued>>
      BY <1>3, <2>3 DEF InitAttempt, RunInit, master
    <3>2. \/ spc = "init" /\ spc' \in {"init", "down"}
          \/ spc = "reinit" /\ spc' = "main"
      BY <1>3, <2>3 DEF InitAttempt, RunInit
    <3> QED
      BY <3>1, <3>2, NothingIsRead
  <2> QED
    BY <2>1, <2>2, <2>3
<1>4. CASE Run
  BY <1>4, CommandIsRead DEF Run
<1>5. CASE Backup \/ Start \/ ProcessPoll
  BY <1>5, ExecutedIsNoLoss DEF Backup, Start, ProcessPoll, Answering, Result
<1>6. CASE CheckSuccess \/ Stop
  BY <1>6, ExecutedIsNoLoss DEF CheckSuccess, Stop, Silently, Answering, Result
<1>7. CASE Reply \/ ServerClear \/ ServerClearTimeout \/ ServerAckEof \/ SimulatorExits
           \/ ServerEnds \/ UNCHANGED vars
  <2>1. UNCHANGED <<history, current, log, cmdFile, issued>>
    BY <1>7 DEF Reply, ServerClear, ServerClearTimeout, ServerAckEof, SimulatorExits,
       ServerEnds, vars, master, server, serverLocal
  <2>2. spc' = spc \/ (spc' \in {"main", "clear", "ackEof", "down"}
                          /\ spc \notin {"init", "down", "exec"})
                     \/ spc' = "down"
    BY <1>7 DEF Reply, ServerClear, ServerClearTimeout, ServerAckEof, SimulatorExits,
       ServerEnds, vars, server
  <2> QED
    BY <2>1, <2>2, NothingIsRead
<1>8. CASE ServerStarts
  <2>1. history' = {} /\ spc' = "init"
    BY <1>8 DEF ServerStarts
  <2> QED
    BY <2>1 DEF HInv, FileIsNewest, ReadLast, LostAroundInit
<1> QED
  BY <1>1, <1>2, <1>3, <1>4, <1>5, <1>6, <1>7, <1>8 DEF Next, MasterStep, ServerStep

(* A command that is read is carried out, unless it was read while the     *)
(* server was looking for "init" or the server ended: time-outs on either  *)
(* side and commands that come too early or too late lose no other.        *)
THEOREM LossTheorem == Spec => []LostAroundInit
<1>1. Init => HInv
  BY TextsDiffer DEF Init, HInv, FileIsNewest, ReadLast, LostAroundInit
<1>2. IInv /\ HInv /\ [Next]_vars => HInv'
  BY HStepInv
<1>3. HInv => LostAroundInit
  BY DEF HInv
<1> QED
  BY <1>1, <1>2, <1>3, Inductive, PTL DEF Spec

-------------------------------------------------------------------------------
(* An answer the master waits for stays until it is read                   *)

(* While the master polls, its command is in the file and is the newest.   *)
PolledIsNewest == mpc = "poll" => mcmd.id = issued /\ cmdFile = CommandText(mcmd)

(* The answer about to be sent is the newest entry of the log.             *)
ReplyIsLast == spc = "reply" =>
    /\ Len(log) > 0
    /\ log[Len(log)] = [cmd |-> current, res |-> answer]

(* "init" has one answer only.                                             *)
InitIsDone == \A i \in 1..Len(log) : log[i].cmd.op = "init" => log[i].res = "done"

(* The server is not about to write its eof mark over an unread answer.    *)
AckedIsRead == spc = "ackEof" => ~Unread

KInv == PolledIsNewest /\ ReplyIsLast /\ InitIsDone /\ AckedIsRead

LEMMA KInitInv ==
    ASSUME Init
    PROVE  KInv
<1>1. Len(log) = 0
  BY DEF Init
<1> QED
  BY <1>1 DEF Init, KInv, PolledIsNewest, ReplyIsLast, InitIsDone, AckedIsRead

LEMMA KCarriesOut ==
    ASSUME IInv, KInv, NEW c \in Command, NEW r \in Result, CarriesOut(c, r),
           c.op = "init" => r = "done"
    PROVE  KInv'
<1>1. log \in Seq(Entry) /\ log' = Append(log, [cmd |-> c, res |-> r])
  BY DEF IInv, TypeOK, Entry, CarriesOut
<1>2. PICK n \in Nat : n = Len(log)
  BY <1>1, LogGrows
<1>3. /\ Len(log') = n + 1 /\ \A i \in 1..n : log'[i] = log[i]
      /\ log'[n + 1] = [cmd |-> c, res |-> r]
  BY <1>1, <1>2, LogGrows
<1>4. PolledIsNewest' /\ AckedIsRead'
  BY DEF CarriesOut, KInv, PolledIsNewest, AckedIsRead, master
<1>5. ReplyIsLast'
  BY <1>3 DEF CarriesOut, ReplyIsLast
<1>6. InitIsDone'
  BY <1>2, <1>3 DEF KInv, InitIsDone
<1> QED
  BY <1>4, <1>5, <1>6 DEF KInv

(* A step that adds nothing to the log and leaves the server's reply alone.*)
LEMMA KQuiet ==
    ASSUME KInv, UNCHANGED <<log, current, answer>>,
           spc' = "reply" => spc = "reply"
    PROVE  ReplyIsLast' /\ InitIsDone'
BY DEF KInv, ReplyIsLast, InitIsDone

LEMMA KStepInv ==
    ASSUME IInv, KInv, [Next]_vars
    PROVE  KInv'
<1> USE DEF KInv
<1>1. ASSUME NEW op \in Ops, MasterSend(op) PROVE KInv'
  <2>1. ReplyIsLast' /\ InitIsDone'
    BY <1>1, KQuiet DEF MasterSend, server
  <2>2. PolledIsNewest'
    BY <1>1 DEF MasterSend, PolledIsNewest
  <2>3. ~Unread'
    <3> SUFFICES ASSUME Unread' PROVE FALSE
      OBVIOUS
    <3>1. resFile.kind = "answer" /\ resFile.cmd.id = issued + 1 /\ issued \in Nat
      BY <1>1, ConstantsAssumption DEF MasterSend, Unread, IInv, TypeOK
    <3>2. PICK d \in Command, r \in Result : resFile = AnswerText(d, r)
      BY <3>1 DEF IInv, TypeOK, Text, Empty, Eof, CommandText
    <3>3. Logged(d, r) /\ d.id = issued + 1
      BY <3>1, <3>2 DEF IInv, TextsAreLogged, AnswerText
    <3>4. d.id <= issued
      BY <3>3 DEF Logged, IInv, NothingFromTheFuture
    <3> QED
      BY <3>1, <3>3, <3>4
  <2> QED
    BY <2>1, <2>2, <2>3 DEF AckedIsRead
<1>2. CASE MasterRead \/ MasterTimeout \/ MasterPutEof \/ MasterClear \/ MasterRestart
  <2>1. ReplyIsLast' /\ InitIsDone'
    BY <1>2, KQuiet DEF MasterRead, MasterTimeout, MasterPutEof, MasterClear,
       MasterRestart, server
  <2> QED
    BY <1>2, <2>1 DEF MasterRead, MasterTimeout, MasterPutEof, MasterClear,
       MasterRestart, server, PolledIsNewest, AckedIsRead, Unread
<1>3. CASE MasterClearTimeout \/ MasterAckEof
  <2>1. ReplyIsLast' /\ InitIsDone'
    BY <1>3, KQuiet DEF MasterClearTimeout, MasterAckEof, MasterReturn, server
  <2> QED
    BY <1>3, <2>1 DEF MasterClearTimeout, MasterAckEof, MasterReturn, server,
       PolledIsNewest, AckedIsRead, Unread
<1>4. CASE \/ Reply \/ ServerClearTimeout \/ ServerAckEof
           \/ SimulatorExits \/ ServerEnds
  <2>1. ReplyIsLast' /\ InitIsDone'
    BY <1>4, KQuiet DEF Reply, ServerClearTimeout, ServerAckEof,
       SimulatorExits, ServerEnds, serverLocal
  <2> QED
    BY <1>4, <2>1 DEF Reply, ServerClearTimeout, ServerAckEof,
       SimulatorExits, ServerEnds, serverLocal, master, PolledIsNewest,
       AckedIsRead, Unread
<1>5. CASE ServerClear
  <2>1. ReplyIsLast' /\ InitIsDone'
    BY <1>5, KQuiet DEF ServerClear, serverLocal
  <2>2. mpc # "poll"
    BY <1>5, TextsDiffer DEF ServerClear, PolledIsNewest
  <2> QED
    BY <1>5, <2>1, <2>2 DEF ServerClear, serverLocal, master, PolledIsNewest,
       AckedIsRead, Unread
<1>6. CASE ServerStarts
  BY <1>6 DEF ServerStarts, master, PolledIsNewest, ReplyIsLast, InitIsDone, AckedIsRead
<1>7. CASE Run
  BY <1>7 DEF Run, master, PolledIsNewest, ReplyIsLast, InitIsDone, AckedIsRead
<1>8. CASE InitAttempt \/ RunInit
  <2>1. CASE \E c \in Command : Fresh(c) /\ AnswerInit(c)
    BY <1>8, <2>1, InitCarriesOut, KCarriesOut DEF InitAttempt, RunInit, Result
  <2>2. CASE ~ \E c \in Command : Fresh(c) /\ AnswerInit(c)
    BY <1>8, <2>2 DEF InitAttempt, RunInit, master, PolledIsNewest, ReplyIsLast,
       InitIsDone, AckedIsRead
  <2> QED
    BY <2>1, <2>2
<1>9. spc = "exec" => current.op # "init"
  BY DEF IInv, ExecutingIsNew
<1>10. CASE Backup \/ Start \/ ProcessPoll
  BY <1>9, <1>10, ExecCarriesOut, KCarriesOut
     DEF Backup, Start, ProcessPoll, Answering, Executing, Result
<1>11. CASE CheckSuccess \/ Stop
  BY <1>9, <1>11, ExecCarriesOut, KCarriesOut
     DEF CheckSuccess, Stop, Silently, Answering, Executing, Result
<1>12. CASE UNCHANGED vars
  BY <1>12 DEF vars, master, server, PolledIsNewest, ReplyIsLast, InitIsDone,
     AckedIsRead, Unread
<1> QED
  BY <1>1, <1>2, <1>3, <1>4, <1>5, <1>6, <1>7, <1>8, <1>10, <1>11, <1>12
     DEF Next, MasterStep, ServerStep

(* A server that answers a command the master still waits for, and whose   *)
(* answer is there already, answers the same: it is "init", read again.    *)
LEMMA SameAnswer ==
    ASSUME IInv, KInv, Unread, Reply
    PROVE  resFile' = resFile
<1>1. PICK d \in Command, r \in Result : resFile = AnswerText(d, r)
  BY DEF Unread, IInv, TypeOK, Text, Empty, Eof, CommandText
<1>2. mcmd = d /\ mpc = "poll" /\ d.id = issued
  BY <1>1 DEF Unread, AnswerText, KInv, PolledIsNewest
<1>3. PICK n \in Nat : n = Len(log)
  BY DEF IInv, TypeOK
<1>4. n > 0 /\ log[n] = [cmd |-> current, res |-> answer]
  BY <1>3 DEF KInv, ReplyIsLast, Reply
<1>5. PICK i \in 1..n : log[i] = [cmd |-> d, res |-> r]
  BY <1>1, <1>3 DEF IInv, TextsAreLogged, Logged
<1>6. current = d /\ answer = r
  <2>1. CASE i = n
    BY <1>4, <1>5, <2>1
  <2>2. CASE i < n
    <3>1. current.id <= issued /\ current.id \in Nat /\ issued \in Nat
      BY <1>3, <1>4, ConstantsAssumption
         DEF IInv, NothingFromTheFuture, TextsAreLogged, Reply, Command, Stamp, TypeOK
    <3>2. d.id < current.id \/ (d = current /\ d.op = "init")
      BY <1>3, <1>4, <1>5, <2>2 DEF IInv, InOrderOnce
    <3>3. d = current /\ d.op = "init"
      BY <1>2, <3>1, <3>2
    <3>4. r = "done" /\ answer = "done"
      BY <1>3, <1>4, <1>5, <3>3 DEF KInv, InitIsDone
    <3> QED
      BY <3>3, <3>4
  <2> QED
    BY <2>1, <2>2
<1> QED
  BY <1>1, <1>6 DEF Reply

(* Between the moment an answer lands in res_file and the moment the       *)
(* master reads it or gives up, the server writes nothing over it: not     *)
(* its eof mark, and not the answer to another command.                    *)
THEOREM AnswerKeptTheorem == Spec => AnswerKept
<1>1. Spec => [](IInv /\ KInv)
  <2>1. Init => KInv
    BY KInitInv
  <2>2. IInv /\ KInv /\ [Next]_vars => KInv'
    BY KStepInv
  <2> QED
    BY <2>1, <2>2, Inductive, PTL DEF Spec
<1>2. IInv /\ KInv /\ [Next]_vars => [Unread /\ mpc' = "poll" => resFile' = resFile]_vars
  <2> SUFFICES ASSUME IInv, KInv, Next, Unread, resFile' # resFile PROVE FALSE
    BY DEF vars
  <2>1. CASE Reply
    BY <2>1, SameAnswer
  <2>2. CASE ServerAckEof
    BY <2>2 DEF ServerAckEof, KInv, AckedIsRead
  <2>3. resFile' = resFile \/ Reply \/ ServerAckEof
    BY DEF Next, MasterStep, ServerStep, MasterSend, MasterRead, MasterTimeout,
       MasterPutEof, MasterClear, MasterClearTimeout, MasterAckEof, MasterReturn,
       MasterRestart, InitAttempt, Run, RunInit, Backup, Start, CheckSuccess,
       ProcessPoll, Stop, Executing, ServerClear, ServerClearTimeout,
       ServerEnds, ServerStarts, SimulatorExits
  <2> QED
    BY <2>1, <2>2, <2>3
<1> QED
  BY <1>1, <1>2, PTL DEF Spec, AnswerKept

-------------------------------------------------------------------------------
(* The part of HandshakeCompletes that no fairness is needed for: when     *)
(* nothing fails, a call that will be answered goes through ten stages, in *)
(* each of which one side can take a step, and that step ends the stage.   *)

Waiting(c) == mpc = "poll" /\ mcmd = c /\ cmdFile = CommandText(c)

NoAnswer(c) == \A r : resFile # AnswerText(c, r)

At(c, k) ==
    \/ k = 1 /\ Waiting(c) /\ NoAnswer(c) /\ Answerable(c)
    \/ /\ k = 2 /\ Waiting(c) /\ NoAnswer(c)
       /\ spc = "exec" /\ current = c
       /\ \/ c.op \in {"backup", "start", "process_poll"}
          \/ c.op = "stop" /\ simulator # "absent"
    \/ k = 3 /\ Waiting(c) /\ NoAnswer(c) /\ spc = "reply" /\ current = c /\ answer \in Result
    \/ k = 4 /\ Waiting(c) /\ spc = "clear" /\ \E r \in Result : resFile = AnswerText(c, r)
    \/ /\ k = 5 /\ mpc = "putEof" /\ mcmd = c /\ cmdFile = CommandText(c)
       /\ spc = "clear" /\ resFile # Eof
    \/ k = 6 /\ mpc = "clear" /\ mcmd = c /\ cmdFile = Eof /\ spc = "clear" /\ resFile # Eof
    \/ k = 7 /\ mpc = "clear" /\ mcmd = c /\ cmdFile = Eof /\ spc = "ackEof" /\ resFile # Eof
    \/ k = 8 /\ mpc = "clear" /\ mcmd = c /\ cmdFile = Eof /\ spc = "main" /\ resFile = Eof
    \/ k = 9 /\ mpc = "ackEof" /\ mcmd = c /\ cmdFile = Eof /\ spc = "main"
    \/ k = 10 /\ mpc = "idle" /\ returned # << >> /\ returned[1] = c

TurnStep(k) == IF k \in {1, 2, 3, 6, 7} THEN ServerStep ELSE MasterStep

(* The step of the side whose turn it is ends the stage, no step leads     *)
(* back or out.                                                            *)
Goes(c, k) ==
    \/ At(c, k)' /\ ~TurnStep(k)
    \/ \E j \in k + 1..10 : At(c, j)'

HandshakeGoesOn ==
    [][\A c \in Command :
         /\ Answerable(c) => At(c, 1)
         /\ \A k \in 1..9 : At(c, k) => Goes(c, k)]_vars

(* An "init" that was carried out while the master waits for it is being   *)
(* answered: no later server finds it again.                               *)
InitUnderWay ==
    mpc = "poll" /\ mcmd.op = "init" /\ (\E i \in 1..Len(log) : log[i].cmd = mcmd) =>
        spc \in {"reply", "clear"} /\ current = mcmd

LEMMA MasterSteps ==
  ASSUME Faults = {}, MasterStep
  PROVE  /\ UNCHANGED <<resFile, spc, current, answer, simulator, history, log>>
         /\ \/ mpc = "poll" /\ MasterRead
            \/ mpc = "putEof" /\ MasterPutEof
            \/ mpc = "clear" /\ MasterClear
            \/ mpc = "ackEof" /\ MasterAckEof
BY DEF MasterStep, MasterRead, MasterTimeout, MasterPutEof, MasterClear, MasterClearTimeout,
   MasterAckEof, MasterReturn, server

LEMMA ServerSteps ==
  ASSUME Faults = {}, ServerStep
  PROVE  /\ UNCHANGED <<cmdFile, issued, mpc, mcmd, mstatus, returned>>
         /\ \/ spc = "init" /\ InitAttempt
            \/ spc = "main" /\ Run
            \/ spc = "reinit" /\ RunInit
            \/ spc = "exec" /\ (Backup \/ Start \/ CheckSuccess \/ ProcessPoll \/ Stop)
            \/ spc = "reply" /\ Reply
            \/ spc = "clear" /\ ServerClear
            \/ spc = "ackEof" /\ ServerAckEof
BY DEF ServerStep, InitAttempt, Run, RunInit, Backup, Start, CheckSuccess, ProcessPoll, Stop,
   Executing, Reply, ServerClear, ServerClearTimeout, ServerAckEof, master

LEMMA OtherSteps ==
  ASSUME Faults = {}, Next, ~MasterStep, ~ServerStep
  PROVE  \/ mpc = "idle" /\ \E op \in Ops : MasterSend(op)
         \/ spc = "down" /\ ServerStarts
         \/ SimulatorExits
BY DEF Next, MasterSend, MasterRestart, ServerEnds, ServerStarts

(* A side that waits, and the simulator, leave a stage as it is.           *)
LEMMA StageStays ==
  ASSUME NEW c \in Command, NEW k \in 1..9, At(c, k), k # 1,
         UNCHANGED <<cmdFile, resFile, mpc, mcmd, spc, current, answer>>,
         simulator # "absent" => simulator' # "absent"
  PROVE  At(c, k)'
BY DEF At, Waiting, NoAnswer

LEMMA FirstStageStays ==
  ASSUME NEW c \in Command, At(c, 1),
         UNCHANGED <<cmdFile, resFile, mpc, mcmd, spc, history>>,
         simulator # "absent" => simulator' # "absent"
  PROVE  At(c, 1)'
BY DEF At, Waiting, NoAnswer, Answerable, Fresh

(* The client and the restarts wait for the end of a call; the simulator   *)
(* may exit meanwhile.                                                     *)
LEMMA OthersStay ==
  ASSUME Faults = {}, NEW c \in Command, NEW k \in 1..9, At(c, k),
         Next, ~MasterStep, ~ServerStep
  PROVE  At(c, k)'
<1>1. mpc # "idle" /\ spc # "down"
  BY DEF At, Waiting, Answerable
<1>2. SimulatorExits
  BY <1>1, OtherSteps
<1>3. /\ UNCHANGED <<cmdFile, resFile, mpc, mcmd, spc, current, answer, history>>
      /\ simulator' = "exited"
  BY <1>2 DEF SimulatorExits, master, serverLocal
<1> QED
  BY <1>3, StageStays, FirstStageStays

LEMMA FirstStage ==
  ASSUME Faults = {}, IInv, NEW c \in Command, At(c, 1), MasterStep \/ ServerStep
  PROVE  Goes(c, 1)
<1>1. Waiting(c) /\ NoAnswer(c) /\ Answerable(c) /\ cmdFile = CommandText(c) /\ Fresh(c)
  BY DEF At, Waiting, Answerable
<1>2. ServerStep
  <2>1. ~MasterRead
    BY <1>1 DEF MasterRead, Waiting, NoAnswer
  <2> QED
    BY <1>1, <2>1, MasterSteps DEF Waiting
<1>3. UNCHANGED <<cmdFile, mpc, mcmd>>
  BY <1>2, ServerSteps
<1>4. \A d \in Command : Fresh(d) => d = c
  BY <1>1, CommandTextInjective DEF Fresh
<1>5. CASE spc = "init" /\ c.op = "init"
  <2>1. InitAttempt
    BY <1>2, <1>5, ServerSteps
  <2>2. AnswerInit(c) /\ resFile' = resFile
    BY <1>1, <1>4, <1>5, <2>1 DEF InitAttempt, NothingFresh
  <2>3. spc' = "reply" /\ current' = c /\ answer' \in Result
    BY <2>2 DEF AnswerInit, Remember, Result
  <2>4. At(c, 3)'
    BY <1>1, <1>3, <2>2, <2>3 DEF At, Waiting, NoAnswer
  <2> QED
    BY <2>4 DEF Goes
<1>6. CASE spc = "main"
  <2>1. Run
    BY <1>2, <1>6, ServerSteps
  <2>2. /\ \/ c.op \in {"backup", "start", "process_poll"}
           \/ c.op = "stop" /\ simulator # "absent"
        /\ c.op # "init"
    BY <1>1, <1>6 DEF Answerable
  <2>3. spc' = "exec" /\ current' = c /\ resFile' = resFile /\ simulator' = simulator
    BY <1>4, <2>1, <2>2 DEF Run, Remember
  <2>4. At(c, 2)'
    BY <1>1, <1>3, <2>2, <2>3 DEF At, Waiting, NoAnswer
  <2> QED
    BY <2>4 DEF Goes
<1> QED
  BY <1>1, <1>5, <1>6 DEF Answerable

LEMMA ServerStages ==
  ASSUME Faults = {}, NEW c \in Command, NEW k \in {2, 3, 6, 7}, At(c, k), ServerStep
  PROVE  Goes(c, k)
<1>1. UNCHANGED <<cmdFile, mpc, mcmd>>
  BY ServerSteps
<1>2. CASE k = 2
  <2>1. /\ spc = "exec" /\ current = c /\ Waiting(c) /\ NoAnswer(c)
        /\ \/ c.op \in {"backup", "start", "process_poll"}
           \/ c.op = "stop" /\ simulator # "absent"
    BY <1>2 DEF At
  <2>2. Backup \/ Start \/ CheckSuccess \/ ProcessPoll \/ Stop
    BY <2>1, ServerSteps
  <2>3. spc' = "reply" /\ answer' \in Result /\ UNCHANGED <<current, resFile>>
    BY <2>1, <2>2 DEF Backup, Start, CheckSuccess, ProcessPoll, Stop, Executing, Answering, Result
  <2>4. At(c, 3)'
    BY <1>1, <2>1, <2>3 DEF At, Waiting, NoAnswer
  <2> QED
    BY <1>2, <2>4 DEF Goes
<1>3. CASE k = 3
  <2>1. spc = "reply" /\ current = c /\ answer \in Result /\ Waiting(c)
    BY <1>3 DEF At
  <2>2. spc' = "clear" /\ resFile' = AnswerText(c, answer)
    BY <2>1, ServerSteps DEF Reply
  <2>3. At(c, 4)'
    BY <1>1, <2>1, <2>2 DEF At, Waiting
  <2> QED
    BY <1>3, <2>3 DEF Goes
<1>4. CASE k = 6
  <2>1. mpc = "clear" /\ mcmd = c /\ cmdFile = Eof /\ spc = "clear" /\ resFile # Eof
    BY <1>4 DEF At
  <2>2. spc' = "ackEof" /\ resFile' = resFile
    BY <2>1, ServerSteps DEF ServerClear
  <2>3. At(c, 7)'
    BY <1>1, <2>1, <2>2 DEF At
  <2> QED
    BY <1>4, <2>3 DEF Goes
<1>5. CASE k = 7
  <2>1. mpc = "clear" /\ mcmd = c /\ cmdFile = Eof /\ spc = "ackEof"
    BY <1>5 DEF At
  <2>2. spc' = "main" /\ resFile' = Eof
    BY <2>1, ServerSteps DEF ServerAckEof
  <2>3. At(c, 8)'
    BY <1>1, <2>1, <2>2 DEF At
  <2> QED
    BY <1>5, <2>3 DEF Goes
<1> QED
  BY <1>2, <1>3, <1>4, <1>5

LEMMA MasterStages ==
  ASSUME Faults = {}, NEW c \in Command, NEW k \in {4, 5, 8, 9}, At(c, k), MasterStep
  PROVE  Goes(c, k)
<1>1. UNCHANGED <<resFile, spc>>
  BY MasterSteps
<1>2. CASE k = 4
  <2>1. Waiting(c) /\ spc = "clear" /\ resFile # Eof
    BY <1>2, TextsDiffer DEF At
  <2>2. mpc' = "putEof" /\ UNCHANGED <<cmdFile, mcmd>>
    BY <2>1, MasterSteps DEF MasterRead, Waiting
  <2>3. At(c, 5)'
    BY <1>1, <2>1, <2>2 DEF At, Waiting
  <2> QED
    BY <1>2, <2>3 DEF Goes
<1>3. CASE k = 5
  <2>1. mpc = "putEof" /\ mcmd = c /\ spc = "clear" /\ resFile # Eof
    BY <1>3 DEF At
  <2>2. mpc' = "clear" /\ cmdFile' = Eof /\ mcmd' = mcmd
    BY <2>1, MasterSteps DEF MasterPutEof
  <2>3. At(c, 6)'
    BY <1>1, <2>1, <2>2 DEF At
  <2> QED
    BY <1>3, <2>3 DEF Goes
<1>4. CASE k = 8
  <2>1. mpc = "clear" /\ mcmd = c /\ cmdFile = Eof /\ spc = "main"
    BY <1>4 DEF At
  <2>2. mpc' = "ackEof" /\ UNCHANGED <<cmdFile, mcmd>>
    BY <2>1, MasterSteps DEF MasterClear
  <2>3. At(c, 9)'
    BY <1>1, <2>1, <2>2 DEF At
  <2> QED
    BY <1>4, <2>3 DEF Goes
<1>5. CASE k = 9
  <2>1. mpc = "ackEof" /\ mcmd = c
    BY <1>5 DEF At
  <2>2. mpc' = "idle" /\ returned' = <<c, mstatus>>
    BY <2>1, MasterSteps DEF MasterAckEof, MasterReturn
  <2>3. At(c, 10)'
    BY <2>2 DEF At
  <2> QED
    BY <1>5, <2>3 DEF Goes
<1> QED
  BY <1>2, <1>3, <1>4, <1>5

(* While it is the one side's turn the other waits.                        *)
LEMMA MasterWaits ==
  ASSUME Faults = {}, NEW c \in Command, NEW k \in {2, 3, 6, 7}, At(c, k)
  PROVE  ~MasterStep
<1>1. CASE k \in {2, 3}
  <2>1. Waiting(c) /\ NoAnswer(c)
    BY <1>1 DEF At
  <2>2. ~MasterRead
    BY <2>1 DEF MasterRead, Waiting, NoAnswer
  <2> QED
    BY <2>1, <2>2, MasterSteps DEF Waiting
<1>2. CASE k \in {6, 7}
  <2>1. mpc = "clear" /\ resFile # Eof
    BY <1>2 DEF At
  <2> QED
    BY <2>1, MasterSteps DEF MasterClear
<1> QED
  BY <1>1, <1>2

LEMMA ServerWaits ==
  ASSUME Faults = {}, NEW c \in Command, NEW k \in {4, 5, 8, 9}, At(c, k)
  PROVE  ~ServerStep
<1>1. CASE k \in {4, 5}
  <2>1. spc = "clear" /\ cmdFile # Eof
    BY <1>1, TextsDiffer DEF At, Waiting
  <2> QED
    BY <2>1, ServerSteps DEF ServerClear
<1>2. CASE k \in {8, 9}
  <2>1. spc = "main" /\ cmdFile = Eof
    BY <1>2 DEF At
  <2>2. ~Run
    BY <2>1, TextsDiffer DEF Run, Fresh
  <2> QED
    BY <2>1, <2>2, ServerSteps
<1> QED
  BY <1>1, <1>2

LEMMA StageGoesOn ==
  ASSUME Faults = {}, IInv, [Next]_vars, NEW c \in Command, NEW k \in 1..9, At(c, k),
         ~UNCHANGED vars
  PROVE  Goes(c, k)
<1>1. CASE ~MasterStep /\ ~ServerStep
  BY <1>1, OthersStay DEF Goes, TurnStep
<1>2. CASE k = 1 /\ (MasterStep \/ ServerStep)
  BY <1>2, FirstStage
<1>3. CASE k \in {2, 3, 6, 7} /\ (MasterStep \/ ServerStep)
  BY <1>3, MasterWaits, ServerStages
<1>4. CASE k \in {4, 5, 8, 9} /\ (MasterStep \/ ServerStep)
  BY <1>4, ServerWaits, MasterStages
<1> QED
  BY <1>1, <1>2, <1>3, <1>4

LEMMA InitStaysUnderWay ==
  ASSUME Faults = {}, IInv, KInv, InitUnderWay, [Next]_vars
  PROVE  InitUnderWay'
<1> SUFFICES ASSUME mpc' = "poll", mcmd'.op = "init",
                    NEW i \in 1..Len(log'), log'[i].cmd = mcmd'
             PROVE  spc' \in {"reply", "clear"} /\ current' = mcmd'
  BY DEF InitUnderWay
<1>1. CASE \E op \in Ops : MasterSend(op)
  <2>1. log' = log /\ mcmd'.id = issued + 1
    BY <1>1 DEF MasterSend, server
  <2>2. mcmd'.id <= issued /\ issued \in Nat
    BY <2>1, ConstantsAssumption DEF IInv, NothingFromTheFuture, TypeOK
  <2> QED
    BY <2>1, <2>2
<1>2. CASE UNCHANGED <<mpc, mcmd, log, spc, current>>
  BY <1>2 DEF InitUnderWay
<1>3. CASE MasterStep
  BY <1>2, <1>3, MasterSteps DEF MasterRead, MasterPutEof, MasterClear, MasterAckEof, MasterReturn
<1>4. ASSUME NEW c \in Command, NEW r \in Result, CarriesOut(c, r), c.op = "init" => spc' = "reply"
      PROVE  spc' \in {"reply", "clear"} /\ current' = mcmd'
  <2>1. mcmd' = mcmd /\ mpc = "poll"
    BY <1>4 DEF CarriesOut, master
  <2>2. CASE c = mcmd
    BY <1>4, <2>1, <2>2 DEF CarriesOut
  <2>3. CASE c # mcmd
    <3>1. log \in Seq(Entry) /\ log' = Append(log, [cmd |-> c, res |-> r])
      BY <1>4 DEF IInv, TypeOK, Entry, CarriesOut
    <3>2. i \in 1..Len(log) /\ log[i].cmd = mcmd
      BY <2>1, <2>3, <3>1, LogGrows
    <3>3. spc \in {"reply", "clear"}
      BY <2>1, <3>2 DEF InitUnderWay
    <3> QED
      BY <1>4, <3>3 DEF CarriesOut
  <2> QED
    BY <2>2, <2>3
<1>5. ASSUME spc \notin {"reply", "clear"}, UNCHANGED <<mpc, mcmd, log>> PROVE FALSE
  BY <1>5 DEF InitUnderWay
<1>6. CASE ServerStep
  <2>1. UNCHANGED <<cmdFile, mpc, mcmd, issued, mstatus, returned>>
    BY <1>6, ServerSteps
  <2>2. CASE spc \in {"init", "reinit"}
    <3>1. InitAttempt \/ RunInit
      BY <1>6, <2>2, ServerSteps
    <3>2. CASE \E c \in Command : Fresh(c) /\ AnswerInit(c)
      <4>1. PICK c \in Command : Fresh(c) /\ AnswerInit(c)
        BY <3>2
      <4>2. CarriesOut(c, "done") /\ "done" \in Result /\ spc' = "reply"
        BY <2>2, <3>1, <4>1, InitCarriesOut DEF InitAttempt, RunInit, AnswerInit, Result
      <4> QED
        BY <1>4, <4>2
    <3>3. CASE ~\E c \in Command : Fresh(c) /\ AnswerInit(c)
      BY <1>5, <2>1, <2>2, <3>1, <3>3 DEF InitAttempt, RunInit
    <3> QED
      BY <3>2, <3>3
  <2>3. CASE spc = "main"
    BY <1>5, <1>6, <2>1, <2>3, ServerSteps DEF Run
  <2>4. CASE spc = "exec"
    <3>1. PICK r \in Result : CarriedOut(r) /\ Executing(current.op)
                                /\ spc' \in {"main", "reply", "down"}
                                /\ (spc' = "reply" => answer' = r)
      BY <1>6, <2>4, ServerSteps DEF Backup, Start, CheckSuccess, ProcessPoll, Stop, Executing,
         Answering, Silently, Result
    <3>2. current \in Command /\ CarriesOut(current, r)
      BY <3>1, ExecCarriesOut
    <3>3. current.op # "init"
      BY <2>4 DEF IInv, ExecutingIsNew
    <3> QED
      BY <1>4, <3>2, <3>3
  <2>5. CASE spc = "reply"
    <3>1. Reply
      BY <1>6, <2>5, ServerSteps
    <3>2. spc' = "clear" /\ current' = current /\ log' = log
      BY <3>1 DEF Reply, serverLocal
    <3> QED
      BY <2>1, <3>2 DEF InitUnderWay
  <2>6. CASE spc = "clear"
    <3>1. cmdFile = Eof
      BY <1>6, <2>6, ServerSteps DEF ServerClear
    <3>2. cmdFile = CommandText(mcmd)
      BY <2>1 DEF KInv, PolledIsNewest
    <3> QED
      BY <3>1, <3>2, TextsDiffer
  <2>7. CASE spc = "ackEof"
    BY <1>5, <1>6, <2>1, <2>7, ServerSteps DEF ServerAckEof
  <2> QED
    BY <1>6, <2>2, <2>3, <2>4, <2>5, <2>6, <2>7, ServerSteps
<1>7. CASE SimulatorExits \/ UNCHANGED vars
  BY <1>2, <1>7 DEF SimulatorExits, vars, master, server, serverLocal
<1>8. CASE spc = "down" /\ ServerStarts
  BY <1>5, <1>8 DEF ServerStarts, master
<1> QED
  BY <1>1, <1>3, <1>6, <1>7, <1>8, OtherSteps

(* The answer to a command that is still to be read is not there yet.      *)
LEMMA AnswerableIsFirst ==
  ASSUME Faults = {}, IInv, KInv, InitUnderWay, NEW c \in Command, Answerable(c)
  PROVE  At(c, 1)
<1>1. mpc = "poll" /\ mcmd = c /\ Fresh(c) /\ cmdFile = CommandText(c)
  BY DEF Answerable, Fresh
<1>2. ASSUME NEW r, resFile = AnswerText(c, r) PROVE FALSE
  <2>1. PICK d \in Command, q \in Result : resFile = AnswerText(d, q)
    <3>1. resFile \in Text
      BY DEF IInv, TypeOK
    <3>2. resFile # Empty /\ resFile # Eof /\ \A d : resFile # CommandText(d)
      BY <1>2, TextsDiffer
    <3> QED
      BY <3>1, <3>2 DEF Text
  <2>2. Logged(c, q)
    <3>1. Logged(d, q)
      BY <2>1 DEF IInv, TextsAreLogged
    <3>2. c = d
      BY <1>2, <2>1, AnswerTextInjective
    <3> QED
      BY <3>1, <3>2
  <2>3. PICK i \in 1..Len(log) : log[i].cmd = c
    BY <2>2 DEF Logged
  <2>4. CASE spc = "init" /\ c.op = "init"
    BY <1>1, <2>3, <2>4 DEF InitUnderWay
  <2>5. CASE spc = "main"
    <3>1. c \in history
      BY <1>1, <2>3, <2>5 DEF IInv, LoggedIsRemembered
    <3> QED
      BY <1>1, <3>1 DEF Fresh
  <2> QED
    BY <2>4, <2>5 DEF Answerable
<1> QED
  BY <1>1, <1>2 DEF At, Waiting, NoAnswer

THEOREM KInvariance == Spec => [](IInv /\ KInv)
<1>1. Init => KInv
  BY KInitInv
<1>2. IInv /\ KInv /\ [Next]_vars => KInv'
  BY KStepInv
<1> QED
  BY <1>1, <1>2, Inductive, PTL DEF Spec

(* When nothing fails, a command the server is ready for is answered in    *)
(* ten stages: one side waits, the other can take a step, and its step     *)
(* leads to a later stage.  So no two of them wait for each other, and the *)
(* handshake gets through without its time limits, if the loops go on.     *)
THEOREM HandshakeTheorem ==
  ASSUME Faults = {}
  PROVE  Spec => HandshakeGoesOn
<1>1. Init => InitUnderWay
  BY DEF Init, InitUnderWay
<1>2. IInv /\ KInv /\ InitUnderWay /\ [Next]_vars => InitUnderWay'
  BY InitStaysUnderWay
<1>3. IInv /\ KInv /\ InitUnderWay /\ [Next]_vars =>
          [\A c \in Command :
             /\ Answerable(c) => At(c, 1)
             /\ \A k \in 1..9 : At(c, k) => Goes(c, k)]_vars
  BY AnswerableIsFirst, StageGoesOn
<1> QED
  BY <1>1, <1>2, <1>3, KInvariance, PTL DEF Spec, HandshakeGoesOn
===============================================================================
