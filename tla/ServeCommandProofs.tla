------------------------- MODULE ServeCommandProofs -------------------------
(***************************************************************************)
(* The safety properties of the sync task in any program, and of the serve *)
(* command around it, for any number of threads and clients, with          *)
(* advertising or without.                                                 *)
(***************************************************************************)
EXTENDS ServeCommand, TLAPS

-----------------------------------------------------------------------------
(* The task, in any program.                                               *)

(* Where the server has what: the listening socket, the responder and the  *)
(* connection are each held over one stretch of serve_sync_server.         *)
Listening == {"publish", "advertise", "check", "select", "accept", "receive",
              "reply", "stream", "stop_discovery", "close"}
Answering == {"check", "select", "accept", "receive", "reply", "stream",
              "stop_discovery", "unwind"}
Handling  == {"receive", "reply", "stream"}

LoopInv ==
  /\ listener = "open" => serve \in Listening
  /\ serve \in Listening => listener = "open"
  /\ responder => serve \in Answering
  /\ client # NoClient => serve \in Handling
  /\ serve \in Handling => client \in Clients
  /\ serve \in {"return", "unwind"} => result \in {"ok", "error"}

(* A connection accepted after the stop request is the last: the flag is   *)
(* read before the next select.                                            *)
LateInv ==
  /\ lateAccepts <= 1
  /\ lateAccepts = 1 =>
       /\ stopFlag
       /\ serve \notin {"setup", "publish", "advertise", "select", "accept"}

(* How the handle follows the worker.                                      *)
WorkerInv ==
  /\ worker = "new"     => state \in {"starting", "stopping"}
  /\ worker = "serving" => state \in {"running", "stopping"}
  /\ worker = "over"    => /\ state = "finished"
                           /\ serve = "return"
                           /\ status = result

(* Who has the thread.  A destructor finds nobody inside wait(), so that   *)
(* the thread it does not find has been joined.                            *)
CallInv ==
  /\ \A t \in Callers : call[t] \in {"read", "gone"} => worker = "over"
  /\ \A t \in Callers : call[t] \in {"wait", "gone"} => ~alive /\ t = Owner
  /\ ~alive => \A t \in Callers \ {Owner} : call[t] = "outside"
  /\ ~joinable => worker = "over" \/ \E t \in Callers : call[t] = "join"

IInv == TypeOK /\ LoopInv /\ LateInv /\ WorkerInv /\ CallInv

-----------------------------------------------------------------------------

LEMMA InitKeeps == Init => IInv
  <1> SUFFICES ASSUME Init PROVE IInv
    OBVIOUS
  <1>1. TypeOK
    BY DEF Init, ServeInit, Started, Refused, TypeOK, ServeTypeOK, ServePC,
           CallPC
  <1>2. LoopInv /\ LateInv
    BY DEF Init, ServeInit, Started, Refused, LoopInv, LateInv, Listening,
           Answering, Handling
  <1>3. WorkerInv /\ CallInv
    BY DEF Init, ServeInit, Started, Refused, WorkerInv, CallInv
  <1> QED BY <1>1, <1>2, <1>3 DEF IInv

(* What a step of the server leaves to be shown of the rest: the handle's  *)
(* variables do not change, and "return" has no successor.                 *)
LEMMA ServeKeepsTask ==
  ASSUME WorkerInv, CallInv, Serve
  PROVE  WorkerInv' /\ CallInv'
  BY DEF Serve, taskVars, WorkerInv, CallInv

LEMMA SetUpKeeps ==
  ASSUME ServeTypeOK, LoopInv, LateInv,
         SetUp \/ Publish \/ StartDiscovery
  PROVE  ServeTypeOK' /\ LoopInv' /\ LateInv'
  <1>1. CASE SetUp
    BY <1>1
       DEF SetUp, ServeTypeOK, LoopInv, LateInv, ServePC, Listening,
           Answering, Handling
  <1>2. CASE Publish
    BY <1>2
       DEF Publish, ServeTypeOK, LoopInv, LateInv, ServePC, Listening,
           Answering, Handling
  <1>3. CASE StartDiscovery
    BY <1>3, ServeAssumption
       DEF StartDiscovery, CloseListener, Dropped, ServeTypeOK, LoopInv,
           LateInv, ServePC, Listening, Answering, Handling
  <1> QED BY <1>1, <1>2, <1>3

LEMMA LoopKeeps ==
  ASSUME ServeTypeOK, LoopInv, LateInv,
         \/ CheckStop \/ Select \/ SelectFails \/ Unwind
         \/ Accept \/ AcceptFails
  PROVE  ServeTypeOK' /\ LoopInv' /\ LateInv'
  <1>1. CASE CheckStop \/ Select \/ Unwind \/ AcceptFails
    BY <1>1
       DEF CheckStop, Select, Unwind, AcceptFails, ServeTypeOK, LoopInv,
           LateInv, ServePC, Listening, Answering, Handling
  <1>2. CASE SelectFails
    BY <1>2
       DEF SelectFails, CloseListener, Dropped, ServeTypeOK, LoopInv, LateInv,
           ServePC, Listening, Answering, Handling
  <1>3. CASE Accept
    <2>1. lateAccepts = 0
      BY <1>3 DEF Accept, LateInv, ServeTypeOK
    <2>2. ServeTypeOK' /\ LoopInv'
      BY <1>3, <2>1, ServeAssumption
         DEF Accept, Backlog, ServeTypeOK, LoopInv, ServePC, Listening,
             Answering, Handling
    <2>3. LateInv'
      BY <1>3, <2>1 DEF Accept, LateInv
    <2> QED BY <2>2, <2>3
  <1> QED BY <1>1, <1>2, <1>3

LEMMA HandleKeeps ==
  ASSUME ServeTypeOK, LoopInv, LateInv, Receive \/ Reply \/ Stream
  PROVE  ServeTypeOK' /\ LoopInv' /\ LateInv'
  <1>1. serve \in Handling /\ client \in Clients
    BY DEF Receive, Reply, Stream, Handling, LoopInv
  <1> QED
    BY <1>1
       DEF Receive, Reply, Stream, Hangup, ServeTypeOK, LoopInv, LateInv,
           ServePC, Listening, Answering, Handling

LEMMA ShutDownKeeps ==
  ASSUME ServeTypeOK, LoopInv, LateInv, StopDiscovery \/ Close
  PROVE  ServeTypeOK' /\ LoopInv' /\ LateInv'
  <1>1. CASE StopDiscovery
    BY <1>1
       DEF StopDiscovery, ServeTypeOK, LoopInv, LateInv, ServePC, Listening,
           Answering, Handling
  <1>2. CASE Close
    BY <1>2
       DEF Close, CloseListener, Dropped, ServeTypeOK, LoopInv, LateInv,
           ServePC, Listening, Answering, Handling
  <1> QED BY <1>1, <1>2

LEMMA ServeKeeps ==
  ASSUME IInv, Serve PROVE IInv'
  <1>1. ServeTypeOK' /\ LoopInv' /\ LateInv'
    BY SetUpKeeps, LoopKeeps, HandleKeeps, ShutDownKeeps
       DEF Serve, ServeStep, IInv, TypeOK
  <1>2. WorkerInv' /\ CallInv'
    BY ServeKeepsTask DEF IInv
  <1>3. TypeOK'
    BY <1>1 DEF Serve, taskVars, IInv, TypeOK
  <1> QED BY <1>1, <1>2, <1>3 DEF IInv

-----------------------------------------------------------------------------
(* The worker's own steps and the calls leave the server alone.            *)

LEMMA ServerAlone ==
  ASSUME LoopInv, LateInv, ServeTypeOK, UNCHANGED serveVars
  PROVE  LoopInv' /\ LateInv' /\ ServeTypeOK'
  BY DEF serveVars, LoopInv, LateInv, ServeTypeOK

LEMMA RunKeeps ==
  ASSUME IInv, Run \/ MarkFinished PROVE IInv'
  <1>1. LoopInv' /\ LateInv' /\ ServeTypeOK'
    BY ServerAlone DEF IInv, TypeOK, Run, MarkFinished
  <1>2. CASE Run
    BY <1>1, <1>2 DEF Run, serveVars, IInv, TypeOK, WorkerInv, CallInv
  <1>3. CASE MarkFinished
    <2>1. result \in {"ok", "error"}
      BY <1>3 DEF MarkFinished, IInv, LoopInv
    <2> QED
      BY <1>1, <1>3, <2>1
         DEF MarkFinished, serveVars, IInv, TypeOK, WorkerInv, CallInv
  <1> QED BY <1>2, <1>3

LEMMA CallMoves ==
  ASSUME TypeOK, NEW t \in Callers, NEW to \in CallPC,
         call' = [call EXCEPT ![t] = to]
  PROVE  /\ call' \in [Callers -> CallPC]
         /\ call'[t] = to
         /\ \A u \in Callers \ {t} : call'[u] = call[u]
  BY DEF TypeOK

LEMMA StopKeeps ==
  ASSUME IInv, NEW t \in Callers, Stop(t) \/ StopMark(t) PROVE IInv'
  <1>1. CASE Stop(t)
    <2>1. LoopInv' /\ LateInv' /\ ServeTypeOK'
      BY <1>1
         DEF Stop, StopStore, IInv, TypeOK, ServeTypeOK, LoopInv, LateInv
    <2>2. /\ call' \in [Callers -> CallPC]
          /\ call'[t] = "mark"
          /\ \A u \in Callers \ {t} : call'[u] = call[u]
      BY <1>1, CallMoves DEF Stop, StopStore, CallPC, IInv
    <2>3. TypeOK' /\ WorkerInv'
      BY <1>1, <2>1, <2>2 DEF Stop, StopStore, IInv, TypeOK, WorkerInv
    <2>4. CallInv'
      BY <1>1, <2>2 DEF Stop, IInv, CallInv
    <2> QED BY <2>1, <2>3, <2>4 DEF IInv
  <1>2. CASE StopMark(t)
    <2>1. LoopInv' /\ LateInv' /\ ServeTypeOK'
      BY <1>2, ServerAlone DEF StopMark, IInv, TypeOK
    <2>2. PICK to \in {"outside", "wait"} :
            /\ call' = [call EXCEPT ![t] = to]
            /\ to = "wait" => ~alive
      BY <1>2 DEF StopMark
    <2>3. /\ call' \in [Callers -> CallPC]
          /\ call'[t] = to
          /\ \A u \in Callers \ {t} : call'[u] = call[u]
      BY <2>2, CallMoves DEF CallPC, IInv
    <2>4. TypeOK' /\ WorkerInv'
      BY <1>2, <2>1, <2>3
         DEF StopMark, serveVars, IInv, TypeOK, WorkerInv
    <2>5. CallInv'
      BY <1>2, <2>2, <2>3 DEF StopMark, serveVars, IInv, CallInv
    <2> QED BY <2>1, <2>4, <2>5 DEF IInv
  <1> QED BY <1>1, <1>2

LEMMA WaitKeeps ==
  ASSUME IInv, NEW t \in Callers,
         \/ WaitTakes(t) \/ WaitReturnsAtOnce(t)
         \/ Join(t) \/ WaitReads(t)
  PROVE  IInv'
  <1>1. LoopInv' /\ LateInv' /\ ServeTypeOK'
    BY ServerAlone
       DEF IInv, TypeOK, WaitTakes, WaitReturnsAtOnce, Join, WaitReads
  <1>2. WorkerInv'
    BY DEF WaitTakes, WaitReturnsAtOnce, Join, WaitReads, serveVars, IInv,
           WorkerInv
  <1>3. PICK to \in {"join", "read", "outside", "gone"} :
          /\ call' = [call EXCEPT ![t] = to]
          /\ to = "join" <=> WaitTakes(t)
          /\ to = "read" <=> Join(t)
          /\ to = "gone" => ~alive
    BY DEF WaitTakes, WaitReturnsAtOnce, Join, WaitReads, Answer
  <1>4. /\ call' \in [Callers -> CallPC]
        /\ call'[t] = to
        /\ \A u \in Callers \ {t} : call'[u] = call[u]
    BY <1>3, CallMoves DEF CallPC, IInv
  <1>5. answers' \subseteq [status : {"ok", "error"},
                            state : {"starting", "running", "stopping",
                                     "finished"}]
    BY DEF WaitTakes, WaitReturnsAtOnce, Join, WaitReads, Answer, IInv, TypeOK
  <1>6. TypeOK'
    BY <1>1, <1>4, <1>5
       DEF WaitTakes, WaitReturnsAtOnce, Join, WaitReads, IInv, TypeOK
  <1>7. ~alive => t = Owner
    BY DEF WaitTakes, WaitReturnsAtOnce, Join, WaitReads, IInv, CallInv
  <1>8. /\ worker' = worker /\ alive' = alive
        /\ joinable' = (joinable /\ ~WaitTakes(t))
    BY DEF WaitTakes, WaitReturnsAtOnce, Join, WaitReads, serveVars, IInv,
           TypeOK
  <1>9. to \in {"read", "gone"} => worker = "over"
    BY <1>3 DEF WaitTakes, WaitReturnsAtOnce, Join, WaitReads, IInv, CallInv
  <1>10. call[t] = "join" => worker = "over"
    BY DEF WaitTakes, WaitReturnsAtOnce, Join, WaitReads
  <1>11. CallInv'
    BY <1>3, <1>4, <1>7, <1>8, <1>9, <1>10 DEF IInv, CallInv
  <1> QED BY <1>1, <1>2, <1>6, <1>11 DEF IInv

LEMMA DestroyKeeps ==
  ASSUME IInv, Destroy PROVE IInv'
  <1>1. LoopInv' /\ LateInv' /\ ServeTypeOK'
    BY DEF Destroy, StopStore, IInv, TypeOK, ServeTypeOK, LoopInv, LateInv
  <1> QED
    BY <1>1, TaskAssumption
       DEF Destroy, StopStore, IInv, TypeOK, WorkerInv, CallInv, CallPC

LEMMA ClientKeeps ==
  ASSUME IInv, NEW c \in Clients, ClientStep(c), UNCHANGED taskVars
  PROVE  IInv'
  <1>1. /\ UNCHANGED <<stopFlag, serve, listener, published, responder,
                      client, lateAccepts, result>>
        /\ ServeTypeOK'
    BY DEF ClientStep, Connect, SendRequest, ReadBackup, Leave, Advance, IInv,
           TypeOK, ServeTypeOK
  <1>2. LoopInv' /\ LateInv'
    BY <1>1 DEF IInv, LoopInv, LateInv
  <1> QED
    BY <1>1, <1>2 DEF taskVars, IInv, TypeOK, WorkerInv, CallInv

LEMMA NextKeeps == IInv /\ [Next]_vars => IInv'
  <1> SUFFICES ASSUME IInv, [Next]_vars PROVE IInv'
    OBVIOUS
  <1>1. CASE UNCHANGED vars
    BY <1>1, ServerAlone
       DEF vars, taskVars, IInv, TypeOK, WorkerInv, CallInv, serveVars
  <1> QED
    BY <1>1, ServeKeeps, RunKeeps, StopKeeps, WaitKeeps, DestroyKeeps,
       ClientKeeps
       DEF Next, WorkerStep, CallerStep

-----------------------------------------------------------------------------

(* Every reachable state of a task, its callers and its server's loop is   *)
(* well typed.                                                             *)
THEOREM TypeCorrect == Spec => []TypeOK
  <1>1. IInv => TypeOK
    BY DEF IInv
  <1> QED BY <1>1, InitKeeps, NextKeeps, PTL DEF Spec

(* Whoever has joined the worker, and the destructor, leave nothing of the *)
(* server behind.                                                          *)
THEOREM JoinReleases == Spec => []JoinedMeansReleased
  <1>1. IInv => JoinedMeansReleased
    BY DEF IInv, TypeOK, ServeTypeOK, WorkerInv, CallInv, LoopInv, Listening,
           Answering, Handling, JoinedMeansReleased, Released
  <1> QED BY <1>1, InitKeeps, NextKeeps, PTL DEF Spec

(* The discovery responder names a port that is open.                      *)
THEOREM AdvertisesOpenPort == Spec => []AdvertisedIsOpen
  <1>1. IInv => AdvertisedIsOpen
    BY DEF IInv, LoopInv, Answering, Listening, AdvertisedIsOpen
  <1> QED BY <1>1, InitKeeps, NextKeeps, PTL DEF Spec

(* A stop request is seen after one more connection at the latest.         *)
THEOREM StopsAccepting == Spec => []AtMostOneMore
  <1>1. IInv => AtMostOneMore
    BY DEF IInv, LateInv, AtMostOneMore
  <1> QED BY <1>1, InitKeeps, NextKeeps, PTL DEF Spec

(* The state of a task never moves backwards.                              *)
THEOREM StatesAdvance == Spec => StateMovesForward
  <1>1. IInv /\ [Next]_vars => [Rank[state'] >= Rank[state]]_vars
    <2> SUFFICES ASSUME IInv, Next PROVE Rank[state'] >= Rank[state]
      OBVIOUS
    <2>1. state' = state \/ Rank[state'] >= Rank[state]
      BY DEF Next, WorkerStep, Run, Serve, MarkFinished, CallerStep, Stop,
             StopMark, WaitTakes, WaitReturnsAtOnce, Join, WaitReads, Destroy,
             taskVars, IInv, TypeOK, WorkerInv, Rank
    <2>2. Rank[state] \in Nat
      BY DEF IInv, TypeOK, Rank
    <2> QED BY <2>1, <2>2
  <1> QED
    BY <1>1, InitKeeps, NextKeeps, PTL DEF Spec, StateMovesForward

-----------------------------------------------------------------------------
(* One thread that does everything: the way in which manager.h means the   *)
(* handle to be used, and in which the command uses it.                    *)

Alone ==
  /\ \A t \in Callers \ {Owner} : call[t] = "outside"
  /\ WaitReturnsFinalStatus

LEMMA AloneAtFirst == Init => Alone
  BY DEF Init, Alone, WaitReturnsFinalStatus

(* A thread that does not find the worker has joined it itself: there is   *)
(* nobody else who could be in the join.                                   *)
LEMMA AloneReturns ==
  ASSUME IInv, Alone, WaitReturnsAtOnce(Owner) \/ WaitReads(Owner)
  PROVE  WaitReturnsFinalStatus'
  <1>1. worker = "over"
    BY TaskAssumption
       DEF WaitReturnsAtOnce, WaitReads, Alone, IInv, CallInv
  <1>2. state = "finished"
    BY <1>1 DEF IInv, WorkerInv
  <1>3. answers' = answers \cup {[status |-> status, state |-> state]}
    BY DEF WaitReturnsAtOnce, WaitReads, Answer
  <1> QED BY <1>2, <1>3 DEF Alone, WaitReturnsFinalStatus

LEMMA AloneKeeps ==
  ASSUME IInv, Alone,
         \/ CallerStep(Owner) \/ Destroy
         \/ UNCHANGED <<call, answers>>
  PROVE  Alone'
  <1>1. CASE UNCHANGED <<call, answers>>
    BY <1>1 DEF Alone, WaitReturnsFinalStatus
  <1>2. CASE CallerStep(Owner) \/ Destroy
    <2>1. PICK to \in CallPC : call' = [call EXCEPT ![Owner] = to]
      BY <1>2
         DEF CallerStep, Stop, StopMark, WaitTakes, WaitReturnsAtOnce, Join,
             WaitReads, Destroy, StopStore, Answer, CallPC
    <2>2. \A t \in Callers \ {Owner} : call'[t] = "outside"
      BY <2>1, TaskAssumption, CallMoves DEF IInv, Alone
    <2>3. WaitReturnsFinalStatus'
      <3>1. CASE answers' = answers
        BY <3>1 DEF Alone, WaitReturnsFinalStatus
      <3>2. CASE WaitReturnsAtOnce(Owner) \/ WaitReads(Owner)
        BY <3>2, AloneReturns
      <3> QED
        BY <1>2, <3>1, <3>2
           DEF CallerStep, Stop, StopMark, WaitTakes, Join, Destroy
    <2> QED BY <2>2, <2>3 DEF Alone
  <1> QED BY <1>1, <1>2

LEMMA BesideCalls ==
  ASSUME \/ WorkerStep
         \/ \E c \in Clients : ClientStep(c) /\ UNCHANGED taskVars
  PROVE  UNCHANGED <<call, answers>>
  BY DEF WorkerStep, Run, Serve, MarkFinished, taskVars

(* "Wait for the task to finish and return its final status" (manager.h)   *)
(* holds in a program in which one thread uses the handle; with two of     *)
(* them it does not.                                                       *)
THEOREM OneWaiterIsTold ==
  Callers = {Owner} /\ Spec => []WaitReturnsFinalStatus
  <1>1. Callers = {Owner} /\ IInv /\ Alone /\ [Next]_vars => Alone'
    <2>1. UNCHANGED vars => UNCHANGED <<call, answers>>
      BY DEF vars, taskVars
    <2> QED BY <2>1, AloneKeeps, BesideCalls DEF Next
  <1>2. Alone => WaitReturnsFinalStatus
    BY DEF Alone
  <1>3. (Callers = {Owner}) => [](Callers = {Owner})
    <2>1. (Callers = {Owner}) => (Callers = {Owner})'
      OBVIOUS
    <2> QED BY <2>1, PTL
  <1> QED
    BY <1>1, <1>2, <1>3, InitKeeps, NextKeeps, AloneAtFirst, PTL DEF Spec

-----------------------------------------------------------------------------
(* The serve command.                                                      *)

(* Every step of the command and of what goes on beside it is one that a   *)
(* program may take with a task, or none.                                  *)
LEMMA StepOfProgram == CommandNext => [Next]_vars
  <1> SUFFICES ASSUME CommandNext PROVE [Next]_vars
    OBVIOUS
  <1>1. CASE CommandStep
    BY <1>1, TaskAssumption
       DEF CommandStep, EnterScope, Poll, Look, StopServer, Acknowledge,
           WaitForServer, Exit, LeaveCommand, Next, CallerStep
  <1>2. CASE Interrupt \/ BrokenPipe
    BY <1>2 DEF Interrupt, BrokenPipe
  <1>3. CASE Within(Owner)
    BY <1>3, TaskAssumption DEF Within, Next, CallerStep
  <1> QED
    BY <1>1, <1>2, <1>3 DEF CommandNext, Beside, Next

(* The serve command is one of the programs of SyncTask: what is proved of *)
(* those, that a joined task has released everything and that its state    *)
(* never moves backwards among it, holds of the command.                   *)
THEOREM CommandIsProgram == CommandSpec => Spec
  <1>1. CommandInit => Init
    BY DEF CommandInit
  <1>2. [CommandNext]_allVars => [Next]_vars
    <2>1. UNCHANGED allVars => UNCHANGED vars
      BY DEF allVars
    <2> QED BY <2>1, StepOfProgram
  <1> QED BY <1>1, <1>2, PTL DEF CommandSpec, Spec

-----------------------------------------------------------------------------
(* What is inductive: the server ends well only when it was asked to stop, *)
(* the command knows of the request whenever it is about to wait or to     *)
(* poll, and it waits only for a worker that is over.                      *)

AskedInv ==
  serve \in {"stop_discovery", "close"} \/ result = "ok" => stopFlag

CommandInv ==
  /\ caught => command \in Handled \cup {"leaving", "done", "killed"}
  /\ command = "clear" => stopFlag
  /\ command \in {"start", "enter", "poll", "look", "stop", "wait",
                  "waiting"} => (stopFlag => byUser)
  /\ command \in {"wait", "waiting"} => worker = "over"

CInv ==
  /\ IInv /\ AskedInv /\ CommandTypeOK /\ CommandInv
  /\ NoInterruptLost /\ NeverUnexpected

LEMMA CommandInitKeeps == CommandInit => CInv
  <1> SUFFICES ASSUME CommandInit PROVE CInv
    OBVIOUS
  <1>1. IInv
    BY InitKeeps DEF CommandInit
  <1>2. AskedInv
    BY DEF CommandInit, Init, ServeInit, Started, Refused, AskedInv
  <1>3. stopFlag = FALSE
    BY DEF CommandInit, Init, ServeInit
  <1> QED
    BY <1>1, <1>2, <1>3
       DEF CommandInit, CInv, CommandTypeOK, CommandPC, Handled, CommandInv,
           NoInterruptLost, NeverUnexpected

(* Only stop() and the destructor set the flag, and nothing clears it; a   *)
(* worker that is over stays over.                                         *)
LEMMA WorkerAsked ==
  ASSUME IInv, AskedInv, WorkerStep
  PROVE  AskedInv' /\ stopFlag' = stopFlag /\ worker # "over"
  <1>1. stopFlag' = stopFlag
    BY DEF WorkerStep, Run, Serve, MarkFinished, ServeStep, SetUp, Publish,
           StartDiscovery, CheckStop, Select, SelectFails, Unwind, Accept,
           AcceptFails, Receive, Reply, Stream, StopDiscovery, Close,
           serveVars
  <1>2. AskedInv'
    <2>1. CASE Run \/ MarkFinished
      BY <2>1 DEF Run, MarkFinished, serveVars, AskedInv
    <2>2. CASE Serve
      BY <1>1, <2>2
         DEF Serve, ServeStep, SetUp, Publish, StartDiscovery, CheckStop,
             Select, SelectFails, Unwind, Accept, AcceptFails, Receive, Reply,
             Stream, StopDiscovery, Close, Hangup, AskedInv
    <2> QED BY <2>1, <2>2 DEF WorkerStep
  <1>3. worker # "over"
    BY DEF WorkerStep, Run, Serve, MarkFinished
  <1> QED BY <1>1, <1>2, <1>3

LEMMA CallerAsked ==
  ASSUME AskedInv,
         \/ \E t \in Callers : CallerStep(t)
         \/ Destroy
         \/ \E c \in Clients : ClientStep(c) /\ UNCHANGED taskVars
  PROVE  AskedInv' /\ worker' = worker /\ (stopFlag => stopFlag')
  BY DEF CallerStep, Stop, StopMark, WaitTakes, WaitReturnsAtOnce, Join,
         WaitReads, Destroy, StopStore, ClientStep, Connect, SendRequest,
         ReadBackup, Leave, Advance, serveVars, taskVars, AskedInv

(* What any step of the program does to what the command relies on.        *)
LEMMA NextAsked ==
  ASSUME IInv, AskedInv, [Next]_vars
  PROVE  /\ AskedInv'
         /\ stopFlag => stopFlag'
         /\ worker = "over" => worker' = "over"
  <1>1. CASE UNCHANGED vars
    BY <1>1 DEF vars, serveVars, taskVars, AskedInv
  <1>2. CASE Next
    BY <1>2, WorkerAsked, CallerAsked DEF Next
  <1> QED BY <1>1, <1>2

LEMMA InterruptKeeps ==
  ASSUME CInv, Interrupt
  PROVE  CommandTypeOK' /\ CommandInv' /\ NoInterruptLost' /\ NeverUnexpected'
  <1>1. UNCHANGED <<stopFlag, worker>>
    BY DEF Interrupt, vars, serveVars, taskVars
  <1>2. UNCHANGED <<handler, byUser, exitCode>>
    BY DEF Interrupt
  <1>3. CASE handler = "ours"
    <2>1. interrupt' = TRUE /\ caught' = TRUE /\ command' = command
      BY <1>3 DEF Interrupt
    <2>2. command \in Handled
      BY <1>3 DEF CInv, CommandTypeOK
    <2> QED
      BY <1>1, <1>2, <2>1, <2>2
         DEF CInv, CommandTypeOK, CommandInv, NoInterruptLost, NeverUnexpected
  <1>4. CASE handler # "ours"
    <2>1. /\ command \in {"start", "enter"} /\ command' = "killed"
          /\ interrupt' = interrupt /\ caught' = caught
      BY <1>4 DEF Interrupt
    <2>2. ~caught
      BY <2>1 DEF CInv, CommandInv, Handled
    <2> QED
      BY <1>1, <1>2, <1>4, <2>1, <2>2
         DEF CInv, CommandTypeOK, CommandPC, Handled, CommandInv,
             NoInterruptLost, NeverUnexpected
  <1> QED BY <1>3, <1>4

LEMMA BrokenPipeKeeps ==
  ASSUME CInv, BrokenPipe
  PROVE  CommandTypeOK' /\ CommandInv' /\ NoInterruptLost' /\ NeverUnexpected'
  BY DEF BrokenPipe, vars, serveVars, taskVars, CInv, CommandTypeOK, CommandPC,
         Handled, CommandInv, NoInterruptLost, NeverUnexpected

(* wait() has returned: the worker is over, its status is the server's     *)
(* result, and that is "ok" only after a stop of which the command knows.  *)
LEMMA ExitKeeps ==
  ASSUME CInv, Exit
  PROVE  CommandTypeOK' /\ CommandInv' /\ NoInterruptLost' /\ NeverUnexpected'
  <1>1. UNCHANGED <<stopFlag, worker, byUser, caught, interrupt>>
    BY DEF Exit, vars, serveVars, taskVars
  <1>2. worker = "over" /\ command = "waiting"
    BY DEF Exit, CInv, CommandInv
  <1>3. status = result /\ result \in {"ok", "error"}
    BY <1>2 DEF CInv, IInv, WorkerInv, LoopInv
  <1>4. status # "error" => byUser
    BY <1>2, <1>3 DEF CInv, AskedInv, CommandInv
  <1> QED
    BY <1>1, <1>2, <1>4
       DEF Exit, CInv, CommandTypeOK, CommandPC, Handled, CommandInv,
           NoInterruptLost, NeverUnexpected

LEMMA CommandStepKeeps ==
  ASSUME CInv, CommandStep
  PROVE  CommandTypeOK' /\ CommandInv' /\ NoInterruptLost' /\ NeverUnexpected'
  <1>1. CASE EnterScope
    BY <1>1
       DEF EnterScope, CInv, CommandTypeOK, CommandPC, Handled, CommandInv,
           NoInterruptLost, NeverUnexpected, vars, serveVars, taskVars
  <1>2. CASE Poll
    <2>1. state = "finished" => worker = "over"
      BY DEF CInv, IInv, TypeOK, WorkerInv
    <2> QED
      BY <1>2, <2>1
         DEF Poll, CInv, CommandTypeOK, CommandPC, Handled, CommandInv,
             NoInterruptLost, NeverUnexpected, vars, serveVars, taskVars
  <1>3. CASE Look
    BY <1>3
       DEF Look, CInv, CommandTypeOK, CommandPC, Handled, CommandInv,
           NoInterruptLost, NeverUnexpected, vars, serveVars, taskVars
  <1>4. CASE StopServer
    BY <1>4
       DEF StopServer, Stop, StopStore, CInv, CommandTypeOK, CommandPC,
           Handled, CommandInv, NoInterruptLost, NeverUnexpected
  <1>5. CASE Acknowledge
    BY <1>5
       DEF Acknowledge, CInv, CommandTypeOK, CommandPC, Handled, CommandInv,
           NoInterruptLost, NeverUnexpected, vars, serveVars, taskVars
  <1>6. CASE WaitForServer
    BY <1>6
       DEF WaitForServer, WaitTakes, serveVars, CInv, CommandTypeOK,
           CommandPC, Handled, CommandInv, NoInterruptLost, NeverUnexpected
  <1>7. CASE LeaveCommand
    BY <1>7
       DEF LeaveCommand, Destroy, StopStore, CInv, CommandTypeOK, CommandPC,
           Handled, CommandInv, NoInterruptLost, NeverUnexpected
  <1> QED
    BY <1>1, <1>2, <1>3, <1>4, <1>5, <1>6, <1>7, ExitKeeps DEF CommandStep

(* Beside the command only the worker and the clients run, and its own     *)
(* thread inside a call that it has made: none of them asks for a stop.    *)
LEMMA BesideKeeps ==
  ASSUME CInv, UNCHANGED cmdVars,
         \/ command = "library" /\ Next
         \/ WorkerStep
         \/ Within(Owner)
         \/ \E c \in Clients : ClientStep(c) /\ UNCHANGED taskVars
  PROVE  CommandTypeOK' /\ CommandInv' /\ NoInterruptLost' /\ NeverUnexpected'
  <1>1. [Next]_vars
    BY TaskAssumption DEF Within, Next, CallerStep
  <1>2. /\ stopFlag => stopFlag'
        /\ worker = "over" => worker' = "over"
    BY <1>1, NextAsked DEF CInv
  <1>3. command # "library" => stopFlag' = stopFlag
    BY WorkerAsked
       DEF CInv, Within, StopMark, Join, WaitReads, WaitTakes,
           WaitReturnsAtOnce, ClientStep, Connect, SendRequest, ReadBackup,
           Leave, Advance, serveVars
  <1> QED
    BY <1>2, <1>3
       DEF cmdVars, CInv, CommandTypeOK, CommandInv, NoInterruptLost,
           NeverUnexpected, Handled

LEMMA CommandNextKeeps == CInv /\ [CommandNext]_allVars => CInv'
  <1> SUFFICES ASSUME CInv, [CommandNext]_allVars PROVE CInv'
    OBVIOUS
  <1>1. [Next]_vars
    BY StepOfProgram DEF allVars
  <1>2. IInv' /\ AskedInv'
    BY <1>1, NextKeeps, NextAsked DEF CInv
  <1>3. CommandTypeOK' /\ CommandInv' /\ NoInterruptLost' /\ NeverUnexpected'
    <2>1. CASE UNCHANGED allVars
      BY <2>1
         DEF allVars, cmdVars, vars, serveVars, taskVars, CInv,
             CommandTypeOK, CommandInv, NoInterruptLost, NeverUnexpected
    <2> QED
      BY <2>1, CommandStepKeeps, InterruptKeeps, BrokenPipeKeeps,
         BesideKeeps
         DEF CommandNext, Beside
  <1> QED BY <1>2, <1>3 DEF CInv

-----------------------------------------------------------------------------

(* Every reachable state of a library program and of the command is well   *)
(* typed, and the SIGINT handler is in place exactly in its scope.         *)
THEOREM CommandTypeCorrect == CommandSpec => []CommandTypeOK
  <1>1. CInv => CommandTypeOK
    BY DEF CInv
  <1> QED BY <1>1, CommandInitKeeps, CommandNextKeeps, PTL DEF CommandSpec

(* Wherever in the polling loop a SIGINT is caught, the flag or the stop   *)
(* request keeps it.                                                       *)
THEOREM InterruptKept == CommandSpec => []NoInterruptLost
  <1>1. CInv => NoInterruptLost
    BY DEF CInv
  <1> QED BY <1>1, CommandInitKeeps, CommandNextKeeps, PTL DEF CommandSpec

(* Whatever clients and network do, the command never finds that a server  *)
(* which nobody stopped has ended well.                                    *)
THEOREM ExitsAsExpected == CommandSpec => []NeverUnexpected
  <1>1. CInv => NeverUnexpected
    BY DEF CInv
  <1> QED BY <1>1, CommandInitKeeps, CommandNextKeeps, PTL DEF CommandSpec

(* The command makes all of its calls from one thread.                     *)
Calling == command \notin {"library", "killed"}

LEMMA CommandAlone ==
  ASSUME IInv, [CommandNext]_allVars, Calling => Alone
  PROVE  (Calling => Alone)'
  <1>1. CASE UNCHANGED allVars
    BY <1>1, AloneKeeps DEF allVars, cmdVars, vars, taskVars, Calling
  <1>2. CASE command \in {"library", "killed"}
    BY <1>1, <1>2
       DEF CommandNext, CommandStep, EnterScope, Poll, Look, StopServer,
           Acknowledge, WaitForServer, Exit, LeaveCommand, Interrupt,
           BrokenPipe, Beside, cmdVars, Calling
  <1>3. CASE Calling /\ CommandNext
    <2>1. \/ CallerStep(Owner) \/ Destroy
          \/ UNCHANGED <<call, answers>>
      BY <1>3, BesideCalls
         DEF CommandNext, CommandStep, EnterScope, Poll, Look, StopServer,
             Acknowledge, WaitForServer, Exit, LeaveCommand, Interrupt,
             BrokenPipe, Beside, Within, CallerStep, vars, taskVars, Calling
    <2> QED BY <1>3, <2>1, AloneKeeps DEF Calling
  <1> QED BY <1>1, <1>2, <1>3 DEF Calling

(* The serve command is told the final status by its wait(): it is one of  *)
(* the programs that do not ask for it twice at once.                      *)
THEOREM CommandIsTold ==
  CommandSpec =>
    [](command \notin {"library", "killed"} => WaitReturnsFinalStatus)
  <1>1. CommandInit => (Calling => Alone)
    BY AloneAtFirst DEF CommandInit
  <1>2. (Calling => Alone) =>
          (command \notin {"library", "killed"} => WaitReturnsFinalStatus)
    BY DEF Alone, Calling
  <1>3. CInv => IInv
    BY DEF CInv
  <1> QED
    BY <1>1, <1>2, <1>3, CommandAlone, CommandInitKeeps, CommandNextKeeps,
       PTL DEF CommandSpec

=============================================================================
