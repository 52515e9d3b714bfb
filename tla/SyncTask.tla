------------------------------ MODULE SyncTask ------------------------------
(***************************************************************************)
(* SyncTaskHandle (sync.cpp): the worker thread that Manager::serve_sync   *)
(* starts, and the threads of the program that stop it, wait for it and    *)
(* destroy the handle.  A step is what one thread does between two points  *)
(* where another can get in: a critical section of mutex_, a store to the  *)
(* atomic flag, a join.                                                    *)
(***************************************************************************)
EXTENDS ServeLoop

CONSTANTS
  Callers,   \* threads that use the handle
  Owner      \* the one that destroys it

ASSUME TaskAssumption == Owner \in Callers

VARIABLES
  state,      \* task_state_
  status,     \* task_status_
  joinable,   \* worker_thread_ still holds the thread
  worker,     \* the worker thread: not run yet, in worker_fn, over
  call,       \* where each caller is
  alive,      \* the handle has not been destroyed
  answers     \* history: what wait() returned, and in which task state

taskVars == <<state, status, joinable, worker, call, alive, answers>>
vars     == <<serveVars, taskVars>>

CallPC == {"outside", "mark", "wait", "join", "read", "gone"}

-----------------------------------------------------------------------------
(* The worker thread: Impl::run.                                           *)

(* Mutant: the state is set without looking at it.                         *)
Run_Unconditional ==
  /\ worker = "new"
  /\ state' = "running"
  /\ worker' = "serving"
  /\ UNCHANGED <<serveVars, status, joinable, call, alive, answers>>

Run ==
  /\ worker = "new"
  /\ state' = IF state = "starting" THEN "running" ELSE state
  /\ worker' = "serving"
  /\ UNCHANGED <<serveVars, status, joinable, call, alive, answers>>

Serve ==
  /\ worker = "serving"
  /\ ServeStep
  /\ UNCHANGED taskVars

MarkFinished ==
  /\ worker = "serving"
  /\ serve = "return"
  /\ status' = result
  /\ state' = "finished"
  /\ worker' = "over"
  /\ UNCHANGED <<serveVars, joinable, call, alive, answers>>

WorkerStep == Run \/ Serve \/ MarkFinished

-----------------------------------------------------------------------------
(* stop(): the flag first, the state in a second step.                     *)

(* Mutant: only the state is changed.                                      *)
StopStore_StateOnly(t, next) ==
  /\ call' = [call EXCEPT ![t] = next]
  /\ UNCHANGED <<serve, listener, published, responder, conn, peer, client,
                 lateAccepts, result, stopFlag>>

StopStore(t, next) ==
  /\ stopFlag' = TRUE
  /\ call' = [call EXCEPT ![t] = next]
  /\ UNCHANGED <<serve, listener, published, responder, conn, peer, client,
                 lateAccepts, result>>

Stop(t) ==
  /\ alive
  /\ call[t] = "outside"
  /\ StopStore(t, "mark")
  /\ UNCHANGED <<state, status, joinable, worker, alive, answers>>

(* The destructor calls wait() next.                                       *)
StopMark(t) ==
  /\ call[t] = "mark"
  /\ state' = IF state \in {"starting", "running"} THEN "stopping" ELSE state
  /\ call' = [call EXCEPT ![t] = IF alive THEN "outside" ELSE "wait"]
  /\ UNCHANGED <<serveVars, status, joinable, worker, alive, answers>>

(* wait(): the first one takes the thread, any other finds none.           *)
Answer(t) ==
  /\ answers' = answers \cup {[status |-> status, state |-> state]}
  /\ call' = [call EXCEPT ![t] = IF alive THEN "outside" ELSE "gone"]

WaitTakes(t) ==
  /\ \/ alive /\ call[t] = "outside"
     \/ call[t] = "wait"
  /\ joinable
  /\ joinable' = FALSE
  /\ call' = [call EXCEPT ![t] = "join"]
  /\ UNCHANGED <<serveVars, state, status, worker, alive, answers>>

WaitReturnsAtOnce(t) ==
  /\ \/ alive /\ call[t] = "outside"
     \/ call[t] = "wait"
  /\ ~joinable
  /\ Answer(t)
  /\ UNCHANGED <<serveVars, state, status, joinable, worker, alive>>

Join(t) ==
  /\ call[t] = "join"
  /\ worker = "over"
  /\ call' = [call EXCEPT ![t] = "read"]
  /\ UNCHANGED <<serveVars, state, status, joinable, worker, alive, answers>>

WaitReads(t) ==
  /\ call[t] = "read"
  /\ Answer(t)
  /\ UNCHANGED <<serveVars, state, status, joinable, worker, alive>>

(* The handle is destroyed by its owner when nobody else uses it, as the   *)
(* language demands of any object: ~Impl is request_stop, then wait.       *)
Destroy ==
  /\ alive
  /\ \A t \in Callers : call[t] = "outside"
  /\ alive' = FALSE
  /\ StopStore(Owner, "mark")
  /\ UNCHANGED <<state, status, joinable, worker, answers>>

Within(t) == StopMark(t) \/ Join(t) \/ WaitReads(t)
               \/ (~alive /\ (WaitTakes(t) \/ WaitReturnsAtOnce(t)))

CallerStep(t) ==
  \/ Stop(t) \/ StopMark(t)
  \/ WaitTakes(t) \/ WaitReturnsAtOnce(t) \/ Join(t) \/ WaitReads(t)

-----------------------------------------------------------------------------

(* Impl::start holds the mutex while it stores the thread, so nobody sees  *)
(* a handle without it.                                                    *)
Started ==
  /\ serve = "setup" /\ result = "none"
  /\ worker = "new" /\ joinable = TRUE
  /\ state = "starting" /\ status = "ok"

(* A Manager without a root returns a handle that has finished already.    *)
Refused ==
  /\ serve = "return" /\ result = "error"
  /\ worker = "over" /\ joinable = FALSE
  /\ state = "finished" /\ status = "error"

Init ==
  /\ ServeInit
  /\ Started \/ Refused
  /\ call = [t \in Callers |-> "outside"]
  /\ alive = TRUE
  /\ answers = {}

Next ==
  \/ WorkerStep
  \/ \E t \in Callers : CallerStep(t)
  \/ Destroy
  \/ \E c \in Clients : ClientStep(c) /\ UNCHANGED taskVars

Spec == Init /\ [][Next]_vars

(* The scheduler runs the worker and whoever is inside a call.  Nobody has *)
(* to call anything.                                                       *)
SchedulerFair ==
  /\ WF_vars(WorkerStep)
  /\ \A t \in Callers : WF_vars(Within(t))

FairSpec == Spec /\ SchedulerFair

-----------------------------------------------------------------------------
(* Type invariant.                                                         *)
TypeOK ==
  /\ ServeTypeOK
  /\ state \in {"starting", "running", "stopping", "finished"}
  /\ status \in {"ok", "error"}
  /\ joinable \in BOOLEAN
  /\ worker \in {"new", "serving", "over"}
  /\ call \in [Callers -> CallPC]
  /\ alive \in BOOLEAN
  /\ answers \subseteq [status : {"ok", "error"},
                        state : {"starting", "running", "stopping",
                                 "finished"}]

Released == listener # "open" /\ ~responder /\ client = NoClient

(* The wait() that took the thread comes back, and the destructor ends,    *)
(* only when the task has its final state and status and its sockets, its  *)
(* responder and its connection are released, on every path out of the     *)
(* server and however stop, wait and the destructor are interleaved.       *)
JoinedMeansReleased ==
  \A t \in Callers :
    call[t] \in {"read", "gone"} =>
      state = "finished" /\ status = result /\ Released

(* The state only moves forward: a stop that comes before the thread has   *)
(* begun is not overwritten by Running, one that comes after the end does  *)
(* not bring a finished task back to Stopping.                             *)
Rank == [starting |-> 0, running |-> 1, stopping |-> 2, finished |-> 3]
StateMovesForward == [][Rank[state'] >= Rank[state]]_vars

(* A device that answers discovery queries can be connected to.  Between a *)
(* failed select and the destructor of the responder it cannot.            *)
AdvertisedIsOpen == responder => listener = "open" \/ serve = "unwind"

(* After a stop request the server takes at most the connection that was   *)
(* on its way in.                                                          *)
AtMostOneMore == lateAccepts <= 1

(* "Call stop() then wait() to shut it down" (manager.h), whatever the     *)
(* clients do.                                                             *)
StopShutsDown == stopFlag ~> worker = "over"

(* "Wait for the task to finish and return its final status" (manager.h).  *)
WaitReturnsFinalStatus == \A a \in answers : a.state = "finished"

=============================================================================
