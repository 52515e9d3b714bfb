------------------------------ MODULE Discovery ------------------------------
(***************************************************************************)
(* discovery_mdns.cpp: the discovery responder, one per process, that all  *)
(* sync servers of the process share, and list_mdns_devices, which asks    *)
(* for devices and collects answers for a while.                           *)
(*                                                                         *)
(* A server is a thread inside serve_sync_server (see ServeLoop, which has *)
(* the responder of one server as a flag); the DeviceInfo it advertises is *)
(* abstracted to the server itself.                                        *)
(***************************************************************************)
EXTENDS Naturals

CONSTANTS
  Servers,    \* the servers of the process that advertise
  NoServer,
  Seekers,    \* callers of list_mdns_devices, here or on other machines
  NoSeeker,
  Window      \* intervals of select that a seeker waits: 14 in the code

ASSUME DiscoveryAssumption ==
  /\ NoServer \notin Servers
  /\ NoSeeker \notin Seekers
  /\ Window \in Nat \ {0}

VARIABLES
  scope,          \* where each server is with its DiscoveryResponderScope
  mutex,          \* g_responder_mutex: the server that holds it
  running,        \* g_responder_running
  stopRequested,  \* g_responder_stop_requested
  thread,         \* g_responder_thread: where its loop is
  device,         \* local_device, the copy that thread answers with
  requests,       \* seekers whose requests wait in the responder's socket
  source,         \* the seeker whose request was received last
  elapsed,        \* intervals counted by each seeker, Window when it is done
  answers,        \* answers that wait in each seeker's socket
  found,          \* by_device_id of each seeker, then its list
  advertised      \* history: servers with a responder since the seeker began

serverVars == <<scope, mutex, running, stopRequested, device>>
seekerVars == <<elapsed, answers, found, advertised>>
vars == <<serverVars, thread, requests, source, seekerVars>>

(* The servers that own the responder, from its start to the join.         *)
Owning == {"starting", "up", "leaving", "joining"}
Owners == {s \in Servers : scope[s] \in Owning}

At(s, from, to) == scope[s] = from /\ scope' = [scope EXCEPT ![s] = to]

-----------------------------------------------------------------------------
(* start_discovery_responder.                                              *)

(* Mutant: the stop flag is reset before the mutex is taken.               *)
Enter_ResetsFlag(s) ==
  /\ At(s, "off", "entering")
  /\ stopRequested' = FALSE
  /\ UNCHANGED <<mutex, running, thread, device, requests, source, seekerVars>>

Enter(s) ==
  /\ At(s, "off", "entering")
  /\ UNCHANGED <<mutex, running, stopRequested, thread, device, requests,
                 source, seekerVars>>

(* Mutant: the scope's destructor stops a responder it did not start.      *)
Refused_Unwinds(s) ==
  /\ mutex = NoServer /\ running
  /\ At(s, "entering", "leaving")
  /\ UNCHANGED <<mutex, running, stopRequested, thread, device, requests,
                 source, seekerVars>>

(* "Discovery responder is already running"                                *)
Refused(s) ==
  /\ mutex = NoServer /\ running
  /\ At(s, "entering", "off")
  /\ UNCHANGED <<mutex, running, stopRequested, thread, device, requests,
                 source, seekerVars>>

Lock(s) ==
  /\ mutex = NoServer /\ ~running
  /\ At(s, "entering", "opening")
  /\ mutex' = s
  /\ UNCHANGED <<running, stopRequested, thread, device, requests, source,
                 seekerVars>>

(* No socket, no port, or no thread; the flag was FALSE before.            *)
OpenFails(s) ==
  /\ At(s, "opening", "off")
  /\ mutex' = NoServer
  /\ stopRequested' = FALSE
  /\ UNCHANGED <<running, thread, device, requests, source, seekerVars>>

(* The socket is bound, and the thread runs before its creator goes on.    *)
Open(s) ==
  /\ At(s, "opening", "starting")
  /\ stopRequested' = FALSE
  /\ thread' = "check"
  /\ device' = s
  /\ advertised' = [q \in Seekers |-> advertised[q] \cup {s}]
  /\ UNCHANGED <<mutex, running, requests, source, elapsed, answers, found>>

Started(s) ==
  /\ At(s, "starting", "up")
  /\ running' = TRUE
  /\ mutex' = NoServer
  /\ UNCHANGED <<stopRequested, thread, device, requests, source, seekerVars>>

-----------------------------------------------------------------------------
(* stop_discovery_responder, which joins the thread under the mutex.       *)

Leave(s) ==
  /\ At(s, "up", "leaving")
  /\ UNCHANGED <<mutex, running, stopRequested, thread, device, requests,
                 source, seekerVars>>

(* Nothing is done if no responder is running.                             *)
RequestStop(s) ==
  /\ mutex = NoServer
  /\ At(s, "leaving", IF running THEN "joining" ELSE "off")
  /\ mutex' = IF running THEN s ELSE NoServer
  /\ stopRequested' = (stopRequested \/ running)
  /\ UNCHANGED <<running, thread, device, requests, source, seekerVars>>

(* The socket is closed, and what waits in it is gone.                     *)
Clear(s) ==
  /\ At(s, "joining", "off")
  /\ requests' = {}
  /\ stopRequested' = FALSE
  /\ mutex' = NoServer
  /\ UNCHANGED <<source, seekerVars>>

Joined ==
  /\ thread = "ended"
  /\ thread' = "none"
  /\ device' = NoServer

(* Mutant: the thread is not waited for.                                   *)
Stopped_Detached(s) ==
  /\ Clear(s)
  /\ running' = FALSE
  /\ UNCHANGED <<thread, device>>

(* Mutant: a responder that has stopped counts as running.                 *)
Stopped_Running(s) ==
  /\ Clear(s)
  /\ Joined
  /\ UNCHANGED running

Stopped(s) ==
  /\ Clear(s)
  /\ Joined
  /\ running' = FALSE

-----------------------------------------------------------------------------
(* discovery_responder_loop.                                               *)

Go(from, to) ==
  /\ thread = from
  /\ thread' = to
  /\ UNCHANGED serverVars

CheckStop ==
  /\ Go("check", IF stopRequested THEN "ended" ELSE "select")
  /\ UNCHANGED <<requests, source, seekerVars>>

(* A timeout, or a signal.                                                 *)
Wake ==
  /\ Go("select", "check")
  /\ UNCHANGED <<requests, source, seekerVars>>

(* The loop ends, running stays TRUE.                                      *)
SelectFails ==
  /\ Go("select", "ended")
  /\ UNCHANGED <<requests, source, seekerVars>>

Receive ==
  /\ Go("select", "answer")
  /\ \E q \in requests : source' = q /\ requests' = requests \ {q}
  /\ UNCHANGED seekerVars

(* The answer arrives if the seeker still waits, or is lost.               *)
Answer ==
  /\ Go("answer", "check")
  /\ \/ /\ elapsed[source] < Window
        /\ answers' = [answers EXCEPT ![source] = @ \cup {device}]
     \/ UNCHANGED answers
  /\ UNCHANGED <<requests, source, elapsed, found, advertised>>

-----------------------------------------------------------------------------
(* list_mdns_devices.                                                      *)

(* Mutant: the list of the call before is kept.                            *)
Seek_Keeps(q) ==
  /\ elapsed[q] = Window
  /\ elapsed' = [elapsed EXCEPT ![q] = 0]
  /\ answers' = [answers EXCEPT ![q] = {}]
  /\ advertised' = [advertised EXCEPT ![q] = Owners]
  /\ UNCHANGED <<serverVars, thread, requests, source, found>>

Seek(q) ==
  /\ elapsed[q] = Window
  /\ elapsed' = [elapsed EXCEPT ![q] = 0]
  /\ answers' = [answers EXCEPT ![q] = {}]
  /\ found' = [found EXCEPT ![q] = {}]
  /\ advertised' = [advertised EXCEPT ![q] = Owners]
  /\ UNCHANGED <<serverVars, thread, requests, source>>

(* Each interface has sent a copy of the request, and each may arrive at   *)
(* the process while a responder has its port open, or be lost.            *)
Deliver(q) ==
  /\ elapsed[q] < Window
  /\ thread # "none"
  /\ requests' = requests \cup {q}
  /\ UNCHANGED <<serverVars, thread, source, seekerVars>>

(* Mutant: one interval too many.                                          *)
Collect_OneMore(q) ==
  /\ elapsed[q] <= Window
  /\ elapsed' = [elapsed EXCEPT ![q] = @ + 1]
  /\ UNCHANGED <<serverVars, thread, requests, source, answers, found,
                 advertised>>

(* A datagram counts like an interval, be it an answer or not.             *)
Collect(q) ==
  /\ elapsed[q] < Window
  /\ elapsed' = [elapsed EXCEPT ![q] = @ + 1]
  /\ \/ \E s \in answers[q] :
          /\ found' = [found EXCEPT ![q] = @ \cup {s}]
          /\ answers' = [answers EXCEPT ![q] = @ \ {s}]
     \/ UNCHANGED <<found, answers>>
  /\ UNCHANGED <<serverVars, thread, requests, source, advertised>>

(* Nothing could be sent, or select failed: the list stays empty.          *)
SeekFails(q) ==
  /\ elapsed[q] < Window
  /\ elapsed' = [elapsed EXCEPT ![q] = Window]
  /\ found' = [found EXCEPT ![q] = {}]
  /\ UNCHANGED <<serverVars, thread, requests, source, answers, advertised>>

-----------------------------------------------------------------------------

Init ==
  /\ scope = [s \in Servers |-> "off"]
  /\ mutex = NoServer
  /\ running = FALSE /\ stopRequested = FALSE
  /\ thread = "none"
  /\ device = NoServer
  /\ requests = {}
  /\ source = NoSeeker
  /\ elapsed = [q \in Seekers |-> Window]
  /\ answers = [q \in Seekers |-> {}]
  /\ found = [q \in Seekers |-> {}]
  /\ advertised = [q \in Seekers |-> {}]

ServerStep(s) ==
  \/ Refused(s) \/ Lock(s) \/ OpenFails(s) \/ Open(s) \/ Started(s)
  \/ RequestStop(s) \/ Stopped(s)

ResponderStep == CheckStop \/ Wake \/ SelectFails \/ Receive \/ Answer

Next ==
  \/ \E s \in Servers : Enter(s) \/ Leave(s) \/ ServerStep(s)
  \/ ResponderStep
  \/ \E q \in Seekers : Seek(q) \/ Deliver(q) \/ Collect(q) \/ SeekFails(q)

Spec == Init /\ [][Next]_vars

(* The scheduler runs the servers and the responder.                       *)
FairSpec ==
  /\ Spec
  /\ \A s \in Servers : WF_vars(ServerStep(s))
  /\ WF_vars(ResponderStep)

-----------------------------------------------------------------------------
(* Type invariant.                                                         *)
TypeOK ==
  /\ scope \in [Servers -> Owning \cup {"off", "entering", "opening"}]
  /\ mutex \in Servers \cup {NoServer}
  /\ running \in BOOLEAN /\ stopRequested \in BOOLEAN
  /\ thread \in {"none", "check", "select", "answer", "ended"}
  /\ device \in Servers \cup {NoServer}
  /\ requests \subseteq Seekers
  /\ source \in Seekers \cup {NoSeeker}
  /\ elapsed \in [Seekers -> 0..Window]
  /\ answers \in [Seekers -> SUBSET Servers]
  /\ found \in [Seekers -> SUBSET Servers]
  /\ advertised \in [Seekers -> SUBSET Servers]

(* A server that advertises keeps the responder until it leaves itself:    *)
(* another server that starts, is refused or ends does not take it away.   *)
StaysAdvertised ==
  \A s \in Servers : scope[s] = "up" =>
    running /\ ~stopRequested /\ thread # "none" /\ device = s

(* The responder answers for a server that has not returned yet.           *)
AnswersForOwner == thread # "none" => Owners = {device}

(* Who is refused is refused because of another server that is still up,   *)
(* or ending: no server leaves the process unable to advertise again.      *)
RunningHasOwner == running => Owners # {}

(* A list has only devices that were advertised while it was collected.    *)
ListedWasAdvertised ==
  \A q \in Seekers : found[q] \subseteq advertised[q]

(* The mutex is freed again, though it is held while the responder is      *)
(* joined: no other server can undo the stop request meanwhile.            *)
MutexIsFreed == \A s \in Servers : mutex = s ~> mutex # s

=============================================================================
