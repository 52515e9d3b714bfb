-------------------------- MODULE DiscoveryProofs --------------------------
(***************************************************************************)
(* Proofs about Discovery, for any number of servers and seekers and any   *)
(* window.                                                                 *)
(***************************************************************************)
EXTENDS Discovery, TLAPS

Running == {"up", "leaving", "joining"}

(* The responder belongs to one server, from its start to its join.        *)
OwnerInv ==
  /\ \A s \in Servers : scope[s] \in Owning => device = s /\ thread # "none"
  /\ thread # "none" => device \in Servers /\ scope[device] \in Owning

(* What the mutex protects: nobody opens while there is a responder, and   *)
(* only the server that joins has asked it to stop.                        *)
MutexInv ==
  /\ \A s \in Servers :
       scope[s] \in {"opening", "starting", "joining"} => mutex = s
  /\ \A s \in Servers : scope[s] \in Running => running
  /\ \A s \in Servers : scope[s] = "opening" => ~running /\ ~stopRequested
  /\ \A s \in Servers : scope[s] = "starting" => ~running
  /\ running => thread # "none"
  /\ mutex = NoServer /\ ~running => thread = "none"
  /\ stopRequested => running /\ scope[device] = "joining"

(* Answers come from the owner at the time.                                *)
SeekInv ==
  /\ thread = "answer" => source \in Seekers
  /\ \A q \in Seekers : answers[q] \cup found[q] \subseteq advertised[q]
  /\ \A q \in Seekers : elapsed[q] < Window => Owners \subseteq advertised[q]

IInv == TypeOK /\ OwnerInv /\ MutexInv /\ SeekInv

LEMMA InitInv == Init => IInv
  <1> SUFFICES ASSUME Init PROVE IInv
    OBVIOUS
  <1> USE DiscoveryAssumption DEF Init
  <1>1. TypeOK
    <2>1. running \in BOOLEAN /\ stopRequested \in BOOLEAN
      OBVIOUS
    <2>2. scope \in [Servers -> Owning \cup {"off", "entering", "opening"}]
      OBVIOUS
    <2>3. elapsed \in [Seekers -> 0..Window]
      OBVIOUS
    <2>4. /\ answers \in [Seekers -> SUBSET Servers]
          /\ found \in [Seekers -> SUBSET Servers]
          /\ advertised \in [Seekers -> SUBSET Servers]
      OBVIOUS
    <2> QED BY <2>1, <2>2, <2>3, <2>4 DEF TypeOK
  <1>2. OwnerInv BY DEF OwnerInv, Owning
  <1>3. MutexInv BY DEF MutexInv, Running
  <1>4. SeekInv BY DEF SeekInv
  <1> QED BY <1>1, <1>2, <1>3, <1>4 DEF IInv

(* One step per action; all of the invariant is needed by most.            *)
LEMMA NextInv == IInv /\ [Next]_vars => IInv'
  <1> SUFFICES ASSUME IInv, [Next]_vars PROVE IInv'
    OBVIOUS
  <1> USE DiscoveryAssumption DEF IInv, TypeOK, OwnerInv, MutexInv, SeekInv,
                                 serverVars, seekerVars
  <1>0. /\ Owning = {"starting", "up", "leaving", "joining"}
        /\ Running = {"up", "leaving", "joining"}
    BY DEF Owning, Running
  <1>1. ASSUME NEW s \in Servers, Enter(s) PROVE IInv'
    <2>1. TypeOK' BY <1>0, <1>1 DEF Enter, At
    <2>2. OwnerInv' BY <1>0, <1>1 DEF Enter, At
    <2>3. MutexInv' BY <1>0, <1>1 DEF Enter, At
    <2>4. SeekInv' BY <1>0, <1>1 DEF Enter, At, Owners
    <2> QED BY <2>1, <2>2, <2>3, <2>4
  <1>2. ASSUME NEW s \in Servers, Refused(s) PROVE IInv'
    <2>1. TypeOK' BY <1>0, <1>2 DEF Refused, At
    <2>2. OwnerInv' BY <1>0, <1>2 DEF Refused, At
    <2>3. MutexInv' BY <1>0, <1>2 DEF Refused, At
    <2>4. SeekInv' BY <1>0, <1>2 DEF Refused, At, Owners
    <2> QED BY <2>1, <2>2, <2>3, <2>4
  <1>3. ASSUME NEW s \in Servers, Lock(s) PROVE IInv'
    <2>1. TypeOK' BY <1>0, <1>3 DEF Lock, At
    <2>2. OwnerInv' BY <1>0, <1>3 DEF Lock, At
    <2>3. MutexInv' BY <1>0, <1>3 DEF Lock, At
    <2>4. SeekInv' BY <1>0, <1>3 DEF Lock, At, Owners
    <2> QED BY <2>1, <2>2, <2>3, <2>4
  <1>4. ASSUME NEW s \in Servers, OpenFails(s) PROVE IInv'
    <2>1. TypeOK' BY <1>0, <1>4 DEF OpenFails, At
    <2>2. OwnerInv' BY <1>0, <1>4 DEF OpenFails, At
    <2>3. MutexInv' BY <1>0, <1>4 DEF OpenFails, At
    <2>4. SeekInv' BY <1>0, <1>4 DEF OpenFails, At, Owners
    <2> QED BY <2>1, <2>2, <2>3, <2>4
  <1>5. ASSUME NEW s \in Servers, Open(s) PROVE IInv'
    <2>1. TypeOK' BY <1>0, <1>5 DEF Open, At
    <2>2. OwnerInv' BY <1>0, <1>5 DEF Open, At
    <2>3. MutexInv' BY <1>0, <1>5 DEF Open, At
    <2>4. SeekInv' BY <1>0, <1>5 DEF Open, At, Owners
    <2> QED BY <2>1, <2>2, <2>3, <2>4
  <1>6. ASSUME NEW s \in Servers, Started(s) PROVE IInv'
    <2>1. TypeOK' BY <1>0, <1>6 DEF Started, At
    <2>2. OwnerInv' BY <1>0, <1>6 DEF Started, At
    <2>3. MutexInv' BY <1>0, <1>6 DEF Started, At
    <2>4. SeekInv' BY <1>0, <1>6 DEF Started, At, Owners
    <2> QED BY <2>1, <2>2, <2>3, <2>4
  <1>7. ASSUME NEW s \in Servers, Leave(s) PROVE IInv'
    <2>1. TypeOK' BY <1>0, <1>7 DEF Leave, At
    <2>2. OwnerInv' BY <1>0, <1>7 DEF Leave, At
    <2>3. MutexInv' BY <1>0, <1>7 DEF Leave, At
    <2>4. SeekInv' BY <1>0, <1>7 DEF Leave, At, Owners
    <2> QED BY <2>1, <2>2, <2>3, <2>4
  <1>8. ASSUME NEW s \in Servers, RequestStop(s) PROVE IInv'
    <2>1. TypeOK' BY <1>0, <1>8 DEF RequestStop, At
    <2>2. OwnerInv' BY <1>0, <1>8 DEF RequestStop, At
    <2>3. MutexInv' BY <1>0, <1>8 DEF RequestStop, At
    <2>4. SeekInv' BY <1>0, <1>8 DEF RequestStop, At, Owners
    <2> QED BY <2>1, <2>2, <2>3, <2>4
  <1>9. ASSUME NEW s \in Servers, Stopped(s) PROVE IInv'
    <2>1. TypeOK' BY <1>0, <1>9 DEF Stopped, At, Clear, Joined
    <2>2. OwnerInv' BY <1>0, <1>9 DEF Stopped, At, Clear, Joined
    <2>3. MutexInv' BY <1>0, <1>9 DEF Stopped, At, Clear, Joined
    <2>4. SeekInv' BY <1>0, <1>9 DEF Stopped, At, Clear, Joined, Owners
    <2> QED BY <2>1, <2>2, <2>3, <2>4
  <1>10. CASE CheckStop
    <2>1. TypeOK' BY <1>0, <1>10 DEF CheckStop, Go
    <2>2. OwnerInv' BY <1>0, <1>10 DEF CheckStop, Go
    <2>3. MutexInv' BY <1>0, <1>10 DEF CheckStop, Go
    <2>4. SeekInv' BY <1>0, <1>10 DEF CheckStop, Go, Owners
    <2> QED BY <2>1, <2>2, <2>3, <2>4
  <1>11. CASE Wake
    <2>1. TypeOK' BY <1>0, <1>11 DEF Wake, Go
    <2>2. OwnerInv' BY <1>0, <1>11 DEF Wake, Go
    <2>3. MutexInv' BY <1>0, <1>11 DEF Wake, Go
    <2>4. SeekInv' BY <1>0, <1>11 DEF Wake, Go, Owners
    <2> QED BY <2>1, <2>2, <2>3, <2>4
  <1>12. CASE SelectFails
    <2>1. TypeOK' BY <1>0, <1>12 DEF SelectFails, Go
    <2>2. OwnerInv' BY <1>0, <1>12 DEF SelectFails, Go
    <2>3. MutexInv' BY <1>0, <1>12 DEF SelectFails, Go
    <2>4. SeekInv' BY <1>0, <1>12 DEF SelectFails, Go, Owners
    <2> QED BY <2>1, <2>2, <2>3, <2>4
  <1>13. CASE Receive
    <2>1. TypeOK' BY <1>0, <1>13 DEF Receive, Go
    <2>2. OwnerInv' BY <1>0, <1>13 DEF Receive, Go
    <2>3. MutexInv' BY <1>0, <1>13 DEF Receive, Go
    <2>4. SeekInv' BY <1>0, <1>13 DEF Receive, Go, Owners
    <2> QED BY <2>1, <2>2, <2>3, <2>4
  <1>14. CASE Answer
    <2>1. TypeOK' BY <1>0, <1>14 DEF Answer, Go
    <2>2. OwnerInv' BY <1>0, <1>14 DEF Answer, Go
    <2>3. MutexInv' BY <1>0, <1>14 DEF Answer, Go
    <2>4. SeekInv' BY <1>0, <1>14 DEF Answer, Go, Owners
    <2> QED BY <2>1, <2>2, <2>3, <2>4
  <1>15. ASSUME NEW q \in Seekers, Seek(q) PROVE IInv'
    <2>1. TypeOK' BY <1>0, <1>15 DEF Seek, Owners
    <2>2. OwnerInv' BY <1>0, <1>15 DEF Seek
    <2>3. MutexInv' BY <1>0, <1>15 DEF Seek
    <2>4. SeekInv' BY <1>0, <1>15 DEF Seek, Owners
    <2> QED BY <2>1, <2>2, <2>3, <2>4
  <1>16. ASSUME NEW q \in Seekers, Deliver(q) PROVE IInv'
    <2>1. TypeOK' BY <1>0, <1>16 DEF Deliver
    <2>2. OwnerInv' BY <1>0, <1>16 DEF Deliver
    <2>3. MutexInv' BY <1>0, <1>16 DEF Deliver
    <2>4. SeekInv' BY <1>0, <1>16 DEF Deliver, Owners
    <2> QED BY <2>1, <2>2, <2>3, <2>4
  <1>17. ASSUME NEW q \in Seekers, Collect(q) PROVE IInv'
    <2>1. TypeOK' BY <1>0, <1>17 DEF Collect
    <2>2. OwnerInv' BY <1>0, <1>17 DEF Collect
    <2>3. MutexInv' BY <1>0, <1>17 DEF Collect
    <2>4. SeekInv' BY <1>0, <1>17 DEF Collect, Owners
    <2> QED BY <2>1, <2>2, <2>3, <2>4
  <1>18. ASSUME NEW q \in Seekers, SeekFails(q) PROVE IInv'
    <2>1. TypeOK' BY <1>0, <1>18 DEF SeekFails
    <2>2. OwnerInv' BY <1>0, <1>18 DEF SeekFails
    <2>3. MutexInv' BY <1>0, <1>18 DEF SeekFails
    <2>4. SeekInv' BY <1>0, <1>18 DEF SeekFails, Owners
    <2> QED BY <2>1, <2>2, <2>3, <2>4
  <1>19. CASE UNCHANGED vars
    BY <1>19 DEF vars, Owners
  <1> QED
    BY <1>1, <1>2, <1>3, <1>4, <1>5, <1>6, <1>7, <1>8, <1>9, <1>10, <1>11,
       <1>12, <1>13, <1>14, <1>15, <1>16, <1>17, <1>18, <1>19
    DEF Next, ServerStep, ResponderStep

LEMMA Invariance == Spec => []IInv
  BY InitInv, NextInv, PTL DEF Spec

(* Every reachable state is well typed.                                    *)
THEOREM TypeCorrect == Spec => []TypeOK
  <1>1. IInv => TypeOK
    BY DEF IInv
  <1> QED BY <1>1, Invariance, PTL

(* A server keeps the responder until it leaves: mutual exclusion of the   *)
(* servers by g_responder_mutex and g_responder_running.                   *)
THEOREM Stays == Spec => []StaysAdvertised
  <1>1. IInv => StaysAdvertised
    BY DEF IInv, OwnerInv, MutexInv, StaysAdvertised, Owning, Running, TypeOK
  <1> QED BY <1>1, Invariance, PTL

(* The responder answers for the one server that owns it, and for no other.*)
THEOREM OwnerAnswers == Spec => []AnswersForOwner
  <1>1. IInv => AnswersForOwner
    BY DEF IInv, OwnerInv, AnswersForOwner, Owners
  <1> QED BY <1>1, Invariance, PTL

(* A server is refused only while another one owns the responder.          *)
THEOREM OwnerRuns == Spec => []RunningHasOwner
  <1>1. IInv => RunningHasOwner
    BY DEF IInv, OwnerInv, MutexInv, RunningHasOwner, Owners
  <1> QED BY <1>1, Invariance, PTL

(* A list has only devices that were advertised while it was collected.    *)
THEOREM ListIsFresh == Spec => []ListedWasAdvertised
  <1>1. IInv => ListedWasAdvertised
    BY DEF IInv, SeekInv, ListedWasAdvertised
  <1> QED BY <1>1, Invariance, PTL

=============================================================================
