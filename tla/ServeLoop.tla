------------------------------ MODULE ServeLoop ------------------------------
(***************************************************************************)
(* serve_sync_server (sync_server.cpp): one thread listens, advertises the *)
(* port, and handles one connection after the other until it sees the stop *)
(* flag.  The protocol is abstracted to what keeps that thread: waiting    *)
(* for a request, and sending a backup to a client that must read it.      *)
(***************************************************************************)
EXTENDS Naturals

CONSTANTS
  Clients,     \* each connects at most once
  Advertise,   \* ServerOptions::advertise
  NoClient

ASSUME ServeAssumption == Advertise \in BOOLEAN /\ NoClient \notin Clients

VARIABLES
  stopFlag,    \* stop_requested
  serve,       \* where serve_sync_server is
  listener,    \* the listening socket
  published,   \* started_callback has been given the bound port
  responder,   \* this server's discovery responder answers queries
  conn,        \* the server's end of each client's connection
  peer,        \* what the client has done with its end
  client,      \* the connection handle_client_connection works on
  lateAccepts, \* history: connections accepted after the stop request
  result       \* what serve_sync_server returns

serveVars == <<stopFlag, serve, listener, published, responder, conn, peer,
               client, lateAccepts, result>>

ServePC == {"setup", "publish", "advertise", "check", "select", "accept",
            "receive", "reply", "stream", "stop_discovery", "close",
            "unwind", "return"}

(* The backlog is dropped with the listening socket.                       *)
Dropped == [c \in Clients |-> IF conn[c] = "queued" THEN "closed" ELSE conn[c]]

CloseListener ==
  /\ listener' = "closed"
  /\ conn' = Dropped

-----------------------------------------------------------------------------
(* Up to the loop.                                                         *)

SetUp ==
  /\ serve = "setup"
  /\ \/ serve' = "publish" /\ listener' = "open" /\ UNCHANGED result
     \/ serve' = "return"  /\ result' = "error" /\ UNCHANGED listener
  /\ UNCHANGED <<stopFlag, published, responder, conn, peer, client,
                 lateAccepts>>

Publish ==
  /\ serve = "publish"
  /\ published' = TRUE
  /\ serve' = "advertise"
  /\ UNCHANGED <<stopFlag, listener, responder, conn, peer, client,
                 lateAccepts, result>>

(* Mutant: the error path leaves the listening socket open.                *)
StartDiscovery_Leak ==
  /\ serve = "advertise"
  /\ \/ serve' = "check" /\ responder' = Advertise /\ UNCHANGED result
     \/ /\ Advertise
        /\ serve' = "return"
        /\ result' = "error"
        /\ UNCHANGED responder
  /\ UNCHANGED <<stopFlag, listener, published, conn, peer, client,
                 lateAccepts>>

(* The responder is one per process: another server, or another process    *)
(* holding the port, makes the start fail.                                 *)
StartDiscovery ==
  /\ serve = "advertise"
  /\ \/ serve' = "check" /\ responder' = Advertise
        /\ UNCHANGED <<listener, conn, result>>
     \/ /\ Advertise
        /\ CloseListener
        /\ serve' = "return"
        /\ result' = "error"
        /\ UNCHANGED responder
  /\ UNCHANGED <<stopFlag, published, peer, client, lateAccepts>>

-----------------------------------------------------------------------------
(* The loop.                                                               *)

CheckStop ==
  /\ serve = "check"
  /\ serve' = IF stopFlag THEN "stop_discovery" ELSE "select"
  /\ UNCHANGED <<stopFlag, listener, published, responder, conn, peer, client,
                 lateAccepts, result>>

Backlog == {c \in Clients : conn[c] = "queued"}

(* select waits 500 ms at most; a signal ends it early.                    *)
Select ==
  /\ serve = "select"
  /\ \/ Backlog # {} /\ serve' = "accept"
     \/ serve' = "check"
  /\ UNCHANGED <<stopFlag, listener, published, responder, conn, peer, client,
                 lateAccepts, result>>

(* Mutant: the loop is left without a status.                              *)
SelectFails_NoStatus ==
  /\ serve = "select"
  /\ CloseListener
  /\ serve' = "unwind"
  /\ UNCHANGED <<stopFlag, published, responder, peer, client, lateAccepts,
                 result>>

(* The socket is closed here, the responder only by the destructor.        *)
SelectFails ==
  /\ serve = "select"
  /\ CloseListener
  /\ serve' = "unwind"
  /\ result' = "error"
  /\ UNCHANGED <<stopFlag, published, responder, peer, client, lateAccepts>>

Unwind ==
  /\ serve = "unwind"
  /\ responder' = FALSE
  /\ serve' = "return"
  /\ UNCHANGED <<stopFlag, listener, published, conn, peer, client,
                 lateAccepts, result>>

(* The oldest connection of the backlog; which one that is does not matter *)
(* to anything below.                                                      *)
Accept ==
  /\ serve = "accept"
  /\ \E c \in Backlog :
       /\ client' = c
       /\ conn' = [conn EXCEPT ![c] = "accepted"]
  /\ serve' = "receive"
  /\ lateAccepts' = IF stopFlag THEN lateAccepts + 1 ELSE lateAccepts
  /\ UNCHANGED <<stopFlag, listener, published, responder, peer, result>>

(* Mutant: a failed accept ends the loop.                                  *)
AcceptFails_Leaves ==
  /\ serve = "accept"
  /\ serve' = "stop_discovery"
  /\ UNCHANGED <<stopFlag, listener, published, responder, conn, peer, client,
                 lateAccepts, result>>

AcceptFails ==
  /\ serve = "accept"
  /\ serve' = IF stopFlag THEN "stop_discovery" ELSE "check"
  /\ UNCHANGED <<stopFlag, listener, published, responder, conn, peer, client,
                 lateAccepts, result>>

(* Mutant: the flag is looked at only when select times out.               *)
Hangup_NoCheck ==
  /\ serve' = "select"
  /\ conn' = [conn EXCEPT ![client] = "closed"]
  /\ client' = NoClient

(* Whatever handle_client_connection returned, the loop goes on.           *)
Hangup ==
  /\ serve' = "check"
  /\ conn' = [conn EXCEPT ![client] = "closed"]
  /\ client' = NoClient

(* receive_framed_string has no timeout and does not look at the flag.  A  *)
(* request of an unknown type is answered by closing the connection.       *)
Receive ==
  /\ serve = "receive"
  /\ peer[client] # "silent"
  /\ \/ /\ peer[client] # "gone"
        /\ serve' = "reply"
        /\ UNCHANGED <<conn, client>>
     \/ Hangup
  /\ UNCHANGED <<stopFlag, listener, published, responder, peer, lateAccepts,
                 result>>

(* pair_response and a rejecting auth_response fit a socket buffer; an     *)
(* accepting auth_response is followed by the backup.                      *)
Reply ==
  /\ serve = "reply"
  /\ \/ Hangup
     \/ serve' = "stream" /\ UNCHANGED <<conn, client>>
  /\ UNCHANGED <<stopFlag, listener, published, responder, peer, lateAccepts,
                 result>>

Stream ==
  /\ serve = "stream"
  /\ peer[client] \in {"reading", "left"}
  /\ Hangup
  /\ UNCHANGED <<stopFlag, listener, published, responder, peer, lateAccepts,
                 result>>

-----------------------------------------------------------------------------
(* After the loop.                                                         *)

(* Mutant: the listening socket is closed before the responder is stopped. *)
StopDiscovery_AfterClose ==
  /\ serve = "stop_discovery"
  /\ CloseListener
  /\ serve' = "close"
  /\ UNCHANGED <<stopFlag, published, responder, peer, client, lateAccepts,
                 result>>

StopDiscovery ==
  /\ serve = "stop_discovery"
  /\ responder' = FALSE
  /\ serve' = "close"
  /\ UNCHANGED <<stopFlag, listener, published, conn, peer, client,
                 lateAccepts, result>>

Close ==
  /\ serve = "close"
  /\ CloseListener
  /\ result' = "ok"
  /\ serve' = "return"
  /\ UNCHANGED <<stopFlag, published, responder, peer, client, lateAccepts>>

ServeStep ==
  \/ SetUp \/ Publish \/ StartDiscovery
  \/ CheckStop \/ Select \/ SelectFails \/ Unwind
  \/ Accept \/ AcceptFails \/ Receive \/ Reply \/ Stream
  \/ StopDiscovery \/ Close

-----------------------------------------------------------------------------
(* The clients.  One that connected may stay silent, one that asked for a  *)
(* backup may stop reading it, and each may go away at any time: "gone" if *)
(* it has sent nothing, "left" if its request can still be received.       *)

Connect(c) ==
  /\ listener = "open"
  /\ conn[c] = "none"
  /\ conn' = [conn EXCEPT ![c] = "queued"]
  /\ peer' = [peer EXCEPT ![c] = "silent"]
  /\ UNCHANGED <<stopFlag, serve, listener, published, responder, client,
                 lateAccepts, result>>

Advance(c, from, to) ==
  /\ peer[c] = from
  /\ peer' = [peer EXCEPT ![c] = to]
  /\ UNCHANGED <<stopFlag, serve, listener, published, responder, conn, client,
                 lateAccepts, result>>

SendRequest(c) == Advance(c, "silent", "sent")
ReadBackup(c)  == Advance(c, "sent", "reading")
Leave(c)       == \/ Advance(c, "silent", "gone")
                  \/ Advance(c, "sent", "left")
                  \/ Advance(c, "reading", "left")

ClientStep(c) == Connect(c) \/ SendRequest(c) \/ ReadBackup(c) \/ Leave(c)

ServeInit ==
  /\ stopFlag = FALSE
  /\ listener = "none"
  /\ published = FALSE
  /\ responder = FALSE
  /\ conn = [c \in Clients |-> "none"]
  /\ peer = [c \in Clients |-> "none"]
  /\ client = NoClient
  /\ lateAccepts = 0

ServeTypeOK ==
  /\ stopFlag \in BOOLEAN
  /\ serve \in ServePC
  /\ listener \in {"none", "open", "closed"}
  /\ published \in BOOLEAN
  /\ responder \in BOOLEAN
  /\ conn \in [Clients -> {"none", "queued", "accepted", "closed"}]
  /\ peer \in [Clients -> {"none", "silent", "sent", "reading", "left",
                        "gone"}]
  /\ client \in Clients \cup {NoClient}
  /\ lateAccepts \in Nat
  /\ result \in {"none", "ok", "error"}

=============================================================================
