------------------------------ MODULE PairSync ------------------------------
(***************************************************************************)
(* Manager::pair_sync (sync.cpp) against serve_sync_server, and the file   *)
(* .stmanager/trusted_devices.json of each root, which the clients and the *)
(* server of that root read and rewrite without any lock.                  *)
(*                                                                         *)
(* A save is two steps, open with truncation and write; a load between     *)
(* them fails to parse.  Connections break, and processes are killed, at   *)
(* any point.                                                              *)
(***************************************************************************)
EXTENDS Naturals, FiniteSets

CONSTANTS
  Devices,     \* roots with a device id; a server runs on each
  Clients,     \* processes that call pair_sync, again and again
  Home,        \* Home[c]: the device on whose root client c works
  Target,      \* Target[c]: the device c pulls from
  Kinds,       \* what the clients may be like, see Kind
  MaxFaults    \* bound: broken connections, kills, lost writes

Nobody == "nobody"

(* A client remembers the device it pairs with, or was told not to         *)
(* (PairingOptions::remember_device), or has the wrong pairing code.       *)
Kind == {"remembers", "forgets", "wrong_code"}

ASSUME PairAssumption ==
  /\ Home \in [Clients -> Devices]
  /\ Target \in [Clients -> Devices]
  /\ Kinds \subseteq Kind
  /\ MaxFaults \in Nat
  /\ Nobody \notin Clients

VARIABLES
  kind,      \* the PairSyncOptions of each client
  file,      \* file[d]: whether it parses, and the ids in it
  pc,        \* where each client is
  mem,       \* mem[c]: trusted_device_ids_ of the client's store object
  outcome,   \* what the client's last pair_sync returned
  link,      \* the connection of each client and what is on it
  serving,   \* serving[d]: the client whose connection the server handles
  spc,       \* where each server is
  smem,      \* smem[d]: trusted_device_ids_ of the server's store object
  saved,     \* history: ids that were ever written into the file of d
  faults

clientVars == <<pc, mem, outcome>>
serverVars == <<serving, spc, smem>>
vars == <<kind, file, clientVars, link, serverVars, saved, faults>>

Fault == faults < MaxFaults /\ faults' = faults + 1

(* A missing file counts as an empty list.                                 *)
Whole(ids) == [parses |-> TRUE, ids |-> ids]
Truncated  == [parses |-> FALSE, ids |-> {}]

(* Opening with std::ios::trunc.                                           *)
Truncate(d) == file' = [file EXCEPT ![d] = Truncated]

(* The contents go out when the stream is destroyed, after save has looked *)
(* at its state: a write that fails leaves the file empty and save says ok.*)
Write(d, ids) ==
  \/ /\ file' = [file EXCEPT ![d] = Whole(ids)]
     /\ saved' = [saved EXCEPT ![d] = @ \cup ids]
     /\ UNCHANGED faults
  \/ Fault /\ UNCHANGED <<file, saved>>

-----------------------------------------------------------------------------
(* The client.                                                             *)

Remembers(c) == kind[c] # "forgets"

Go(c, at) == pc' = [pc EXCEPT ![c] = at]

(* The call returns and its connection is closed: a server that is still   *)
(* busy with it works for nobody.                                          *)
End(c, how) ==
  /\ Go(c, "idle")
  /\ outcome' = [outcome EXCEPT ![c] = how]
  /\ link' = [link EXCEPT ![c] = "none"]
  /\ serving' = [serving EXCEPT ![Target[c]] = IF @ = c THEN Nobody ELSE @]

(* pair_sync loads the store to see whether it has to pair.                *)
Begin(c) ==
  /\ pc[c] = "idle"
  /\ IF ~file[Home[c]].parses
       THEN End(c, "store_error")
       ELSE /\ Go(c, IF Target[c] \in file[Home[c]].ids THEN "connect_auth"
                                                        ELSE "load")
            /\ UNCHANGED <<outcome, link, serving>>
  /\ UNCHANGED <<kind, file, mem, spc, smem, saved, faults>>

(* pair_device: the list that is written back at the end is read before    *)
(* the round trip.                                                         *)
PairLoad(c) ==
  /\ pc[c] = "load"
  /\ IF file[Home[c]].parses
       THEN /\ mem' = [mem EXCEPT ![c] = file[Home[c]].ids]
            /\ Go(c, "connect_pair")
            /\ UNCHANGED <<outcome, link, serving>>
       ELSE End(c, "store_error") /\ UNCHANGED mem
  /\ UNCHANGED <<kind, file, spc, smem, saved, faults>>

PairConnect(c) ==
  /\ pc[c] = "connect_pair"
  /\ link' = [link EXCEPT ![c] = "pair_request"]
  /\ Go(c, "pair_answer")
  /\ UNCHANGED <<kind, file, mem, outcome, serverVars, saved, faults>>

PairAnswer(c) ==
  /\ pc[c] = "pair_answer"
  /\ \/ /\ link[c] = "accepted"
        /\ link' = [link EXCEPT ![c] = "none"]
        /\ IF Remembers(c)
             THEN /\ mem' = [mem EXCEPT ![c] = @ \cup {Target[c]}]
                  /\ Go(c, "truncate")
             ELSE Go(c, "connect_auth") /\ UNCHANGED mem
        /\ UNCHANGED <<outcome, serving>>
     \/ /\ link[c] = "rejected"
        /\ End(c, "pairing_refused")
        /\ UNCHANGED mem
     \/ /\ link[c] = "broken"
        /\ End(c, "connection_error")
        /\ UNCHANGED mem
  /\ UNCHANGED <<kind, file, spc, smem, saved, faults>>

SaveTruncate(c) ==
  /\ pc[c] = "truncate"
  /\ Truncate(Home[c])
  /\ Go(c, "write")
  /\ UNCHANGED <<kind, mem, outcome, link, serverVars, saved, faults>>

SaveOpenFails(c) ==
  /\ pc[c] = "truncate"
  /\ Fault
  /\ End(c, "store_error")
  /\ UNCHANGED <<kind, file, mem, spc, smem, saved>>

SaveWrite(c) ==
  /\ pc[c] = "write"
  /\ Write(Home[c], mem[c])
  /\ Go(c, "connect_auth")
  /\ UNCHANGED <<kind, mem, outcome, link, serverVars>>

(* pull_from_device connects, and authorize_remote loads the store again   *)
(* before it sends anything.                                               *)
AuthConnect(c) ==
  /\ pc[c] = "connect_auth"
  /\ link' = [link EXCEPT ![c] = "open"]
  /\ Go(c, "auth_load")
  /\ UNCHANGED <<kind, file, mem, outcome, serverVars, saved, faults>>

AuthLoad(c) ==
  /\ pc[c] = "auth_load"
  /\ LET home == file[Home[c]] IN
     \/ ~home.parses /\ End(c, "store_error")
     \/ home.parses /\ Target[c] \notin home.ids /\ End(c, "not_trusted_here")
     \/ /\ Target[c] \in home.ids
        /\ link' = [link EXCEPT ![c] =
                       IF @ = "open" THEN "auth_request" ELSE @]
        /\ Go(c, "auth_answer")
        /\ UNCHANGED <<outcome, serving>>
  /\ UNCHANGED <<kind, file, mem, spc, smem, saved, faults>>

(* What authorize_remote makes of the answer.  An accepted pull goes on to *)
(* the restore, which RestoreTxn is about.                                 *)
Verdict == [accepted |-> "ok",
            rejected |-> "not_trusted_there",
            refused  |-> "server_error",
            broken   |-> "connection_error"]

AuthAnswer(c) ==
  /\ pc[c] = "auth_answer"
  /\ link[c] \in DOMAIN Verdict
  /\ End(c, Verdict[link[c]])
  /\ UNCHANGED <<kind, file, mem, spc, smem, saved, faults>>

ClientStep(c) ==
  \/ Begin(c) \/ PairLoad(c) \/ PairConnect(c) \/ PairAnswer(c)
  \/ SaveTruncate(c) \/ SaveOpenFails(c) \/ SaveWrite(c)
  \/ AuthConnect(c) \/ AuthLoad(c) \/ AuthAnswer(c)

-----------------------------------------------------------------------------
(* The server of device d: one connection at a time.                       *)

Asked(c) == link[c] \in {"pair_request", "auth_request"}

Waiting(c) == Asked(c) \/ link[c] = "open"

Accept(d, c) ==
  /\ spc[d] = "accept"
  /\ Target[c] = d /\ Waiting(c)
  /\ serving' = [serving EXCEPT ![d] = c]
  /\ spc' = [spc EXCEPT ![d] = "receive"]
  /\ UNCHANGED <<kind, file, clientVars, link, smem, saved, faults>>

(* Mutant: the connection is not given up after the answer.                *)
Respond_Keeps(d, answer) ==
  /\ link' = [c \in Clients |->
                IF c = serving[d] /\ Asked(c) THEN answer ELSE link[c]]
  /\ spc' = [spc EXCEPT ![d] = "accept"]
  /\ UNCHANGED serving

(* The answer is sent to whoever is still there, and the server turns to   *)
(* the next connection.                                                    *)
Respond(d, answer) ==
  /\ link' = [c \in Clients |->
                IF c = serving[d] /\ Asked(c) THEN answer ELSE link[c]]
  /\ serving' = [serving EXCEPT ![d] = Nobody]
  /\ spc' = [spc EXCEPT ![d] = "accept"]

Requested(d, type) ==
  /\ spc[d] = "receive"
  /\ \E c \in Clients : c = serving[d] /\ link[c] = type

Hangup(d) ==
  /\ spc[d] = "receive"
  /\ \/ serving[d] = Nobody
     \/ Requested(d, "broken")
  /\ Respond(d, "broken")
  /\ UNCHANGED <<kind, file, clientVars, smem, saved, faults>>

TurnDown(d) == Respond(d, "rejected") /\ UNCHANGED smem

(* Mutants: the answer is sent before the store is saved; the store is not *)
(* loaded before it is; a device that is trusted already is turned down.   *)
Remember_AnswerFirst(d, ids) ==
  /\ smem' = [smem EXCEPT ![d] = ids \cup {Home[serving[d]]}]
  /\ spc' = [spc EXCEPT ![d] = "truncate"]
  /\ link' = [link EXCEPT ![serving[d]] = "accepted"]
  /\ UNCHANGED serving
Remember_NoLoad(d, ids) ==
  /\ smem' = [smem EXCEPT ![d] = {Home[serving[d]]}]
  /\ spc' = [spc EXCEPT ![d] = "truncate"]
  /\ UNCHANGED <<link, serving>>
Remember_Duplicate(d, ids) ==
  IF Home[serving[d]] \in ids
    THEN TurnDown(d)
    ELSE /\ smem' = [smem EXCEPT ![d] = ids \cup {Home[serving[d]]}]
         /\ spc' = [spc EXCEPT ![d] = "truncate"]
         /\ UNCHANGED <<link, serving>>

Remember(d, ids) ==
  /\ smem' = [smem EXCEPT ![d] = ids \cup {Home[serving[d]]}]
  /\ spc' = [spc EXCEPT ![d] = "truncate"]
  /\ UNCHANGED <<link, serving>>

(* Mutant: any code will do.                                               *)
CodeMatches_Any(c) == kind[c] \in Kind

CodeMatches(c) == kind[c] # "wrong_code"

(* Only a device that is to be remembered concerns the store.              *)
HandlePair(d) ==
  /\ Requested(d, "pair_request")
  /\ LET c == serving[d] IN
     \/ ~CodeMatches(c) /\ TurnDown(d)
     \/ /\ CodeMatches(c) /\ ~Remembers(c)
        /\ Respond(d, "accepted") /\ UNCHANGED smem
     \/ /\ CodeMatches(c) /\ Remembers(c)
        /\ IF file[d].parses THEN Remember(d, file[d].ids) ELSE TurnDown(d)
  /\ UNCHANGED <<kind, file, clientVars, saved, faults>>

ServerTruncate(d) ==
  /\ spc[d] = "truncate"
  /\ Truncate(d)
  /\ spc' = [spc EXCEPT ![d] = "write"]
  /\ UNCHANGED <<kind, clientVars, link, serving, smem, saved, faults>>

ServerOpenFails(d) ==
  /\ spc[d] = "truncate"
  /\ Fault
  /\ TurnDown(d)
  /\ UNCHANGED <<kind, file, clientVars, saved>>

ServerWrite(d) ==
  /\ spc[d] = "write"
  /\ Write(d, smem[d])
  /\ Respond(d, "accepted")
  /\ UNCHANGED <<kind, clientVars, smem>>

HandleAuth(d) ==
  /\ Requested(d, "auth_request")
  /\ Respond(d, IF ~file[d].parses THEN "refused"
                ELSE IF Home[serving[d]] \in file[d].ids THEN "accepted"
                ELSE "rejected")
  /\ UNCHANGED <<kind, file, clientVars, smem, saved, faults>>

ServerStep(d) ==
  \/ Hangup(d) \/ HandlePair(d) \/ HandleAuth(d)
  \/ ServerTruncate(d) \/ ServerOpenFails(d) \/ ServerWrite(d)

-----------------------------------------------------------------------------
(* What goes wrong.                                                        *)

Break(c) ==
  /\ link[c] \notin {"none", "broken"}
  /\ Fault
  /\ link' = [link EXCEPT ![c] = "broken"]
  /\ UNCHANGED <<kind, file, clientVars, serverVars, saved>>

KillClient(c) ==
  /\ pc[c] # "idle"
  /\ Fault
  /\ End(c, "killed")
  /\ UNCHANGED <<kind, file, mem, spc, smem, saved>>

(* The server is started again at once; its connections are lost.          *)
KillServer(d) ==
  /\ Fault
  /\ link' = [c \in Clients |->
                IF Target[c] = d /\ link[c] # "none" THEN "broken"
                                                     ELSE link[c]]
  /\ serving' = [serving EXCEPT ![d] = Nobody]
  /\ spc' = [spc EXCEPT ![d] = "accept"]
  /\ UNCHANGED <<kind, file, clientVars, smem, saved>>

Init ==
  /\ kind \in [Clients -> Kinds]
  /\ file = [d \in Devices |-> Whole({})]
  /\ pc = [c \in Clients |-> "idle"]
  /\ mem = [c \in Clients |-> {}]
  /\ outcome = [c \in Clients |-> "none"]
  /\ link = [c \in Clients |-> "none"]
  /\ serving = [d \in Devices |-> Nobody]
  /\ spc = [d \in Devices |-> "accept"]
  /\ smem = [d \in Devices |-> {}]
  /\ saved = [d \in Devices |-> {}]
  /\ faults = 0

Next ==
  \/ \E c \in Clients : ClientStep(c) \/ Break(c) \/ KillClient(c)
  \/ \E d \in Devices :
       ServerStep(d) \/ KillServer(d) \/ \E c \in Clients : Accept(d, c)

Spec == Init /\ [][Next]_vars

(* The user tries again after a failure, every process is scheduled, and   *)
(* the backlog of a socket is served in order, so that no connection waits *)
(* in it for ever.                                                         *)
FairSpec ==
  /\ Spec
  /\ \A c \in Clients : WF_vars(ClientStep(c))
  /\ \A d \in Devices : WF_vars(ServerStep(d))
  /\ \A d \in Devices, c \in Clients : SF_vars(Accept(d, c))

-----------------------------------------------------------------------------
(* Type invariant.                                                         *)
TypeOK ==
  /\ kind \in [Clients -> Kinds]
  /\ file \in [Devices -> [parses : BOOLEAN, ids : SUBSET Devices]]
  /\ pc \in [Clients -> {"idle", "load", "connect_pair", "pair_answer",
                         "truncate", "write", "connect_auth", "auth_load",
                         "auth_answer"}]
  /\ mem \in [Clients -> SUBSET Devices]
  /\ outcome \in [Clients -> {"none", "ok", "store_error", "pairing_refused",
                              "connection_error", "not_trusted_here",
                              "not_trusted_there", "server_error", "killed"}]
  /\ link \in [Clients -> {"none", "open", "pair_request", "auth_request",
                           "accepted", "rejected", "refused", "broken"}]
  /\ serving \in [Devices -> Clients \cup {Nobody}]
  /\ spc \in [Devices -> {"accept", "receive", "truncate", "write"}]
  /\ \A d \in Devices : spc[d] = "accept" => serving[d] = Nobody
  /\ smem \in [Devices -> SUBSET Devices]
  /\ saved \in [Devices -> SUBSET Devices]
  /\ faults \in 0..MaxFaults

(* A client that trusts a device is trusted by it, whatever breaks between *)
(* the two saves: the client writes only after the server has answered,    *)
(* and the server answers only after it has written.                       *)
TrustIsMutual ==
  \A c \in Clients :
    /\ file[Home[c]].parses /\ Target[c] \in file[Home[c]].ids
    /\ file[Target[c]].parses
    => Home[c] \in file[Target[c]].ids

(* As long as the file of a device can be read, it holds every id that was *)
(* ever written into it: pairing with one device forgets no other.         *)
NothingForgotten ==
  \A d \in Devices : file[d].parses => saved[d] \subseteq file[d].ids

(* A pull succeeds only for a client that the server had remembered after  *)
(* checking its pairing code, and that has remembered the server.          *)
PulledMeansPaired ==
  \A c \in Clients :
    outcome[c] = "ok" =>
      /\ kind[c] = "remembers"
      /\ Home[c] \in saved[Target[c]] /\ Target[c] \in saved[Home[c]]

(* A trust file that nobody is in the middle of writing, and that does not *)
(* parse.                                                                  *)
Lost(d) ==
  /\ ~file[d].parses
  /\ spc[d] # "write"
  /\ \A c \in Clients : Home[c] = d => pc[c] # "write"

(* Trying again is enough: after the last fault, a client that knows the   *)
(* code gets through, unless a trust file was lost half-written.           *)
RetriesSucceed ==
  \A c \in Clients :
    kind[c] = "remembers" =>
      []<>(outcome[c] = "ok" \/ Lost(Home[c]) \/ Lost(Target[c]))

(* "Pair with device_info if needed, then pull and restore its backup      *)
(* data" (manager.h): lack of trust is not what a call ends with.          *)
PairsIfNeeded ==
  \A c \in Clients :
    outcome[c] \notin {"not_trusted_here", "not_trusted_there"}

=============================================================================
