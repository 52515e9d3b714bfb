--------------------------- MODULE PairSyncProofs ---------------------------
(***************************************************************************)
(* The safety properties of PairSync for any number of devices, clients    *)
(* and faults.  All but typing hold where every trust file has one writer. *)
(***************************************************************************)
EXTENDS PairSync, TLAPS

(* No device both serves and pulls, and no root has two clients.  Without  *)
(* it one process undoes what another has saved: see PairsIfNeeded.        *)
SingleWriter ==
  \A c1, c2 \in Clients :
    /\ Home[c1] # Target[c2]
    /\ Home[c1] = Home[c2] => c1 = c2

-----------------------------------------------------------------------------
(* Typing.                                                                 *)

LEMMA EndTypes ==
  ASSUME TypeOK, NEW c \in Clients, NEW how, End(c, how),
         how \in {"none", "ok", "store_error", "pairing_refused",
                  "connection_error", "not_trusted_here",
                  "not_trusted_there", "server_error", "killed"},
         UNCHANGED <<kind, spc, smem>>
  PROVE  /\ pc' \in [Clients -> {"idle", "load", "connect_pair",
                                 "pair_answer", "truncate", "write",
                                 "connect_auth", "auth_load", "auth_answer"}]
         /\ outcome' \in [Clients ->
                {"none", "ok", "store_error", "pairing_refused",
                 "connection_error", "not_trusted_here",
                 "not_trusted_there", "server_error", "killed"}]
         /\ link' \in [Clients -> {"none", "open", "pair_request",
                                   "auth_request", "accepted", "rejected",
                                   "refused", "broken"}]
         /\ serving' \in [Devices -> Clients \cup {Nobody}]
         /\ \A d \in Devices : spc'[d] = "accept" => serving'[d] = Nobody
  BY PairAssumption DEF End, Go, TypeOK

LEMMA WriteTypes ==
  ASSUME TypeOK, NEW d \in Devices, NEW ids \in SUBSET Devices,
         Write(d, ids)
  PROVE  /\ file' \in [Devices -> [parses : BOOLEAN, ids : SUBSET Devices]]
         /\ saved' \in [Devices -> SUBSET Devices]
         /\ faults' \in 0..MaxFaults
  <1>1. Whole(ids) \in [parses : BOOLEAN, ids : SUBSET Devices]
    BY DEF Whole
  <1>2. CASE Fault /\ UNCHANGED <<file, saved>>
    BY <1>2, PairAssumption DEF Fault, TypeOK
  <1>3. CASE ~(Fault /\ UNCHANGED <<file, saved>>)
    <2>1. /\ file' = [file EXCEPT ![d] = Whole(ids)]
          /\ saved' = [saved EXCEPT ![d] = @ \cup ids]
          /\ UNCHANGED faults
      BY <1>3 DEF Write
    <2> QED
      BY <1>1, <2>1 DEF TypeOK
  <1> QED
    BY <1>2, <1>3

LEMMA ClientTypes ==
  ASSUME TypeOK, NEW c \in Clients, ClientStep(c)
  PROVE  TypeOK'
  <1> USE PairAssumption
  <1>1. CASE Begin(c)
    BY <1>1, EndTypes DEF Begin, Go, TypeOK
  <1>2. CASE PairLoad(c)
    <2>1. CASE file[Home[c]].parses
      BY <1>2, <2>1 DEF PairLoad, Go, TypeOK
    <2>2. CASE ~file[Home[c]].parses
      BY <1>2, <2>2, EndTypes DEF PairLoad, TypeOK
    <2> QED
      BY <2>1, <2>2
  <1>3. CASE PairConnect(c)
    BY <1>3 DEF PairConnect, Go, TypeOK, serverVars
  <1>4. CASE PairAnswer(c)
    <2>1. ASSUME NEW how \in {"pairing_refused", "connection_error"},
                 End(c, how), UNCHANGED mem
          PROVE  TypeOK'
      BY <1>4, <2>1, EndTypes DEF PairAnswer, TypeOK
    <2>2. CASE /\ link' = [link EXCEPT ![c] = "none"]
               /\ IF Remembers(c)
                    THEN /\ mem' = [mem EXCEPT ![c] = @ \cup {Target[c]}]
                         /\ Go(c, "truncate")
                    ELSE Go(c, "connect_auth") /\ UNCHANGED mem
               /\ UNCHANGED <<outcome, serving>>
      <3>1. CASE Remembers(c)
        <4>1. mem[c] \cup {Target[c]} \in SUBSET Devices
          BY DEF TypeOK
        <4>2. mem' = [mem EXCEPT ![c] = mem[c] \cup {Target[c]}]
          BY <2>2, <3>1
        <4> QED
          BY <1>4, <2>2, <3>1, <4>1, <4>2 DEF PairAnswer, Go, TypeOK
      <3>2. CASE ~Remembers(c)
        BY <1>4, <2>2, <3>2 DEF PairAnswer, Go, TypeOK
      <3> QED
        BY <3>1, <3>2
    <2> QED
      BY <1>4, <2>1, <2>2 DEF PairAnswer
  <1>5. CASE SaveTruncate(c)
    BY <1>5 DEF SaveTruncate, Truncate, Truncated, Go, TypeOK, serverVars
  <1>6. CASE SaveOpenFails(c)
    BY <1>6, EndTypes DEF SaveOpenFails, Fault, TypeOK
  <1>7. CASE SaveWrite(c)
    <2>1. mem[c] \in SUBSET Devices /\ Home[c] \in Devices
      BY DEF TypeOK
    <2> QED
      BY <1>7, <2>1, WriteTypes DEF SaveWrite, Go, TypeOK, serverVars
  <1>8. CASE AuthConnect(c)
    BY <1>8 DEF AuthConnect, Go, TypeOK, serverVars
  <1>9. CASE AuthLoad(c)
    BY <1>9, EndTypes DEF AuthLoad, Go, TypeOK
  <1>10. CASE AuthAnswer(c)
    BY <1>10, EndTypes DEF AuthAnswer, Verdict, TypeOK
  <1> QED
    BY <1>1, <1>2, <1>3, <1>4, <1>5, <1>6, <1>7, <1>8, <1>9, <1>10
       DEF ClientStep

LEMMA RespondTypes ==
  ASSUME TypeOK, NEW d \in Devices, NEW answer, Respond(d, answer),
         answer \in {"accepted", "rejected", "refused", "broken"}
  PROVE  /\ link' \in [Clients -> {"none", "open", "pair_request",
                                   "auth_request", "accepted", "rejected",
                                   "refused", "broken"}]
         /\ serving' \in [Devices -> Clients \cup {Nobody}]
         /\ spc' \in [Devices -> {"accept", "receive", "truncate", "write"}]
         /\ \A e \in Devices : spc'[e] = "accept" => serving'[e] = Nobody
  BY DEF Respond, TypeOK

LEMMA ServerTypes ==
  ASSUME TypeOK, NEW d \in Devices, ServerStep(d)
  PROVE  TypeOK'
  <1> USE PairAssumption
  <1>1. CASE Hangup(d)
    BY <1>1, RespondTypes DEF Hangup, TypeOK, clientVars
  <1>2. CASE HandlePair(d)
    <2> DEFINE c == serving[d]
    <2>0. c \in Clients
      BY <1>2 DEF HandlePair, Requested
    <2>1. CASE TurnDown(d)
      BY <1>2, <2>1, RespondTypes DEF HandlePair, TurnDown, TypeOK, clientVars
    <2>2. CASE Respond(d, "accepted") /\ UNCHANGED smem
      BY <1>2, <2>2, RespondTypes DEF HandlePair, TypeOK, clientVars
    <2>3. CASE Remember(d, file[d].ids)
      <3>1. spc[d] = "receive"
        BY <1>2 DEF HandlePair, Requested
      <3> QED
        BY <1>2, <2>0, <2>3, <3>1
           DEF HandlePair, Remember, TypeOK, clientVars
    <2> QED
      BY <1>2, <2>1, <2>2, <2>3 DEF HandlePair
  <1>3. CASE HandleAuth(d)
    BY <1>3, RespondTypes DEF HandleAuth, TypeOK, clientVars
  <1>4. CASE ServerTruncate(d)
    BY <1>4 DEF ServerTruncate, Truncate, Truncated, TypeOK, clientVars
  <1>5. CASE ServerOpenFails(d)
    BY <1>5, RespondTypes
       DEF ServerOpenFails, TurnDown, Fault, TypeOK, clientVars
  <1>6. CASE ServerWrite(d)
    <2>1. /\ file' \in [Devices -> [parses : BOOLEAN, ids : SUBSET Devices]]
          /\ saved' \in [Devices -> SUBSET Devices]
          /\ faults' \in 0..MaxFaults
      BY <1>6, WriteTypes DEF ServerWrite, TypeOK
    <2> QED
      BY <1>6, <2>1, RespondTypes DEF ServerWrite, TypeOK, clientVars
  <1> QED
    BY <1>1, <1>2, <1>3, <1>4, <1>5, <1>6 DEF ServerStep

LEMMA FaultTypes ==
  ASSUME TypeOK,
         \/ \E c \in Clients : Break(c) \/ KillClient(c)
         \/ \E d \in Devices :
              KillServer(d) \/ \E c \in Clients : Accept(d, c)
  PROVE  TypeOK'
  <1> USE PairAssumption
  <1>1. ASSUME NEW c \in Clients, Break(c) PROVE TypeOK'
    BY <1>1 DEF Break, Fault, TypeOK, clientVars, serverVars
  <1>2. ASSUME NEW c \in Clients, KillClient(c) PROVE TypeOK'
    BY <1>2, EndTypes DEF KillClient, Fault, TypeOK
  <1>3. ASSUME NEW d \in Devices, KillServer(d) PROVE TypeOK'
    BY <1>3 DEF KillServer, Fault, TypeOK, clientVars
  <1>4. ASSUME NEW d \in Devices, NEW c \in Clients, Accept(d, c)
        PROVE  TypeOK'
    BY <1>4 DEF Accept, TypeOK, clientVars
  <1> QED
    BY <1>1, <1>2, <1>3, <1>4

(* The program never leaves the types, whoever shares a file with whom.    *)
THEOREM TypeCorrect == Spec => []TypeOK
  <1>1. Init => TypeOK
    BY PairAssumption DEF Init, TypeOK, Whole
  <1>2. TypeOK /\ [Next]_vars => TypeOK'
    <2> SUFFICES ASSUME TypeOK, [Next]_vars PROVE TypeOK'
      OBVIOUS
    <2>1. CASE UNCHANGED vars
      BY <2>1 DEF vars, clientVars, serverVars, TypeOK
    <2> QED
      BY <2>1, ClientTypes, ServerTypes, FaultTypes DEF Next
  <1> QED
    BY <1>1, <1>2, PTL DEF Spec

-----------------------------------------------------------------------------
(* The inductive invariant.                                                *)

(* A file that a kill or a full disk has left truncated: nobody can load   *)
(* it, so nobody will write it again.                                      *)
Unreadable(d) == ~file[d].parses /\ spc[d] \in {"accept", "receive"}

(* The server of d writes d's file, the client of d does, or nobody.       *)
FileInv ==
  \A d \in Devices :
    /\ file[d].ids \subseteq saved[d]
    /\ file[d].parses => saved[d] \subseteq file[d].ids
    /\ spc[d] # "accept" => \E c \in Clients : Target[c] = d
    /\ serving[d] \in Clients => Target[serving[d]] = d
    /\ spc[d] \in {"truncate", "write"} => saved[d] \subseteq smem[d]
    /\ spc[d] = "truncate" => file[d].parses
    /\ spc[d] = "write" => ~file[d].parses

(* What a client has when it trusts its target, or is about to.            *)
Paired(c) ==
  /\ kind[c] = "remembers"
  /\ Home[c] \in saved[Target[c]] \/ Unreadable(Target[c])

Pairing == {"connect_pair", "pair_answer", "truncate", "write"}

(* The list of a client that is pairing is up to date, and whatever it has *)
(* of its target is there because the server wrote first.                  *)
TrustInv ==
  \A c \in Clients :
    /\ pc[c] \in Pairing => saved[Home[c]] \subseteq mem[c]
    /\ pc[c] \in Pairing /\ Target[c] \in mem[c] => Paired(c)
    /\ Target[c] \in saved[Home[c]] => Paired(c)
    /\ link[c] = "accepted" /\ pc[c] = "pair_answer" /\ Remembers(c)
         => Paired(c)

(* While the server saves, its client waits for the answer to a pairing    *)
(* request, or has given up.                                               *)
ServingInv ==
  \A c \in Clients :
    serving[Target[c]] = c /\ spc[Target[c]] \in {"truncate", "write"} =>
      /\ pc[c] = "pair_answer"
      /\ link[c] \in {"pair_request", "broken"}
      /\ kind[c] = "remembers"
      /\ Home[c] \in smem[Target[c]]

PullInv ==
  \A c \in Clients :
    /\ link[c] = "pair_request" => pc[c] = "pair_answer"
    /\ link[c] = "auth_request" => pc[c] = "auth_answer"
    /\ pc[c] = "auth_load" => link[c] # "accepted"
    /\ pc[c] = "auth_answer" => Target[c] \in saved[Home[c]]
    /\ pc[c] = "auth_answer" /\ link[c] = "accepted" =>
         Home[c] \in saved[Target[c]]
    /\ outcome[c] = "ok" =>
         /\ Target[c] \in saved[Home[c]]
         /\ Home[c] \in saved[Target[c]]

IInv == FileInv /\ TrustInv /\ ServingInv /\ PullInv

-----------------------------------------------------------------------------
(* Initially, and what helps with every step.                              *)

LEMMA InitKeeps == Init => IInv
  BY PairAssumption
     DEF Init, IInv, FileInv, TrustInv, ServingInv, PullInv, Paired, Pairing,
         Whole, Unreadable

LEMMA EndFacts ==
  ASSUME TypeOK, NEW c \in Clients, NEW how, End(c, how)
  PROVE  /\ pc'[c] = "idle" /\ link'[c] = "none" /\ outcome'[c] = how
         /\ \A x \in Clients \ {c} :
              /\ pc'[x] = pc[x]
              /\ link'[x] = link[x]
              /\ outcome'[x] = outcome[x]
         /\ \A d \in Devices :
              \/ serving'[d] = serving[d]
              \/ serving'[d] = Nobody
         /\ serving'[Target[c]] # c
  BY PairAssumption DEF End, Go, TypeOK

(* A call that comes back with an error.                                   *)
LEMMA EndKeeps ==
  ASSUME TypeOK, IInv, NEW c \in Clients, NEW how, End(c, how), how # "ok",
         UNCHANGED <<kind, file, mem, spc, smem, saved>>
  PROVE  IInv'
  <1>0. USE PairAssumption, EndFacts
  <1>1. \A d \in Devices : Unreadable(d)' = Unreadable(d)
    BY DEF Unreadable
  <1>2. \A x \in Clients : Paired(x)' = Paired(x)
    BY <1>1 DEF Paired
  <1>3. FileInv'
    BY DEF IInv, FileInv
  <1>4. TrustInv'
    BY <1>2 DEF IInv, TrustInv, Pairing, Remembers
  <1>5. ServingInv'
    BY DEF IInv, ServingInv
  <1>6. PullInv'
    BY DEF IInv, PullInv
  <1> QED
    BY <1>3, <1>4, <1>5, <1>6 DEF IInv

LEMMA RespondFacts ==
  ASSUME TypeOK, NEW d \in Devices, NEW answer, Respond(d, answer)
  PROVE  /\ \A x \in Clients :
              \/ link'[x] = link[x]
              \/ x = serving[d] /\ Asked(x) /\ link'[x] = answer
         /\ serving'[d] = Nobody /\ spc'[d] = "accept"
         /\ \A e \in Devices \ {d} :
              serving'[e] = serving[e] /\ spc'[e] = spc[e]
  BY DEF Respond, TypeOK

(* An answer that accepts nothing, with the file as it was.                *)
LEMMA RespondKeeps ==
  ASSUME TypeOK, IInv, NEW d \in Devices, NEW answer, Respond(d, answer),
         spc[d] # "write",
         answer \in {"rejected", "refused", "broken"},
         UNCHANGED <<kind, file, clientVars, smem, saved>>
  PROVE  IInv'
  <1>0. USE PairAssumption, RespondFacts
  <1>1. \A e \in Devices : Unreadable(e) => Unreadable(e)'
    BY DEF Unreadable
  <1>2. \A x \in Clients : Paired(x) => Paired(x)'
    BY <1>1 DEF Paired
  <1>3. FileInv'
    BY DEF IInv, FileInv, TypeOK
  <1>4. TrustInv'
    <2>1. \A x \in Clients : link'[x] = "accepted" => link[x] = "accepted"
      OBVIOUS
    <2>2. pc' = pc /\ mem' = mem
      BY DEF clientVars
    <2> SUFFICES ASSUME NEW x \in Clients
                 PROVE  /\ pc[x] \in Pairing => saved[Home[x]] \subseteq mem[x]
                        /\ pc[x] \in Pairing /\ Target[x] \in mem[x]
                             => Paired(x)'
                        /\ Target[x] \in saved[Home[x]] => Paired(x)'
                        /\ link'[x] = "accepted" /\ pc[x] = "pair_answer"
                             /\ Remembers(x) => Paired(x)'
      BY <2>2 DEF TrustInv, Remembers
    <2> QED
      BY <1>2, <2>1 DEF IInv, TrustInv
  <1>5. ServingInv'
    BY DEF IInv, FileInv, ServingInv, clientVars
  <1>6. PullInv'
    BY DEF IInv, PullInv, clientVars
  <1> QED
    BY <1>3, <1>4, <1>5, <1>6 DEF IInv

-----------------------------------------------------------------------------
(* The steps of a client.                                                  *)

LEMMA ClientKeeps ==
  ASSUME SingleWriter, TypeOK, IInv, NEW c \in Clients, ClientStep(c)
  PROVE  IInv'
  <1> USE PairAssumption DEF SingleWriter
  <1>1. CASE Begin(c)
    <2>1. CASE ~file[Home[c]].parses
      BY <1>1, <2>1, EndKeeps DEF Begin
    <2>2. CASE file[Home[c]].parses
      <3>1. FileInv'
        BY <1>1, <2>2 DEF Begin, IInv, FileInv
      <3>2. TrustInv'
        BY <1>1, <2>2
           DEF Begin, Go, IInv, TrustInv, Paired, Unreadable, Pairing,
               Remembers, TypeOK
      <3>3. ServingInv' /\ PullInv'
        BY <1>1, <2>2 DEF Begin, Go, IInv, ServingInv, PullInv, TypeOK
      <3> QED
        BY <3>1, <3>2, <3>3 DEF IInv
    <2> QED
      BY <2>1, <2>2
  <1>2. CASE PairLoad(c)
    <2>1. CASE ~file[Home[c]].parses
      <3>1. UNCHANGED mem /\ End(c, "store_error")
        BY <1>2, <2>1 DEF PairLoad
      <3> QED
        BY <1>2, <3>1, EndKeeps DEF PairLoad
    <2>2. CASE file[Home[c]].parses
      <3>1. FileInv'
        BY <1>2, <2>2 DEF PairLoad, IInv, FileInv
      <3>2. /\ file[Home[c]].ids \subseteq saved[Home[c]]
            /\ saved[Home[c]] \subseteq file[Home[c]].ids
        BY <2>2 DEF IInv, FileInv
      <3>3. TrustInv'
        BY <1>2, <2>2, <3>2
           DEF PairLoad, Go, IInv, TrustInv, Paired, Unreadable, Pairing,
               Remembers, TypeOK
      <3>4. ServingInv' /\ PullInv'
        BY <1>2, <2>2 DEF PairLoad, Go, IInv, ServingInv, PullInv, TypeOK
      <3> QED
        BY <3>1, <3>3, <3>4 DEF IInv
    <2> QED
      BY <2>1, <2>2
  <1>3. CASE PairConnect(c)
    <2>1. FileInv'
      BY <1>3 DEF PairConnect, IInv, FileInv, serverVars
    <2>2. TrustInv'
      BY <1>3
         DEF PairConnect, Go, IInv, TrustInv, Paired, Unreadable, Pairing,
             Remembers, serverVars, TypeOK
    <2>3. ServingInv' /\ PullInv'
      BY <1>3 DEF PairConnect, Go, IInv, ServingInv, PullInv, serverVars,
                  TypeOK
    <2> QED
      BY <2>1, <2>2, <2>3 DEF IInv
  <1>4. CASE PairAnswer(c)
    <2>1. ASSUME NEW how \in {"pairing_refused", "connection_error"},
                 End(c, how), UNCHANGED mem
          PROVE  IInv'
      BY <1>4, <2>1, EndKeeps DEF PairAnswer
    <2>2. CASE /\ link[c] = "accepted"
               /\ link' = [link EXCEPT ![c] = "none"]
               /\ IF Remembers(c)
                    THEN /\ mem' = [mem EXCEPT ![c] = @ \cup {Target[c]}]
                         /\ Go(c, "truncate")
                    ELSE Go(c, "connect_auth") /\ UNCHANGED mem
               /\ UNCHANGED <<outcome, serving>>
      <3>1. FileInv'
        BY <1>4, <2>2 DEF PairAnswer, IInv, FileInv
      <3>2. TrustInv'
        BY <1>4, <2>2
           DEF PairAnswer, Go, IInv, TrustInv, Paired, Unreadable, Pairing,
               Remembers, TypeOK
      <3>3. ServingInv' /\ PullInv'
        BY <1>4, <2>2 DEF PairAnswer, Go, IInv, ServingInv, PullInv, TypeOK
      <3> QED
        BY <3>1, <3>2, <3>3 DEF IInv
    <2> QED
      BY <1>4, <2>1, <2>2 DEF PairAnswer
  <1>5. CASE SaveTruncate(c)
    <2>1. FileInv'
      BY <1>5 DEF SaveTruncate, Truncate, Truncated, IInv, FileInv,
                  serverVars, TypeOK
    <2>2. TrustInv'
      BY <1>5
         DEF SaveTruncate, Truncate, Truncated, Go, IInv, TrustInv, Paired,
             Unreadable, Pairing, Remembers, serverVars, TypeOK
    <2>3. ServingInv' /\ PullInv'
      BY <1>5 DEF SaveTruncate, Go, IInv, ServingInv, PullInv, serverVars,
                  TypeOK
    <2> QED
      BY <2>1, <2>2, <2>3 DEF IInv
  <1>6. CASE SaveOpenFails(c)
    BY <1>6, EndKeeps DEF SaveOpenFails
  <1>7. CASE SaveWrite(c)
    <2>1. CASE Fault /\ UNCHANGED <<file, saved>>
      <3>1. FileInv'
        BY <1>7, <2>1 DEF SaveWrite, IInv, FileInv, serverVars
      <3>2. TrustInv'
        BY <1>7, <2>1
           DEF SaveWrite, Go, IInv, TrustInv, Paired, Unreadable, Pairing,
               Remembers, serverVars, TypeOK
      <3>3. ServingInv' /\ PullInv'
        BY <1>7, <2>1 DEF SaveWrite, Go, IInv, ServingInv, PullInv,
                          serverVars, TypeOK
      <3> QED
        BY <3>1, <3>2, <3>3 DEF IInv
    <2>2. CASE /\ file' = [file EXCEPT ![Home[c]] = Whole(mem[c])]
               /\ saved' = [saved EXCEPT ![Home[c]] = @ \cup mem[c]]
      <3>0. saved'[Home[c]] = mem[c]
        BY <1>7, <2>2 DEF SaveWrite, IInv, TrustInv, Pairing, TypeOK
      <3>1. FileInv'
        BY <1>7, <2>2, <3>0
           DEF SaveWrite, Whole, IInv, FileInv, serverVars, TypeOK
      <3>2. \A x \in Clients : Paired(x) => Paired(x)'
        BY <1>7, <2>2 DEF SaveWrite, Paired, Unreadable, serverVars, TypeOK
      <3>3. TrustInv'
        BY <1>7, <2>2, <3>0, <3>2
           DEF SaveWrite, Go, IInv, TrustInv, Pairing, Remembers, TypeOK
      <3>4. ServingInv' /\ PullInv'
        BY <1>7, <2>2 DEF SaveWrite, Go, IInv, ServingInv, PullInv,
                          serverVars, TypeOK
      <3> QED
        BY <3>1, <3>3, <3>4 DEF IInv
    <2> QED
      BY <1>7, <2>1, <2>2 DEF SaveWrite, Write
  <1>8. CASE AuthConnect(c)
    <2>1. FileInv'
      BY <1>8 DEF AuthConnect, IInv, FileInv, serverVars
    <2>2. TrustInv'
      BY <1>8
         DEF AuthConnect, Go, IInv, TrustInv, Paired, Unreadable, Pairing,
             Remembers, serverVars, TypeOK
    <2>3. ServingInv' /\ PullInv'
      BY <1>8 DEF AuthConnect, Go, IInv, ServingInv, PullInv, serverVars,
                  TypeOK
    <2> QED
      BY <2>1, <2>2, <2>3 DEF IInv
  <1>9. CASE AuthLoad(c)
    <2>1. ASSUME NEW how \in {"store_error", "not_trusted_here"}, End(c, how)
          PROVE  IInv'
      BY <1>9, <2>1, EndKeeps DEF AuthLoad
    <2>2. CASE /\ Target[c] \in file[Home[c]].ids
               /\ link' = [link EXCEPT ![c] =
                              IF @ = "open" THEN "auth_request" ELSE @]
               /\ Go(c, "auth_answer")
               /\ UNCHANGED <<outcome, serving>>
      <3>1. FileInv'
        BY <1>9, <2>2 DEF AuthLoad, IInv, FileInv
      <3>2. TrustInv'
        BY <1>9, <2>2
           DEF AuthLoad, Go, IInv, TrustInv, Paired, Unreadable, Pairing,
               Remembers, TypeOK
      <3>3. ServingInv'
        BY <1>9, <2>2 DEF AuthLoad, Go, IInv, ServingInv, TypeOK
      <3>4. PullInv'
        BY <1>9, <2>2 DEF AuthLoad, Go, IInv, FileInv, PullInv, TypeOK
      <3> QED
        BY <3>1, <3>2, <3>3, <3>4 DEF IInv
    <2> QED
      BY <1>9, <2>1, <2>2 DEF AuthLoad
  <1>10. CASE AuthAnswer(c)
    <2>1. ASSUME NEW how, how # "ok", End(c, how)
          PROVE  IInv'
      BY <1>10, <2>1, EndKeeps DEF AuthAnswer
    <2>2. CASE link[c] = "accepted" /\ End(c, "ok")
      <3>1. FileInv'
        BY <1>10, <2>2, EndFacts DEF AuthAnswer, IInv, FileInv
      <3>2. TrustInv'
        BY <1>10, <2>2, EndFacts
           DEF AuthAnswer, IInv, TrustInv, Paired, Unreadable, Pairing,
               Remembers
      <3>3. ServingInv' /\ PullInv'
        BY <1>10, <2>2, EndFacts DEF AuthAnswer, IInv, ServingInv, PullInv
      <3> QED
        BY <3>1, <3>2, <3>3 DEF IInv
    <2> QED
      BY <1>10, <2>1, <2>2 DEF AuthAnswer, Verdict
  <1> QED
    BY <1>1, <1>2, <1>3, <1>4, <1>5, <1>6, <1>7, <1>8, <1>9, <1>10
       DEF ClientStep

-----------------------------------------------------------------------------
(* The steps of a server, and the faults.                                  *)

LEMMA ServerKeeps ==
  ASSUME SingleWriter, TypeOK, IInv, NEW d \in Devices, ServerStep(d)
  PROVE  IInv'
  <1> USE PairAssumption DEF SingleWriter
  <1>1. CASE Hangup(d)
    BY <1>1, RespondKeeps DEF Hangup
  <1>2. CASE HandlePair(d)
    <2> DEFINE c == serving[d]
    <2>0. /\ c \in Clients /\ link[c] = "pair_request" /\ spc[d] = "receive"
          /\ Target[c] = d
          /\ UNCHANGED <<kind, file, clientVars, saved>>
      BY <1>2 DEF HandlePair, Requested, IInv, FileInv
    <2>1. CASE TurnDown(d)
      BY <1>2, <2>0, <2>1, RespondKeeps DEF TurnDown
    <2>2. CASE ~Remembers(c) /\ Respond(d, "accepted") /\ UNCHANGED smem
      <3> USE <2>0, <2>2, RespondFacts
      <3>1. FileInv'
        BY DEF IInv, FileInv
      <3>2. \A x \in Clients : Paired(x) => Paired(x)'
        BY DEF Paired, Unreadable
      <3>3. pc' = pc /\ mem' = mem /\ outcome' = outcome
        BY DEF clientVars
      <3>4. TrustInv'
        BY <3>2, <3>3 DEF IInv, TrustInv, Remembers
      <3>5. ServingInv' /\ PullInv'
        BY <3>3 DEF IInv, FileInv, ServingInv, PullInv
      <3> QED
        BY <3>1, <3>4, <3>5 DEF IInv
    <2>3. CASE /\ CodeMatches(c) /\ Remembers(c)
               /\ file[d].parses /\ Remember(d, file[d].ids)
      <3>1. FileInv'
        BY <2>0, <2>3 DEF Remember, IInv, FileInv, TypeOK
      <3>2. \A x \in Clients : Paired(x) => Paired(x)'
        BY <2>0, <2>3 DEF Remember, Paired, Unreadable, TypeOK
      <3>3. pc' = pc /\ mem' = mem /\ outcome' = outcome
        BY <2>0 DEF clientVars
      <3>4. TrustInv'
        BY <2>0, <2>3, <3>2, <3>3 DEF Remember, IInv, TrustInv, Remembers
      <3>5. kind[c] = "remembers"
        BY <2>0, <2>3 DEF CodeMatches, Remembers, TypeOK, Kind
      <3>6. ServingInv' /\ PullInv'
        BY <2>0, <2>3, <3>3, <3>5
           DEF Remember, IInv, ServingInv, PullInv, TypeOK
      <3> QED
        BY <3>1, <3>4, <3>6 DEF IInv
    <2> QED
      BY <1>2, <2>1, <2>2, <2>3 DEF HandlePair
  <1>3. CASE HandleAuth(d)
    <2> DEFINE c == serving[d]
    <2>0. /\ c \in Clients /\ link[c] = "auth_request" /\ spc[d] = "receive"
          /\ Target[c] = d
          /\ UNCHANGED <<kind, file, clientVars, smem, saved>>
      BY <1>3 DEF HandleAuth, Requested, IInv, FileInv
    <2>1. CASE \E answer \in {"refused", "rejected"} : Respond(d, answer)
      BY <2>0, <2>1, RespondKeeps
    <2>2. CASE Home[c] \in file[d].ids /\ Respond(d, "accepted")
      <3> USE <2>0, <2>2, RespondFacts
      <3>1. FileInv'
        BY DEF IInv, FileInv
      <3>2. \A x \in Clients : Paired(x) => Paired(x)'
        BY DEF Paired, Unreadable
      <3>3. pc' = pc /\ mem' = mem /\ outcome' = outcome
        BY DEF clientVars
      <3>4. TrustInv'
        BY <3>2, <3>3 DEF IInv, TrustInv, PullInv, Remembers
      <3>5. ServingInv' /\ PullInv'
        BY <3>3 DEF IInv, FileInv, ServingInv, PullInv
      <3> QED
        BY <3>1, <3>4, <3>5 DEF IInv
    <2> QED
      BY <1>3, <2>1, <2>2 DEF HandleAuth
  <1>4. CASE ServerTruncate(d)
    <2>1. FileInv'
      BY <1>4 DEF ServerTruncate, Truncate, Truncated, IInv, FileInv, TypeOK
    <2>2. \A x \in Clients : Paired(x) => Paired(x)'
      BY <1>4 DEF ServerTruncate, Truncate, Paired, Unreadable, TypeOK
    <2>3. TrustInv'
      BY <1>4, <2>2 DEF ServerTruncate, IInv, TrustInv, Remembers, clientVars
    <2>4. ServingInv' /\ PullInv'
      BY <1>4 DEF ServerTruncate, IInv, ServingInv, PullInv, clientVars,
                  TypeOK
    <2> QED
      BY <2>1, <2>3, <2>4 DEF IInv
  <1>5. CASE ServerOpenFails(d)
    BY <1>5, RespondKeeps DEF ServerOpenFails, TurnDown
  <1>6. CASE ServerWrite(d)
    <2>0. /\ spc[d] = "write" /\ ~file[d].parses
          /\ Write(d, smem[d]) /\ Respond(d, "accepted")
          /\ UNCHANGED <<kind, clientVars, smem>>
      BY <1>6 DEF ServerWrite, IInv, FileInv
    <2>1. saved[d] \subseteq smem[d]
      BY <2>0 DEF IInv, FileInv
    <2>2. \/ file' = file /\ saved' = saved
          \/ /\ file' = [file EXCEPT ![d] = Whole(smem[d])]
             /\ saved' = [saved EXCEPT ![d] = @ \cup smem[d]]
      BY <2>0 DEF Write
    <2>3. FileInv'
      BY <2>0, <2>1, <2>2, RespondFacts DEF Whole, IInv, FileInv, TypeOK
    <2>4. \A x \in Clients : Paired(x) => Paired(x)'
      BY <2>0, <2>2, RespondFacts DEF Paired, Unreadable, TypeOK
    <2>5. ASSUME NEW x \in Clients, x = serving[d]
          PROVE  Paired(x)' /\ pc[x] = "pair_answer"
      <3>1. /\ pc[x] = "pair_answer" /\ kind[x] = "remembers"
            /\ Home[x] \in smem[d] /\ Target[x] = d
        BY <2>0, <2>5 DEF IInv, FileInv, ServingInv
      <3> QED
        BY <2>0, <2>2, <3>1, RespondFacts DEF Paired, Unreadable, TypeOK
    <2>6. pc' = pc /\ mem' = mem /\ outcome' = outcome
      BY <2>0 DEF clientVars
    <2>7. \A x \in Clients : saved'[Home[x]] = saved[Home[x]]
      <3>1. \E x \in Clients : Target[x] = d
        BY <2>0 DEF IInv, FileInv
      <3> QED
        BY <2>2, <3>1 DEF TypeOK
    <2>8. TrustInv'
      BY <2>0, <2>4, <2>5, <2>6, <2>7, RespondFacts
         DEF IInv, TrustInv, Remembers
    <2>9. ServingInv'
      BY <2>0, <2>6, RespondFacts DEF IInv, FileInv, ServingInv
    <2>10. PullInv'
      BY <2>0, <2>2, <2>5, <2>6, <2>7, RespondFacts DEF IInv, PullInv, TypeOK
    <2> QED
      BY <2>3, <2>8, <2>9, <2>10 DEF IInv
  <1> QED
    BY <1>1, <1>2, <1>3, <1>4, <1>5, <1>6 DEF ServerStep

LEMMA FaultKeeps ==
  ASSUME SingleWriter, TypeOK, IInv,
         \/ \E c \in Clients : Break(c) \/ KillClient(c)
         \/ \E d \in Devices :
              KillServer(d) \/ \E c \in Clients : Accept(d, c)
  PROVE  IInv'
  <1> USE PairAssumption
  <1>1. ASSUME NEW c \in Clients, Break(c) PROVE IInv'
    <2>1. FileInv' /\ ServingInv'
      BY <1>1 DEF Break, IInv, FileInv, ServingInv, clientVars, serverVars,
                  TypeOK
    <2>2. TrustInv' /\ PullInv'
      BY <1>1 DEF Break, IInv, TrustInv, PullInv, Paired, Unreadable,
                  Remembers, clientVars, serverVars, TypeOK
    <2> QED
      BY <2>1, <2>2 DEF IInv
  <1>2. ASSUME NEW c \in Clients, KillClient(c) PROVE IInv'
    BY <1>2, EndKeeps DEF KillClient
  <1>3. ASSUME NEW d \in Devices, KillServer(d) PROVE IInv'
    <2>1. FileInv' /\ ServingInv'
      BY <1>3 DEF KillServer, IInv, FileInv, ServingInv, clientVars, TypeOK
    <2>2. \A x \in Clients : Paired(x) => Paired(x)'
      BY <1>3 DEF KillServer, Paired, Unreadable, TypeOK
    <2>3. TrustInv' /\ PullInv'
      BY <1>3, <2>2 DEF KillServer, IInv, TrustInv, PullInv, Remembers,
                        clientVars, TypeOK
    <2> QED
      BY <2>1, <2>3 DEF IInv
  <1>4. ASSUME NEW d \in Devices, NEW c \in Clients, Accept(d, c)
        PROVE  IInv'
    <2>1. FileInv' /\ ServingInv'
      BY <1>4 DEF Accept, IInv, FileInv, ServingInv, clientVars, TypeOK
    <2>2. \A x \in Clients : Paired(x) => Paired(x)'
      BY <1>4 DEF Accept, Paired, Unreadable, TypeOK
    <2>3. TrustInv' /\ PullInv'
      BY <1>4, <2>2 DEF Accept, IInv, TrustInv, PullInv, Remembers,
                        clientVars
    <2> QED
      BY <2>1, <2>3 DEF IInv
  <1> QED
    BY <1>1, <1>2, <1>3, <1>4

-----------------------------------------------------------------------------
(* The theorems.                                                           *)

LEMMA Inductive == SingleWriter /\ Spec => [](TypeOK /\ IInv)
  <1> SUFFICES ASSUME SingleWriter PROVE Spec => [](TypeOK /\ IInv)
    OBVIOUS
  <1>1. Init => IInv
    BY InitKeeps
  <1>2. TypeOK /\ IInv /\ [Next]_vars => IInv'
    <2> SUFFICES ASSUME TypeOK, IInv, [Next]_vars PROVE IInv'
      OBVIOUS
    <2>1. CASE UNCHANGED vars
      BY <2>1 DEF vars, clientVars, serverVars, IInv, FileInv, TrustInv,
                  ServingInv, PullInv, Paired, Unreadable, Remembers
    <2> QED
      BY <2>1, ClientKeeps, ServerKeeps, FaultKeeps DEF Next
  <1> QED
    BY <1>1, <1>2, TypeCorrect, PTL DEF Spec

(* Where every trust file has one writer, whatever breaks, is killed or is *)
(* lost: a client that trusts its server is trusted by it.                 *)
THEOREM TrustMutual == SingleWriter /\ Spec => []TrustIsMutual
  <1>1. TypeOK /\ IInv => TrustIsMutual
    BY PairAssumption
       DEF IInv, FileInv, TrustInv, Paired, Unreadable, TrustIsMutual
  <1> QED
    BY <1>1, Inductive, PTL

(* Likewise, a trust file that can be read holds all that was written to   *)
(* it.                                                                     *)
THEOREM NothingLost == SingleWriter /\ Spec => []NothingForgotten
  <1>1. TypeOK /\ IInv => NothingForgotten
    BY DEF IInv, FileInv, NothingForgotten
  <1> QED
    BY <1>1, Inductive, PTL

(* Likewise, only a client that knew the code and was remembered pulls.    *)
THEOREM OnlyPairedPull == SingleWriter /\ Spec => []PulledMeansPaired
  <1>1. TypeOK /\ IInv => PulledMeansPaired
    BY DEF IInv, TrustInv, PullInv, Paired, PulledMeansPaired
  <1> QED
    BY <1>1, Inductive, PTL

-----------------------------------------------------------------------------
(* Pairing where it is needed.  From its save on, a client that remembers  *)
(* finds its target in its own file, and the server does not turn down     *)
(* whom it has remembered.                                                 *)

Needed(c) ==
  /\ outcome[c] \notin {"not_trusted_here", "not_trusted_there"}
  /\ pc[c] \in {"truncate", "write"} => Target[c] \in mem[c]
  /\ pc[c] = "write" => ~file[Home[c]].parses
  /\ pc[c] \in {"connect_auth", "auth_load", "auth_answer"}
       /\ file[Home[c]].parses => Target[c] \in file[Home[c]].ids
  /\ pc[c] \in {"auth_load", "auth_answer"} => link[c] # "rejected"

NeededInv == \A c \in Clients : Remembers(c) => Needed(c)

LEMMA EndNeeded ==
  ASSUME TypeOK, NEW c \in Clients, NEW how, End(c, how),
         how \notin {"not_trusted_here", "not_trusted_there"},
         UNCHANGED <<mem, file>>
  PROVE  Needed(c)'
  BY EndFacts DEF Needed

(* A step of another client leaves a client and its file alone.            *)
LEMMA OthersNeeded ==
  ASSUME SingleWriter, TypeOK, NEW c \in Clients, ClientStep(c),
         NEW x \in Clients \ {c}, Needed(x)
  PROVE  Needed(x)'
  <1>1. /\ pc'[x] = pc[x] /\ mem'[x] = mem[x]
        /\ outcome'[x] = outcome[x] /\ link'[x] = link[x]
    BY DEF ClientStep, Begin, PairLoad, PairConnect, PairAnswer,
           SaveTruncate, SaveOpenFails, SaveWrite, AuthConnect, AuthLoad,
           AuthAnswer, End, Go, TypeOK
  <1>2. file'[Home[x]] = file[Home[x]]
    BY PairAssumption
       DEF SingleWriter, ClientStep, Begin, PairLoad, PairConnect,
           PairAnswer, SaveTruncate, SaveOpenFails, SaveWrite, AuthConnect,
           AuthLoad, AuthAnswer, Truncate, Write, TypeOK
  <1> QED BY <1>1, <1>2 DEF Needed

LEMMA ClientNeeded ==
  ASSUME TypeOK, IInv, NEW c \in Clients, ClientStep(c),
         Remembers(c), Needed(c)
  PROVE  Needed(c)'
  <1> USE PairAssumption
  <1>1. CASE Begin(c)
    BY <1>1, EndNeeded DEF Begin, Go, Needed, TypeOK
  <1>2. CASE PairLoad(c)
    <2>1. CASE ~file[Home[c]].parses
      BY <1>2, <2>1, EndNeeded DEF PairLoad
    <2>2. CASE file[Home[c]].parses
      BY <1>2, <2>2 DEF PairLoad, Go, Needed, TypeOK
    <2> QED BY <2>1, <2>2
  <1>3. CASE PairConnect(c)
    BY <1>3 DEF PairConnect, Go, Needed, TypeOK
  <1>4. CASE PairAnswer(c)
    <2>1. CASE \E how \in {"pairing_refused", "connection_error"} :
                 End(c, how) /\ UNCHANGED mem
      BY <1>4, <2>1, EndNeeded DEF PairAnswer
    <2>2. CASE /\ mem' = [mem EXCEPT ![c] = @ \cup {Target[c]}]
               /\ Go(c, "truncate")
               /\ UNCHANGED outcome
      BY <1>4, <2>2 DEF PairAnswer, Go, Needed, TypeOK
    <2> QED BY <1>4, <2>1, <2>2 DEF PairAnswer
  <1>5. CASE SaveTruncate(c)
    BY <1>5 DEF SaveTruncate, Truncate, Truncated, Go, Needed, TypeOK
  <1>6. CASE SaveOpenFails(c)
    BY <1>6, EndNeeded DEF SaveOpenFails
  <1>7. CASE SaveWrite(c)
    BY <1>7 DEF SaveWrite, Write, Whole, Go, Needed, TypeOK
  <1>8. CASE AuthConnect(c)
    BY <1>8 DEF AuthConnect, Go, Needed, TypeOK
  <1>9. CASE AuthLoad(c)
    <2>1. CASE ~file[Home[c]].parses /\ End(c, "store_error")
      BY <1>9, <2>1, EndNeeded DEF AuthLoad
    <2>2. CASE Go(c, "auth_answer")
      BY <1>9, <2>2 DEF AuthLoad, End, Go, Needed, TypeOK
    <2> QED BY <1>9, <2>1, <2>2 DEF AuthLoad, Needed
  <1>10. CASE AuthAnswer(c)
    <2>1. link[c] # "rejected"
      BY <1>10 DEF AuthAnswer, Needed
    <2>2. Verdict[link[c]] \notin {"not_trusted_here", "not_trusted_there"}
      BY <1>10, <2>1 DEF AuthAnswer, Verdict
    <2> QED BY <1>10, <2>2, EndNeeded DEF AuthAnswer
  <1> QED
    BY <1>1, <1>2, <1>3, <1>4, <1>5, <1>6, <1>7, <1>8, <1>9, <1>10
       DEF ClientStep

(* Only a client that waits for the answer to a pairing request is turned  *)
(* down: who asks for a pull trusts the server, and is trusted by it.      *)
LEMMA TurnedDown ==
  ASSUME TypeOK, IInv, NEW d \in Devices, ServerStep(d),
         NEW x \in Clients, link'[x] = "rejected", link[x] # "rejected"
  PROVE  pc[x] = "pair_answer"
  <1> USE PairAssumption, RespondFacts
  <1>1. CASE Hangup(d)
    BY <1>1 DEF Hangup
  <1>2. CASE HandlePair(d)
    <2>1. x = serving[d] /\ link[x] = "pair_request"
      BY <1>2 DEF HandlePair, TurnDown, Remember, Requested
    <2> QED BY <2>1 DEF IInv, PullInv
  <1>3. CASE HandleAuth(d)
    <2>1. /\ x = serving[d] /\ link[x] = "auth_request"
          /\ file[d].parses /\ Home[x] \notin file[d].ids
          /\ spc[d] = "receive"
      BY <1>3 DEF HandleAuth, Requested
    <2>2. Target[x] = d /\ Target[x] \in saved[Home[x]]
      BY <2>1 DEF IInv, FileInv, PullInv
    <2>3. Home[x] \in saved[d]
      BY <2>1, <2>2 DEF IInv, TrustInv, Paired, Unreadable
    <2> QED BY <2>1, <2>3 DEF IInv, FileInv
  <1>4. CASE ServerTruncate(d)
    BY <1>4 DEF ServerTruncate
  <1>5. CASE ServerOpenFails(d)
    <2>1. x = serving[d] /\ spc[d] = "truncate"
      BY <1>5 DEF ServerOpenFails, TurnDown
    <2>2. Target[x] = d
      BY <2>1 DEF IInv, FileInv
    <2> QED BY <2>1, <2>2 DEF IInv, ServingInv
  <1>6. CASE ServerWrite(d)
    BY <1>6 DEF ServerWrite
  <1> QED BY <1>1, <1>2, <1>3, <1>4, <1>5, <1>6 DEF ServerStep

LEMMA ServerNeeded ==
  ASSUME SingleWriter, TypeOK, IInv, NEW d \in Devices, ServerStep(d),
         NEW x \in Clients, Needed(x)
  PROVE  Needed(x)'
  <1>1. UNCHANGED clientVars
    BY DEF ServerStep, Hangup, HandlePair, HandleAuth, ServerTruncate,
           ServerOpenFails, ServerWrite
  <1>2. spc[d] # "accept" => Home[x] # d
    BY DEF IInv, FileInv, SingleWriter
  <1>3. file'[Home[x]] = file[Home[x]]
    BY <1>2, PairAssumption
       DEF ServerStep, Hangup, HandlePair, HandleAuth, ServerTruncate,
           ServerOpenFails, ServerWrite, Truncate, Write, TypeOK
  <1> QED BY <1>1, <1>3, TurnedDown DEF clientVars, Needed

LEMMA FaultNeeded ==
  ASSUME TypeOK, NEW x \in Clients, Needed(x),
         \/ \E c \in Clients : Break(c) \/ KillClient(c)
         \/ \E d \in Devices :
              KillServer(d) \/ \E c \in Clients : Accept(d, c)
  PROVE  Needed(x)'
  <1> USE PairAssumption
  <1>1. ASSUME NEW c \in Clients, Break(c) PROVE Needed(x)'
    BY <1>1 DEF Break, clientVars, Needed, TypeOK
  <1>2. ASSUME NEW c \in Clients, KillClient(c) PROVE Needed(x)'
    <2>1. CASE x = c
      BY <1>2, <2>1, EndNeeded DEF KillClient
    <2>2. CASE x # c
      BY <1>2, <2>2, EndFacts DEF KillClient, Needed
    <2> QED BY <2>1, <2>2
  <1>3. ASSUME NEW d \in Devices, KillServer(d) PROVE Needed(x)'
    BY <1>3 DEF KillServer, clientVars, Needed
  <1>4. ASSUME NEW d \in Devices, NEW c \in Clients, Accept(d, c)
        PROVE  Needed(x)'
    BY <1>4 DEF Accept, clientVars, Needed
  <1> QED BY <1>1, <1>2, <1>3, <1>4

LEMMA NextNeeded ==
  ASSUME SingleWriter, TypeOK, IInv, NeededInv, [Next]_vars
  PROVE  NeededInv'
  <1>1. kind' = kind
    BY DEF Next, ClientStep, Begin, PairLoad, PairConnect, PairAnswer,
           SaveTruncate, SaveOpenFails, SaveWrite, AuthConnect, AuthLoad,
           AuthAnswer, ServerStep, Hangup, HandlePair, HandleAuth,
           ServerTruncate, ServerOpenFails, ServerWrite, Break, KillClient,
           KillServer, Accept, vars
  <1> SUFFICES ASSUME NEW x \in Clients, Remembers(x), Needed(x)
               PROVE  Needed(x)'
    BY <1>1 DEF NeededInv, Remembers
  <1>2. CASE UNCHANGED vars
    BY <1>2 DEF vars, clientVars, Needed
  <1> QED
    BY <1>2, ClientNeeded, OthersNeeded, ServerNeeded, FaultNeeded DEF Next

(* "Pair with device_info if needed" (manager.h) holds where every trust   *)
(* file has one writer and no client was told not to remember, whatever    *)
(* breaks, is killed or is lost.  With a second writer it does not hold.   *)
THEOREM PairedIfNeeded ==
  SingleWriter /\ "forgets" \notin Kinds /\ Spec => []PairsIfNeeded
  <1> SUFFICES ASSUME SingleWriter, "forgets" \notin Kinds
               PROVE  Spec => []PairsIfNeeded
    OBVIOUS
  <1>1. Init => NeededInv
    BY DEF Init, NeededInv, Needed
  <1>2. TypeOK /\ IInv /\ NeededInv /\ [Next]_vars => NeededInv'
    BY NextNeeded
  <1>3. TypeOK /\ NeededInv => PairsIfNeeded
    BY DEF TypeOK, NeededInv, Needed, Remembers, PairsIfNeeded
  <1> QED
    BY <1>1, <1>2, <1>3, Inductive, PTL DEF Spec

=============================================================================
