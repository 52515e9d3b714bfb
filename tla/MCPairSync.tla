----------------------------- MODULE MCPairSync -----------------------------
(***************************************************************************)
(* Instances of PairSync for TLC.  In the star, two devices pull from a    *)
(* third, with every kind of client.  In the chain, the middle device both *)
(* serves and pulls, so that two processes share its trust file.           *)
(***************************************************************************)
EXTENDS PairSync, TLC

CONSTANTS a, b, hub, ca, cb

ThreeDevices == {a, b, hub}
TwoClients   == {ca, cb}

StarHome    == ca :> a @@ cb :> b
StarTarget  == ca :> hub @@ cb :> hub

ChainHome   == ca :> a @@ cb :> hub
ChainTarget == ca :> hub @@ cb :> b

AllKinds      == Kind
OnlyRemembers == {"remembers"}

=============================================================================
