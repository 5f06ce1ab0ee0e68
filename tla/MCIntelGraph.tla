----------------------------- MODULE MCIntelGraph -----------------------------
EXTENDS IntelGraph

(***************************************************************************)
(* w is a host of the network, x the seed, y a listed address; all         *)
(* share slot 2, two of them slot 3.                                       *)
(***************************************************************************)
CONSTANTS w, x, y

MCHashes == (w :> <<1, 2>>) @@ (x :> <<2, 3>>) @@ (y :> <<3, 2>>)
MCListed == (y :> "HIGH")
MCRanges == <<>>
MCFeeds == {<<y, x, y>>}
MCOther == {<<"LATERAL_MOVEMENT", "CRITICAL", 95>>, <<"PORT_SCAN", "LOW", 90>>}
=============================================================================
