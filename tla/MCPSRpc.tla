------------------------------ MODULE MCPSRpc ------------------------------
(* Small instances of PSRpc for TLC.                                       *)
EXTENDS PSRpc

(* GetHash: of two servers, keys 1 and 3 go to the second, key 2 to the    *)
(* first.                                                                  *)
HashOf == [k \in Keys |-> k]

(* One server with two polling threads, or two servers with one each.      *)
MCThreadNum == [n \in Deployments |-> IF n = 1 THEN 2 ELSE 1]

(* The two loaded keys, a batch for the second of two servers only, and a  *)
(* batch with a key that was not loaded.                                   *)
MCSamples == {<<2, 1>>, <<1, 1>>, <<2, 3>>}
===========================================================================
