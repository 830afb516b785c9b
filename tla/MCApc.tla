-------------------------------- MODULE MCApc --------------------------------
(* Small instances of Apc for TLC.                                           *)
EXTENDS Apc, TLC

CONSTANTS t1, t2, s1, n1, n2, e1

MCApcThread == s1 :> t1 @@ n1 :> t1 @@ n2 :> t1
=============================================================================
