---------------------------- MODULE MCEchoClient ----------------------------
(* Instances of EchoClient for TLC. *)
EXTENDS EchoClient, TLC

CONSTANTS s1, s2

\* The client has enough to fill the connection in both directions, with bytes left over.
MCMaxBytes == s1 :> 2 @@ s2 :> 7
=============================================================================
