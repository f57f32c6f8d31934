------------------------------ MODULE MCLogger ------------------------------
(***************************************************************************)
(* An instance of Logger.                                                  *)
(***************************************************************************)
EXTENDS Logger

CONSTANTS ping, registered

(* A short and a longer message.                                           *)
TwoMessages == [m \in {ping, registered} |-> IF m = ping THEN 1 ELSE 2]
=============================================================================
