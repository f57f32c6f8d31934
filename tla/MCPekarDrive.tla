---------------------------- MODULE MCPekarDrive ----------------------------
(***************************************************************************)
(* Instances of PekarDrive.                                                *)
(***************************************************************************)
EXTENDS PekarDrive

CONSTANTS a, ab

(* ab is what a can become when its string is not terminated, and a name   *)
(* that strstr finds a in.                                                 *)
PrefixA == {<<a, a>>}
PrefixAB == {<<a, a>>, <<ab, ab>>, <<a, ab>>}
=============================================================================
