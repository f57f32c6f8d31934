--------------------------- MODULE MCServerTable ---------------------------
(***************************************************************************)
(* Instances of ServerTable: two threads, like those of the master, and a  *)
(* table of up to three entries.                                           *)
(***************************************************************************)
EXTENDS ServerTable

Ids2 == 1..2
Ids3 == 1..3
Indexes2 == 0..1
=============================================================================
