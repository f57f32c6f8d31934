--------------------------- MODULE MCTransmission ---------------------------
(***************************************************************************)
(* An instance of Transmission.                                            *)
(***************************************************************************)
EXTENDS Transmission

(* A message of nothing but padding, one that is padded, and one that      *)
(* fills its piece and needs another chunk.                                *)
ShortMessages == {<<>>, <<0>>, <<0, 0>>}

(* Far has calls enough to use an instance twice, or after it was closed;  *)
(* Near reads, with its timeout, what Far sends.                           *)
CallsOfEnds == [e \in Ends |-> IF e = Far THEN 3 ELSE 1]
SendsOfEnds == [e \in Ends |-> IF e = Far THEN 1 ELSE 0]
=============================================================================
