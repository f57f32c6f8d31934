---------------------------- MODULE MCFileStore -----------------------------
(***************************************************************************)
(* FileStore with a short text, and one that a disk may be too small for.  *)
(***************************************************************************)
EXTENDS FileStore

MCData == {<<>>, <<"x">>, <<"d", "x", "x">>}
=============================================================================
