--------------------------- MODULE MCFileTransfer ---------------------------
(***************************************************************************)
(* Files around the boundaries of a chunk of two bytes: empty, a short     *)
(* chunk, one full chunk, and one full and one short chunk; two files of   *)
(* the same length.  The file may change once, and is sent up to twice.    *)
(***************************************************************************)
EXTENDS FileTransfer

SomeFiles == {<<>>, <<1>>, <<1, 2>>, <<1, 2, 1>>, <<2, 1, 1>>}
=============================================================================
