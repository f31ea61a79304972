---------------------------- MODULE MCFileCache ----------------------------
(* A small instance of FileCache for TLC. *)
EXTENDS FileCache, TLC

MCContent == {<< >>, <<"a">>}
=============================================================================
