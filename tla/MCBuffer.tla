------------------------------ MODULE MCBuffer ------------------------------
(***************************************************************************)
(* A small instance of Buffer.                                              *)
(***************************************************************************)
EXTENDS Buffer

TwoBytes == {"a", "b"}

SomePieces == {<<"a">>, <<"b">>, <<"a", "b">>, <<"b", "b", "a">>}
=============================================================================
