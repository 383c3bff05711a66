--------------------------------- MODULE MCHttp ---------------------------------
(***************************************************************************)
(* The HTTP client with bodies for TLC: none, one with and one without an  *)
(* empty line in it, and one that does not fit into the header buffer.     *)
(***************************************************************************)
EXTENDS Http

MCBodies == {<<>>, <<"b">>, <<"b", "e">>, <<"b", "e", "b", "b">>}
===============================================================================
