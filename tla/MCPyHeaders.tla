----------------------------- MODULE MCPyHeaders ----------------------------
(***************************************************************************)
(* A small instance of PyHeaders.                                           *)
(***************************************************************************)
EXTENDS PyHeaders

SomeNames == {<<"connection">>, <<"host">>, <<"name", "ows">>}

SomeValues == {<<>>, <<"close">>, <<"keep-alive", ",", "ows", "name">>, <<"ows">>}

SomeSections ==
    {<< <<<<"host">>, <<"name">>>>, <<<<"connection">>, <<"name", "ows", ",", ",", "close">>>> >>,
     << <<<<"name">>, <<"name", "ctl">>>>, <<<<"host">>, <<>>>> >>}
=============================================================================
