----------------------------- MODULE MCGrammar -----------------------------
(***************************************************************************)
(* A small instance of Grammar: one-byte sizes, and starts that reach       *)
(* parameters, quoted strings, ports near 65536 and IP literals.            *)
(***************************************************************************)
EXTENDS Grammar

Input(symbols, starts, max_more) == [symbols |-> symbols, starts |-> starts, max_more |-> max_more]

ChunkLineInput ==
    Input({"0", "1", "f", "name", ";", "=", "ows", "quote", "backslash", "ctl"},
          {<<>>, <<"1", ";", "name">>, <<"f", "f", ";", "name", "=", "quote">>}, 4)

CodingsInput ==
    Input({"chunked", "gzip", "name", ";", "=", ",", "ows", "quote", "backslash"},
          {<<>>, <<"name", ";", "name", "=">>, <<"name", ";", "name", "=", "quote">>}, 4)

TargetInput ==
    Input({"0", "5", "a", "v", ".", "*", ":", "[", "]", "%", "/", "#", "ip6"},
          {<<>>, <<"[", "v">>, <<"[", "ip6">>, <<"a", ":", "6", "5", "5", "3">>,
           <<"a", ":", "6", "5", "5", "3", "6">>}, 4)

TrailersInput == Input({"cr", "lf", "sp", "x"}, {<<>>}, 7)

SomeInputs ==
    [chunk_line |-> ChunkLineInput, codings |-> CodingsInput, target |-> TargetInput,
     trailers |-> TrailersInput]
=============================================================================
