--------------------------- MODULE MCHttpMessage ----------------------------
(***************************************************************************)
(* Messages of HttpMessage for TLC: ones that the format carries, and ones *)
(* that it does not.                                                       *)
(***************************************************************************)
EXTENDS HttpMessage, TLC

SomeDecimals == <<"0", "1", "2", "3">>
SomeSymbols  ==
    {CR, LF, SP, COLON, NUL, LengthHeader[1], StatusCode}
        \cup {SomeDecimals[i] : i \in DOMAIN SomeDecimals}
        \cup {"GET", "HTTP", "OK", "Not", "Found", "a", "b"}

Sized(n) == LengthHeader :> <<Number(n)>>
None     == [name \in {} |-> <<>>]
Named(value) == <<"a">> :> value

Get(headers, body) ==
    [start |-> <<<<"GET">>, <<"a">>, <<"HTTP">>>>, headers |-> headers, body |-> body]

\* A bare request, a body that looks like the end of the headers, an empty one,
\* a value with a colon and a blank, a body that nothing announces.
SomeRequests ==
    { Get(None, <<>>),
      Get(Sized(3) @@ Named(<<>>), <<CR, LF, "GET">>),
      Get(Sized(0), <<>>),
      Get(Named(<<"a", COLON, SP, "b">>), <<>>),
      Get(Named(<<"b">>), <<"b">>) }

Answer(description, headers, body) ==
    [start |-> <<<<"HTTP">>, <<StatusCode>>, description>>,
     headers |-> headers, body |-> body]

\* With a description of one word, none, and two.
SomeResponses ==
    { Answer(<<"OK">>, Sized(1), <<LF>>),
      Answer(<<>>, Sized(2), <<"a", "b">>),
      Answer(<<"Not", SP, "Found">>, None, <<>>),
      Answer(<<"OK">>, None, <<>>) }
=============================================================================
