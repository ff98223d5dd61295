---------------------------- MODULE MCUtilities ----------------------------
(***************************************************************************)
(* The library's sequential helpers, which share nothing: each behaviour   *)
(* uses one of them, and TLC explores them one beside the other.           *)
(***************************************************************************)
EXTENDS SortedArray, UrlCoding, CommandLine, JsonText

VARIABLE part  \* the helper in use

OneDecimal == <<"1", ".", "2", "1">> :> <<"1", ".", "2">>
Letters == {<<"a">>, <<"]", ",">>}
Tokens  == {<<"t", "r", "u", "e">>, <<"1">>, <<"-", "1">>, <<"n", "a", "n">>} \cup DOMAIN OneDecimal
Keyword == {<<"k">>}

Option(type, default, required) ==
    [type |-> type, default |-> default, required |-> required]

\* A command with one parameter and optional options, and one with any number
\* of them and a required option.
Declared ==
    "run"  :> [options |-> "n" :> Option("int", 3, FALSE)
                        @@ "s" :> Option("string", <<>>, FALSE)
                        @@ "v" :> Option("bool", FALSE, FALSE),
               params |-> <<"string">>, rest |-> NoRest] @@
    "list" :> [options |-> "r" :> Option("string", <<>>, TRUE)
                        @@ "f" :> Option("float", 2, FALSE)
                        @@ "v" :> Option("bool", TRUE, FALSE),
               params |-> <<>>, rest |-> "int"]

Typed ==
    {<<"--", "n">>, <<"--", "s", "=", "w">>, <<"-", "s">>, <<"-", "v">>,
     <<"--", "v", "=", "no">>, <<"--", "help">>, <<"-", "r", "7">>,
     <<"-", "f", "=", "7">>, <<"-", "f", "w">>, <<"-">>, <<"w">>, <<"7">>}

Symmetry == Permutations(Holders)

Seven == <<"7">> :> 7

Init ==
    /\ SortedInit /\ UrlInit /\ CmdInit /\ JsonInit
    /\ part \in {"sorted array", "url", "command line", "json"}
    /\ part # "url" => ~signedChar
    /\ part # "json" => careful

Next ==
    \/ /\ part = "sorted array" /\ SortedNext
       /\ UNCHANGED <<urlVars, cmdVars, jsonVars, part>>
    \/ /\ part = "url" /\ UrlNext
       /\ UNCHANGED <<sortedVars, cmdVars, jsonVars, part>>
    \/ /\ part = "command line" /\ CmdNext
       /\ UNCHANGED <<sortedVars, urlVars, jsonVars, part>>
    \/ /\ part = "json" /\ JsonNext
       /\ UNCHANGED <<sortedVars, urlVars, cmdVars, part>>

Spec == Init /\ [][Next]_<<sortedVars, urlVars, cmdVars, jsonVars, part>>
=============================================================================
