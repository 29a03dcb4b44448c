----------------------------- MODULE MCDataIndex -----------------------------
(* Instances of DataIndex for TLC.                                          *)
EXTENDS DataIndex

MCAlphabet == <<"a", "b", "bb">>
MCBeginsWith == {<<"bb", "b">>}
MCLexicon ==
    LET number(kind, int, float) == [kind |-> kind, int |-> int, float |-> float,
                                     printed |-> float, escapes |-> FALSE, body |-> float]
    IN  [t \in {"1", "2", "2.5"} |->
            CASE t = "2.5" -> number("float", "2", t) [] OTHER -> number("int", t, t)]
MCStart == AddValue(Empty("MVR"), <<"a", "b">>, "int", <<<<"1">>>>)

MCCalls ==
    {AddDataCall(p, "string", <<<<"w">>>>) : p \in {<<"b">>, <<"a", "a">>, <<"b", "a">>}}
    \cup {AddTextCall(p, t) : p \in {<<"a", "b">>, <<"bb", "a", "b">>}, t \in {<<"1">>, <<"2.5", "1">>}}
    \cup {AddContainerCall(<<"b">>, <<>>), AddContainerCall(<<"bb", "a">>, <<>>)}
    \cup {SetAttributeCall(p, "x", "y") : p \in {<<"a">>, <<"bb", "a", "b">>}}
    \cup {LinkCall(s, t) : s \in {<<"a">>, <<"a", "b">>, <<"b">>},
                           t \in {<<"a", "b">>, <<"b">>, <<"bb">>, <<"b", "b">>}}
    \cup {OverwriteCall(0), OverwriteCall(1), CopyCall, ThroughXMLCall}
=============================================================================
