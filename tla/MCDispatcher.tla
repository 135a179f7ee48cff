---------------------------- MODULE MCDispatcher ----------------------------
(* Configurations of up to two locations, and all targets of up to four       *)
(* characters.                                                                *)
EXTENDS Dispatcher

Root(v) == [two |-> TRUE, root |-> TRUE, value |-> v]
Other == [two |-> TRUE, root |-> FALSE, value |-> <<"a">>]
Short == [two |-> FALSE, root |-> TRUE, value |-> <<>>]

Location(p, t, b) == [location |-> TRUE, three |-> TRUE, path |-> p, type |-> t, block |-> b]

Dotted == <<Root(<<".", "/">>)>>

Kinds ==
  {<<"StaticHandler", Dotted>>, <<"StaticHandler", <<Root(<<"b">>), Other>>>>,
   <<"StaticHandler", <<Other>>>>, <<"MemeHandler", <<Short>>>>, <<"CrudHandler", <<>>>>,
   <<"EchoHandler", <<>>>>, <<"EchoHandler", Null>>, <<"Unknown", <<>>>>}

OnlyKinds ==
  {<<"CrudHandler", Dotted>>, <<"MemeHandler", Dotted>>, <<"HealthHandler", <<>>>>,
   <<"BlockHandler", <<>>>>, <<"FileNotFoundHandler", <<>>>>}

Paths == {<<"/">>, <<"/", "a">>, <<"/", "a", "/", "/">>, <<"/", "a", "/", "b">>}

Locations == {Location(p, k[1], k[2]) : p \in Paths, k \in Kinds}

Loose ==
  {[Location(<<"/">>, "EchoHandler", <<>>) EXCEPT !.location = FALSE],
   [Location(<<"/", "a">>, "EchoHandler", <<>>) EXCEPT !.three = FALSE]}

Statements ==
  {<<>>} \cup {<<s>> : s \in Locations \cup Loose}
  \cup {<<Location(<<"/", "a">>, k[1], k[2])>> : k \in OnlyKinds}
  \cup {<<s, t>> : s \in Locations, t \in Locations \cup Loose}

Configs ==
  {[parses |-> TRUE, port |-> 80, statements |-> s] : s \in Statements}
  \cup {[parses |-> p, port |-> -1, statements |-> <<Location(<<"/">>, "EchoHandler", <<>>)>>] : p \in BOOLEAN}

Letter == {"/", "a", "b"}
Urls == {<<"/">> \o s : s \in UNION {[1..n -> Letter] : n \in 0..3}} \cup {<<"a">>}

Files == {<<"b", "/">>, <<"b", "/", "a">>, <<".", "/", "a">>, <<".", "b">>}

Clash ==
  {[parses |-> TRUE, port |-> 80,
    statements |-> <<Location(<<"/", "a">>, k[1], k[2]), Location(<<"/", "a", "/">>, l[1], l[2])>>] :
      k \in Kinds, l \in Kinds}

Single ==
  {[parses |-> TRUE, port |-> 80, statements |-> <<Location(<<"/", "a">>, k[1], k[2])>>] :
      k \in Kinds \cup OnlyKinds}
=============================================================================
