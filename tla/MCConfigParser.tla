--------------------------- MODULE MCConfigParser ---------------------------
EXTENDS ConfigParser

UpTo(S, n) == UNION {[1..k -> S] : k \in 0..n}

(* Short texts of all characters, ... *)
Characters == UpTo(Char \ {"p", "8", "9"}, 4)

(* ... texts of words and punctuation, with a space between the words, ... *)
Tokens == {FlattenSeq([i \in DOMAIN t |-> <<t[i], " ">>]) : t \in UpTo({"a", ";", "{", "}"}, 6)}

(* ... and texts with quotes and escapes, ... *)
Piece == {<<"'">>, <<"\"">>, <<"\\">>, <<"a">>, <<"a", ";">>, <<" ">>}
Quoted == {FlattenSeq(t) : t \in UpTo(Piece, 5)}

(* ... and with ports at several depths. *)
Part == {<<"p", " ", "8", ";">>, <<"p", " ", "9", ";">>, <<"p", " ", "a", ";">>,
         <<"a", "{">>, <<"p", " ", "8", "{">>, <<"}">>}
Ports == {FlattenSeq(t) : t \in UpTo(Part, 5)}

Texts == Characters \cup Tokens \cup Quoted \cup Ports
=============================================================================
