---------------------------- MODULE ConfigParser ----------------------------
(***************************************************************************)
(* NginxConfigParser, which turns the text of a configuration file into    *)
(* nested blocks of statements, and NginxConfig's ToString and             *)
(* get_port_num (src/src/config_parser.cc).                                *)
(*                                                                         *)
(* A step reads one character of a token, or gives a token to Parse.  The  *)
(* tree of blocks is kept as the sequence of all statements in the order   *)
(* in which they were added, each with the block it is in: a block is the  *)
(* number of the statement it belongs to, and 0 is the outermost one.      *)
(* After a text was accepted, ToString writes the configuration and the    *)
(* parser reads that.                                                      *)
(***************************************************************************)
EXTENDS Integers, FiniteSetsExt, SequencesExt

CONSTANTS Text   \* the texts that are parsed

(* "a", "p", "8" and "9" stand for all other characters; "p" is the word      *)
(* port, and a text that begins with "8" or "9" is a number, too large for a  *)
(* port in the second case.                                                   *)
Char == {"{", "}", "#", "\"", "'", ";", " ", "\n", "\r", "\\", "a", "p", "8", "9"}

ASSUME TextAssumption == Text \subseteq Seq(Char)

VARIABLES
  text, at,    \* the input and the position of its next character
  state,       \* ParseToken's state
  value,       \* the token it is reading
  token_type,  \* the type of a token that Parse has not looked at, or "none"
  last_token_type,
  statements,  \* all statements
  config_stack,
  outcome,     \* what Parse returned
  first,       \* the configuration read from the text, while ToString's is read
  tokens,      \* history: the values of the tokens, without comments,
  types        \* history: and their types

input == <<text, at>>
token == <<state, value, token_type>>
config == <<last_token_type, statements, config_stack>>
history == <<tokens, types>>
vars == <<input, token, config, outcome, first, history>>

TokenType == {"normal", "{", "}", ";", "comment", "eof", "error"}
Space == {" ", "\n"}           \* and the tabulator
Stop == Space \cup {";", "{", "}"}
Quote == {"\"", "'"}

-----------------------------------------------------------------------------
(* ParseToken. *)

Reading(s) == outcome = "parsing" /\ token_type = "none" /\ state = s
More == at <= Len(text)
c == text[at]
peek == IF at < Len(text) THEN text[at + 1] ELSE "EOF"

Keep == UNCHANGED <<text, config, outcome, first, history>>

(* The token goes on after n characters more, ... *)
Continue(s, n) ==
  /\ at' = at + n
  /\ state' = s
  /\ UNCHANGED token_type
  /\ Keep

(* ... or ends. *)
Return(type, n) ==
  /\ at' = at + n
  /\ token_type' = type
  /\ state' = "initial"
  /\ Keep

skip_whitespace ==
  /\ Reading("initial") /\ More /\ c \in Space \cup {"\r"}
  /\ Continue("initial", 1) /\ UNCHANGED value

single_character ==
  /\ Reading("initial") /\ More /\ c \in {"{", "}", ";"}
  /\ value' = <<c>> /\ Return(c, 1)

begin_token ==
  /\ Reading("initial") /\ More /\ c \notin Stop \cup {"\r"}
  /\ value' = <<c>>
  /\ Continue(IF c \in Quote \cup {"#"} THEN c ELSE "normal", 1)

(* Mutant: the character after a word is not put back. *)
word_taken ==
  /\ Reading("normal") /\ More
  /\ \/ c \in Stop /\ Return("normal", 1) /\ UNCHANGED value
     \/ c \notin Stop /\ value' = Append(value, c) /\ Continue("normal", 1)

(* The character after a word is put back. *)
word ==
  /\ Reading("normal") /\ More
  /\ \/ c \in Stop /\ Return("normal", 0) /\ UNCHANGED value
     \/ c \notin Stop /\ value' = Append(value, c) /\ Continue("normal", 1)

(* A quoted token ends at its quote, unless there is a backslash before it,   *)
(* and what follows must be able to follow a word.                            *)
quoted(q) ==
  /\ Reading(q) /\ More
  /\ \/ c = "\\" /\ peek = q /\ value' = value \o <<c, q>> /\ Continue(q, 2)
     \/ c # q /\ ~(c = "\\" /\ peek = q) /\ value' = Append(value, c) /\ Continue(q, 1)
     \/ c = q /\ value' = Append(value, c) /\ Return(IF peek \in Stop THEN "normal" ELSE "error", 1)

comment ==
  /\ Reading("#") /\ More
  /\ \/ c \in {"\n", "\r"} /\ Return("comment", 1) /\ UNCHANGED value
     \/ c \notin {"\n", "\r"} /\ value' = Append(value, c) /\ Continue("#", 1)

(* At the end of the file a word or a comment that has begun is forgotten. *)
end_of_file ==
  /\ outcome = "parsing" /\ token_type = "none" /\ ~More
  /\ Return(IF state \in Quote THEN "error" ELSE "eof", 0)
  /\ value' = <<>>

-----------------------------------------------------------------------------
(* Parse. *)

Top == Last(config_stack)

(* Mutant: a block may end in a word. *)
allowed_end_of_word(type) ==
  CASE type = "normal" -> last_token_type \in {"start", ";", "{", "}", "normal"}
    [] type \in {";", "{"} -> last_token_type = "normal"
    [] type = "}" -> last_token_type \in {";", "{", "}", "normal"} /\ Len(config_stack) > 1
    [] type = "eof" -> last_token_type \in {";", "}", "start"}
    [] OTHER -> FALSE

(* The token may come after the last one. *)
allowed(type) ==
  CASE type = "normal" -> last_token_type \in {"start", ";", "{", "}", "normal"}
    [] type \in {";", "{"} -> last_token_type = "normal"
    [] type = "}" -> last_token_type \in {";", "{", "}"} /\ Len(config_stack) > 1
    [] type = "eof" -> last_token_type \in {";", "}", "start"}
    [] OTHER -> FALSE

(* statements_.back() of the innermost block is the last statement of all:    *)
(* it was added, or got its last word, one token ago.                         *)
Current == Len(statements)

Store(type) ==
  \/ /\ type = "normal" /\ last_token_type # "normal"
     /\ statements' = Append(statements, [parent |-> Top, words |-> <<value>>, block |-> FALSE])
     /\ UNCHANGED config_stack
  \/ /\ type = "normal" /\ last_token_type = "normal"
     /\ statements' = [statements EXCEPT ![Current].words = Append(@, value)]
     /\ UNCHANGED config_stack
  \/ /\ type = "{"
     /\ statements' = [statements EXCEPT ![Current].block = TRUE]
     /\ config_stack' = Append(config_stack, Current)
  \/ type = "}" /\ config_stack' = Front(config_stack) /\ UNCHANGED statements
  \/ type = ";" /\ UNCHANGED <<statements, config_stack>>

Consume == token_type' = "none" /\ value' = <<>> /\ UNCHANGED <<input, state, first>>

Parse_comment ==
  /\ token_type = "comment"
  /\ Consume /\ UNCHANGED <<config, outcome, history>>

Parse_token ==
  /\ token_type \notin {"none", "comment", "eof"} /\ allowed(token_type)
  /\ Store(token_type)
  /\ last_token_type' = token_type
  /\ tokens' = Append(tokens, value) /\ types' = Append(types, token_type)
  /\ Consume /\ UNCHANGED outcome

Parse_returns ==
  /\ \/ /\ token_type = "eof"
        /\ outcome' = IF allowed("eof") THEN "accepted" ELSE "rejected"
        /\ UNCHANGED history
     \/ /\ token_type \notin {"none", "comment", "eof"} /\ ~allowed(token_type)
        /\ outcome' = "rejected"
        /\ tokens' = Append(tokens, value) /\ types' = Append(types, token_type)
  /\ Consume /\ UNCHANGED config

-----------------------------------------------------------------------------
(* NginxConfig. *)

Children(s, b) == SetToSortSeq({i \in DOMAIN s : s[i].parent = b}, <)

Indent(d) == [i \in 1..2 * d |-> " "]

(* Mutant: the words are written without spaces. *)
Words_together(w) == FlattenSeq(w)

Words(w) == FlattenSeq([i \in DOMAIN w |-> IF i = 1 THEN w[i] ELSE <<" ">> \o w[i]])

NginxConfig_ToString(s) ==
  LET block[b \in 0..Len(s), d \in 0..Len(s)] ==
        LET children == Children(s, b)
            statement(i) ==
              Indent(d) \o Words(s[i].words)
              \o (IF s[i].block THEN <<" ", "{", "\n">> \o block[i, d + 1] \o Indent(d) \o <<"}">>
                  ELSE <<";">>)
              \o <<"\n">>
        IN  FlattenSeq([k \in DOMAIN children |-> statement(children[k])])
  IN  block[0, 0]

IsPort(s, i) == ~s[i].block /\ Len(s[i].words) = 2 /\ s[i].words[1] = <<"p">>

(* A text that does not begin with a digit is 0. *)
atoi(w) == CASE w[1] = "8" -> 80 [] w[1] = "9" -> 70000 [] OTHER -> 0

port_of(w) == IF atoi(w) \in 0..65535 THEN atoi(w) ELSE -1

numPorts(s) ==
  LET count[b \in 0..Len(s)] ==
        MapThenSumSet(LAMBDA i : IF s[i].block THEN count[i] ELSE IF IsPort(s, i) THEN 1 ELSE 0,
                      {i \in DOMAIN s : s[i].parent = b})
  IN  count

(* Mutant: the first port counts, and there may be others. *)
ambiguous_never(s, b) == FALSE

ambiguous(s, b) == numPorts(s)[b] > 1

(* First the statements of the block itself, then its blocks one by one. *)
get_port_num(s) ==
  LET port[b \in 0..Len(s)] ==
        LET here == {i \in DOMAIN s : s[i].parent = b /\ IsPort(s, i)}
            below == {i \in DOMAIN s : s[i].parent = b /\ s[i].block /\ port[i] # -1}
        IN  IF ambiguous(s, b) THEN -1
            ELSE IF here # {} THEN port_of(s[Min(here)].words[2])
            ELSE IF below # {} THEN port[Min(below)]
            ELSE -1
  IN  port[0]

-----------------------------------------------------------------------------
Start(t) ==
  /\ text = t /\ at = 1
  /\ state = "initial" /\ value = <<>> /\ token_type = "none"
  /\ last_token_type = "start" /\ statements = <<>> /\ config_stack = <<0>>
  /\ outcome = "parsing"
  /\ tokens = <<>> /\ types = <<>>

Nothing == <<>>
Init == (\E t \in Text : Start(t)) /\ first = Nothing

(* What was accepted is written and read again, once. *)
Reparse ==
  /\ outcome = "accepted" /\ first = Nothing
  /\ first' = <<statements>>
  /\ text' = NginxConfig_ToString(statements) /\ at' = 1
  /\ state' = "initial" /\ value' = <<>> /\ token_type' = "none"
  /\ last_token_type' = "start" /\ statements' = <<>> /\ config_stack' = <<0>>
  /\ outcome' = "parsing"
  /\ tokens' = <<>> /\ types' = <<>>

ParseToken ==
  \/ skip_whitespace \/ single_character \/ begin_token \/ word \/ comment \/ end_of_file
  \/ \E q \in Quote : quoted(q)

Parse == outcome = "parsing" /\ (Parse_comment \/ Parse_token \/ Parse_returns)

Next == ParseToken \/ Parse \/ Reparse

Spec == Init /\ [][Next]_vars

-----------------------------------------------------------------------------
(* The stack is a path of the tree that begins at the outermost block. *)
TypeOK ==
  /\ text \in Seq(Char) /\ at \in 1..Len(text) + 1
  /\ state \in {"initial", "normal", "#"} \cup Quote /\ value \in Seq(Char)
  /\ token_type \in TokenType \cup {"none"}
  /\ config_stack # <<>> /\ config_stack[1] = 0
  /\ \A i \in 2..Len(config_stack) :
       LET b == config_stack[i]
       IN  b \in DOMAIN statements /\ statements[b].block /\ statements[b].parent = config_stack[i - 1]

(* The grammar: a block is a sequence of statements, a statement one or more  *)
(* words and a semicolon or a block in braces.  Blocks[n] are those of n      *)
(* tokens.                                                                    *)
MaxTokens == 10   \* bound of the comparison with the grammar
Run(k) == [i \in 1..k |-> "normal"]

Blocks[n \in 0..MaxTokens] ==
  LET Simple(k) == {Append(Run(k - 1), ";") : j \in 1..k - 1}
      Nested(k) == UNION {{Run(j) \o <<"{">> \o b \o <<"}">> : b \in Blocks[k - j - 2]} : j \in 1..k - 2}
  IN  IF n = 0 THEN {<<>>}
      ELSE UNION {{s \o b : s \in Simple(k) \cup Nested(k), b \in Blocks[n - k]} : k \in 1..n}

(* "Returns true iff the input config file is valid", where it holds: Parse    *)
(* reads on only while the tokens can still become a block of the grammar, and *)
(* what it rejects is not one, and cannot become one if there is more to read. *)
(* After six tokens or less, four more are enough to become one.               *)
Valid == UNION {Blocks[n] : n \in 0..MaxTokens}
Beginnings == UNION {Prefixes(t) : t \in Valid}

RejectedIsInvalid ==
  Len(types) <= MaxTokens - 4 =>
    /\ outcome = "parsing" => types \in Beginnings
    /\ outcome = "rejected" => types \notin Valid /\ (More => types \notin Beginnings)

(* No character gets lost between two tokens or is read twice: while a text   *)
(* without quotes and comments is parsed, the tokens are what is visible of   *)
(* the part already read.  Once it is accepted only a last word can be        *)
(* missing.                                                                   *)
Plain(t) == \A i \in DOMAIN t : t[i] \notin Quote \cup {"#", "\r"}
Visible(t) == SelectSeq(t, LAMBDA ch : ch \notin Space)

NothingIsLost ==
  Plain(text) /\ token_type = "none" /\ state = "initial" =>
    /\ outcome = "parsing" => FlattenSeq(tokens) = Visible(SubSeq(text, 1, at - 1))
    /\ outcome = "accepted" =>
         \E n \in 0..Len(text) :
           /\ \A i \in n + 1..Len(text) : text[i] \notin Stop
           /\ FlattenSeq(tokens) = Visible(SubSeq(text, 1, n))

(* What ToString writes is accepted and read as the same configuration,       *)
(* whatever quotes, comments and open braces the first text had.              *)
RoundTrip ==
  first # Nothing /\ outcome # "parsing" => outcome = "accepted" /\ <<statements>> = first

(* There is a port exactly if one port is given in the whole file, at any     *)
(* depth, and it is in range: if every port that is given is a number.        *)
PortIsTheOnlyOne ==
  outcome = "accepted" =>
    LET ports == {i \in DOMAIN statements : IsPort(statements, i)}
        given(n) == \E i \in ports : ports = {i} /\ statements[i].words[2] = n
    IN  (\A i \in ports : statements[i].words[2] \in {<<"8">>, <<"9">>}) =>
          get_port_num(statements) = IF given(<<"8">>) THEN 80 ELSE -1

-----------------------------------------------------------------------------
(* What comments say and the code does not do. *)

(* "Returns true iff the input config file is valid": the braces of what is   *)
(* accepted match, ...                                                         *)
AcceptedIsClosed ==
  outcome = "accepted" /\ first = Nothing /\ Len(types) <= MaxTokens => types \in Valid

(* ... and all its words are in the configuration, also the last one. *)
AcceptedIsWhole ==
  outcome = "accepted" /\ Plain(text) => FlattenSeq(tokens) = Visible(text)

(* "port number not found or invalid, so return -1": a port is a number. *)
PortIsNumber ==
  outcome = "accepted" /\ get_port_num(statements) # -1 =>
    \E i \in DOMAIN statements :
      IsPort(statements, i) /\ statements[i].words[2][1] \in {"8", "9"}
=============================================================================
