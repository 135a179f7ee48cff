---------------------------- MODULE MCCrudTarget ----------------------------
(***************************************************************************)
(* Targets below the location "/l", with directories named "x" and, like   *)
(* an id, "0"; ids of one and of two digits, with a sign, with leading     *)
(* zeros and with letters after them; "12" is more than an int can hold.   *)
(***************************************************************************)
EXTENDS CrudTarget, TLC

CONSTANTS a, b

x == <<"x">>
zero == <<"0">>
one == <<"1">>
zero_one == <<"0", "1">>
Slash(s) == <<"/">> \o s
At(d, i) == <<"/", "l">> \o Slash(d) \o Slash(i)

Canonical ==
  {At(x, one), At(x, <<"1", "1">>), At(x, <<"-", "1">>), At(zero, one), At(<<"l", "/", "x">>, one)}
Padded == {At(x, zero_one), At(x, <<"0", "0", "1">>)}
Others ==
  {<<"/", "l">>, <<"/", "l", "/">>, <<"/", "l", "/", "x">>, <<"/", "l", "/", "1">>,
   At(x, <<"1", "2">>), At(x, <<"1", "x">>), At(x, x), At(<<>>, one)}

MCTarget == Canonical \cup Padded \cup Others
MCPutTarget == Canonical \cup {At(x, <<"1", "2">>), At(x, x), At(<<>>, one)}
MCPutPadded == Canonical \cup Padded

MCFound == {{}, {<<x, one>>}, {<<x, one>>, <<x, zero_one>>}, {<<x, <<"1", "2">>>>}}
MCForeign == {{}, {<<x, x>>}}

(* The run of the handlers has what the theorems ask for, and each of the other *)
(* two lacks one of the two.                                                     *)
ASSUME
  /\ CanonicalTargets(MCPutTarget) /\ NumberedNames(MCFound)
  /\ ~CanonicalTargets(MCPutPadded) /\ ~NumberedNames(MCForeign)

Symmetry == Permutations(Content)
=============================================================================
