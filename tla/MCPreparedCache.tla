-------------------------- MODULE MCPreparedCache --------------------------
(***************************************************************************)
(* Small instances of PreparedCache for TLC: /, /a and /a/b exist, /c does *)
(* not.                                                                    *)
(***************************************************************************)
EXTENDS PreparedCache, TLC

MCDirs == {<< >>, <<"a">>, <<"a", "b">>}
TwoStarts == {<< >>, <<"c">>}
OneStart == {<< >>}

Down(name) == [rooted |-> FALSE, up |-> FALSE, names |-> <<name>>]
Up == [rooted |-> FALSE, up |-> TRUE, names |-> << >>]
FewTargets == {Down("a"), Up}

ClientSymmetry == Permutations(Clients)
=============================================================================
