------------------------------- MODULE MCPanels -------------------------------
(* A small instance of Panels for TLC.                                        *)
EXTENDS Panels, TLC

OneProvider == <<"local">>
TwoModels == {<<"small">>, <<"large", "free">>}
CharactersAndModels == {Act("chars"), For("prov", "chat")}
UserSymmetry == Permutations(User)
=============================================================================
