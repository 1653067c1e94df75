------------------------------- MODULE MCNode -------------------------------
(***************************************************************************)
(* Node with ids that begin alike in all the ways the code tells apart or  *)
(* confuses: "ab" continues "a", "a-b" continues it after a dash, and      *)
(* service "b-w" of "a" has the names of service "w" of "a-b".             *)
(***************************************************************************)
EXTENDS Node

a == <<"a">>
ab == <<"a", "b">>
aDashB == <<"a", "-", "b">>
aDotB == <<"a", ".", "b">>

MCInstance == {a, ab, aDashB, aDotB}
MCCharacter == {"a", "b", "w", "k", "-", "."}
MCPlain == {"a", "b", "w", "k", "-"}
w == <<"w">>
MCPart == [i \in MCInstance |-> IF i = a THEN {<<"b", "-", "w">>} ELSE {w}]
wk == <<"w", "-", "k">>
MCSecret == [i \in MCInstance |-> IF i = a THEN {<<"b", "-">> \o wk} ELSE {wk}]
MCNeeds == [i \in MCInstance |-> IF i = a THEN 2 ELSE 1]
=============================================================================
