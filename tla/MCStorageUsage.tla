--------------------------- MODULE MCStorageUsage ---------------------------
(***************************************************************************)
(* StorageUsage with three ids of MCNode.  "a" has no volume of its own:   *)
(* its name leads the checker to the volumes of the others.                *)
(***************************************************************************)
EXTENDS StorageUsage

a == <<"a">>
ab == <<"a", "b">>
aDashB == <<"a", "-", "b">>

MCInstance == {a, ab, aDashB}
MCCharacter == {"a", "b", "w", "k", "-", "."}
MCPlain == {"a", "b", "w", "k", "-"}
w == <<"w">>
MCPart == [i \in MCInstance |-> IF i = a THEN {<<"b", "-", "w">>} ELSE {w}]
MCVolume == [i \in MCInstance |-> IF i = a THEN {} ELSE {w}]
MCNone == [i \in MCInstance |-> {}]
MCNeeds == [i \in MCInstance |-> 1]
=============================================================================
