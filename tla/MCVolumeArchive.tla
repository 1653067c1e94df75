--------------------------- MODULE MCVolumeArchive ---------------------------
(* Instances of VolumeArchive for TLC: the database has a volume of its own *)
(* and shares one with the web server.                                      *)
EXTENDS VolumeArchive

MCMounted == [s \in Service |-> {"media"}]

(* The user itself is root inside, host ids from 100 on are mapped to 1, 2. *)
MCIdMap == {[container |-> 0, host |-> 10, count |-> 1],
            [container |-> 1, host |-> 100, count |-> 2]}

File_(kind, owner, size, data) ==
  [kind |-> kind, owner |-> owner, size |-> size, data |-> data]

(* Two of the same length with different owners, one of another length     *)
(* that is not accepted, a link.                                            *)
MCWritten == {File_("file", 10, 1, 1), File_("file", 101, 1, 2),
              File_("file", 10, 2, 1), File_("link", 10, 0, 1)}
=============================================================================
