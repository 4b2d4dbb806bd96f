------------------------- MODULE MCClusterHandler --------------------------
(* Small instances of ClusterHandler for TLC.                              *)
EXTENDS ClusterHandler

Cmd(async, form) == [async |-> async, form |-> form]

(* A SET, a GET, both as a single string too, and a refused command.       *)
SmartCommands == {Cmd(TRUE, "array"), Cmd(FALSE, "array"), Cmd(TRUE, "string"),
                  Cmd(FALSE, "string"), Cmd(FALSE, "refused")}
=============================================================================
