--------------------------- MODULE MCRedisClient ---------------------------
(* Small instances of RedisClient for TLC.                                 *)
EXTENDS RedisClient

Req(sync, sel, db) == [sync |-> sync, sel |-> sel, db |-> db]

(* A relayer in smart mode: SELECT and writes are answered in advance.     *)
SmartInputs == {Req(FALSE, TRUE, 1), Req(FALSE, FALSE, 0), Req(TRUE, FALSE, 0),
                Req(TRUE, FALSE, 1)}

(* A relayer in synchronized mode.                                         *)
SyncInputs == {Req(TRUE, TRUE, 1), Req(TRUE, FALSE, 0), Req(TRUE, FALSE, 1)}

AllInputs == SmartInputs \cup SyncInputs
=============================================================================
