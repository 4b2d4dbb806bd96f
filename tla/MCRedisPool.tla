---------------------------- MODULE MCRedisPool ----------------------------
(* Small instances of RedisPool for TLC.                                   *)
EXTENDS RedisPool

Conf(max, min, url) == [maxIdle |-> max, minIdle |-> min, url |-> url]

Large == Conf(2, 1, "a")
SizesAndURLs == {Conf(0, 1, "a"), Large, Conf(1, 1, "b")}
=============================================================================
