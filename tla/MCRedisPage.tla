----------------------------- MODULE MCRedisPage -----------------------------
(***************************************************************************)
(* RedisPage for TLC: two databases, a key that holds more than a read     *)
(* returns, and one that is created with a lifetime.                       *)
(***************************************************************************)
EXTENDS RedisPage, TLC

MCShared == {<<0, "k1">>}
MCForeign == {Value("string", "b", FALSE, Forever)}
MCInitial == {[p \in Dbs \X Names |->
                 IF p = <<0, "k1">> THEN Value("hash", "a", TRUE, Forever) ELSE Absent]}
MCNewKeys == {<<"k2", [type |-> "string", shown |-> "b", ttl |-> "set"]>>}
=============================================================================
