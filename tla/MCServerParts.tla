--------------------------- MODULE MCServerParts ---------------------------
(* ServerParts with                                                         *)
(*   process - one plain schema statement before and after a transaction,   *)
(*     and connections that may stay alive;                                 *)
(*   oauth - callers of two keys that come back while others still chain    *)
(*     on an earlier gate;                                                  *)
(*   index - two processes starting at once, two writers racing them and    *)
(*     each other, two old actors that may already share an email.          *)
EXTENDS ServerParts

SchemaScript == <<"plain", "begin", "work", "commit", "plain">>
=============================================================================
