---------------------------- MODULE MCEngineServer ----------------------------
(***************************************************************************)
(* The requests TLC makes: two handshakes, or one and a data request; then *)
(* a poll, or a data request with a body that does not decode or that the  *)
(* subscriber panics on.  Requests that are turned away, or panic, before  *)
(* they reach a socket change nothing and are left out.                    *)
(***************************************************************************)
EXTENDS EngineServer

MCIds == <<"s1", "s2">>

MCArrivals == <<"r1", "r2", "r3">>

MCShard == [s \in Sids |-> 1]

Http(upgrade, method, name, s, b) ==
  [upgrade |-> upgrade, method |-> method, headers |-> TRUE,
   transport |-> name, sid |-> s, body |-> b]

MCHttpRequests ==
  [r1 |-> {Http(TRUE, "Get", "websocket", NoSid, <<>>),
           Http(FALSE, "Get", "polling", NoSid, <<>>)},
   r2 |-> {Http(FALSE, "Get", "polling", NoSid, <<>>),
           Http(FALSE, "Post", "polling", "s1", <<"message", "message">>)},
   r3 |-> {Http(FALSE, "Post", "polling", "s1", <<"message", "garbage">>),
           Http(FALSE, "Post", "polling", "s1", <<"ping", "message", "other">>),
           Http(FALSE, "Get", "polling", "s2", <<>>)}]

=============================================================================
