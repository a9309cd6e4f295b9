----------------------------- MODULE MCConnection -----------------------------
(***************************************************************************)
(* A connection under a fair executor: the Socket of EngineSocket, or its  *)
(* websocket transport of WsTransport, one of them in a behaviour.         *)
(***************************************************************************)
EXTENDS EngineSocket, WsTransport

VARIABLE part

mcVars == <<part, vars, wsVars>>

\* The step A of the part that runs.
SocketStep(A) == part = "socket" /\ A /\ UNCHANGED <<part, wsVars>>
WebsocketStep(A) == part = "websocket" /\ A /\ UNCHANGED <<part, vars>>

MCInit == part \in {"socket", "websocket"} /\ Init /\ WsInit

MCNext == SocketStep(Next) \/ WebsocketStep(WsNext)

\* Fairness and WsFairness, each for the behaviours of its part.
MCFairness ==
  /\ \A t \in Tasks : WF_mcVars(SocketStep(TaskStep(t)))
  /\ WF_mcVars(SocketStep(HandshakeStep)) /\ WF_mcVars(SocketStep(SubscriberStep))
  /\ WF_mcVars(SocketStep(TrySubscribe)) /\ WF_mcVars(SocketStep(EventLoop))
  /\ \A s \in Sides : WF_mcVars(WebsocketStep(Abort(s)))
  /\ WF_mcVars(WebsocketStep(ReaderClose)) /\ WF_mcVars(WebsocketStep(Writer))

MCSpec == MCInit /\ [][MCNext]_mcVars /\ MCFairness

=============================================================================
