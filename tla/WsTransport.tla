------------------------------ MODULE WsTransport ------------------------------
(***************************************************************************)
(* The websocket transport of engine_io_warp/src/websocket.rs: a task that *)
(* reads the websocket, a task that writes the batches the Socket sends,   *)
(* and, for each of the two, a task that waits on the shared Notify to     *)
(* abort it when the transport is dropped.                                 *)
(*                                                                         *)
(* A packet of the k-th command is the pair <<k, i>>.  Tasks may be        *)
(* aborted at their awaits only, so a step goes from one await to the next.*)
(***************************************************************************)
EXTENDS Integers, Sequences, SequencesExt

CONSTANTS
  BatchSizes,    \* numbers of packets a flush may hand over: 0 if two raced
  CmdCap,        \* capacity of the broadcast channel of TransportCmds
  MaxCmds,       \* bound: number of commands
  MaxMessages    \* bound: number of websocket messages from the client

ASSUME WsAssumption ==
  /\ BatchSizes \subseteq Nat
  /\ CmdCap \in Nat \ {0} /\ MaxCmds \in Nat /\ MaxMessages \in Nat

Sides == {"reader", "writer"}

\* Stands after the packets of a command for the close of the sink.
CloseSink == <<0, 0>>

VARIABLES
  ws_transport, \* does the Socket still hold the transport?
  permits,      \* wake-ups the Notify has not handed out
  waiter,       \* for each side the task at drop_notify.notified()
  inner,        \* for each side the task under Abortable
  commands,     \* commands the writer has not received
  overrun,      \* has the broadcast channel overwritten one of them?
  sent,         \* number of commands broadcast so far
  handed,       \* the packets of all of them, in order
  current,      \* packets of the command being written
  sink,         \* the sending half of the websocket
  wire,         \* packets written to the websocket, in order
  client,       \* the other end of the websocket
  messages,     \* number of websocket messages read
  reports       \* TransportEvents the reader sent

wsVars == <<ws_transport, permits, waiter, inner, commands, overrun, sent,
            handed, current, sink, wire, client, messages, reports>>

readerVars == <<client, messages, reports>>
writerVars == <<commands, overrun, sent, handed, current, sink, wire>>
dropVars   == <<ws_transport, permits, waiter>>

\* WarpWebsocketTransport::new (25-51) has spawned the tasks.
WsInit ==
  /\ ws_transport = "alive" /\ permits = 0
  /\ waiter = [s \in Sides |-> "waiting"]
  /\ inner = [s \in Sides |-> "running"]
  /\ commands = <<>> /\ overrun = FALSE /\ sent = 0 /\ handed = <<>>
  /\ current = <<>> /\ sink = "open" /\ wire = <<>>
  /\ client = "connected" /\ messages = 0 /\ reports = <<>>

-----------------------------------------------------------------------------
(* The Socket: commands and the drop of the transport *)

\* Faulty SendCommand: drops the oldest command without telling the receiver.
SendCommandSilently ==
  /\ sent < MaxCmds
  /\ \E n \in BatchSizes :
       LET packets == [i \in 1..n |-> <<sent + 1, i>>] IN
       /\ handed' = handed \o packets
       /\ commands' = Append(IF Len(commands) < CmdCap THEN commands ELSE Tail(commands), packets)
  /\ sent' = sent + 1
  /\ UNCHANGED <<overrun, current, sink, wire, inner, readerVars, dropVars>>

\* TransportCmd::Send (socket.rs:336-338).  A full broadcast channel overwrites
\* its oldest command, a channel whose receiver is gone loses the new one.
SendCommand ==
  /\ sent < MaxCmds
  /\ \E n \in BatchSizes :
       LET packets == [i \in 1..n |-> <<sent + 1, i>>] IN
       /\ handed' = handed \o packets
       /\ commands' = IF inner["writer"] # "running" THEN <<>>
                     ELSE Append(IF Len(commands) < CmdCap THEN commands ELSE Tail(commands),
                                 packets)
  /\ overrun' = (overrun \/ (inner["writer"] = "running" /\ Len(commands) = CmdCap))
  /\ sent' = sent + 1
  /\ UNCHANGED <<current, sink, wire, inner, readerVars, dropVars>>

\* Drop (63-67) notifies once: one waiting task is woken, or the next to wait.
Drop ==
  /\ ws_transport = "alive"
  /\ ws_transport' = "dropped"
  /\ permits' = 1
  /\ UNCHANGED <<waiter, inner, readerVars, writerVars>>

\* A waiting task is woken and aborts the task of its side (119-120, 150-151).
\* The abort drops what that task held, its receiver included.
Abort(s) ==
  /\ waiter[s] = "waiting" /\ permits > 0
  /\ permits' = permits - 1
  /\ waiter' = [waiter EXCEPT ![s] = "done"]
  /\ inner' = [inner EXCEPT ![s] = IF @ = "running" THEN "aborted" ELSE @]
  /\ IF s = "writer" THEN commands' = <<>> /\ current' = <<>>
                     ELSE UNCHANGED <<commands, current>>
  /\ UNCHANGED <<ws_transport, overrun, sent, handed, sink, wire, readerVars>>

-----------------------------------------------------------------------------
(* The writer: subscribe_to_socket_commands (123-152), send_packets (154-177) *)

\* recv() fails after an overwritten command, and the loop ends (132).
WriterLagged ==
  /\ inner["writer"] = "running" /\ current = <<>> /\ overrun
  /\ inner' = [inner EXCEPT !["writer"] = "ended"]
  /\ commands' = <<>>
  /\ UNCHANGED <<overrun, sent, handed, current, sink, wire, readerVars, dropVars>>

\* send_packets forwards the packets, followed by the close of the sink that
\* ends StreamExt::forward.
WriterRecv ==
  /\ inner["writer"] = "running" /\ current = <<>> /\ ~overrun /\ commands # <<>>
  /\ current' = Append(Head(commands), CloseSink)
  /\ commands' = Tail(commands)
  /\ UNCHANGED <<overrun, sent, handed, sink, wire, inner, readerVars, dropVars>>

\* One packet, or the close, goes to the sink; a closed sink or a client that
\* is gone is an error that ends the forward and is only printed (135-143).
WriterWrite ==
  /\ inner["writer"] = "running" /\ current # <<>>
  /\ IF sink = "open" /\ client = "connected"
       THEN /\ current' = Tail(current)
            /\ IF Head(current) = CloseSink
                 THEN sink' = "closed" /\ UNCHANGED wire
                 ELSE wire' = Append(wire, Head(current)) /\ UNCHANGED sink
       ELSE current' = <<>> /\ UNCHANGED <<sink, wire>>
  /\ UNCHANGED <<commands, overrun, sent, handed, inner, readerVars, dropVars>>

-----------------------------------------------------------------------------
(* The reader: subscribe_to_websocket_messages (69-121) *)

\* A message is a packet, one that does not decode, or a ping or pong frame.
ReaderMessage ==
  /\ inner["reader"] = "running" /\ client = "connected" /\ messages < MaxMessages
  /\ messages' = messages + 1
  /\ \E m \in {"packet", "undecodable", "control"} :
       reports' = IF m = "packet" THEN Append(reports, "packet") ELSE reports
  /\ UNCHANGED <<client, inner, writerVars, dropVars>>

\* Faulty ReaderClose: leaves the loop without the Close event.
ReaderCloseSilently ==
  /\ inner["reader"] = "running" /\ client = "gone"
  /\ inner' = [inner EXCEPT !["reader"] = "ended"]
  /\ UNCHANGED <<client, messages, reports, writerVars, dropVars>>

\* Faulty ReaderClose: goes on reading after the Close event.
ReaderCloseAgain ==
  /\ inner["reader"] = "running" /\ client = "gone" /\ Len(reports) < MaxMessages + 2
  /\ reports' = Append(reports, "close")
  /\ UNCHANGED <<client, messages, inner, writerVars, dropVars>>

\* A close message, an error or the end of the stream leaves the loop, which
\* sends the Close event (86-87, 107-115).
ReaderClose ==
  /\ inner["reader"] = "running" /\ client = "gone"
  /\ reports' = Append(reports, "close")
  /\ inner' = [inner EXCEPT !["reader"] = "ended"]
  /\ UNCHANGED <<client, messages, writerVars, dropVars>>

\* The client leaves, be it in answer to the close of the sink.
ClientGone ==
  /\ client = "connected"
  /\ client' = "gone"
  /\ UNCHANGED <<messages, reports, inner, writerVars, dropVars>>

-----------------------------------------------------------------------------

Reader == ReaderMessage \/ ReaderClose
Writer == WriterLagged \/ WriterRecv \/ WriterWrite

WsNext == SendCommand \/ Drop \/ (\E s \in Sides : Abort(s)) \/ Reader \/ Writer \/ ClientGone

\* The executor runs every task that can run.  Nobody has to send, to drop the
\* transport or to leave.
WsFairness ==
  /\ \A s \in Sides : WF_wsVars(Abort(s))
  /\ WF_wsVars(ReaderClose) /\ WF_wsVars(Writer)

WsSpec == WsInit /\ [][WsNext]_wsVars /\ WsFairness

-----------------------------------------------------------------------------
(* Properties *)

\* The client gets the packets in the order of the commands, from the first on
\* and without a gap, even if commands are overwritten in the channel, the
\* writer is aborted within a batch or the sink fails (websocket.rs:132-176).
WireIsPrefix == IsPrefix(wire, handed)

\* Close is reported at most once and is the last event (websocket.rs:78-115).
CloseIsLast == \A i \in DOMAIN reports : reports[i] = "close" => i = Len(reports)

\* A client that leaves is reported, unless the reader was aborted first
\* (websocket.rs:114-115).
CloseIsReported ==
  client = "gone" ~> (inner["reader"] = "aborted" \/ "close" \in Range(reports))

\* transport.rs:142: "Dropping a transport means closing it and killing its sub
\* tasks".
DropStopsTasks == ws_transport = "dropped" ~> \A s \in Sides : inner[s] # "running"

=============================================================================
