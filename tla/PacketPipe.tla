------------------------------ MODULE PacketPipe ------------------------------
(***************************************************************************)
(* What an engine.io socket promises about the packets it accepts: they    *)
(* leave in consecutive runs, cut off in the order of acceptance, each     *)
(* packet once.  A run is carried for a while before it is handed to the   *)
(* transport, and one run may overtake another there.  Closing the socket  *)
(* loses what waits at that moment and nothing else.                       *)
(*                                                                         *)
(* Packets are numbered in the order of acceptance.                        *)
(***************************************************************************)
EXTENDS Integers, Sequences

VARIABLES
  accepted,  \* number of packets accepted
  cut,       \* the packets 1 .. cut do not wait any more
  carried,   \* runs on their way to the transport
  out,       \* runs handed to the transport, in order
  closed     \* was the socket closed?

vars == <<accepted, cut, carried, out, closed>>

\* The packets i, ..., j in order.
Run(i, j) == [k \in 1 .. (j - i + 1) |-> i + k - 1]

Init ==
  /\ accepted = 0 /\ cut = 0
  /\ carried = {} /\ out = <<>>
  /\ closed = FALSE

\* Packets are accepted after the close as well: send_packet looks at the
\* state of the socket before it takes the lock for the push.
Accept ==
  /\ accepted' = accepted + 1
  /\ UNCHANGED <<cut, carried, out, closed>>

CutOff ==
  /\ \E n \in (cut + 1) .. accepted :
       /\ carried' = carried \cup {Run(cut + 1, n)}
       /\ cut' = n
  /\ UNCHANGED <<accepted, out, closed>>

HandOver ==
  /\ \E run \in carried :
       /\ out' = Append(out, run)
       /\ carried' = carried \ {run}
  /\ UNCHANGED <<accepted, cut, closed>>

\* A flush that finds the buffer emptied by another hands over an empty run.
HandOverNothing ==
  /\ out' = Append(out, <<>>)
  /\ UNCHANGED <<accepted, cut, carried, closed>>

Close ==
  /\ ~closed
  /\ closed' = TRUE
  /\ cut' = accepted
  /\ UNCHANGED <<accepted, carried, out>>

Next == Accept \/ CutOff \/ HandOver \/ HandOverNothing \/ Close

Spec == Init /\ [][Next]_vars

=============================================================================
