--------------------------- MODULE WsTransportProofs ---------------------------
(***************************************************************************)
(* Theorems about WsTransport, for every size of the batches and of the    *)
(* channel and any number of commands and messages.                        *)
(***************************************************************************)
EXTENDS WsTransport, TLAPS

-----------------------------------------------------------------------------
(* The wire *)

\* Packets and what the writer forwards: packets and the close of the sink.
Packet  == (Nat \ {0}) \X Nat
Forward == Packet \cup {CloseSink}

TypeInv ==
  /\ inner \in [Sides -> {"running", "ended", "aborted"}]
  /\ commands \in Seq(Seq(Packet)) /\ Len(commands) <= CmdCap /\ sent \in Nat
  /\ handed \in Seq(Packet) /\ current \in Seq(Forward) /\ wire \in Seq(Packet)

\* The first m elements of s are those that follow the first n of t.
Continues(s, m, n, t) ==
  n + m <= Len(t) /\ \A i \in 1..m : s[i] = t[n + i]

\* The writer may still put something on the wire.
Writing == inner["writer"] = "running" /\ sink = "open" /\ client = "connected"

\* A writer that has received no command has written nothing, and the first
\* command it will get, unless that was overwritten, has the first packets.
FirstInv ==
  Writing /\ current = <<>> =>
    /\ Len(wire) = 0
    /\ ~overrun => IF commands = <<>> THEN Len(handed) = 0
                  ELSE Continues(Head(commands), Len(Head(commands)), 0, handed)

\* A writer within a command is left with the packets that follow those it
\* wrote, and with the close of the sink.
CurrentInv ==
  Writing /\ current # <<>> =>
    /\ current[Len(current)] = CloseSink
    /\ Continues(current, Len(current) - 1, Len(wire), handed)

PrefixInv == Continues(wire, Len(wire), 0, handed)

WireInv == FirstInv /\ CurrentInv /\ PrefixInv

\* The close of the sink is not a packet.
LEMMA NotPacket == CloseSink \notin Packet /\ CloseSink \in Forward /\ Packet \subseteq Forward
  BY DEF CloseSink, Packet, Forward

\* There are two sides.
LEMMA SideFacts == "reader" \in Sides /\ "writer" \in Sides /\ "reader" # "writer"
  BY DEF Sides

\* The empty sequence is one of any set.
LEMMA Empty == ASSUME NEW S PROVE <<>> \in Seq(S) /\ Len(<<>>) = 0
  OBVIOUS

\* What Head, Tail, Append and concatenation do to lengths and elements.
LEMMA SeqFacts ==
  ASSUME NEW S, NEW s \in Seq(S)
  PROVE  /\ Len(s) \in Nat
         /\ \A x \in S : /\ Append(s, x) \in Seq(S) /\ Len(Append(s, x)) = Len(s) + 1
                         /\ Append(s, x)[Len(s) + 1] = x
                         /\ \A i \in 1..Len(s) : Append(s, x)[i] = s[i]
         /\ s # <<>> => /\ Head(s) \in S /\ Head(s) = s[1] /\ Tail(s) \in Seq(S)
                        /\ Len(s) > 0 /\ Len(Tail(s)) = Len(s) - 1
                        /\ \A i \in 1..Len(Tail(s)) : Tail(s)[i] = s[i + 1]
         /\ Len(s) = 0 => s = <<>>
         /\ \A r \in Seq(S) : /\ s \o r \in Seq(S) /\ Len(s \o r) = Len(s) + Len(r)
                              /\ \A i \in 1..Len(s) : (s \o r)[i] = s[i]
                              /\ Len(s) = 0 => s \o r = r
  OBVIOUS

\* Extending the longer sequence keeps Continues.
LEMMA ContinuesMore ==
  ASSUME NEW s, NEW m \in Nat, NEW n \in Nat, NEW t \in Seq(Packet), NEW r \in Seq(Packet),
         Continues(s, m, n, t)
  PROVE  Continues(s, m, n, t \o r)
  <1>1. /\ Len(t) \in Nat /\ Len(r) \in Nat /\ Len(t \o r) = Len(t) + Len(r)
        /\ \A i \in 1..Len(t) : (t \o r)[i] = t[i]
    BY SeqFacts
  <1>2. n + m <= Len(t) /\ \A i \in 1..m : s[i] = t[n + i]
    BY DEF Continues
  <1>3. \A i \in 1..m : n + i \in 1..Len(t)
    BY <1>1, <1>2
  <1> QED
    BY <1>1, <1>2, <1>3 DEF Continues

\* Types, a step at a time.
LEMMA TypeNext == TypeInv /\ [WsNext]_wsVars => TypeInv'
  <1> SUFFICES ASSUME TypeInv, [WsNext]_wsVars PROVE TypeInv'
    OBVIOUS
  <1> USE WsAssumption, SideFacts
  <1>0. /\ inner \in [Sides -> {"running", "ended", "aborted"}]
        /\ commands \in Seq(Seq(Packet)) /\ Len(commands) <= CmdCap /\ sent \in Nat
        /\ handed \in Seq(Packet) /\ current \in Seq(Forward) /\ wire \in Seq(Packet)
    BY DEF TypeInv
  <1>1. CASE SendCommand
    <2>1. PICK n \in BatchSizes :
            /\ handed' = handed \o [i \in 1..n |-> <<sent + 1, i>>]
            /\ commands' = IF inner["writer"] # "running" THEN <<>>
                       ELSE Append(IF Len(commands) < CmdCap THEN commands ELSE Tail(commands),
                                   [i \in 1..n |-> <<sent + 1, i>>])
      BY <1>1 DEF SendCommand
    <2> DEFINE packets == [i \in 1..n |-> <<sent + 1, i>>]
    <2>2. packets \in Seq(Packet)
      BY <1>0 DEF Packet
    <2> HIDE DEF packets
    <2>3. handed' \in Seq(Packet)
      BY <1>0, <2>1, <2>2 DEF packets
    <2>4. commands' \in Seq(Seq(Packet)) /\ Len(commands') <= CmdCap
      <3> DEFINE kept == IF Len(commands) < CmdCap THEN commands ELSE Tail(commands)
      <3>1. kept \in Seq(Seq(Packet)) /\ Len(kept) + 1 <= CmdCap
        BY <1>0
      <3> HIDE DEF kept
      <3>2. Append(kept, packets) \in Seq(Seq(Packet)) /\ Len(Append(kept, packets)) = Len(kept) + 1
        BY <2>2, <3>1
      <3>3. commands' = <<>> \/ commands' = Append(kept, packets)
        BY <2>1 DEF kept, packets
      <3>4. CASE commands' = <<>>
        <4>1. commands' \in Seq(Seq(Packet)) /\ Len(commands') = 0
          BY <3>4, Empty
        <4> QED
          BY <4>1
      <3>5. CASE commands' = Append(kept, packets)
        BY <3>1, <3>2, <3>5
      <3> QED
        BY <3>3, <3>4, <3>5
    <2> QED
      BY <1>0, <1>1, <2>3, <2>4 DEF SendCommand, TypeInv
  <1>2. CASE Drop \/ ReaderMessage \/ ClientGone
    BY <1>0, <1>2 DEF Drop, ReaderMessage, ClientGone, writerVars, TypeInv
  <1>3. ASSUME NEW s \in Sides, Abort(s) PROVE TypeInv'
    <2>1. /\ inner' \in [Sides -> {"running", "ended", "aborted"}]
          /\ UNCHANGED <<sent, handed, wire>>
      BY <1>0, <1>3 DEF Abort
    <2>2. CASE s = "writer"
      <3>1. /\ commands' \in Seq(Seq(Packet)) /\ Len(commands') = 0 /\ current' \in Seq(Forward)
        BY <1>3, <2>2, Empty DEF Abort
      <3>2. Len(commands') <= CmdCap
        BY <3>1
      <3> QED
        BY <1>0, <2>1, <3>1, <3>2 DEF TypeInv
    <2>3. CASE s # "writer"
      BY <1>0, <1>3, <2>1, <2>3 DEF Abort, TypeInv
    <2> QED
      BY <2>2, <2>3
  <1>4. CASE WriterLagged
    <2>1. commands' \in Seq(Seq(Packet)) /\ Len(commands') = 0
      BY <1>4, Empty DEF WriterLagged
    <2>2. Len(commands') <= CmdCap
      BY <2>1
    <2> QED
      BY <1>0, <1>4, <2>1, <2>2 DEF WriterLagged, TypeInv
  <1>8. CASE ReaderClose
    BY <1>0, <1>8 DEF ReaderClose, writerVars, TypeInv
  <1>5. CASE WriterRecv
    <2>1. /\ Head(commands) \in Seq(Packet) /\ Tail(commands) \in Seq(Seq(Packet))
          /\ Len(Tail(commands)) <= CmdCap
      BY <1>0, <1>5, SeqFacts DEF WriterRecv
    <2>2. Head(commands) \in Seq(Forward)
      BY <2>1, NotPacket
    <2>3. Append(Head(commands), CloseSink) \in Seq(Forward)
      BY <2>2, NotPacket, SeqFacts
    <2> QED
      BY <1>0, <1>5, <2>1, <2>3 DEF WriterRecv, TypeInv
  <1>6. CASE WriterWrite
    <2>1. Head(current) \in Forward /\ Tail(current) \in Seq(Forward)
      BY <1>0, <1>6, SeqFacts DEF WriterWrite
    <2>2. current' \in Seq(Forward)
      BY <1>6, <2>1, Empty DEF WriterWrite
    <2>3. (Head(current) # CloseSink /\ wire' = Append(wire, Head(current))) \/ wire' = wire
      BY <1>6 DEF WriterWrite
    <2>4. wire' \in Seq(Packet)
      <3>1. CASE wire' = wire
        BY <1>0, <3>1
      <3>2. CASE Head(current) # CloseSink /\ wire' = Append(wire, Head(current))
        <4>1. Head(current) \in Packet
          BY <2>1, <3>2 DEF Forward
        <4> QED
          BY <1>0, <3>2, <4>1, SeqFacts
      <3> QED
        BY <2>3, <3>1, <3>2
    <2> QED
      BY <1>0, <1>6, <2>2, <2>4 DEF WriterWrite, TypeInv
  <1>7. CASE UNCHANGED wsVars
    BY <1>0, <1>7 DEF wsVars, TypeInv
  <1> QED
    BY <1>1, <1>2, <1>3, <1>4, <1>5, <1>6, <1>7, <1>8 DEF WsNext, Reader, Writer

\* A step that changes neither what is on the way nor the wire, and does not
\* revive the writer, keeps WireInv.
LEMMA WireFrame ==
  ASSUME WireInv, UNCHANGED <<commands, overrun, handed, current, wire>>, Writing' => Writing
  PROVE  WireInv'
  <1>1. FirstInv' /\ CurrentInv' /\ PrefixInv'
    BY DEF WireInv, FirstInv, CurrentInv, PrefixInv, Continues
  <1> QED
    BY <1>1 DEF WireInv

\* A writer that has stopped writes no more.
LEMMA WireStop ==
  ASSUME WireInv, UNCHANGED <<handed, wire>>, ~Writing'
  PROVE  WireInv'
  BY DEF WireInv, FirstInv, CurrentInv, PrefixInv, Continues

\* A new command: the first one, if none was handed before.
LEMMA WireSendCmd ==
  ASSUME TypeInv, WireInv, SendCommand
  PROVE  WireInv'
  <1> USE WsAssumption
  <1>0. /\ commands \in Seq(Seq(Packet)) /\ Len(commands) \in Nat /\ handed \in Seq(Packet)
        /\ current \in Seq(Forward) /\ wire \in Seq(Packet)
        /\ Len(wire) \in Nat /\ Len(current) \in Nat /\ Len(commands) <= CmdCap
    BY DEF TypeInv
  <1>1. PICK n \in BatchSizes :
          /\ handed' = handed \o [i \in 1..n |-> <<sent + 1, i>>]
          /\ commands' = IF inner["writer"] # "running" THEN <<>>
                     ELSE Append(IF Len(commands) < CmdCap THEN commands ELSE Tail(commands),
                                 [i \in 1..n |-> <<sent + 1, i>>])
    BY DEF SendCommand
  <1> DEFINE packets == [i \in 1..n |-> <<sent + 1, i>>]
  <1>2. packets \in Seq(Packet)
    BY DEF Packet, TypeInv
  <1>3. /\ handed' = handed \o packets
        /\ inner["writer"] = "running" /\ Len(commands) < CmdCap => commands' = Append(commands, packets)
    BY <1>1
  <1> HIDE DEF packets
  <1>4. /\ UNCHANGED <<current, wire>> /\ (Writing' <=> Writing)
        /\ inner["writer"] = "running" /\ Len(commands) = CmdCap => overrun'
        /\ overrun => overrun'
    BY DEF SendCommand, readerVars, Writing
  <1>5. PrefixInv'
    BY <1>0, <1>2, <1>3, <1>4, ContinuesMore DEF WireInv, PrefixInv
  <1>6. CurrentInv'
    <2> SUFFICES ASSUME Writing, current # <<>> PROVE CurrentInv'
      BY <1>4 DEF CurrentInv
    <2>1. Len(current) - 1 \in Nat
      BY <1>0, SeqFacts
    <2>2. Continues(current, Len(current) - 1, Len(wire), handed')
      BY <1>0, <1>2, <1>3, <2>1, ContinuesMore DEF WireInv, CurrentInv
    <2> QED
      BY <1>4, <2>2 DEF WireInv, CurrentInv
  <1>7. FirstInv'
    <2> SUFFICES ASSUME Writing, current = <<>>, ~overrun'
                 PROVE  /\ commands' # <<>>
                        /\ Continues(Head(commands'), Len(Head(commands')), 0, handed')
      BY <1>4 DEF WireInv, FirstInv
    <2>1. /\ ~overrun /\ Len(commands) < CmdCap /\ commands' = Append(commands, packets)
      BY <1>0, <1>3, <1>4 DEF Writing
    <2>2. commands' # <<>> /\ commands' \in Seq(Seq(Packet))
      BY <1>0, <1>2, <2>1
    <2>3. CASE commands = <<>>
      <3>1. Head(commands') = packets
        BY <1>0, <2>1, <2>3
      <3>2. Len(handed) = 0
        BY <2>1, <2>3 DEF WireInv, FirstInv
      <3>3. handed' = packets
        BY <1>0, <1>2, <1>3, <3>2, SeqFacts
      <3>4. Continues(packets, Len(packets), 0, packets)
        BY <1>2 DEF Continues
      <3> QED
        BY <2>2, <3>1, <3>3, <3>4
    <2>4. CASE commands # <<>>
      <3>1. Head(commands') = Head(commands) /\ Head(commands) \in Seq(Packet)
        BY <1>0, <1>2, <2>1, <2>4
      <3>2. Continues(Head(commands), Len(Head(commands)), 0, handed)
        BY <2>1, <2>4 DEF WireInv, FirstInv
      <3>3. Continues(Head(commands), Len(Head(commands)), 0, handed')
        BY <1>0, <1>2, <1>3, <3>1, <3>2, ContinuesMore
      <3> QED
        BY <2>2, <3>1, <3>3
    <2> QED
      BY <2>3, <2>4
  <1> QED
    BY <1>5, <1>6, <1>7 DEF WireInv

\* The writer gets its first command.
LEMMA WireRecv ==
  ASSUME TypeInv, WireInv, WriterRecv
  PROVE  WireInv'
  <1>0. /\ commands \in Seq(Seq(Packet)) /\ commands # <<>> /\ current = <<>> /\ ~overrun
        /\ wire \in Seq(Packet)
    BY DEF TypeInv, WriterRecv
  <1> DEFINE h == Head(commands)
  <1>1. /\ current' = Append(h, CloseSink) /\ UNCHANGED <<overrun, handed, wire>>
        /\ (Writing' <=> Writing)
    BY DEF WriterRecv, readerVars, Writing
  <1>2. h \in Seq(Packet)
    BY <1>0
  <1>3. h \in Seq(Forward)
    BY <1>2, NotPacket
  <1>7. Writing => Len(wire) = 0 /\ Continues(h, Len(h), 0, handed)
    BY <1>0 DEF WireInv, FirstInv
  <1> HIDE DEF h
  <1>4. /\ Len(current') = Len(h) + 1 /\ current'[Len(h) + 1] = CloseSink
        /\ \A i \in 1..Len(h) : current'[i] = h[i]
        /\ Len(h) \in Nat /\ current' # <<>>
    BY <1>1, <1>3, NotPacket
  <1>5. PrefixInv'
    BY <1>1 DEF WireInv, PrefixInv, Continues
  <1>6. CurrentInv'
    <2> SUFFICES ASSUME Writing
                 PROVE  /\ current'[Len(current')] = CloseSink
                        /\ Continues(current', Len(current') - 1, Len(wire), handed)
      BY <1>1 DEF CurrentInv
    <2>1. Len(current') - 1 = Len(h)
      BY <1>4
    <2>2. Continues(current', Len(h), 0, handed)
      BY <1>4, <1>7 DEF Continues
    <2> QED
      BY <1>4, <1>7, <2>1, <2>2
  <1>8. FirstInv'
    BY <1>4 DEF FirstInv
  <1> QED
    BY <1>5, <1>6, <1>8 DEF WireInv

\* The writer puts the next packet on the wire, closes the sink or gives up.
LEMMA WireWrite ==
  ASSUME TypeInv, WireInv, WriterWrite
  PROVE  WireInv'
  <1>0. /\ current \in Seq(Forward) /\ current # <<>> /\ wire \in Seq(Packet)
        /\ handed \in Seq(Packet) /\ inner["writer"] = "running"
        /\ UNCHANGED <<handed, inner, client, commands, overrun>>
    BY DEF TypeInv, WriterWrite, readerVars
  <1>1. CASE ~Writing
    <2>1. UNCHANGED <<wire, sink>>
      BY <1>0, <1>1 DEF WriterWrite, Writing
    <2> QED
      BY <1>0, <1>1, <2>1, WireStop DEF Writing
  <1>2. CASE Writing /\ Head(current) = CloseSink
    <2>1. UNCHANGED wire /\ sink' = "closed"
      BY <1>2 DEF WriterWrite, Writing
    <2> QED
      BY <1>0, <2>1, WireStop DEF Writing
  <1>3. CASE Writing /\ Head(current) # CloseSink
    <2>1. /\ current' = Tail(current) /\ wire' = Append(wire, Head(current)) /\ UNCHANGED sink
      BY <1>3 DEF WriterWrite, Writing
    <2>2. Head(current) \in Packet
      BY <1>0, <1>3, SeqFacts DEF Forward
    <2>3. /\ Len(current) \in Nat /\ Len(current) > 0 /\ Head(current) = current[1]
          /\ Len(current') = Len(current) - 1
          /\ \A i \in 1..Len(current') : current'[i] = current[i + 1]
      BY <1>0, <2>1, SeqFacts
    <2>4. /\ Len(wire) \in Nat /\ Len(wire') = Len(wire) + 1
          /\ wire'[Len(wire) + 1] = current[1]
          /\ \A i \in 1..Len(wire) : wire'[i] = wire[i]
      BY <1>0, <2>1, <2>2, <2>3, SeqFacts
    <2>5. /\ current[Len(current)] = CloseSink
          /\ Len(wire) + (Len(current) - 1) <= Len(handed)
          /\ \A i \in 1..(Len(current) - 1) : current[i] = handed[Len(wire) + i]
      BY <1>0, <1>3 DEF WireInv, CurrentInv, Continues
    <2>6. Len(current) > 1 /\ Len(handed) \in Nat
      BY <1>0, <1>3, <2>3, <2>5
    <2>7. PrefixInv'
      <3>1. \A i \in 1..Len(wire) : wire[i] = handed[i]
        BY <2>4 DEF WireInv, PrefixInv, Continues
      <3>2. wire'[Len(wire) + 1] = handed[Len(wire) + 1]
        BY <2>3, <2>4, <2>5, <2>6
      <3>3. Len(wire') <= Len(handed)
        BY <2>3, <2>4, <2>5, <2>6
      <3>4. \A i \in 1..Len(wire') : wire'[i] = handed[0 + i]
        BY <2>4, <3>1, <3>2
      <3> QED
        BY <1>0, <2>4, <3>3, <3>4 DEF PrefixInv, Continues
    <2>8. CurrentInv'
      <3>1. current'[Len(current')] = CloseSink
        BY <2>3, <2>5, <2>6
      <3>2. Len(wire') + (Len(current') - 1) <= Len(handed)
        BY <2>3, <2>4, <2>5, <2>6
      <3>3. ASSUME NEW i \in 1..(Len(current') - 1)
            PROVE  current'[i] = handed[Len(wire') + i]
        <4>1. i \in 1..Len(current') /\ i + 1 \in 1..(Len(current) - 1)
          BY <2>3
        <4>2. current'[i] = handed[Len(wire) + (i + 1)]
          BY <2>3, <2>5, <4>1
        <4>3. Len(wire) + (i + 1) = Len(wire') + i
          BY <2>4
        <4> QED
          BY <4>2, <4>3
      <3> QED
        BY <1>0, <3>1, <3>2, <3>3 DEF CurrentInv, Continues
    <2>9. FirstInv'
      <3>1. Len(current') > 0
        BY <2>3, <2>6
      <3>2. current' # <<>>
        BY <3>1, Empty
      <3> QED
        BY <3>2 DEF FirstInv
    <2> QED
      BY <2>7, <2>8, <2>9 DEF WireInv
  <1> QED
    BY <1>1, <1>2, <1>3

\* WireInv is inductive relative to TypeInv.
LEMMA WireNext == TypeInv /\ WireInv /\ [WsNext]_wsVars => WireInv'
  <1> SUFFICES ASSUME TypeInv, WireInv, [WsNext]_wsVars PROVE WireInv'
    OBVIOUS
  <1> USE SideFacts
  <1>0. inner \in [Sides -> {"running", "ended", "aborted"}]
    BY DEF TypeInv
  <1>1. CASE SendCommand
    BY <1>1, WireSendCmd
  <1>2. CASE Drop \/ ReaderMessage \/ ClientGone
    BY <1>2, WireFrame DEF Drop, ReaderMessage, ClientGone, readerVars, writerVars, Writing
  <1>3. ASSUME NEW s \in Sides, Abort(s) PROVE WireInv'
    <2>1. CASE s = "writer"
      BY <1>0, <1>3, <2>1, WireStop DEF Abort, Writing
    <2>2. CASE s # "writer"
      BY <1>0, <1>3, <2>2, WireFrame DEF Abort, readerVars, Writing
    <2> QED
      BY <2>1, <2>2
  <1>4. CASE WriterLagged
    BY <1>0, <1>4, WireStop DEF WriterLagged, Writing
  <1>5. CASE ReaderClose
    BY <1>0, <1>5, WireFrame DEF ReaderClose, writerVars, Writing
  <1>6. CASE WriterRecv
    BY <1>6, WireRecv
  <1>7. CASE WriterWrite
    BY <1>7, WireWrite
  <1>8. CASE UNCHANGED wsVars
    BY <1>8, WireFrame DEF wsVars, Writing
  <1> QED
    BY <1>1, <1>2, <1>3, <1>4, <1>5, <1>6, <1>7, <1>8 DEF WsNext, Reader, Writer

\* What is on the wire is a beginning of what the Socket handed over, however
\* large the batches and the channel are and wherever the writer is stopped
\* (websocket.rs:132-176).
THEOREM PacketsInOrder == WsSpec => []WireIsPrefix
  <1>1. WsInit => TypeInv /\ WireInv
    <2> SUFFICES ASSUME WsInit PROVE TypeInv /\ WireInv
      OBVIOUS
    <2>1. /\ commands \in Seq(Seq(Packet)) /\ handed \in Seq(Packet) /\ current \in Seq(Forward)
          /\ wire \in Seq(Packet) /\ Len(commands) = 0 /\ Len(handed) = 0 /\ Len(wire) = 0
      BY Empty DEF WsInit
    <2>2. Len(commands) <= CmdCap
      BY <2>1, WsAssumption
    <2>3. TypeInv
      BY <2>1, <2>2 DEF WsInit, TypeInv
    <2>4. FirstInv /\ CurrentInv
      BY <2>1 DEF WsInit, FirstInv, CurrentInv
    <2>5. PrefixInv
      BY <2>1 DEF PrefixInv, Continues
    <2> QED
      BY <2>3, <2>4, <2>5 DEF WireInv
  <1>2. TypeInv /\ WireInv => WireIsPrefix
    <2> SUFFICES ASSUME TypeInv, WireInv PROVE WireIsPrefix
      OBVIOUS
    <2>1. /\ wire \in Seq(Packet) /\ handed \in Seq(Packet)
          /\ Len(wire) \in Nat /\ Len(handed) \in Nat
      BY DEF TypeInv
    <2>2. Len(wire) <= Len(handed) /\ \A i \in 1..Len(wire) : wire[i] = handed[i]
      BY <2>1 DEF WireInv, PrefixInv, Continues
    <2>3. SubSeq(wire, 1, Len(wire)) = SubSeq(handed, 1, Len(wire))
      BY <2>1, <2>2
    <2> QED
      BY <2>2, <2>3 DEF WireIsPrefix, IsPrefix
  <1> QED
    BY <1>1, <1>2, TypeNext, WireNext, PTL DEF WsSpec

-----------------------------------------------------------------------------
(* The Close event *)

\* While the reader runs it has not reported the close.
CloseInv ==
  /\ inner \in [Sides -> {"running", "ended", "aborted"}]
  /\ reports \in Seq({"packet", "close"})
  /\ inner["reader"] = "running" => \A i \in 1..Len(reports) : reports[i] # "close"
  /\ \A i \in 1..Len(reports) : reports[i] = "close" => i = Len(reports)

\* The reader reports the close of the websocket once, after everything else,
\* whether it ends by itself or is aborted (websocket.rs:78-121).
THEOREM CloseComesLast == WsSpec => []CloseIsLast
  <1> USE SideFacts
  <1>1. WsInit => CloseInv
    BY DEF WsInit, CloseInv
  <1>2. CloseInv /\ [WsNext]_wsVars => CloseInv'
    <2> SUFFICES ASSUME CloseInv, [WsNext]_wsVars PROVE CloseInv'
      OBVIOUS
    <2>0. /\ inner \in [Sides -> {"running", "ended", "aborted"}]
          /\ reports \in Seq({"packet", "close"}) /\ Len(reports) \in Nat
      BY DEF CloseInv
    <2>1. CASE ReaderMessage
      <3>1. UNCHANGED inner /\ inner["reader"] = "running"
        BY <2>1 DEF ReaderMessage
      <3>2. reports' = reports \/ reports' = Append(reports, "packet")
        BY <2>1 DEF ReaderMessage
      <3>3. /\ reports' \in Seq({"packet", "close"})
            /\ \A i \in 1..Len(reports') : reports'[i] # "close"
        BY <2>0, <3>1, <3>2 DEF CloseInv
      <3> QED
        BY <2>0, <3>1, <3>3 DEF CloseInv
    <2>2. CASE ReaderClose
      <3>1. reports' = Append(reports, "close") /\ inner' = [inner EXCEPT !["reader"] = "ended"]
        BY <2>2 DEF ReaderClose
      <3>2. \A i \in 1..Len(reports) : reports[i] # "close"
        BY <2>2 DEF ReaderClose, CloseInv
      <3> QED
        BY <2>0, <3>1, <3>2 DEF CloseInv
    <2>3. ASSUME NEW s \in Sides, Abort(s) PROVE CloseInv'
      BY <2>0, <2>3 DEF Abort, readerVars, CloseInv
    <2>4. CASE WriterLagged
      BY <2>0, <2>4 DEF WriterLagged, readerVars, CloseInv
    <2>5. CASE SendCommand \/ Drop \/ ClientGone \/ WriterRecv \/ WriterWrite \/ UNCHANGED wsVars
      BY <2>0, <2>5
      DEF SendCommand, Drop, ClientGone, WriterRecv, WriterWrite, wsVars, readerVars, CloseInv
    <2> QED
      BY <2>1, <2>2, <2>3, <2>4, <2>5 DEF WsNext, Reader, Writer
  <1>3. CloseInv => CloseIsLast
    BY DEF CloseInv, CloseIsLast
  <1> QED
    BY <1>1, <1>2, <1>3, PTL DEF WsSpec
=============================================================================
