----------------------------- MODULE MessageStream -----------------------------
(***************************************************************************)
(* The path of messages from one end of a connection to the other: the     *)
(* constructor of util::Socket, which tries the addresses of a host one    *)
(* after another, and the moves that hand it on; util::send_all, which     *)
(* sends as much as the connection takes; and recv_message on              *)
(* util::recv_all, which cuts the stream of bytes into messages again.     *)
(* The other end is taken to write as this program does, and to send       *)
(* frames that it would not write.                                         *)
(***************************************************************************)
EXTENDS MessageCodec

CONSTANTS
  Hosts,      \* what the addresses of a host do, in their order
  Streams,    \* the frames that are sent over a connection
  MaxChunk    \* the most bytes one call sends or receives

\* "no socket": the call of socket fails.
Behaviours == {"accepts", "refuses", "no socket"}

\* A frame is its bytes and what it says: a message, out of a set of them where
\* the bytes do not tell, or nothing for a keep-alive; some are no message.
KeepAlive    == [bytes |-> WriteInt(0), says |-> << >>, valid |-> TRUE]
Frame(m)     == [bytes |-> Encode(m), says |-> <<{m}>>, valid |-> TRUE]
Junk(bytes)  == [bytes |-> bytes, says |-> << >>, valid |-> FALSE]

\* What the other end may send: besides the messages this program writes, a
\* request cut short, which says what decode can make of it, a body that is no
\* message, and a negative length.
Body(f) == SubSeq(f.bytes, IntBytes + 1, Len(f.bytes))
Long(f) == Body(f) # << >> /\ Len(Body(f)) \in Numbers /\ f.bytes = WriteInt(Len(Body(f))) \o Body(f)

IsFrame(f) ==
  \/ f = KeepAlive
  \/ f.says # << >> /\ \E m \in f.says[1] : f = Frame(m) /\ Len(Payload(m)) \in Numbers
  \/ /\ Long(f) /\ Body(f)[1] = 6
     /\ f.valid /\ Len(f.says) = 1 /\ Decode(Body(f)) \subseteq f.says[1]
  \/ Long(f) /\ Refused(Body(f)) /\ f = Junk(f.bytes)
  \/ Len(f.bytes) >= IntBytes /\ ReadInt(SubSeq(f.bytes, 1, IntBytes)) < 0 /\ f = Junk(f.bytes)

ASSUME StreamAssumption ==
  /\ Hosts \subseteq Seq(Behaviours)
  /\ Streams \subseteq Seq([bytes : Seq(Byte), says : Seq(SUBSET Messages), valid : BOOLEAN])
  /\ \A s \in Streams : \A k \in DOMAIN s : IsFrame(s[k])
  /\ MaxChunk \in Nat \ {0}

VARIABLES
  host,      \* the addresses of the host
  tried,     \* how many have been tried
  fd,        \* fd_ of the local sock and of the connection it is moved to, -1 for none
  open,      \* the descriptors of the process that are open
  frames,    \* what the other end sends
  unsent,    \* the bytes it has left
  wire,      \* the bytes on their way
  closed,    \* it has closed the connection
  buffer,    \* what recv_all has received
  msgLen,    \* msg_len of recv_message, -1 while it is being received
  inbox,     \* the messages recv_message has returned
  pc         \* "connect", "recv" or "failed"

sender   == <<frames, unsent, wire, closed>>
receiver == <<buffer, msgLen, inbox>>
socket   == <<host, tried, fd, open>>
vars     == <<socket, sender, receiver, pc>>

NoSockets == [sock |-> -1, conn |-> -1]

Init ==
  /\ host \in Hosts /\ tried = 0 /\ fd = NoSockets /\ open = {}
  /\ frames \in Streams
  /\ unsent = FlattenSeq([k \in DOMAIN frames |-> frames[k].bytes])
  /\ wire = << >> /\ closed = FALSE
  /\ buffer = << >> /\ msgLen = -1 /\ inbox = << >>
  /\ pc = "connect"

\* An exception: the destructors close what the sockets have.
Throw ==
  /\ pc' = "failed"
  /\ open' = open \ {fd.sock, fd.conn} /\ fd' = NoSockets
  /\ UNCHANGED <<host, tried>>

----------------------------------------------------------------------------
(* util::Socket::Socket *)

\* The descriptor of the address that is tried is its number.
Try(behaviour) == pc = "connect" /\ tried < Len(host) /\ host[tried + 1] = behaviour /\ tried' = tried + 1

\* Fault: the loop goes on without closing the socket.
RefusedWithoutClose ==
  /\ Try("refuses")
  /\ fd' = NoSockets /\ open' = open \cup {tried + 1}
  /\ UNCHANGED <<host, sender, receiver, pc>>

AddressRefuses ==
  /\ Try("refuses")
  /\ fd' = NoSockets
  /\ UNCHANGED <<host, open, sender, receiver, pc>>

NoSocket ==
  /\ Try("no socket")
  /\ fd' = NoSockets
  /\ UNCHANGED <<host, open, sender, receiver, pc>>

AddressAccepts ==
  /\ Try("accepts")
  /\ fd' = [fd EXCEPT !.sock = tried + 1] /\ open' = open \cup {tried + 1}
  /\ pc' = "recv"
  /\ UNCHANGED <<host, sender, receiver>>

\* The host is not known, or none of its addresses accepts.
CannotConnect ==
  /\ pc = "connect" /\ tried = Len(host)
  /\ Throw
  /\ UNCHANGED <<sender, receiver>>

\* Fault: the socket that is moved from keeps its descriptor.
MovedFromKeeping(d) == d

\* The fd_ of a socket that is moved from.
MovedFrom(d) == -1

\* establish_connection returns: sock is moved into the connection, and destroyed.
HandOver ==
  /\ pc = "recv" /\ msgLen = -1 /\ buffer = << >> /\ fd.sock # -1
  /\ fd' = [sock |-> -1, conn |-> fd.sock]
  /\ open' = open \ {MovedFrom(fd.sock)}
  /\ UNCHANGED <<host, tried, sender, receiver, pc>>

----------------------------------------------------------------------------
(* util::send_all and the connection *)

AtMost(n) == 1 .. IF n < MaxChunk THEN n ELSE MaxChunk

Send ==
  /\ pc = "recv" /\ ~closed
  /\ \E n \in AtMost(Len(unsent)) :
       /\ wire' = wire \o SubSeq(unsent, 1, n)
       /\ unsent' = SubSeq(unsent, n + 1, Len(unsent))
  /\ UNCHANGED <<socket, frames, closed, receiver, pc>>

\* After the last byte, or before.
Close ==
  /\ pc = "recv" /\ ~closed
  /\ closed' = TRUE
  /\ UNCHANGED <<socket, frames, unsent, wire, receiver, pc>>

----------------------------------------------------------------------------
(* recv_message *)

\* The bytes recv_all has been asked for.
Wanted == IF msgLen = -1 THEN IntBytes ELSE msgLen

\* Fault: what one call of recv returns is taken for all of it.
EnoughAtOnce == buffer # << >>

Enough == Len(buffer) = Wanted

Receive ==
  /\ pc = "recv" /\ ~Enough
  /\ \E n \in AtMost(Len(wire)) :
       /\ n <= Wanted - Len(buffer)
       /\ buffer' = buffer \o SubSeq(wire, 1, n)
       /\ wire' = SubSeq(wire, n + 1, Len(wire))
  /\ UNCHANGED <<socket, frames, unsent, closed, msgLen, inbox, pc>>

\* recv returns 0.
ReceiveFails ==
  /\ pc = "recv" /\ ~Enough /\ wire = << >> /\ closed
  /\ Throw
  /\ UNCHANGED <<sender, receiver>>

\* A length of 0 is a keep-alive: recv_message calls itself.
TakeLength ==
  /\ pc = "recv" /\ msgLen = -1 /\ Enough
  /\ IF ReadInt(buffer) < 0
     THEN Throw /\ UNCHANGED <<receiver, sender>>
     ELSE /\ msgLen' = IF ReadInt(buffer) = 0 THEN -1 ELSE ReadInt(buffer)
          /\ buffer' = << >>
          /\ UNCHANGED <<inbox, socket, sender, pc>>

TakeBody ==
  /\ pc = "recv" /\ msgLen # -1 /\ Enough
  /\ IF Refused(buffer)
     THEN Throw /\ UNCHANGED <<receiver, sender>>
     ELSE /\ \E m \in Decode(buffer) : inbox' = Append(inbox, m)
          /\ msgLen' = -1 /\ buffer' = << >>
          /\ UNCHANGED <<socket, sender, pc>>

Stopped == pc = "failed" /\ UNCHANGED vars

Connecting == AddressRefuses \/ NoSocket \/ AddressAccepts \/ CannotConnect
Receiving  == Receive \/ ReceiveFails \/ TakeLength \/ TakeBody

Next == Connecting \/ HandOver \/ Send \/ Close \/ Receiving \/ Stopped

Spec == Init /\ [][Next]_vars

----------------------------------------------------------------------------
(* Properties *)

\* What the first k frames say, and whether all of them are messages.
Said(k)  == FlattenSeq([j \in 1 .. k |-> frames[j].says])
Valid(k) == \A j \in 1 .. k : frames[j].valid

Received(k) == Len(inbox) = Len(Said(k)) /\ \A j \in DOMAIN inbox : inbox[j] \in Said(k)[j]

\* However the bytes are cut on their way, the messages received are those
\* sent, in their order and whole, keep-alives left out; nothing after a frame
\* that is no message is taken for one; and the receiver gives up only where the
\* stream ends or no frame can be understood.
FramesKeepBoundaries ==
  /\ \E k \in 0 .. Len(frames) : Received(k) /\ Valid(k)
  /\ pc = "failed" /\ Valid(Len(frames)) /\ unsent = << >> /\ wire = << >> =>
       Received(Len(frames))

\* The process has no descriptor open but that of the connection, whichever
\* addresses were tried before it and however it ended; and while it is used one
\* socket has it, so that no other closes it.
OneDescriptor ==
  /\ open = {fd.sock, fd.conn} \ {-1}
  /\ IF pc = "recv" THEN fd.sock = -1 <=> fd.conn # -1 ELSE fd = NoSockets

=============================================================================
