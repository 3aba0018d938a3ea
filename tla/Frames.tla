-------------------------------- MODULE Frames --------------------------------
(***************************************************************************)
(* How messages become bytes of a stream and packets again.  On the server *)
(* two writers, the session's (QueueMessage) and the world's (Broadcast),  *)
(* frame messages in buffers of their own and write them to one stream.    *)
(* The stream delivers its bytes in pieces of any size, or breaks.  At the *)
(* other end the Go reader (HandleStream) asks for a header and a payload, *)
(* and the web client's (#readStream) collects what comes.                 *)
(*                                                                         *)
(* A byte is named <<frame, position>>, a frame by its writer and number.  *)
(***************************************************************************)
EXTENDS Naturals, Sequences

CONSTANTS
  Writers,   \* the PacketWriters: the session's and the world's
  Messages,  \* bound on the messages of a writer
  Size,      \* sizes of marshalled messages
  Header,    \* PacketHeaderLength (6)
  Initial,   \* PacketBufferSize (8)
  Slack      \* what SendStream adds when it expands the buffer (2)

ASSUME FramesAssumption ==
  /\ Messages \in Nat /\ Size \subseteq Nat
  /\ Header \in Nat \ {0} /\ Initial \in Nat /\ Slack \in Nat
  /\ Initial >= Header

VARIABLES
  phase,    \* of a writer: "idle", "marshal" or "write"
  made,     \* number of messages it was given
  size,     \* of the message it sends
  buf,      \* its buffer, which keeps what was written last
  tries,    \* calls of SendStream for this message (history)
  written,  \* frames written, with their sizes (history)
  wire,     \* bytes under way
  broken,   \* the stream was cancelled
  side,     \* who reads: "go" or "web"
  reader,   \* "header" or "payload" (Go), "read" or "parse" (web), "done"
  got,      \* bytes read and not yet handled
  need,     \* bytes the Go reader asked for
  handled   \* packets handed on

writers == <<phase, made, size, buf, tries, written>>
readers == <<side, reader, got, need, handled>>
vars == <<writers, wire, broken, readers>>

Frame(w) == <<w, made[w]>>
NoByte == <<>>
Bytes(f, from, to) == [i \in 1..(to + 1 - from) |-> <<f, from + i - 1>>]

-----------------------------------------------------------------------------
\* A writer; its mutex is held from NewMessage to the end of the write.

NewMessage(w) ==
  /\ phase[w] = "idle" /\ made[w] < Messages
  /\ made' = [made EXCEPT ![w] = @ + 1]
  /\ \E n \in Size : size' = [size EXCEPT ![w] = n]
  /\ tries' = [tries EXCEPT ![w] = 1]
  /\ phase' = [phase EXCEPT ![w] = "marshal"]
  /\ UNCHANGED <<buf, written, wire, broken, readers>>

\* Mutant: the header is forgotten.
ExpandToMessage(w) == [i \in 1..(size[w] + Slack) |-> NoByte]

\* SendStream's new buffer.
Expand(w) == [i \in 1..(Header + size[w] + Slack) |-> NoByte]

Fits(w) == Len(buf[w]) - Header >= size[w]

\* MarshalThree finds no room and tells how much it needs: SendStream calls itself.
TooSmall(w) ==
  /\ phase[w] = "marshal" /\ ~Fits(w)
  /\ buf' = [buf EXCEPT ![w] = Expand(w)]
  /\ tries' = [tries EXCEPT ![w] = @ + 1]
  /\ UNCHANGED <<phase, made, size, written, wire, broken, readers>>

\* MarshalThree fills the payload, then the header is put before it; what is behind stays.
Marshal(w) ==
  /\ phase[w] = "marshal" /\ Fits(w)
  /\ LET end == Header + size[w] IN
       buf' = [buf EXCEPT ![w] = Bytes(Frame(w), 1, end) \o SubSeq(@, end + 1, Len(@))]
  /\ phase' = [phase EXCEPT ![w] = "write"]
  /\ UNCHANGED <<made, size, tries, written, wire, broken, readers>>

\* Mutant: the whole buffer is written.
Buffer(w) == buf[w]

Framed(w) == SubSeq(buf[w], 1, Header + size[w])

\* The stream takes one Write after the other (quic-go), or fails.
Write(w) ==
  /\ phase[w] = "write"
  /\ IF broken THEN UNCHANGED <<wire, written>>
       ELSE /\ wire' = wire \o Framed(w)
            /\ written' = Append(written, [frame |-> Frame(w), size |-> size[w]])
  /\ phase' = [phase EXCEPT ![w] = "idle"]
  /\ UNCHANGED <<made, size, buf, tries, broken, readers>>

\* CancelRead or CancelWrite, or the connection is lost: bytes under way are gone.
Break ==
  /\ ~broken
  /\ broken' = TRUE /\ wire' = <<>>
  /\ UNCHANGED <<writers, readers>>

-----------------------------------------------------------------------------
\* Reading.  A header says what comes after it; bytes that are no header of a
\* frame would say anything.

SizeOf(w, n) == written[CHOOSE i \in DOMAIN written : written[i].frame = <<w, n>>].size
IsHeader(s) == Len(s) >= Header /\ s[1] # NoByte /\ SubSeq(s, 1, Header) = Bytes(s[1][1], 1, Header)
Length(s) == IF IsHeader(s) THEN SizeOf(s[1][1][1], s[1][1][2]) ELSE 0
Handed(header, payload) == handled' = Append(handled, [header |-> header, payload |-> payload])

\* io.ReadFull takes what is there, but no more than it was asked for.
GoRead(k) ==
  /\ reader \in {"header", "payload"} /\ Len(got) < need
  /\ k <= Len(wire) /\ Len(got) + k <= need
  /\ got' = got \o SubSeq(wire, 1, k)
  /\ wire' = SubSeq(wire, k + 1, Len(wire))
  /\ UNCHANGED <<writers, broken, side, reader, need, handled>>

GoHeader ==
  /\ reader = "header" /\ Len(got) = Header
  /\ reader' = "payload"
  /\ need' = Header + Length(got)
  /\ UNCHANGED <<writers, wire, broken, side, got, handled>>

\* The payload is whole: the packet goes to incoming.
GoPayload ==
  /\ reader = "payload" /\ Len(got) = need
  /\ Handed(SubSeq(got, 1, Header), SubSeq(got, Header + 1, need))
  /\ reader' = "header" /\ got' = <<>> /\ need' = Header
  /\ UNCHANGED <<writers, wire, broken, side>>

\* rdr.read() resolves with a piece, which is put behind the others.
WebRead(k) ==
  /\ reader = "read"
  /\ k <= Len(wire)
  /\ got' = got \o SubSeq(wire, 1, k)
  /\ wire' = SubSeq(wire, k + 1, Len(wire))
  /\ reader' = "parse"
  /\ UNCHANGED <<writers, broken, side, need, handled>>

Whole == Len(got) >= Header /\ Len(got) >= Header + Length(got)

\* Mutant: one frame is taken from a piece.
WebTakesOne ==
  /\ reader = "parse" /\ Whole
  /\ LET end == Header + Length(got) IN
       /\ Handed(SubSeq(got, 1, Header), SubSeq(got, Header + 1, end))
       /\ got' = SubSeq(got, end + 1, Len(got))
  /\ reader' = "read"
  /\ UNCHANGED <<writers, wire, broken, side, need>>

\* The inner loop handles every whole frame ...
WebTakes ==
  /\ reader = "parse" /\ Whole
  /\ LET end == Header + Length(got) IN
       /\ Handed(SubSeq(got, 1, Header), SubSeq(got, Header + 1, end))
       /\ got' = SubSeq(got, end + 1, Len(got))
  /\ UNCHANGED <<writers, wire, broken, side, reader, need>>

\* ... and keeps the rest.
WebKeeps ==
  /\ reader = "parse" /\ ~Whole
  /\ reader' = "read"
  /\ UNCHANGED <<writers, wire, broken, side, got, need, handled>>

\* An error ends the reader; a packet that is not whole is dropped.
ReadFails ==
  /\ broken /\ wire = <<>>
  /\ reader \in {"read", "header", "payload"}
  /\ side = "go" => Len(got) < need
  /\ reader' = "done" /\ got' = <<>>
  /\ UNCHANGED <<writers, wire, broken, side, need, handled>>

Reader ==
  \/ \E k \in 1..Len(wire) : GoRead(k) \/ WebRead(k)
  \/ GoHeader \/ GoPayload \/ WebTakes \/ WebKeeps \/ ReadFails

-----------------------------------------------------------------------------
Init ==
  /\ phase = [w \in Writers |-> "idle"]
  /\ made = [w \in Writers |-> 0]
  /\ size = [w \in Writers |-> 0]
  /\ buf = [w \in Writers |-> [i \in 1..Initial |-> NoByte]]
  /\ tries = [w \in Writers |-> 0]
  /\ written = <<>> /\ wire = <<>> /\ broken = FALSE
  /\ \/ side = "go" /\ reader = "header"
     \/ side = "web" /\ reader = "read"
  /\ got = <<>> /\ need = Header /\ handled = <<>>

Next ==
  \/ \E w \in Writers : NewMessage(w) \/ TooSmall(w) \/ Marshal(w) \/ Write(w)
  \/ Break \/ Reader

Spec == Init /\ [][Next]_vars

\* A call of SendStream goes on, and so does a reader that has bytes to read.
FairSpec ==
  /\ Spec
  /\ \A w \in Writers : WF_vars(TooSmall(w) \/ Marshal(w) \/ Write(w))
  /\ WF_vars(Reader)

-----------------------------------------------------------------------------
\* The bytes of the i-th frame written.
FrameBytes(i) == Bytes(written[i].frame, 1, Header + written[i].size)

\* However the stream cuts the bytes and the writers take turns, the packets handled
\* are the first of the frames written, in order and each with its own payload.
FramesIntact ==
  /\ Len(handled) <= Len(written)
  /\ \A i \in DOMAIN handled : handled[i].header \o handled[i].payload = FrameBytes(i)

\* A message that does not fit is sent by the second call of SendStream.
TwoTries == \A w \in Writers : tries[w] <= 2

\* Every frame written is handled, unless the stream breaks.
AllHandled ==
  \A n \in 1..(2 * Messages) : Len(written) = n ~> Len(handled) >= n \/ broken

===============================================================================
