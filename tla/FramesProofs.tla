----------------------------- MODULE FramesProofs ------------------------------
(***************************************************************************)
(* Theorems about Frames, for any writers, any number and sizes of         *)
(* messages, any lengths of the header and the first buffer: types, that   *)
(* packets come out as they were framed, and that a message needs at most  *)
(* two calls of SendStream.                                                *)
(*                                                                         *)
(* Which bytes a stream holds would be a sum over the frames written.  It  *)
(* is not computed here: the invariant says that there is a function that  *)
(* tells where each frame ends, and each step says how to extend it.       *)
(***************************************************************************)
EXTENDS Frames, SequenceTheorems, TLAPS

-----------------------------------------------------------------------------
\* The inductive invariant

Byte == {NoByte} \cup ((Writers \X Nat) \X Nat)

\* The types of the writers' fields and buffers, of the stream, and of the readers.
TypeOK ==
  /\ phase \in [Writers -> {"idle", "marshal", "write"}]
  /\ made \in [Writers -> Nat] /\ size \in [Writers -> Nat] /\ tries \in [Writers -> Nat]
  /\ buf \in [Writers -> Seq(Byte)]
  /\ written \in Seq([frame : Writers \X Nat, size : Nat])
  /\ wire \in Seq(Byte) /\ got \in Seq(Byte)
  /\ broken \in BOOLEAN
  /\ side \in {"go", "web"}
  /\ reader \in {"header", "payload", "read", "parse", "done"}
  /\ need \in Nat
  /\ handled \in Seq([header : Seq(Byte), payload : Seq(Byte)])

\* What is about to be written is the whole frame at the buffer's beginning, and whoever
\* comes to MarshalThree a second time has room.
WriterInv ==
  \A w \in Writers :
    /\ phase[w] = "write" =>
         /\ Header + size[w] <= Len(buf[w])
         /\ \A j \in 1..(Header + size[w]) : buf[w][j] = <<Frame(w), j>>
    /\ phase[w] = "marshal" => tries[w] = 1 \/ (tries[w] = 2 /\ Fits(w))

\* No two frames written have the same name, nor has one that is not yet written.
NameInv ==
  /\ \A i \in 1..Len(written) : \A w \in Writers : written[i].frame[1] = w =>
       written[i].frame[2] <= made[w] /\ (phase[w] # "idle" => written[i].frame[2] < made[w])
  /\ \A i, j \in 1..Len(written) : written[i].frame = written[j].frame => i = j

\* The bytes that were read and not handled, and those under way.
Unhandled == Len(got) + Len(wire)
Unread(k) == IF k <= Len(got) THEN got[k] ELSE wire[k - Len(got)]

\* Where the frames written end, counted from the first byte of the stream.
Ends(off) ==
  /\ \A i \in 1..Len(written) : off[i] = off[i - 1] + Header + written[i].size
  /\ \A i \in 0..Len(written) : off[i] <= off[Len(written)]

\* What is not handled begins where the last frame handled ends, has every byte in its
\* place, and lacks none unless the stream broke.
InPlace(off) ==
  /\ Unhandled + off[Len(handled)] <= off[Len(written)]
  /\ ~broken => Unhandled + off[Len(handled)] = off[Len(written)]
  /\ \A i \in (Len(handled) + 1)..Len(written) :
       \A j \in 1..(Header + written[i].size) : \A k \in 1..Unhandled :
         k + off[Len(handled)] = off[i - 1] + j => Unread(k) = <<written[i].frame, j>>

StreamInv ==
  /\ \E off \in [0..Len(written) -> Nat] : Ends(off) /\ InPlace(off)
  /\ broken => wire = <<>>

\* HandleStream asks for what is missing of a header or of the payload that follows it.
GoInv ==
  /\ reader = "header" => need = Header /\ Len(got) <= need
  /\ reader = "payload" =>
       /\ Header <= Len(got) /\ Len(got) <= need
       /\ Len(handled) < Len(written)
       /\ need = Header + written[Len(handled) + 1].size

IInv ==
  /\ TypeOK /\ WriterInv /\ NameInv /\ StreamInv /\ GoInv
  /\ FramesIntact /\ TwoTries

-----------------------------------------------------------------------------
\* Sequences of bytes

LEMMA BytesAre ==
  ASSUME NEW f \in Writers \X Nat, NEW n \in Nat
  PROVE  /\ Bytes(f, 1, n) \in Seq(Byte) /\ Len(Bytes(f, 1, n)) = n
         /\ \A j \in 1..n : Bytes(f, 1, n)[j] = <<f, j>>
<1>1. /\ \A i \in 1..n : <<f, 1 + i - 1>> = <<f, i>> /\ <<f, i>> \in Byte
      /\ n + 1 - 1 = n
  BY DEF Byte
<1>2. Bytes(f, 1, n) = [i \in 1..n |-> <<f, i>>]
  BY <1>1 DEF Bytes
<1> QED
  BY <1>1, <1>2

\* A piece of what comes is put behind what has come.
LEMMA Pieces ==
  ASSUME NEW s \in Seq(Byte), NEW t \in Seq(Byte), NEW k \in 1..Len(t)
  PROVE  /\ s \o SubSeq(t, 1, k) \in Seq(Byte) /\ SubSeq(t, k + 1, Len(t)) \in Seq(Byte)
         /\ Len(s \o SubSeq(t, 1, k)) = Len(s) + k
         /\ Len(SubSeq(t, k + 1, Len(t))) = Len(t) - k
         /\ \A i \in 1..Len(s) : (s \o SubSeq(t, 1, k))[i] = s[i]
         /\ \A i \in 1..k : (s \o SubSeq(t, 1, k))[Len(s) + i] = t[i]
         /\ \A i \in 1..(Len(t) - k) : SubSeq(t, k + 1, Len(t))[i] = t[k + i]
<1>1. /\ SubSeq(t, 1, k) \in Seq(Byte) /\ Len(SubSeq(t, 1, k)) = k
      /\ \A i \in 1..k : SubSeq(t, 1, k)[i] = t[i]
  BY SubSeqProperties
<1>2. /\ SubSeq(t, k + 1, Len(t)) \in Seq(Byte)
      /\ Len(SubSeq(t, k + 1, Len(t))) = Len(t) - k
      /\ \A i \in 1..(Len(t) - k) : SubSeq(t, k + 1, Len(t))[i] = t[k + i]
  BY SubSeqProperties
<1>3. /\ s \o SubSeq(t, 1, k) \in Seq(Byte) /\ Len(s \o SubSeq(t, 1, k)) = Len(s) + k
      /\ \A i \in 1..Len(s) : (s \o SubSeq(t, 1, k))[i] = s[i]
      /\ \A i \in 1..k : (s \o SubSeq(t, 1, k))[Len(s) + i] = t[i]
  BY <1>1, ConcatProperties
<1> QED
  BY <1>2, <1>3

\* A frame is taken from the beginning of what has come.
LEMMA Beginning ==
  ASSUME NEW s \in Seq(Byte), NEW m \in Nat, NEW n \in Nat, m <= n, n <= Len(s)
  PROVE  /\ SubSeq(s, 1, m) \in Seq(Byte) /\ Len(SubSeq(s, 1, m)) = m
         /\ \A i \in 1..m : SubSeq(s, 1, m)[i] = s[i]
         /\ SubSeq(s, m + 1, n) \in Seq(Byte) /\ Len(SubSeq(s, m + 1, n)) = n - m
         /\ \A i \in 1..(n - m) : SubSeq(s, m + 1, n)[i] = s[m + i]
         /\ SubSeq(s, 1, m) \o SubSeq(s, m + 1, n) \in Seq(Byte)
         /\ Len(SubSeq(s, 1, m) \o SubSeq(s, m + 1, n)) = n
         /\ \A i \in 1..n : (SubSeq(s, 1, m) \o SubSeq(s, m + 1, n))[i] = s[i]
<1>1. /\ SubSeq(s, 1, m) \in Seq(Byte) /\ Len(SubSeq(s, 1, m)) = m
      /\ \A i \in 1..m : SubSeq(s, 1, m)[i] = s[i]
  BY SubSeqProperties
<1>2. /\ SubSeq(s, m + 1, n) \in Seq(Byte) /\ Len(SubSeq(s, m + 1, n)) = n - m
      /\ \A i \in 1..(n - m) : SubSeq(s, m + 1, n)[i] = s[m + i]
  BY SubSeqProperties
<1> DEFINE a == SubSeq(s, 1, m)
           b == SubSeq(s, m + 1, n)
<1> HIDE DEF a, b
<1>3. /\ a \o b \in Seq(Byte) /\ Len(a \o b) = m + (n - m)
      /\ \A i \in 1..(m + (n - m)) : (a \o b)[i] = IF i <= m THEN a[i] ELSE b[i - m]
  <2>1. a \in Seq(Byte) /\ b \in Seq(Byte) /\ Len(a) = m /\ Len(b) = n - m
    BY <1>1, <1>2 DEF a, b
  <2> QED
    BY <2>1, ConcatProperties
<1>4. m + (n - m) = n
  OBVIOUS
<1>5. ASSUME NEW i \in 1..n PROVE (a \o b)[i] = s[i]
  <2>1. CASE i <= m
    BY <1>1, <1>3, <1>4, <2>1 DEF a
  <2>2. CASE ~(i <= m)
    <3>1. i - m \in 1..(n - m) /\ m + (i - m) = i
      BY <2>2
    <3>2. (a \o b)[i] = b[i - m]
      BY <1>3, <1>4, <2>2
    <3>3. b[i - m] = s[m + (i - m)]
      BY <1>2, <3>1 DEF b
    <3> QED
      BY <3>1, <3>2, <3>3
  <2> QED
    BY <2>1, <2>2
<1> QED
  BY <1>1, <1>2, <1>3, <1>4, <1>5 DEF a, b

\* MarshalThree and SendStream fill the buffer from its beginning.
LEMMA Filled ==
  ASSUME NEW f \in Writers \X Nat, NEW n \in Nat, NEW s \in Seq(Byte), n <= Len(s)
  PROVE  /\ Bytes(f, 1, n) \o SubSeq(s, n + 1, Len(s)) \in Seq(Byte)
         /\ Len(Bytes(f, 1, n) \o SubSeq(s, n + 1, Len(s))) = Len(s)
         /\ \A j \in 1..n : (Bytes(f, 1, n) \o SubSeq(s, n + 1, Len(s)))[j] = <<f, j>>
<1> DEFINE a == Bytes(f, 1, n)
           b == SubSeq(s, n + 1, Len(s))
<1>1. b \in Seq(Byte) /\ Len(b) = Len(s) - n
  BY SubSeqProperties
<1>2. a \in Seq(Byte) /\ Len(a) = n /\ \A j \in 1..n : a[j] = <<f, j>>
  BY BytesAre
<1> HIDE DEF a, b
<1>3. /\ a \o b \in Seq(Byte) /\ Len(a \o b) = n + (Len(s) - n)
      /\ \A i \in 1..(n + (Len(s) - n)) : (a \o b)[i] = IF i <= n THEN a[i] ELSE b[i - n]
  BY <1>1, <1>2, ConcatProperties
<1>4. n + (Len(s) - n) = Len(s)
  OBVIOUS
<1> QED
  BY <1>2, <1>3, <1>4 DEF a, b

\* A message that fits has room behind the header.
LEMMA Room ==
  ASSUME TypeOK, NEW w \in Writers, Fits(w)
  PROVE  /\ Frame(w) \in Writers \X Nat /\ Header + size[w] \in Nat /\ buf[w] \in Seq(Byte)
         /\ Header + size[w] <= Len(buf[w])
<1>1. Frame(w) \in Writers \X Nat
  BY DEF Frame, TypeOK
<1>2. Header \in Nat /\ size[w] \in Nat /\ buf[w] \in Seq(Byte)
  BY FramesAssumption DEF TypeOK
<1>3. Len(buf[w]) \in Nat
  BY <1>2, LenProperties
<1> QED
  BY <1>1, <1>2, <1>3 DEF Fits

-----------------------------------------------------------------------------
\* What the readers find at the beginning of what they have read

LEMMA FirstBytes ==
  ASSUME TypeOK, StreamInv, FramesIntact, Len(got) >= 1
  PROVE  /\ Len(handled) + 1 \in 1..Len(written)
         /\ written[Len(handled) + 1].frame \in Writers \X Nat
         /\ written[Len(handled) + 1].size \in Nat
         /\ \A j \in 1..(Header + written[Len(handled) + 1].size) :
              j <= Len(got) => got[j] = <<written[Len(handled) + 1].frame, j>>
<1> USE FramesAssumption
<1> DEFINE h == Len(handled)
<1>1. PICK off \in [0..Len(written) -> Nat] : Ends(off) /\ InPlace(off)
  BY DEF StreamInv
<1>2. /\ h \in Nat /\ Len(written) \in Nat /\ h <= Len(written)
      /\ Len(got) \in Nat /\ Len(wire) \in Nat
  BY DEF TypeOK, FramesIntact
<1>3. h # Len(written)
  BY <1>1, <1>2 DEF InPlace, Unhandled
<1>4. h + 1 \in 1..Len(written)
  BY <1>2, <1>3
<1>5. written[h + 1] \in [frame : Writers \X Nat, size : Nat]
  BY <1>4, ElementOfSeq DEF TypeOK
<1>6. ASSUME NEW j \in 1..(Header + written[h + 1].size), j <= Len(got)
      PROVE  got[j] = <<written[h + 1].frame, j>>
  <2>1. /\ h + 1 \in (h + 1)..Len(written) /\ j \in 1..Unhandled
        /\ j + off[h] = off[(h + 1) - 1] + j
    BY <1>1, <1>2, <1>4, <1>5, <1>6 DEF Unhandled
  <2>2. Unread(j) = <<written[h + 1].frame, j>>
    BY <1>1, <2>1 DEF InPlace
  <2> QED
    BY <1>6, <2>2 DEF Unread
<1> QED
  BY <1>4, <1>5, <1>6

\* A whole header says how long the payload is that was framed with it.
LEMMA LengthIsSize ==
  ASSUME TypeOK, NameInv, StreamInv, FramesIntact, Len(got) >= Header
  PROVE  Length(got) = written[Len(handled) + 1].size /\ Length(got) \in Nat
<1> USE FramesAssumption
<1> DEFINE e == written[Len(handled) + 1]
<1>1. /\ Len(handled) + 1 \in 1..Len(written)
      /\ e.frame \in Writers \X Nat /\ e.size \in Nat
      /\ \A j \in 1..(Header + e.size) : j <= Len(got) => got[j] = <<e.frame, j>>
  BY FirstBytes
<1> HIDE DEF e
<1>2. got[1] = <<e.frame, 1>> /\ \A j \in 1..Header : got[j] = <<e.frame, j>>
  <2>1. ASSUME NEW j \in 1..Header PROVE j \in 1..(Header + e.size) /\ j <= Len(got)
    <3>1. Len(got) \in Nat /\ e.size \in Nat /\ Header \in Nat
      BY <1>1, LenProperties DEF TypeOK
    <3> QED
      BY <3>1
  <2>2. 1 \in 1..Header
    OBVIOUS
  <2> QED
    BY <1>1, <2>1, <2>2
<1>3. SubSeq(got, 1, Header) = Bytes(e.frame, 1, Header)
  <2>1. /\ SubSeq(got, 1, Header) \in Seq(Byte) /\ Len(SubSeq(got, 1, Header)) = Header
        /\ \A j \in 1..Header : SubSeq(got, 1, Header)[j] = got[j]
    BY Beginning DEF TypeOK
  <2>2. /\ Bytes(e.frame, 1, Header) \in Seq(Byte) /\ Len(Bytes(e.frame, 1, Header)) = Header
        /\ \A j \in 1..Header : Bytes(e.frame, 1, Header)[j] = <<e.frame, j>>
    BY <1>1, BytesAre
  <2> QED
    BY <1>2, <2>1, <2>2, SeqEqual
<1>4. got[1] # NoByte
  <2>1. Len(<<e.frame, 1>>) = 2 /\ Len(NoByte) = 0
    BY DEF NoByte
  <2> QED
    BY <1>2, <2>1
<1>5. IsHeader(got) /\ got[1][1] = e.frame
  BY <1>2, <1>3, <1>4 DEF IsHeader
<1>6. SizeOf(e.frame[1], e.frame[2]) = e.size
  <2>1. e.frame = <<e.frame[1], e.frame[2]>>
    BY <1>1
  <2>2. \A i \in 1..Len(written) : written[i].frame = e.frame <=> i = Len(handled) + 1
    BY <1>1 DEF NameInv, e
  <2>3. DOMAIN written = 1..Len(written)
    BY DEF TypeOK
  <2>4. (CHOOSE i \in DOMAIN written : written[i].frame = <<e.frame[1], e.frame[2]>>) = Len(handled) + 1
    BY <1>1, <2>1, <2>2, <2>3
  <2> QED
    BY <2>4 DEF SizeOf, e
<1> QED
  BY <1>1, <1>5, <1>6 DEF Length, e

-----------------------------------------------------------------------------
\* Types

LEMMA TypeStep ==
  ASSUME TypeOK, WriterInv, NameInv, StreamInv, GoInv, FramesIntact, [Next]_vars
  PROVE  TypeOK'
<1> USE FramesAssumption
<1>1. ASSUME NEW w \in Writers, NewMessage(w) PROVE TypeOK'
  <2>1. /\ made' \in [Writers -> Nat] /\ size' \in [Writers -> Nat]
        /\ tries' \in [Writers -> Nat]
        /\ phase' \in [Writers -> {"idle", "marshal", "write"}]
    BY <1>1, SMTT(30) DEF NewMessage, TypeOK
  <2> QED
    BY <1>1, <2>1 DEF NewMessage, TypeOK, readers
<1>2. ASSUME NEW w \in Writers, TooSmall(w) PROVE TypeOK'
  <2>1. Expand(w) \in Seq(Byte)
    BY DEF Expand, Byte, NoByte, TypeOK
  <2> QED
    BY <1>2, <2>1, SMTT(30) DEF TooSmall, TypeOK, readers
<1>3. ASSUME NEW w \in Writers, Marshal(w) PROVE TypeOK'
  <2>1. Frame(w) \in Writers \X Nat /\ Header + size[w] \in Nat /\ buf[w] \in Seq(Byte)
        /\ Header + size[w] <= Len(buf[w])
    BY <1>3, Room DEF Marshal
  <2> DEFINE end == Header + size[w]
             b == Bytes(Frame(w), 1, end) \o SubSeq(buf[w], end + 1, Len(buf[w]))
  <2>2. b \in Seq(Byte)
    BY <2>1, Filled
  <2>3. buf' = [buf EXCEPT ![w] = b]
    BY <1>3 DEF Marshal
  <2> HIDE DEF b
  <2> QED
    BY <1>3, <2>2, <2>3 DEF Marshal, TypeOK, readers
<1>4. ASSUME NEW w \in Writers, Write(w) PROVE TypeOK'
  <2>1. Framed(w) \in Seq(Byte)
    BY <1>4, Beginning DEF Write, WriterInv, TypeOK, Framed
  <2>2. [frame |-> Frame(w), size |-> size[w]] \in [frame : Writers \X Nat, size : Nat]
    BY DEF Frame, TypeOK
  <2>3. /\ wire \o Framed(w) \in Seq(Byte)
        /\ Append(written, [frame |-> Frame(w), size |-> size[w]]) \in
             Seq([frame : Writers \X Nat, size : Nat])
    BY <2>1, <2>2, ConcatProperties, AppendProperties DEF TypeOK
  <2>4. /\ wire' \in Seq(Byte) /\ written' \in Seq([frame : Writers \X Nat, size : Nat])
        /\ phase' \in [Writers -> {"idle", "marshal", "write"}]
    BY <1>4, <2>3 DEF Write, TypeOK
  <2> QED
    BY <1>4, <2>4 DEF Write, TypeOK, readers
<1>5. ASSUME Break PROVE TypeOK'
  BY <1>5 DEF Break, TypeOK, writers, readers
<1>6. ASSUME NEW k \in 1..Len(wire), GoRead(k) \/ WebRead(k) PROVE TypeOK'
  <2>1. got' \in Seq(Byte) /\ wire' \in Seq(Byte)
    <3>1. got \in Seq(Byte) /\ wire \in Seq(Byte)
      BY DEF TypeOK
    <3>2. /\ got' = got \o SubSeq(wire, 1, k)
          /\ wire' = SubSeq(wire, k + 1, Len(wire))
      BY <1>6 DEF GoRead, WebRead
    <3> QED
      BY <3>1, <3>2, Pieces
  <2> QED
    BY <1>6, <2>1 DEF GoRead, WebRead, TypeOK, writers
<1>7. ASSUME GoHeader \/ WebKeeps \/ ReadFails PROVE TypeOK'
  <2>1. ASSUME GoHeader PROVE need' \in Nat
    <3>1. Length(got) \in Nat
      BY <2>1, LengthIsSize DEF GoHeader, TypeOK
    <3> QED
      BY <2>1, <3>1 DEF GoHeader
  <2> QED
    BY <1>7, <2>1 DEF GoHeader, WebKeeps, ReadFails, TypeOK, writers
<1>8. ASSUME NEW n \in Nat, Header <= n, n <= Len(got),
             Handed(SubSeq(got, 1, Header), SubSeq(got, Header + 1, n))
      PROVE  handled' \in Seq([header : Seq(Byte), payload : Seq(Byte)])
  <2>1. SubSeq(got, 1, Header) \in Seq(Byte) /\ SubSeq(got, Header + 1, n) \in Seq(Byte)
    BY <1>8, Beginning DEF TypeOK
  <2> DEFINE r == [header |-> SubSeq(got, 1, Header), payload |-> SubSeq(got, Header + 1, n)]
  <2>2. r \in [header : Seq(Byte), payload : Seq(Byte)]
    BY <2>1
  <2>3. handled' = Append(handled, r)
    BY <1>8 DEF Handed
  <2> HIDE DEF r
  <2> QED
    BY <2>2, <2>3, AppendProperties DEF TypeOK
<1>9. ASSUME GoPayload PROVE TypeOK'
  <2>1. handled' \in Seq([header : Seq(Byte), payload : Seq(Byte)])
    BY <1>8, <1>9 DEF GoPayload, GoInv, TypeOK
  <2> QED
    BY <1>9, <2>1 DEF GoPayload, TypeOK, writers
<1>10. ASSUME WebTakes PROVE TypeOK'
  <2> DEFINE end == Header + Length(got)
  <2>1. end \in Nat /\ Header <= end /\ end <= Len(got)
    <3>1. Length(got) \in Nat /\ Header + Length(got) <= Len(got)
      BY <1>10, LengthIsSize DEF WebTakes, Whole, TypeOK
    <3> QED
      BY <3>1 DEF TypeOK
  <2>2. /\ Handed(SubSeq(got, 1, Header), SubSeq(got, Header + 1, end))
        /\ got' = SubSeq(got, end + 1, Len(got))
    BY <1>10 DEF WebTakes
  <2> HIDE DEF end
  <2>3. handled' \in Seq([header : Seq(Byte), payload : Seq(Byte)])
    BY <1>8, <2>1, <2>2
  <2>4. got' \in Seq(Byte)
    BY <2>1, <2>2, SubSeqProperties DEF TypeOK
  <2> QED
    BY <1>10, <2>3, <2>4 DEF WebTakes, TypeOK, writers
<1>11. CASE UNCHANGED vars
  BY <1>11 DEF vars, writers, readers, TypeOK
<1> QED
  BY <1>1, <1>2, <1>3, <1>4, <1>5, <1>6, <1>7, <1>9, <1>10, <1>11 DEF Next, Reader

-----------------------------------------------------------------------------
\* The writers

LEMMA WriterStep ==
  ASSUME TypeOK, WriterInv, [Next]_vars
  PROVE  WriterInv'
<1> USE FramesAssumption
<1>1. ASSUME UNCHANGED writers PROVE WriterInv'
  BY <1>1 DEF writers, WriterInv, Fits, Frame
<1>2. ASSUME NEW w \in Writers,
             \A v \in Writers : v # w => /\ phase'[v] = phase[v] /\ made'[v] = made[v]
                                         /\ size'[v] = size[v] /\ buf'[v] = buf[v]
                                         /\ tries'[v] = tries[v],
             phase'[w] = "write" =>
               /\ Header + size'[w] <= Len(buf'[w])
               /\ \A j \in 1..(Header + size'[w]) : buf'[w][j] = <<Frame(w)', j>>,
             phase'[w] = "marshal" => tries'[w] = 1 \/ (tries'[w] = 2 /\ Fits(w)')
      PROVE  WriterInv'
  <2> SUFFICES ASSUME NEW v \in Writers
      PROVE /\ phase'[v] = "write" =>
                 /\ Header + size'[v] <= Len(buf'[v])
                 /\ \A j \in 1..(Header + size'[v]) : buf'[v][j] = <<Frame(v)', j>>
            /\ phase'[v] = "marshal" => tries'[v] = 1 \/ (tries'[v] = 2 /\ Fits(v)')
    BY DEF WriterInv
  <2>1. CASE v = w
    BY <1>2, <2>1
  <2>2. CASE v # w
    BY <1>2, <2>2 DEF WriterInv, Fits, Frame
  <2> QED
    BY <2>1, <2>2
<1>3. ASSUME NEW w \in Writers, NewMessage(w) PROVE WriterInv'
  BY <1>2, <1>3 DEF NewMessage, TypeOK
<1>4. ASSUME NEW w \in Writers, TooSmall(w) PROVE WriterInv'
  <2>1. tries[w] = 1
    BY <1>4 DEF TooSmall, WriterInv
  <2>2. /\ phase'[w] = "marshal" /\ size'[w] = size[w] /\ tries'[w] = 2
        /\ buf'[w] = Expand(w)
    BY <1>4, <2>1 DEF TooSmall, TypeOK
  <2>3. Len(Expand(w)) = Header + size[w] + Slack
    BY DEF Expand, TypeOK
  <2>4. Fits(w)'
    BY <2>2, <2>3, SMTT(30) DEF Fits, TypeOK
  <2> QED
    BY <1>2, <1>4, <2>2, <2>4 DEF TooSmall, TypeOK
<1>5. ASSUME NEW w \in Writers, Marshal(w) PROVE WriterInv'
  <2> DEFINE end == Header + size[w]
             b == Bytes(Frame(w), 1, end) \o SubSeq(buf[w], end + 1, Len(buf[w]))
  <2>1. /\ Frame(w) \in Writers \X Nat /\ end \in Nat /\ buf[w] \in Seq(Byte)
        /\ end <= Len(buf[w])
    BY <1>5, Room DEF Marshal
  <2> HIDE DEF end
  <2>2. Len(b) = Len(buf[w]) /\ \A j \in 1..end : b[j] = <<Frame(w), j>>
    <3> DEFINE f == Frame(w)
               s == buf[w]
    <3>1. f \in Writers \X Nat /\ end \in Nat /\ s \in Seq(Byte) /\ end <= Len(s)
      BY <2>1
    <3> HIDE DEF f, s
    <3>2. /\ Len(Bytes(f, 1, end) \o SubSeq(s, end + 1, Len(s))) = Len(s)
          /\ \A j \in 1..end : (Bytes(f, 1, end) \o SubSeq(s, end + 1, Len(s)))[j] = <<f, j>>
      BY <3>1, Filled
    <3> QED
      BY <3>2 DEF f, s
  <2>3. buf' = [buf EXCEPT ![w] = b]
    BY <1>5 DEF Marshal, end
  <2> HIDE DEF b
  <2>4. buf'[w] = b /\ phase'[w] = "write" /\ size'[w] = size[w] /\ Frame(w)' = Frame(w)
    BY <1>5, <2>3 DEF Marshal, TypeOK, Frame
  <2>5. \A v \in Writers : v # w => /\ phase'[v] = phase[v] /\ made'[v] = made[v]
                                    /\ size'[v] = size[v] /\ buf'[v] = buf[v]
                                    /\ tries'[v] = tries[v]
    BY <1>5, <2>3 DEF Marshal, TypeOK
  <2> QED
    BY <1>2, <2>1, <2>2, <2>4, <2>5 DEF end
<1>6. ASSUME NEW w \in Writers, Write(w) PROVE WriterInv'
  BY <1>2, <1>6 DEF Write, TypeOK
<1>7. CASE Break \/ Reader
  BY <1>1, <1>7 DEF Break, Reader, GoRead, WebRead, GoHeader, GoPayload, WebTakes,
     WebKeeps, ReadFails
<1>8. CASE UNCHANGED vars
  BY <1>1, <1>8 DEF vars
<1> QED
  BY <1>3, <1>4, <1>5, <1>6, <1>7, <1>8 DEF Next

LEMMA FrameNames ==
  ASSUME TypeOK, NEW i \in 1..Len(written)
  PROVE  /\ written[i] \in [frame : Writers \X Nat, size : Nat]
         /\ written[i].frame[1] \in Writers /\ written[i].frame[2] \in Nat
         /\ written[i].frame = <<written[i].frame[1], written[i].frame[2]>>
<1>1. written[i] \in [frame : Writers \X Nat, size : Nat]
  BY ElementOfSeq DEF TypeOK
<1> QED
  BY <1>1

LEMMA NameStep ==
  ASSUME TypeOK, NameInv, [Next]_vars
  PROVE  NameInv'
<1>1. ASSUME UNCHANGED written,
             \A w \in Writers :
               /\ made'[w] \in {made[w], made[w] + 1}
               /\ phase'[w] # "idle" /\ made'[w] = made[w] => phase[w] # "idle"
      PROVE  NameInv'
  <2> SUFFICES ASSUME NEW i \in 1..Len(written), NEW w \in Writers, written[i].frame[1] = w
               PROVE  /\ written[i].frame[2] <= made'[w]
                      /\ phase'[w] # "idle" => written[i].frame[2] < made'[w]
    BY <1>1 DEF NameInv
  <2>1. written[i].frame[2] \in Nat /\ made[w] \in Nat
    BY FrameNames DEF TypeOK
  <2>2. /\ written[i].frame[2] <= made[w]
        /\ phase[w] # "idle" => written[i].frame[2] < made[w]
    BY DEF NameInv
  <2> QED
    BY <1>1, <2>1, <2>2
<1>2. ASSUME NEW w \in Writers, NewMessage(w) PROVE NameInv'
  BY <1>1, <1>2 DEF NewMessage, TypeOK
<1>3. ASSUME NEW w \in Writers, TooSmall(w) \/ Marshal(w) PROVE NameInv'
  BY <1>1, <1>3 DEF TooSmall, Marshal, TypeOK
<1>4. ASSUME NEW w \in Writers, Write(w) PROVE NameInv'
  <2>1. /\ UNCHANGED made /\ phase[w] = "write" /\ phase'[w] = "idle"
        /\ \A v \in Writers : v # w => phase'[v] = phase[v]
    BY <1>4 DEF Write, TypeOK
  <2>2. CASE UNCHANGED written
    <3>1. \A v \in Writers : phase'[v] # "idle" => phase[v] # "idle"
      BY <2>1
    <3> QED
      BY <1>1, <2>1, <2>2, <3>1
  <2>3. CASE written' = Append(written, [frame |-> Frame(w), size |-> size[w]])
    <3> DEFINE n == Len(written)
    <3>1. /\ n \in Nat /\ Len(written') = n + 1
          /\ \A i \in 1..n : written'[i] = written[i]
          /\ written'[n + 1].frame = Frame(w)
      <4>1. [frame |-> Frame(w), size |-> size[w]] \in [frame : Writers \X Nat, size : Nat]
        BY DEF Frame, TypeOK
      <4>2. [frame |-> Frame(w), size |-> size[w]].frame = Frame(w)
        OBVIOUS
      <4> QED
        BY <2>3, <4>1, <4>2, AppendProperties, LenProperties DEF TypeOK
    <3>2. \A i \in 1..n : written[i].frame # Frame(w)
      <4> SUFFICES ASSUME NEW i \in 1..n, written[i].frame = Frame(w) PROVE FALSE
        OBVIOUS
      <4>1. written[i].frame[1] = w /\ written[i].frame[2] = made[w]
        BY DEF Frame
      <4>2. made[w] < made[w]
        BY <2>1, <4>1 DEF NameInv
      <4> QED
        BY <4>2 DEF TypeOK
    <3>3. \A i \in 1..(n + 1) : i \in 1..n \/ i = n + 1
      BY <3>1
    <3>4. ASSUME NEW i \in 1..(n + 1), NEW v \in Writers, written'[i].frame[1] = v
          PROVE  /\ written'[i].frame[2] <= made'[v]
                 /\ phase'[v] # "idle" => written'[i].frame[2] < made'[v]
      <4>1. CASE i \in 1..n
        <5>1. /\ written[i].frame[2] <= made[v]
              /\ phase[v] # "idle" => written[i].frame[2] < made[v]
          BY <3>1, <3>4, <4>1 DEF NameInv
        <5> QED
          BY <2>1, <3>1, <4>1, <5>1
      <4>2. CASE i = n + 1
        <5>1. v = w /\ written'[i].frame[2] = made[w] /\ made[w] \in Nat
          BY <3>1, <3>4, <4>2 DEF Frame, TypeOK
        <5> QED
          BY <2>1, <5>1
      <4> QED
        BY <3>3, <4>1, <4>2
    <3>5. ASSUME NEW i \in 1..(n + 1), NEW j \in 1..(n + 1), written'[i].frame = written'[j].frame
          PROVE  i = j
      <4>1. CASE i \in 1..n /\ j \in 1..n
        BY <3>1, <3>5, <4>1 DEF NameInv
      <4>2. CASE i = n + 1 \/ j = n + 1
        BY <3>1, <3>2, <3>3, <3>5, <4>2
      <4> QED
        BY <3>3, <4>1, <4>2
    <3> HIDE DEF n
    <3> QED
      BY <3>1, <3>4, <3>5 DEF NameInv
  <2> QED
    BY <1>4, <2>2, <2>3 DEF Write
<1>5. CASE Break \/ Reader
  BY <1>1, <1>5 DEF Break, Reader, GoRead, WebRead, GoHeader, GoPayload, WebTakes,
     WebKeeps, ReadFails, writers
<1>6. CASE UNCHANGED vars
  BY <1>1, <1>6 DEF vars, writers
<1> QED
  BY <1>2, <1>3, <1>4, <1>5, <1>6 DEF Next

-----------------------------------------------------------------------------
\* The stream

LEMMA Lengths ==
  ASSUME TypeOK, FramesIntact
  PROVE  /\ Len(got) \in Nat /\ Len(wire) \in Nat /\ Unhandled \in Nat
         /\ Len(written) \in Nat /\ Len(handled) \in Nat /\ Len(handled) \in 0..Len(written)
BY LenProperties DEF TypeOK, FramesIntact, Unhandled

\* What comes moves from the stream to the reader, or is lost from its end on.
LEMMA StreamMoves ==
  ASSUME TypeOK, FramesIntact, StreamInv, UNCHANGED <<written, handled>>,
         Unhandled' \in Nat, Unhandled' <= Unhandled,
         ~broken' => ~broken /\ Unhandled' = Unhandled,
         \A k \in 1..Unhandled : k <= Unhandled' => Unread(k)' = Unread(k),
         broken' => wire' = <<>>
  PROVE  StreamInv'
<1> DEFINE h == Len(handled)
           n == Len(written)
<1>1. PICK off \in [0..n -> Nat] : Ends(off) /\ InPlace(off)
  BY DEF StreamInv
<1>2. Unhandled \in Nat /\ off[h] \in Nat /\ off[n] \in Nat /\ n \in Nat /\ h \in Nat
  BY <1>1, Lengths
<1>3. Ends(off)'
  BY <1>1 DEF Ends
<1>4. /\ Unhandled' + off[h] <= off[n]
      /\ ~broken' => Unhandled' + off[h] = off[n]
  BY <1>1, <1>2 DEF InPlace
<1>5. ASSUME NEW i \in (h + 1)..n, NEW j \in 1..(Header + written[i].size),
             NEW k \in 1..Unhandled', k + off[h] = off[i - 1] + j
      PROVE  Unread(k)' = <<written[i].frame, j>>
  <2>1. k \in 1..Unhandled /\ k <= Unhandled'
    BY <1>2, <1>5
  <2>2. Unread(k) = <<written[i].frame, j>>
    BY <1>1, <1>5, <2>1 DEF InPlace
  <2> QED
    BY <2>1, <2>2
<1>6. InPlace(off)'
  BY <1>4, <1>5 DEF InPlace
<1> QED
  BY <1>1, <1>3, <1>6 DEF StreamInv

\* Where one more frame ends.
LEMMA OneMore ==
  ASSUME NEW n \in Nat, NEW off \in [0..n -> Nat], NEW len \in Nat
  PROVE  \E off2 \in [0..(n + 1) -> Nat] :
           (\A i \in 0..n : off2[i] = off[i]) /\ off2[n + 1] = off[n] + len
<1> DEFINE off2 == [i \in 0..(n + 1) |-> IF i \in 0..n THEN off[i] ELSE off[n] + len]
<1>1. /\ off2 \in [0..(n + 1) -> Nat] /\ \A i \in 0..n : off2[i] = off[i]
      /\ off2[n + 1] = off[n] + len
  <2>1. /\ n \in 0..n /\ n + 1 \in 0..(n + 1) /\ ~(n + 1 \in 0..n)
        /\ \A i \in 0..n : i \in 0..(n + 1) /\ off[i] \in Nat
    OBVIOUS
  <2> QED
    BY <2>1
<1> HIDE DEF off2
<1> QED
  BY <1>1

\* What the write of a frame adds to the frames and to the stream.
Grows(f, m) ==
  /\ Len(written') = Len(written) + 1
  /\ \A i \in 1..Len(written) : written'[i] = written[i]
  /\ written'[Len(written) + 1].frame = f /\ written'[Len(written) + 1].size = m
  /\ Unhandled' = Unhandled + (Header + m)
  /\ \A k \in 1..Unhandled : Unread(k)' = Unread(k)
  /\ \A k \in (Unhandled + 1)..(Unhandled + (Header + m)) :
       Unread(k)' = <<f, k - Unhandled>>

\* A frame that is written ends where the stream ends.
LEMMA StreamGrows ==
  ASSUME TypeOK, FramesIntact, StreamInv, ~broken, NEW f, NEW m \in Nat,
         Grows(f, m),
         UNCHANGED <<handled, broken>>
  PROVE  StreamInv'
<1> USE FramesAssumption
<1> DEFINE h == Len(handled)
           n == Len(written)
           len == Header + m
<1>1. PICK off \in [0..n -> Nat] : Ends(off) /\ InPlace(off)
  BY DEF StreamInv
<1>2. /\ Unhandled \in Nat /\ h \in 0..n /\ n \in Nat /\ h \in Nat /\ len \in Nat
      /\ off[h] \in Nat /\ off[n] \in Nat /\ Unhandled + off[h] = off[n]
  BY <1>1, Lengths DEF InPlace
<1>3. PICK off2 \in [0..(n + 1) -> Nat] :
        (\A i \in 0..n : off2[i] = off[i]) /\ off2[n + 1] = off[n] + len
  <2>1. n \in Nat /\ off \in [0..n -> Nat] /\ len \in Nat
    BY <1>1, <1>2
  <2> HIDE DEF n, len
  <2> QED
    BY <2>1, OneMore
<1>4. /\ \A i \in 1..(n + 1) : i \in 1..n \/ i = n + 1
      /\ \A i \in 0..(n + 1) : i \in 0..n \/ i = n + 1
  <2>1. n \in Nat
    BY <1>2
  <2> HIDE DEF n
  <2> QED
    BY <2>1
<1>5. ASSUME NEW i \in 1..(n + 1)
      PROVE  off2[i] = off2[i - 1] + Header + written'[i].size
  <2>1. CASE i \in 1..n
    <3>1. off[i] = off[i - 1] + Header + written[i].size
      BY <1>1, <2>1 DEF Ends
    <3>2. i - 1 \in 0..n /\ i \in 0..n
      BY <1>2, <2>1
    <3> QED
      BY <1>3, <2>1, <3>1, <3>2 DEF Grows
  <2>2. CASE i = n + 1
    <3>1. i - 1 = n /\ n \in 0..n
      BY <1>2, <2>2
    <3>2. off2[i] = off[n] + (Header + m) /\ off2[i - 1] = off[n] /\ written'[i].size = m
      BY <1>3, <2>2, <3>1 DEF Grows
    <3> QED
      BY <1>2, <3>2
  <2> QED
    BY <1>4, <2>1, <2>2
<1>6. ASSUME NEW i \in 0..(n + 1) PROVE off2[i] <= off2[n + 1]
  <2>1. CASE i \in 0..n
    <3>1. off[i] <= off[n] /\ off[i] \in Nat
      BY <1>1, <2>1 DEF Ends
    <3> QED
      BY <1>2, <1>3, <2>1, <3>1
  <2>2. CASE i = n + 1
    BY <1>2, <1>3, <2>2
  <2> QED
    BY <1>4, <2>1, <2>2
<1>7. Ends(off2)'
  BY <1>5, <1>6 DEF Ends, Grows
<1>8. off2[h] = off[h] /\ Unhandled' + off2[h] = off2[n + 1]
  BY <1>2, <1>3 DEF Grows
<1>9. ASSUME NEW i \in (h + 1)..(n + 1), NEW j \in 1..(Header + written'[i].size),
             NEW k \in 1..Unhandled', k + off2[h] = off2[i - 1] + j
      PROVE  Unread(k)' = <<written'[i].frame, j>>
  <2>1. CASE i \in 1..n
    <3>1. i - 1 \in 0..n /\ i \in 0..n /\ i \in (h + 1)..n
      BY <1>2, <2>1
    <3>2. /\ off[i] = off[i - 1] + Header + written[i].size /\ off[i] <= off[n]
          /\ off[i] \in Nat /\ off[i - 1] \in Nat
      BY <1>1, <2>1, <3>1 DEF Ends
    <3>3. written'[i] = written[i] /\ off2[i - 1] = off[i - 1]
      BY <1>3, <2>1, <3>1 DEF Grows
    <3>4. written[i].size \in Nat
      BY <2>1, FrameNames
    <3>5. j \in 1..(Header + written[i].size) /\ k + off[h] = off[i - 1] + j
      BY <1>8, <1>9, <3>3
    <3>6. k \in 1..Unhandled
      <4>1. k \in Nat /\ k >= 1 /\ j \in Nat /\ j <= Header + written[i].size
        BY <1>2, <3>4, <3>5
      <4>2. k + off[h] <= off[n]
        <5>1. off[i - 1] + j <= off[i]
          <6> DEFINE a == off[i - 1]
                     b == off[i]
                     z == written[i].size
          <6>1. /\ a \in Nat /\ b = a + Header + z /\ z \in Nat /\ j \in Nat
                /\ j <= Header + z
            BY <3>2, <3>4, <4>1
          <6> HIDE DEF a, b, z
          <6> QED
            BY <6>1 DEF a, b
        <5> QED
          BY <1>2, <3>2, <3>5, <4>1, <5>1, SMTT(30)
      <4> QED
        BY <1>2, <4>1, <4>2
    <3>7. Unread(k) = <<written[i].frame, j>>
      BY <1>1, <3>1, <3>5, <3>6 DEF InPlace
    <3> QED
      BY <3>3, <3>6, <3>7 DEF Grows
  <2>2. CASE i = n + 1
    <3>1. i - 1 = n /\ n \in 0..n /\ written'[i].size = m /\ written'[i].frame = f
      BY <1>2, <2>2 DEF Grows
    <3>2. off2[i - 1] = off[n] /\ j \in 1..(Header + m)
      BY <1>3, <3>1
    <3>3. k = Unhandled + j
      BY <1>2, <1>8, <1>9, <3>2
    <3>4. k \in (Unhandled + 1)..(Unhandled + (Header + m)) /\ k - Unhandled = j
      BY <1>2, <3>2, <3>3
    <3> QED
      BY <3>1, <3>4 DEF Grows
  <2>3. i \in 1..(n + 1)
    BY <1>2
  <2> QED
    BY <1>4, <2>1, <2>2, <2>3
<1>10. InPlace(off2)'
  BY <1>8, <1>9 DEF InPlace, Grows
<1> QED
  BY <1>3, <1>7, <1>10 DEF StreamInv, Grows

LEMMA Behind ==
  ASSUME NEW s \in Seq(Byte), NEW b \in Seq(Byte)
  PROVE  /\ Len(s \o b) = Len(s) + Len(b)
         /\ \A i \in 1..Len(s) : (s \o b)[i] = s[i]
         /\ \A i \in (Len(s) + 1)..(Len(s) + Len(b)) : (s \o b)[i] = b[i - Len(s)]
<1>1. Len(s) \in Nat /\ Len(b) \in Nat
  BY LenProperties
<1>2. /\ \A i \in 1..Len(s) : i \in 1..(Len(s) + Len(b)) /\ i <= Len(s)
      /\ \A i \in (Len(s) + 1)..(Len(s) + Len(b)) :
           i \in 1..(Len(s) + Len(b)) /\ ~(i <= Len(s))
  <2> DEFINE a == Len(s)
             c == Len(b)
  <2>1. a \in Nat /\ c \in Nat
    BY <1>1
  <2> HIDE DEF a, c
  <2>2. /\ \A i \in 1..a : i \in 1..(a + c) /\ i <= a
        /\ \A i \in (a + 1)..(a + c) : i \in 1..(a + c) /\ ~(i <= a)
    BY <2>1
  <2> QED
    BY <2>2 DEF a, c
<1> QED
  BY <1>2, ConcatProperties

LEMMA WriteGrows ==
  ASSUME TypeOK, WriterInv, NEW w \in Writers, Write(w), ~broken
  PROVE  Grows(Frame(w), size[w])
<1> USE FramesAssumption
<1> DEFINE f == Frame(w)
           b == Framed(w)
           len == Header + size[w]
           e == [frame |-> f, size |-> size[w]]
<1>1. /\ f \in Writers \X Nat /\ len \in Nat /\ size[w] \in Nat
      /\ buf[w] \in Seq(Byte) /\ wire \in Seq(Byte)
      /\ Len(got) \in Nat /\ Len(wire) \in Nat
  BY LenProperties DEF Frame, TypeOK
<1>2. b \in Seq(Byte) /\ Len(b) = len /\ \A j \in 1..len : b[j] = <<f, j>>
  <2>1. phase[w] = "write"
    BY DEF Write
  <2>2. len <= Len(buf[w]) /\ \A j \in 1..len : buf[w][j] = <<f, j>>
    BY <2>1 DEF WriterInv
  <2>3. /\ SubSeq(buf[w], 1, len) \in Seq(Byte) /\ Len(SubSeq(buf[w], 1, len)) = len
        /\ \A j \in 1..len : SubSeq(buf[w], 1, len)[j] = buf[w][j]
    <3> DEFINE s == buf[w]
               m == len
    <3>1. s \in Seq(Byte) /\ m \in Nat /\ m <= m /\ m <= Len(s)
      BY <1>1, <2>2
    <3> HIDE DEF s, m
    <3>2. /\ SubSeq(s, 1, m) \in Seq(Byte) /\ Len(SubSeq(s, 1, m)) = m
          /\ \A j \in 1..m : SubSeq(s, 1, m)[j] = s[j]
      BY <3>1, Beginning
    <3> QED
      BY <3>2 DEF s, m
  <2> QED
    BY <2>2, <2>3 DEF Framed
<1>3. /\ e \in [frame : Writers \X Nat, size : Nat]
      /\ e.frame = f /\ e.size = size[w]
  BY <1>1
<1>4. wire' = wire \o b /\ written' = Append(written, e) /\ got' = got
  BY DEF Write, readers
<1> HIDE DEF f, b, len, e
<1>5. /\ Len(written') = Len(written) + 1
      /\ \A i \in 1..Len(written) : written'[i] = written[i]
      /\ written'[Len(written) + 1] = e
  BY <1>3, <1>4, AppendProperties DEF TypeOK
<1>6. /\ Len(wire') = Len(wire) + len
      /\ \A i \in 1..Len(wire) : wire'[i] = wire[i]
      /\ \A i \in (Len(wire) + 1)..(Len(wire) + len) : wire'[i] = b[i - Len(wire)]
  BY <1>1, <1>2, <1>4, Behind
<1> DEFINE g == Len(got)
           n == Len(wire)
<1>7. /\ g \in Nat /\ n \in Nat /\ Len(got') = g /\ Len(wire') = n + len
      /\ \A i \in 1..n : wire'[i] = wire[i]
      /\ \A i \in (n + 1)..(n + len) : wire'[i] = b[i - n]
      /\ Unhandled = g + n /\ Unhandled' = Len(got') + Len(wire')
  BY <1>1, <1>4, <1>6 DEF Unhandled
<1>8. /\ \A k : Unread(k) = IF k <= g THEN got[k] ELSE wire[k - g]
      /\ \A k : Unread(k)' = IF k <= g THEN got[k] ELSE wire'[k - g]
  BY <1>4 DEF Unread
<1> HIDE DEF g, n
<1>9. Unhandled' = Unhandled + len
  <2> DEFINE x == len
  <2>1. /\ x \in Nat /\ g \in Nat /\ n \in Nat
        /\ Unhandled = g + n /\ Unhandled' = g + (n + x)
    BY <1>1, <1>7 DEF len
  <2> HIDE DEF x
  <2>2. Unhandled' = Unhandled + x
    BY <2>1
  <2> QED
    BY <2>2 DEF x
<1>10. ASSUME NEW k \in 1..(g + n) PROVE Unread(k)' = Unread(k)
  <2>1. CASE k <= g
    BY <1>8, <2>1
  <2>2. CASE ~(k <= g)
    <3>1. k - g \in 1..n
      BY <1>7, <2>2
    <3> QED
      BY <1>7, <1>8, <2>2, <3>1
  <2> QED
    BY <2>1, <2>2
<1>11. ASSUME NEW k \in (g + n + 1)..(g + n + len)
       PROVE  Unread(k)' = <<f, k - (g + n)>>
  <2>1. /\ k - g \in (n + 1)..(n + len) /\ ~(k <= g)
        /\ k - g - n = k - (g + n) /\ k - (g + n) \in 1..len
    BY <1>1, <1>7
  <2>2. wire'[k - g] = b[k - g - n]
    BY <1>7, <2>1
  <2> QED
    BY <1>2, <1>8, <2>1, <2>2
<1> QED
  BY <1>1, <1>3, <1>5, <1>7, <1>9, <1>10, <1>11 DEF Grows, f, len

\* What was read begins with the whole of the next frame, which is n bytes long.
WholeFrame(n) ==
  /\ Len(handled) + 1 \in 1..Len(written)
  /\ n = Header + written[Len(handled) + 1].size /\ n <= Len(got)

\* What handling a packet takes from the frames and from what was read.
Takes(end) ==
  /\ WholeFrame(end)
  /\ Len(handled') = Len(handled) + 1
  /\ Len(got') = Len(got) - end
  /\ \A k \in 1..(Len(got) - end) : got'[k] = got[end + k]
  /\ UNCHANGED <<written, wire, broken>>

\* A frame is taken from the beginning of what was read.
LEMMA StreamTakes ==
  ASSUME TypeOK, FramesIntact, StreamInv, NEW end \in Nat, Takes(end)
  PROVE  StreamInv'
<1> USE FramesAssumption
<1> DEFINE h == Len(handled)
           n == Len(written)
           g == Len(got)
           x == Len(wire)
<1>1. PICK off \in [0..n -> Nat] : Ends(off) /\ InPlace(off)
  BY DEF StreamInv
<1>2. /\ h \in Nat /\ n \in Nat /\ g \in Nat /\ x \in Nat /\ h + 1 \in 1..n
      /\ end <= g /\ end \in Nat
  BY Lengths DEF WholeFrame, Takes
<1>3. Unhandled = g + x /\ Unhandled' = g - end + x
  BY DEF Unhandled, WholeFrame, Takes
<1>4. /\ \A k : Unread(k) = IF k <= g THEN got[k] ELSE wire[k - g]
      /\ \A k : Unread(k)' = IF k <= g - end THEN got'[k] ELSE wire[k - (g - end)]
  BY DEF Unread, WholeFrame, Takes
<1>5. Ends(off)'
  BY <1>1 DEF Ends, Takes
<1>6. \A k \in 1..(g - end) : got'[k] = got[end + k]
  BY DEF WholeFrame, Takes
<1>7. /\ Unhandled + off[h] <= off[n]
      /\ ~broken => Unhandled + off[h] = off[n]
      /\ \A i \in (h + 1)..n : \A j \in 1..(Header + written[i].size) : \A k \in 1..Unhandled :
           k + off[h] = off[i - 1] + j => Unread(k) = <<written[i].frame, j>>
  BY <1>1 DEF InPlace
<1>8. /\ end = Header + written[h + 1].size
      /\ \A i \in 1..n : written[i].size \in Nat /\ off[i] = off[i - 1] + Header + written[i].size
  BY <1>1, FrameNames DEF WholeFrame, Takes, Ends
<1> DEFINE a == off[h]
           b == off[n]
           c == off[h + 1]
           u == Unhandled
           v == Unhandled'
<1> HIDE DEF h, n, g, x, u, v
<1>9. a \in Nat /\ b \in Nat /\ c \in Nat /\ c = a + end
  <2>1. /\ h \in 0..n /\ n \in 0..n /\ h + 1 \in 0..n /\ h + 1 \in 1..n /\ (h + 1) - 1 = h
    BY <1>2
  <2>2. a \in Nat /\ b \in Nat /\ c \in Nat
    BY <1>1, <2>1
  <2>3. c = a + Header + written[h + 1].size /\ written[h + 1].size \in Nat
    BY <1>8, <2>1
  <2> DEFINE z == written[h + 1].size
  <2> HIDE DEF a, b, c, z
  <2>4. c = a + Header + z /\ z \in Nat /\ end = Header + z /\ Header \in Nat
    BY <1>8, <2>3 DEF z
  <2> QED
    BY <2>2, <2>4
<1>10. u = g + x /\ v = g - end + x /\ u + a <= b /\ (~broken => u + a = b)
  BY <1>3, <1>7 DEF u, v
<1>11. /\ v + c <= b
      /\ ~broken => v + c = b
  <2> HIDE DEF a, b, c
  <2> QED
    BY <1>2, <1>9, <1>10
<1>12. ASSUME NEW k \in 1..v
      PROVE  k + end \in 1..u /\ Unread(k)' = Unread(k + end)
  <2>1. k + end \in 1..u
    BY <1>2, <1>10
  <2>2. CASE k <= g - end
    <3>1. k \in 1..(g - end) /\ k + end <= g /\ end + k = k + end
      BY <1>2, <2>2
    <3>2. Unread(k)' = got'[k] /\ Unread(k + end) = got[k + end]
      BY <1>4, <2>2, <3>1
    <3> QED
      BY <1>6, <2>1, <3>1, <3>2
  <2>3. CASE ~(k <= g - end)
    <3>1. ~(k + end <= g) /\ k - (g - end) = (k + end) - g
      BY <1>2, <2>3
    <3> QED
      BY <1>4, <2>1, <2>3, <3>1
  <2> QED
    BY <2>2, <2>3
<1>13. ASSUME NEW i \in ((h + 1) + 1)..n, NEW j \in 1..(Header + written[i].size),
             NEW k \in 1..v, k + c = off[i - 1] + j
       PROVE  Unread(k)' = <<written[i].frame, j>>
  <2>1. i \in (h + 1)..n /\ i \in 1..n /\ i - 1 \in 0..n
    BY <1>2
  <2>2. off[i - 1] \in Nat /\ written[i].size \in Nat
    BY <1>1, <1>8, <2>1
  <2>3. (k + end) + a = off[i - 1] + j
    <3> DEFINE y == off[i - 1]
               z == written[i].size
    <3>1. y \in Nat /\ z \in Nat /\ k + c = y + j /\ j \in 1..(Header + z)
      BY <1>13, <2>2
    <3> HIDE DEF y, z, a, b, c
    <3>2. (k + end) + a = y + j
      BY <1>2, <1>9, <3>1
    <3> QED
      BY <3>2 DEF y
  <2>4. Unread(k + end) = <<written[i].frame, j>>
    BY <1>7, <1>12, <2>1, <2>3 DEF u
  <2> QED
    BY <1>12, <2>4
<1>14. InPlace(off)'
  <2>1. Len(handled') = h + 1 /\ written' = written /\ broken' = broken /\ Len(written') = n
    BY DEF WholeFrame, Takes, h, n
  <2>2. Unhandled' = v /\ off[Len(handled')] = c /\ off[Len(written')] = b
    BY <2>1 DEF v
  <2>3. /\ Unhandled' + off[Len(handled')] <= off[Len(written')]
        /\ ~broken' => Unhandled' + off[Len(handled')] = off[Len(written')]
    <3>1. broken' = broken
      BY <2>1
    <3> HIDE DEF a, b, c
    <3> QED
      BY <1>2, <1>9, <1>10, <1>11, <2>2, <3>1
  <2>4. \A i \in (Len(handled') + 1)..Len(written') :
          \A j \in 1..(Header + written'[i].size) : \A k \in 1..Unhandled' :
            k + off[Len(handled')] = off[i - 1] + j => Unread(k)' = <<written'[i].frame, j>>
    BY <1>13, <2>1 DEF v
  <2> QED
    BY <2>3, <2>4 DEF InPlace
<1> QED
  BY <1>1, <1>5, <1>14 DEF StreamInv, n, Takes

\* A message is tried again only by a call that then finds room.
LEMMA TriesStep ==
  ASSUME TypeOK, WriterInv, TwoTries, [Next]_vars
  PROVE  TwoTries'
<1>1. CASE \E w \in Writers : NewMessage(w) \/ TooSmall(w) \/ Marshal(w) \/ Write(w)
  <2> SUFFICES ASSUME NEW w \in Writers, NewMessage(w) \/ TooSmall(w) \/ Marshal(w) \/ Write(w),
                      NEW v \in Writers
               PROVE  tries'[v] <= 2
    BY <1>1 DEF TwoTries
  <2>1. CASE TooSmall(w)
    <3>1. tries[w] = 1
      BY <2>1 DEF TooSmall, WriterInv
    <3> QED
      BY <2>1, <3>1 DEF TooSmall, TwoTries, TypeOK
  <2>2. CASE NewMessage(w)
    BY <2>2 DEF NewMessage, TwoTries, TypeOK
  <2>3. CASE Marshal(w) \/ Write(w)
    BY <2>3 DEF Marshal, Write, TwoTries
  <2> QED
    BY <2>1, <2>2, <2>3
<1>2. CASE UNCHANGED writers
  BY <1>2 DEF writers, TwoTries
<1> QED
  BY <1>1, <1>2 DEF Next, Break, Reader, GoRead, WebRead, GoHeader, GoPayload, WebTakes,
     WebKeeps, ReadFails, vars

-----------------------------------------------------------------------------
\* The packets that are handed on

\* A whole frame, cut behind its header, is the next of the frames written.
LEMMA NextFrame ==
  ASSUME TypeOK, StreamInv, FramesIntact, NEW n \in Nat, WholeFrame(n)
  PROVE  SubSeq(got, 1, Header) \o SubSeq(got, Header + 1, n) = FrameBytes(Len(handled) + 1)
<1> USE FramesAssumption
<1> DEFINE e == written[Len(handled) + 1]
           a == SubSeq(got, 1, Header) \o SubSeq(got, Header + 1, n)
           b == Bytes(e.frame, 1, n)
<1>1. got \in Seq(Byte) /\ Len(got) \in Nat
  BY LenProperties DEF TypeOK
<1>2. e \in [frame : Writers \X Nat, size : Nat]
  BY FrameNames DEF WholeFrame
<1>3. Header \in Nat /\ Header <= n /\ Len(got) >= 1
  <2> DEFINE z == e.size
             g == Len(got)
  <2>1. z \in Nat /\ n = Header + z /\ g \in Nat /\ n <= g
    BY <1>1, <1>2 DEF WholeFrame
  <2> HIDE DEF z, g
  <2>2. Header <= n /\ g >= 1
    BY <2>1
  <2> QED
    BY <2>2 DEF g
<1>4. \A j \in 1..n : got[j] = <<e.frame, j>>
  <2>1. \A j \in 1..n : j <= Len(got) => got[j] = <<e.frame, j>>
    BY <1>3, FirstBytes DEF WholeFrame
  <2>2. \A j \in 1..n : j <= Len(got)
    BY <1>1 DEF WholeFrame
  <2> QED
    BY <2>1, <2>2
<1>5. a \in Seq(Byte) /\ Len(a) = n /\ \A j \in 1..n : a[j] = got[j]
  <2> DEFINE s == got
             m == Header
  <2>1. s \in Seq(Byte) /\ m \in Nat /\ m <= n /\ n <= Len(s)
    BY <1>1, <1>3 DEF WholeFrame
  <2> HIDE DEF s, m
  <2>2. /\ SubSeq(s, 1, m) \o SubSeq(s, m + 1, n) \in Seq(Byte)
        /\ Len(SubSeq(s, 1, m) \o SubSeq(s, m + 1, n)) = n
        /\ \A i \in 1..n : (SubSeq(s, 1, m) \o SubSeq(s, m + 1, n))[i] = s[i]
    BY <2>1, Beginning
  <2> QED
    BY <2>2 DEF s, m
<1>6. b \in Seq(Byte) /\ Len(b) = n /\ \A j \in 1..n : b[j] = <<e.frame, j>>
  BY <1>2, BytesAre
<1> HIDE DEF a, b
<1>7. a = b
  BY <1>4, <1>5, <1>6, SeqEqual
<1>8. b = FrameBytes(Len(handled) + 1)
  <2>1. n = Header + e.size
    BY DEF WholeFrame
  <2> QED
    BY <2>1 DEF b, FrameBytes
<1> QED
  BY <1>7, <1>8 DEF a

\* The packet that is handed on is that frame, those before it stay.
LEMMA HandsOn ==
  ASSUME TypeOK, StreamInv, FramesIntact, NEW n \in Nat, WholeFrame(n),
         Handed(SubSeq(got, 1, Header), SubSeq(got, Header + 1, n)), written' = written
  PROVE  FramesIntact' /\ Len(handled') = Len(handled) + 1
<1> USE FramesAssumption
<1> DEFINE r == [header |-> SubSeq(got, 1, Header), payload |-> SubSeq(got, Header + 1, n)]
           h == Len(handled)
<1>1. r.header \o r.payload = FrameBytes(h + 1)
  BY NextFrame
<1>2. r \in [header : Seq(Byte), payload : Seq(Byte)]
  <2>1. got \in Seq(Byte) /\ Header <= n /\ Header \in Nat
    <3> DEFINE z == written[Len(handled) + 1].size
    <3>1. z \in Nat /\ n = Header + z
      BY FrameNames DEF WholeFrame
    <3> HIDE DEF z
    <3>2. Header <= n /\ Header \in Nat
      BY <3>1
    <3> QED
      BY <3>2 DEF TypeOK
  <2> DEFINE s == got
             m == Header
  <2>2. s \in Seq(Byte) /\ m \in Nat /\ m <= n /\ n <= Len(s)
    BY <2>1 DEF WholeFrame
  <2> HIDE DEF s, m
  <2>3. SubSeq(s, 1, m) \in Seq(Byte) /\ SubSeq(s, m + 1, n) \in Seq(Byte)
    BY <2>2, Beginning
  <2> QED
    BY <2>3 DEF s, m
<1>3. handled' = Append(handled, r)
  BY DEF Handed
<1> HIDE DEF r
<1>4. /\ Len(handled') = h + 1 /\ handled'[h + 1] = r
      /\ \A i \in 1..h : handled'[i] = handled[i]
      /\ DOMAIN handled = 1..h /\ DOMAIN handled' = 1..(h + 1) /\ h \in Nat
  <2>1. handled \in Seq([header : Seq(Byte), payload : Seq(Byte)])
    BY DEF TypeOK
  <2>2. handled' \in Seq([header : Seq(Byte), payload : Seq(Byte)])
    BY <1>2, <1>3, <2>1, AppendProperties
  <2>3. /\ Len(handled') = h + 1 /\ handled'[h + 1] = r
        /\ \A i \in 1..h : handled'[i] = handled[i]
    BY <1>2, <1>3, <2>1, AppendProperties
  <2> QED
    BY <2>1, <2>2, <2>3, LenProperties
<1>5. h + 1 <= Len(written)
  BY <1>4, Lengths DEF WholeFrame
<1>6. /\ \A i \in 1..h : handled[i].header \o handled[i].payload = FrameBytes(i)
      /\ \A i : FrameBytes(i)' = FrameBytes(i)
  BY <1>4 DEF FramesIntact, FrameBytes
<1> HIDE DEF h
<1>7. ASSUME NEW i \in 1..(h + 1)
      PROVE  handled'[i].header \o handled'[i].payload = FrameBytes(i)'
  <2>1. i \in 1..h \/ i = h + 1
    BY <1>4
  <2> QED
    BY <1>1, <1>4, <1>6, <2>1
<1> QED
  BY <1>4, <1>5, <1>7 DEF FramesIntact, h

\* What #readStream finds whole is the next frame.
LEMMA WebWhole ==
  ASSUME TypeOK, NameInv, StreamInv, FramesIntact, Whole
  PROVE  WholeFrame(Header + Length(got)) /\ Header + Length(got) \in Nat
<1> USE FramesAssumption
<1>1. Len(got) \in Nat /\ Len(got) >= Header /\ Len(got) >= Header + Length(got)
  BY Lengths DEF Whole
<1>2. Length(got) = written[Len(handled) + 1].size /\ Length(got) \in Nat
  BY <1>1, LengthIsSize
<1>3. Len(handled) + 1 \in 1..Len(written)
  <2>1. Len(got) >= 1
    BY <1>1
  <2> QED
    BY <2>1, FirstBytes
<1> QED
  BY <1>1, <1>2, <1>3 DEF WholeFrame

LEMMA IntactStep ==
  ASSUME TypeOK, WriterInv, NameInv, StreamInv, GoInv, FramesIntact, [Next]_vars
  PROVE  FramesIntact'
<1> USE FramesAssumption
<1>1. CASE UNCHANGED <<written, handled>>
  BY <1>1 DEF FramesIntact, FrameBytes
<1>2. ASSUME NEW w \in Writers, Write(w), ~broken PROVE FramesIntact'
  <2>1. Grows(Frame(w), size[w]) /\ handled' = handled
    BY <1>2, WriteGrows DEF Write, readers
  <2>2. /\ Len(written) \in Nat /\ Len(handled) \in Nat /\ Len(handled) <= Len(written)
        /\ DOMAIN handled = 1..Len(handled)
    BY Lengths DEF TypeOK
  <2>3. Len(handled) <= Len(written')
    BY <2>1, <2>2 DEF Grows
  <2>4. ASSUME NEW i \in 1..Len(handled) PROVE FrameBytes(i)' = FrameBytes(i)
    <3>1. i \in 1..Len(written)
      BY <2>2
    <3> QED
      BY <2>1, <3>1 DEF Grows, FrameBytes
  <2> QED
    BY <2>1, <2>2, <2>3, <2>4 DEF FramesIntact
<1>3. CASE GoPayload
  <2>1. /\ need \in Nat /\ need <= Len(got) /\ written' = written
        /\ Handed(SubSeq(got, 1, Header), SubSeq(got, Header + 1, need))
    BY <1>3 DEF GoPayload, writers, TypeOK
  <2>2. WholeFrame(need)
    BY <1>3, <2>1, Lengths DEF GoPayload, GoInv, WholeFrame
  <2> QED
    BY <2>1, <2>2, HandsOn
<1>4. CASE WebTakes
  <2> DEFINE end == Header + Length(got)
  <2>1. /\ Handed(SubSeq(got, 1, Header), SubSeq(got, Header + 1, end))
        /\ written' = written
    BY <1>4 DEF WebTakes, writers
  <2>2. WholeFrame(end) /\ end \in Nat
    BY <1>4, WebWhole DEF WebTakes
  <2> HIDE DEF end
  <2> QED
    BY <2>1, <2>2, HandsOn
<1>5. CASE \E w \in Writers : NewMessage(w) \/ TooSmall(w) \/ Marshal(w) \/ Write(w)
  BY <1>1, <1>2, <1>5 DEF NewMessage, TooSmall, Marshal, Write, readers
<1>6. CASE Break \/ Reader \/ UNCHANGED vars
  BY <1>1, <1>3, <1>4, <1>6 DEF Break, Reader, GoRead, WebRead, GoHeader, WebKeeps,
     ReadFails, writers, readers, vars
<1> QED
  BY <1>5, <1>6 DEF Next

-----------------------------------------------------------------------------
\* The steps on the stream

\* A step that neither writes nor handles, and leaves the bytes where they are.
LEMMA StreamStays ==
  ASSUME TypeOK, FramesIntact, StreamInv, UNCHANGED <<written, wire, broken, got, handled>>
  PROVE  StreamInv'
<1>1. Unhandled' = Unhandled /\ \A k : Unread(k)' = Unread(k)
  BY DEF Unhandled, Unread
<1>2. Unhandled \in Nat /\ Unhandled <= Unhandled
  BY Lengths
<1>3. broken' = broken /\ (broken' => wire' = <<>>)
  BY DEF StreamInv
<1> QED
  BY <1>1, <1>2, <1>3, StreamMoves

\* A piece moves from the stream to the reader.
LEMMA StreamRead ==
  ASSUME TypeOK, FramesIntact, StreamInv, NEW k \in 1..Len(wire), GoRead(k) \/ WebRead(k)
  PROVE  StreamInv'
<1> DEFINE g == Len(got)
           x == Len(wire)
<1>1. /\ g \in Nat /\ x \in Nat /\ Unhandled = g + x /\ k \in 1..x
      /\ got \in Seq(Byte) /\ wire \in Seq(Byte)
  BY Lengths DEF Unhandled, TypeOK
<1>2. /\ got' = got \o SubSeq(wire, 1, k)
      /\ wire' = SubSeq(wire, k + 1, Len(wire))
      /\ UNCHANGED <<written, handled, broken>>
  BY DEF GoRead, WebRead, writers
<1>3. /\ Len(got') = g + k /\ Len(wire') = x - k
      /\ \A i \in 1..g : got'[i] = got[i]
      /\ \A i \in 1..k : got'[g + i] = wire[i]
      /\ \A i \in 1..(x - k) : wire'[i] = wire[k + i]
  <2> DEFINE s == got
             t == wire
  <2>1. s \in Seq(Byte) /\ t \in Seq(Byte) /\ k \in 1..Len(t)
    BY <1>1
  <2> HIDE DEF s, t
  <2>2. /\ Len(s \o SubSeq(t, 1, k)) = Len(s) + k
        /\ Len(SubSeq(t, k + 1, Len(t))) = Len(t) - k
        /\ \A i \in 1..Len(s) : (s \o SubSeq(t, 1, k))[i] = s[i]
        /\ \A i \in 1..k : (s \o SubSeq(t, 1, k))[Len(s) + i] = t[i]
        /\ \A i \in 1..(Len(t) - k) : SubSeq(t, k + 1, Len(t))[i] = t[k + i]
    BY <2>1, Pieces
  <2> DEFINE a == s \o SubSeq(t, 1, k)
             b == SubSeq(t, k + 1, Len(t))
  <2>3. got' = a /\ wire' = b
    BY <1>2 DEF s, t
  <2>4. /\ Len(a) = Len(s) + k /\ Len(b) = Len(t) - k
        /\ \A i \in 1..Len(s) : a[i] = s[i]
        /\ \A i \in 1..k : a[Len(s) + i] = t[i]
        /\ \A i \in 1..(Len(t) - k) : b[i] = t[k + i]
    BY <2>2
  <2> HIDE DEF a, b
  <2> QED
    BY <2>3, <2>4 DEF s, t
<1>4. /\ Unhandled' = (g + k) + (x - k)
      /\ \A i : Unread(i) = IF i <= g THEN got[i] ELSE wire[i - g]
      /\ \A i : Unread(i)' = IF i <= g + k THEN got'[i] ELSE wire'[i - (g + k)]
  BY <1>3 DEF Unhandled, Unread
<1> DEFINE u == Unhandled
           v == Unhandled'
<1> HIDE DEF g, x, u, v
<1>5. u = g + x /\ v = u /\ u \in Nat
  BY <1>1, <1>4 DEF u, v
<1>6. ASSUME NEW i \in 1..u PROVE Unread(i)' = Unread(i)
  <2>1. CASE i <= g
    <3>1. i \in 1..g /\ i <= g + k
      BY <1>1, <2>1
    <3> QED
      BY <1>3, <1>4, <2>1, <3>1
  <2>2. CASE ~(i <= g) /\ i <= g + k
    <3> DEFINE j == i - g
    <3>1. j \in 1..k /\ i = g + j
      BY <1>1, <2>2
    <3>2. Unread(i)' = got'[g + j] /\ Unread(i) = wire[j]
      BY <1>4, <2>2, <3>1
    <3> HIDE DEF j
    <3> QED
      BY <1>3, <3>1, <3>2
  <2>3. CASE ~(i <= g + k)
    <3> DEFINE j == i - (g + k)
    <3>1. j \in 1..(x - k) /\ ~(i <= g) /\ i - g = k + j
      BY <1>1, <1>5, <2>3
    <3>2. Unread(i)' = wire'[j] /\ Unread(i) = wire[k + j]
      BY <1>4, <2>3, <3>1
    <3> HIDE DEF j
    <3> QED
      BY <1>3, <3>1, <3>2
  <2> QED
    BY <2>1, <2>2, <2>3
<1>7. broken = FALSE
  <2>1. x # 0
    BY <1>1
  <2> QED
    BY <2>1 DEF StreamInv, TypeOK, x
<1>8. /\ Unhandled' \in Nat /\ Unhandled' <= Unhandled
      /\ ~broken' => ~broken /\ Unhandled' = Unhandled
      /\ broken' => wire' = <<>>
      /\ \A i \in 1..Unhandled : i <= Unhandled' => Unread(i)' = Unread(i)
  <2>1. v \in Nat /\ v <= u /\ v = u
    BY <1>5
  <2>2. broken' = FALSE
    BY <1>2, <1>7
  <2> QED
    BY <1>6, <1>7, <2>1, <2>2 DEF u, v
<1> QED
  BY <1>2, <1>8, StreamMoves

\* The stream breaks, or the reader gives up: bytes are lost from the end on.
LEMMA StreamEnds ==
  ASSUME TypeOK, FramesIntact, StreamInv, Break \/ ReadFails
  PROVE  StreamInv'
<1>1. /\ UNCHANGED <<written, handled>> /\ broken' = TRUE /\ wire' = <<>>
      /\ got' = got \/ (got' = <<>> /\ wire = <<>>)
  BY DEF Break, ReadFails, writers, readers, TypeOK
<1> DEFINE g == Len(got)
           x == Len(wire)
<1>2. g \in Nat /\ x \in Nat /\ Unhandled = g + x
  BY Lengths DEF Unhandled
<1>3. Len(got') \in {0, g} /\ Len(wire') = 0
  BY <1>1
<1>4. Unhandled' = Len(got') + Len(wire')
  BY DEF Unhandled
<1>5. ASSUME NEW i \in Nat, i >= 1, i <= Len(got') PROVE Unread(i)' = Unread(i)
  <2>1. got' = got
    <3>1. Len(got') # 0
      BY <1>2, <1>3, <1>5
    <3> QED
      BY <1>1, <3>1
  <2> QED
    BY <1>5, <2>1 DEF Unread
<1> DEFINE y == Len(got')
           u == Unhandled
           v == Unhandled'
<1>6. y \in {0, g} /\ v = y /\ u = g + x
  <2>1. Len(got') \in {0, g} /\ Len(wire') = 0
    BY <1>3
  <2> HIDE DEF g, x
  <2> QED
    BY <1>2, <1>4, <2>1
<1> HIDE DEF g, x, y, u, v
<1>7. v \in Nat /\ v <= u /\ u \in Nat
  BY <1>2, <1>6
<1>8. \A i \in 1..u : i <= v => Unread(i)' = Unread(i)
  BY <1>5, <1>6, <1>7 DEF y
<1> QED
  BY <1>1, <1>7, <1>8, StreamMoves DEF u, v

LEMMA HandlingTakes ==
  ASSUME TypeOK, StreamInv, FramesIntact, NEW n \in Nat, WholeFrame(n),
         Handed(SubSeq(got, 1, Header), SubSeq(got, Header + 1, n)),
         UNCHANGED <<written, wire, broken>>,
         got' = SubSeq(got, n + 1, Len(got))
  PROVE  Takes(n)
<1> DEFINE s == got
           t == SubSeq(s, n + 1, Len(s))
<1>1. /\ s \in Seq(Byte) /\ Len(s) \in Nat /\ n <= Len(s)
  BY LenProperties DEF TypeOK, WholeFrame
<1> HIDE DEF s
<1>2. Len(t) = Len(s) - n /\ \A i \in 1..(Len(s) - n) : t[i] = s[n + i]
  BY <1>1, SubSeqProperties
<1>3. got' = t
  BY DEF s
<1> HIDE DEF t
<1>4. Len(got') = Len(got) - n /\ \A i \in 1..(Len(got) - n) : got'[i] = got[n + i]
  BY <1>2, <1>3 DEF s
<1>5. Len(handled') = Len(handled) + 1
  BY HandsOn
<1> QED
  BY <1>4, <1>5 DEF Takes

LEMMA StreamStep ==
  ASSUME TypeOK, WriterInv, NameInv, StreamInv, GoInv, FramesIntact, [Next]_vars
  PROVE  StreamInv'
<1> USE FramesAssumption
<1>1. ASSUME UNCHANGED <<written, wire, broken, got, handled>> PROVE StreamInv'
  BY <1>1, StreamStays
<1>2. ASSUME NEW w \in Writers, Write(w), ~broken PROVE StreamInv'
  <2>1. Grows(Frame(w), size[w])
    BY <1>2, WriteGrows
  <2>2. UNCHANGED <<handled, broken>> /\ size[w] \in Nat
    BY <1>2 DEF Write, readers, TypeOK
  <2> QED
    BY <1>2, <2>1, <2>2, StreamGrows
<1>3. CASE \E w \in Writers : NewMessage(w) \/ TooSmall(w) \/ Marshal(w) \/ Write(w)
  BY <1>1, <1>2, <1>3 DEF NewMessage, TooSmall, Marshal, Write, readers
<1>4. CASE Break \/ ReadFails
  BY <1>4, StreamEnds
<1>5. CASE \E k \in 1..Len(wire) : GoRead(k) \/ WebRead(k)
  BY <1>5, StreamRead
<1>6. CASE GoPayload
  <2>1. /\ need \in Nat /\ Len(got) = need /\ UNCHANGED <<written, wire, broken>>
        /\ Handed(SubSeq(got, 1, Header), SubSeq(got, Header + 1, need)) /\ got' = <<>>
    BY <1>6 DEF GoPayload, writers, TypeOK
  <2>2. WholeFrame(need)
    BY <1>6, Lengths DEF GoPayload, GoInv, WholeFrame
  <2>3. got' = SubSeq(got, need + 1, Len(got))
    BY <2>1 DEF TypeOK
  <2>4. Takes(need)
    BY <2>1, <2>2, <2>3, HandlingTakes
  <2> QED
    BY <2>1, <2>4, StreamTakes
<1>7. CASE WebTakes
  <2> DEFINE end == Header + Length(got)
  <2>1. /\ Handed(SubSeq(got, 1, Header), SubSeq(got, Header + 1, end))
        /\ UNCHANGED <<written, wire, broken>>
        /\ got' = SubSeq(got, end + 1, Len(got))
    BY <1>7 DEF WebTakes, writers
  <2>2. WholeFrame(end) /\ end \in Nat
    BY <1>7, WebWhole DEF WebTakes
  <2> HIDE DEF end
  <2>3. Takes(end)
    BY <2>1, <2>2, HandlingTakes
  <2> QED
    BY <2>2, <2>3, StreamTakes
<1>8. CASE GoHeader \/ WebKeeps \/ UNCHANGED vars
  BY <1>1, <1>8 DEF GoHeader, WebKeeps, writers, readers, vars
<1> QED
  BY <1>3, <1>4, <1>5, <1>6, <1>7, <1>8 DEF Next, Reader

-----------------------------------------------------------------------------
\* The Go reader

LEMMA GoStep ==
  ASSUME TypeOK, WriterInv, NameInv, StreamInv, GoInv, FramesIntact, [Next]_vars
  PROVE  GoInv'
<1> USE FramesAssumption
<1>1. ASSUME UNCHANGED <<reader, got, need, handled, written>> PROVE GoInv'
  BY <1>1 DEF GoInv
<1>2. ASSUME NEW w \in Writers, Write(w), ~broken PROVE GoInv'
  <2>1. Grows(Frame(w), size[w]) /\ UNCHANGED <<reader, got, need, handled>>
    BY <1>2, WriteGrows DEF Write, readers
  <2>2. ASSUME reader = "payload"
        PROVE  /\ Len(handled) < Len(written')
               /\ written'[Len(handled) + 1] = written[Len(handled) + 1]
    <3>1. Len(written') = Len(written) + 1 /\ Len(handled) < Len(written)
      BY <2>1, <2>2 DEF Grows, GoInv
    <3>2. Len(handled) + 1 \in 1..Len(written)
      BY <3>1, Lengths
    <3> QED
      BY <2>1, <3>1, <3>2, Lengths DEF Grows
  <2> QED
    BY <2>1, <2>2 DEF GoInv
<1>3. CASE \E w \in Writers : NewMessage(w) \/ TooSmall(w) \/ Marshal(w) \/ Write(w)
  BY <1>1, <1>2, <1>3 DEF NewMessage, TooSmall, Marshal, Write, readers
<1>4. ASSUME NEW k \in 1..Len(wire), GoRead(k) PROVE GoInv'
  <2>1. /\ got' = got \o SubSeq(wire, 1, k) /\ Len(got) + k <= need
        /\ UNCHANGED <<written, reader, need, handled>>
    BY <1>4 DEF GoRead, writers
  <2>2. Len(got') = Len(got) + k
    BY <2>1, Pieces DEF TypeOK
  <2> DEFINE g == Len(got)
             g2 == Len(got')
  <2>3. g2 <= need /\ g <= g2
    <3>1. g \in Nat /\ k \in Nat /\ need \in Nat /\ g + k <= need /\ g2 = g + k
      BY <2>1, <2>2, Lengths DEF TypeOK
    <3> HIDE DEF g, g2
    <3> QED
      BY <3>1
  <2>4. reader = "payload" => Header <= g2
    <3>1. reader = "payload" => Header <= g
      BY DEF GoInv
    <3>2. g \in Nat /\ g2 \in Nat
      BY <2>2, Lengths
    <3> HIDE DEF g, g2
    <3> QED
      BY <2>3, <3>1, <3>2
  <2> QED
    BY <2>1, <2>3, <2>4 DEF GoInv
<1>5. CASE GoHeader
  <2>1. /\ reader' = "payload" /\ need' = Header + Length(got) /\ Len(got) = Header
        /\ UNCHANGED <<written, got, handled>>
    BY <1>5 DEF GoHeader, writers
  <2>2. /\ Length(got) = written[Len(handled) + 1].size /\ Length(got) \in Nat
        /\ Len(handled) + 1 \in 1..Len(written)
    <3>1. Len(got) >= Header /\ Len(got) >= 1
      BY <2>1
    <3> QED
      BY <3>1, LengthIsSize, FirstBytes
  <2>3. Len(handled) < Len(written)
    BY <2>2, Lengths
  <2> QED
    BY <2>1, <2>2, <2>3 DEF GoInv
<1>6. CASE GoPayload
  <2>1. reader' = "header" /\ Len(got') = 0 /\ need' = Header
    BY <1>6 DEF GoPayload
  <2> QED
    BY <2>1 DEF GoInv
<1>7. CASE Break \/ UNCHANGED vars
  BY <1>1, <1>7 DEF Break, writers, readers, vars
<1>8. CASE WebTakes \/ WebKeeps \/ ReadFails \/ \E k \in 1..Len(wire) : WebRead(k)
  <2>1. reader' \in {"parse", "read", "done"}
    BY <1>8 DEF WebTakes, WebKeeps, ReadFails, WebRead
  <2> QED
    BY <2>1 DEF GoInv
<1> QED
  BY <1>3, <1>4, <1>5, <1>6, <1>7, <1>8 DEF Next, Reader

-----------------------------------------------------------------------------
\* The theorems

LEMMA InitIInv ==
  ASSUME Init
  PROVE  IInv
<1> USE FramesAssumption
<1>1. TypeOK
  <2>1. [i \in 1..Initial |-> NoByte] \in Seq(Byte)
    BY DEF Byte
  <2> DEFINE b == [i \in 1..Initial |-> NoByte]
  <2> HIDE DEF b
  <2>2. buf \in [Writers -> Seq(Byte)]
    BY <2>1 DEF Init, b
  <2>3. /\ written \in Seq([frame : Writers \X Nat, size : Nat])
        /\ wire \in Seq(Byte) /\ got \in Seq(Byte)
        /\ handled \in Seq([header : Seq(Byte), payload : Seq(Byte)])
    BY DEF Init
  <2> QED
    BY <2>2, <2>3 DEF Init, TypeOK
<1>2. WriterInv /\ NameInv /\ GoInv /\ FramesIntact /\ TwoTries
  BY DEF Init, WriterInv, NameInv, GoInv, FramesIntact, TwoTries
<1>3. StreamInv
  <2> DEFINE off == [i \in 0..Len(written) |-> 0]
  <2>1. Len(written) = 0 /\ Len(handled) = 0 /\ Unhandled = 0 /\ ~broken
    BY DEF Init, Unhandled
  <2>2. off \in [0..Len(written) -> Nat] /\ Ends(off) /\ InPlace(off)
    BY <2>1 DEF Ends, InPlace
  <2> HIDE DEF off
  <2> QED
    BY <2>1, <2>2 DEF StreamInv
<1> QED
  BY <1>1, <1>2, <1>3 DEF IInv

LEMMA StepIInv ==
  ASSUME IInv, [Next]_vars
  PROVE  IInv'
BY TypeStep, WriterStep, NameStep, StreamStep, GoStep, IntactStep, TriesStep DEF IInv

LEMMA Inductive == Spec => []IInv
BY InitIInv, StepIInv, PTL DEF Spec

\* The buffers, the stream and the readers (writer.go, packet.go, packetReader.ts) hold
\* bytes and frames, and counters of those.
THEOREM FramesTypeCorrect == Spec => []TypeOK
BY Inductive, PTL DEF IInv

\* However the stream cuts the bytes, however the writers of QueueMessage and Broadcast
\* take turns on it, and whatever their messages' sizes are, HandleStream and #readStream
\* hand on the frames that were written: the first of them, in order, each with the
\* header and the payload SendStream gave it.
THEOREM FramesComeOutWhole == Spec => []FramesIntact
BY Inductive, PTL DEF IInv

\* SendStream calls itself once at most for a message: the buffer it makes has room.
THEOREM AtMostTwoCalls == Spec => []TwoTries
BY Inductive, PTL DEF IInv

===============================================================================
