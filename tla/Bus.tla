--------------------------------- MODULE Bus ---------------------------------
(***************************************************************************)
(* Packets over a byte stream: packet::validate, encode and decode_with,   *)
(* BusWriter::send, BusReader::receive and the handshake of Bus::connect   *)
(* in crates/ytsaurus-rpc/src/bus/.                                        *)
(*                                                                         *)
(* The sender is a peer that encodes as this crate does; the receiver is   *)
(* BusReader.  The stream is a sequence of words, each standing for a      *)
(* header, a field of one or a byte of payload.                            *)
(* Reads end anywhere, the peer may close anywhere, and one word may be    *)
(* flawed in a way that its checksum shows.                                *)
(***************************************************************************)
EXTENDS Integers, Sequences, SequencesExt

CONSTANTS
  Scripts,        \* what a peer sends: sequences of packets, its handshake first
  WordLimit,      \* values of the part-size word; the last means a null part
  MaxPartSize,    \* MAX_PART_SIZE
  MaxPartCount,   \* MAX_PART_COUNT, the encoder's
  ReaderParts,    \* BusReader::max_part_count
  ReaderBytes     \* BusReader::max_message_size

ASSUME BusAssumption ==
  /\ {WordLimit, MaxPartSize, MaxPartCount, ReaderParts, ReaderBytes} \subseteq Nat
  /\ MaxPartSize < WordLimit - 1 /\ ReaderParts <= MaxPartCount

\* A part is as long as its number says, or absent, which is not the same as
\* empty.
Null == -1
NullPartSize == WordLimit - 1
Packet(type, id, parts, body) == [type |-> type, id |-> id, parts |-> parts, body |-> body]

ASSUME ScriptsAssumption ==
  Scripts \subseteq Seq([type : STRING, id : STRING, parts : Seq(Nat \cup {Null}), body : STRING])

-----------------------------------------------------------------------------
(***************************************************************************)
(* The encoder.                                                            *)
(***************************************************************************)
\* Mutant: whatever a packet holds is written.
ValidAnyway(p) == TRUE

\* validate: what cannot be represented is refused before a word is written.
Valid(p) ==
  /\ Len(p.parts) <= MaxPartCount
  /\ \A j \in DOMAIN p.parts : p.parts[j] <= MaxPartSize

HasVariableHeader(type, count) == type = "message" \/ count > 0

Word(kind, field, value) == [kind |-> kind, field |-> field, value |-> value]

\* The size word of a part, cut to the word's width.
SizeWord(size) == IF size = Null THEN NullPartSize ELSE size % WordLimit

\* encode: the fixed header, the variable one, the parts that are not null.
Encode(p) ==
  LET n == Len(p.parts)
      fixed == <<Word("fixed", 0, [type |-> p.type, id |-> p.id, count |-> n, body |-> p.body]),
                 Word("sum", 0, 0)>>
      sizes == [j \in 1..n |-> Word("size", j, SizeWord(p.parts[j]))]
      sums  == [j \in 1..n |-> Word("sum", j, 0)]
      data(j) == [k \in 1..p.parts[j] |-> Word("data", j, k)]
  IN fixed \o (IF HasVariableHeader(p.type, n)
               THEN sizes \o sums \o <<Word("sum", 0, 0)>> \o FlattenSeq([j \in 1..n |-> data(j)])
               ELSE <<>>)

-----------------------------------------------------------------------------
VARIABLES
  script,     \* what the peer has been asked to send
  stream,     \* what it writes
  flaw,       \* the word the network changes, 0 for none
  arrived,    \* words that have come in
  consumed,   \* words the reader is done with: buffer = (consumed, arrived]
  peerClosed,
  got,        \* packets handed on, the handshake's reply first
  busPhase,   \* "connecting", "greeting", "open" or "over"
  busError

busVars == <<script, stream, flaw, arrived, consumed, peerClosed, got, busPhase, busError>>

\* Refused packets leave no trace on the stream.
Sent == FlattenSeq([i \in DOMAIN script |-> IF Valid(script[i]) THEN <<script[i]>> ELSE <<>>])
Written(packets) == FlattenSeq([i \in DOMAIN packets |-> Encode(packets[i])])

BusInit ==
  /\ script \in Scripts
  /\ stream = Written(Sent)
  /\ flaw \in 0..Len(stream)
  /\ arrived = 0 /\ consumed = 0 /\ peerClosed = FALSE
  /\ got = <<>> /\ busPhase = "connecting" /\ busError = "none"

BusEnds(error) == busPhase' = "over" /\ busError' = error

\* connect_with's deadline covers connecting and the handshake.
ConnectTimesOut ==
  /\ busPhase \in {"connecting", "greeting"}
  /\ BusEnds("timeout")
  /\ UNCHANGED <<script, stream, flaw, arrived, consumed, peerClosed, got>>

\* Connected, and our handshake is on its way.
Connected ==
  /\ busPhase = "connecting"
  /\ busPhase' = "greeting"
  /\ UNCHANGED <<script, stream, flaw, arrived, consumed, peerClosed, got, busError>>

-----------------------------------------------------------------------------
(***************************************************************************)
(* The decoder.                                                            *)
(***************************************************************************)
More == [outcome |-> "more"]
Refusing(why) == [outcome |-> "refused", why |-> why]
Whole(n, p) == [outcome |-> "packet", length |-> n, packet |-> p]

FixedHeaderSize == 2
VariableHeaderSize(count) == 2 * count + 1

\* Is the flawed word among these of the stream?
Flawed(first, last) == flaw \in first..last

\* Sum of the sizes the header declares, null parts apart.
Payload(sizes) ==
  LET sum[n \in 0..Len(sizes)] ==
        IF n = 0 THEN 0 ELSE sum[n - 1] + (IF sizes[n] = NullPartSize THEN 0 ELSE sizes[n])
  IN  sum[Len(sizes)]

\* The parts, as the words that follow say they are: each of its size, cut from
\* the front one after the other.
PartsRead(sizes) == [j \in DOMAIN sizes |-> IF sizes[j] = NullPartSize THEN Null ELSE sizes[j]]

\* decode_with, in its order: nothing is believed before its checksum has been
\* verified, nothing is consumed before the whole packet is there, and a limit
\* is applied as soon as the number it limits is known.
Decode ==
  LET at(i) == stream[consumed + i]
      length == arrived - consumed
      header == at(1).value
      headers == FixedHeaderSize + VariableHeaderSize(header.count)
      sizes == [j \in 1..header.count |-> at(FixedHeaderSize + j).value]
      total == headers + Payload(sizes)
      result == [type |-> header.type, id |-> header.id, parts |-> PartsRead(sizes), body |-> header.body]
  IN IF length < FixedHeaderSize THEN More
     ELSE IF at(1).kind # "fixed" \/ Flawed(consumed + 1, consumed + 2) THEN Refusing("header")
     ELSE IF header.count > ReaderParts THEN Refusing("limit")
     ELSE IF ~HasVariableHeader(header.type, header.count)
          THEN Whole(FixedHeaderSize, [result EXCEPT !.parts = <<>>])
     ELSE IF headers > ReaderBytes THEN Refusing("limit")
     ELSE IF length < headers THEN More
     ELSE IF Flawed(consumed + 3, consumed + headers) THEN Refusing("header")
     ELSE IF \E j \in DOMAIN sizes : sizes[j] # NullPartSize /\ sizes[j] > MaxPartSize
          THEN Refusing("limit")
     ELSE IF total > ReaderBytes THEN Refusing("limit")
     ELSE IF length < total THEN More
     ELSE IF Flawed(consumed + headers + 1, consumed + total) THEN Refusing("part")
     ELSE Whole(total, result)

\* handshake: what the peer's first packet must be.
Greets(p) ==
  /\ p.type = "message" /\ p.id = "handshake"
  /\ Len(p.parts) = 1 /\ p.parts[1] >= 0 /\ p.body = "handshake"

\* receive: a packet is taken off the buffer and handed on, or the reader ends.
ReceivePacket ==
  /\ busPhase \in {"greeting", "open"}
  /\ LET d == Decode
     IN \/ /\ d.outcome = "packet"
           /\ consumed' = consumed + d.length
           /\ IF busPhase = "greeting" /\ ~Greets(d.packet)
              THEN BusEnds("handshake") /\ UNCHANGED got
              ELSE busPhase' = "open" /\ got' = Append(got, d.packet) /\ UNCHANGED busError
        \/ d.outcome = "refused" /\ BusEnds(d.why) /\ UNCHANGED <<consumed, got>>
  /\ UNCHANGED <<script, stream, flaw, arrived, peerClosed>>

\* ... and while there is no packet, it reads: some words, or the end.
ReadMore ==
  /\ busPhase \in {"greeting", "open"}
  /\ Decode = More
  /\ \/ /\ ~peerClosed
        /\ \E n \in arrived + 1..Len(stream) : arrived' = n
        /\ UNCHANGED <<busPhase, busError>>
     \/ peerClosed /\ BusEnds("closed") /\ UNCHANGED arrived
  /\ UNCHANGED <<script, stream, flaw, consumed, peerClosed, got>>

\* The peer closes, wherever it is.
PeerCloses ==
  /\ ~peerClosed /\ busPhase \in {"greeting", "open"}
  /\ peerClosed' = TRUE
  /\ UNCHANGED <<script, stream, flaw, arrived, consumed, got, busPhase, busError>>

BusNext == ConnectTimesOut \/ Connected \/ ReceivePacket \/ ReadMore \/ PeerCloses

BusSpec == BusInit /\ [][BusNext]_busVars

-----------------------------------------------------------------------------
\* The packets of which every word has come in.
Complete ==
  LET ends == {n \in 0..Len(Sent) : Len(Written(SubSeq(Sent, 1, n))) <= arrived}
  IN CHOOSE n \in ends : \A m \in ends : m <= n

\* The packet the reader refuses is one this connection does not carry.
OverLimit(p) ==
  \/ Len(p.parts) > ReaderParts
  \/ Len(Encode(p)) > ReaderBytes

\* However the reads cut the stream, whatever else came with the handshake and
\* wherever a word was changed: what is handed on is what was sent, in order and
\* with its absent parts absent; a packet is refused only for a flaw in it or a
\* limit it exceeds; and when the peer closes, nothing that came whole is lost.
FramesAreTrue ==
  LET next == Sent[Len(got) + 1]
      from == Len(Written(SubSeq(Sent, 1, Len(got))))
  IN /\ IsPrefix(got, Sent)
     /\ busError \in {"header", "part"} => flaw \in from + 1..from + Len(Encode(next))
     /\ busError = "limit" => OverLimit(next)
     /\ busError = "handshake" => got = <<>> /\ ~Greets(next)
     /\ busError = "closed" => Len(got) = Complete
=============================================================================
