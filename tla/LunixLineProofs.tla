-------------------------- MODULE LunixLineProofs --------------------------
(***************************************************************************)
(* Proofs about the parser and the line discipline: the framing of the     *)
(* packets for every byte stream, every cut into buffers and every build   *)
(* (LunixProtocol), and the token for every set of terminals and packets   *)
(* (LunixLine).                                                            *)
(***************************************************************************)
EXTENDS LunixLine, TLAPS

(* The inductive invariant of builds whose buffer holds the longest packet.*)
IInv == ProtocolTypeOK /\ Framing

(* Undoing an escape gives a byte again.                                   *)
LEMMA FlipByte == \A b \in Byte : Flip(b) \in Byte
<1> SUFFICES ASSUME NEW b \in Byte PROVE Flip(b) \in Byte
  OBVIOUS
<1>1. CASE b \in 0..31
  BY <1>1 DEF Flip, Byte
<1>2. CASE b \in 32..223
  BY <1>2 DEF Flip, Byte
<1>3. CASE b \in 224..255
  BY <1>3 DEF Flip, Byte
<1> QED
  BY <1>1, <1>2, <1>3 DEF Byte

(* What is stored is a byte.                                               *)
LEMMA DecodedByte == \A b \in Byte : Decoded(b) \in Byte
  BY FlipByte DEF Decoded

(* The offset and the width of a field, state by state.                    *)
LEMMA FieldTable ==
  /\ FieldOffset(1) = 0 /\ FieldOffset(2) = 1 /\ FieldOffset(3) = 2
  /\ FieldOffset(4) = 4 /\ FieldOffset(5) = 5 /\ FieldOffset(6) = 6
  /\ FieldOffset(7) = 7
  /\ FieldOffset(8) = 7 + packet[6] /\ FieldOffset(9) = 9 + packet[6]
  /\ \A s \in {1, 2, 4, 5, 6, 9} : FieldWidth(s) = 1
  /\ \A s \in {3, 8} : FieldWidth(s) = 2
  /\ FieldWidth(7) = packet[6]
<1> USE DEF SEEKING_DESTINATION_ADDRESS, SEEKING_CRC, SEEKING_PAYLOAD,
            SEEKING_AM_TYPE
<1>1. FieldOffset(1) = 0 /\ FieldOffset(2) = 1 /\ FieldOffset(3) = 2
  BY DEF FieldOffset
<1>2. FieldOffset(4) = 4 /\ FieldOffset(5) = 5 /\ FieldOffset(6) = 6
      /\ FieldOffset(7) = 7
  BY DEF FieldOffset
<1>3. FieldOffset(8) = 7 + packet[6] /\ FieldOffset(9) = 9 + packet[6]
  BY DEF FieldOffset
<1>4. \A s \in {1, 2, 4, 5, 6, 9} : FieldWidth(s) = 1
  BY DEF FieldWidth
<1>5. \A s \in {3, 8} : FieldWidth(s) = 2
  BY DEF FieldWidth
<1>6. FieldWidth(7) = packet[6]
  BY DEF FieldWidth
<1> QED
  BY <1>1, <1>2, <1>3, <1>4, <1>5, <1>6

(* The framed position is inside the buffer.                               *)
LEMMA FramedPosition ==
  ASSUME MAX_PACKET_LEN > 265, IInv
  PROVE  /\ pos \in 0..MAX_PACKET_LEN - 1
         /\ packet[6] \in Byte
         /\ state = 6 => pos = 6 + bytes_read
         /\ state > 6 => pos > 6
<1>1. packet[6] \in 0..255
  BY ProtocolAssumption DEF IInv, ProtocolTypeOK, LIGHT_OFFSET, Byte
<1>2. state \in 1..9 /\ bytes_read \in 0..255 /\ MAX_PACKET_LEN \in Nat
  BY ProtocolAssumption DEF IInv, ProtocolTypeOK
<1>3. bytes_read <= FieldWidth(state) /\ pos = FieldOffset(state) + bytes_read
  BY <1>2 DEF IInv, Framing
<1>4. CASE state \in {1, 2, 3, 4, 5, 6}
  BY <1>1, <1>2, <1>3, <1>4, FieldTable DEF Byte
<1>5. CASE state = 7
  BY <1>1, <1>2, <1>3, <1>5, FieldTable DEF Byte
<1>6. CASE state \in {8, 9}
  BY <1>1, <1>2, <1>3, <1>6, FieldTable DEF Byte
<1> QED
  BY <1>1, <1>2, <1>4, <1>5, <1>6

(* The framing at the first byte of a field.                               *)
LEMMA InitFramed == MAX_PACKET_LEN > 265 /\ ProtocolInit => IInv
<1> SUFFICES ASSUME MAX_PACKET_LEN > 265, ProtocolInit PROVE IInv
  OBVIOUS
<1>1. ProtocolTypeOK
  BY ProtocolAssumption
  DEF ProtocolInit, ProtocolTypeOK, SEEKING_START_BYTE, Byte
<1>2. Framing
  BY FieldTable DEF ProtocolInit, Framing, SEEKING_START_BYTE
<1> QED
  BY <1>1, <1>2 DEF IInv

(* A new buffer leaves the parser where it was.                            *)
LEMMA ReceiveFramed ==
  ASSUME IInv, NEW buf \in Buffers, Receive(buf)
  PROVE  IInv'
<1>1. UNCHANGED <<state, bytes_read, bytes_to_read, pos, next_is_special, packet>>
      /\ data' = buf /\ busy' = TRUE /\ iter' = 0
      /\ received' = received + Len(buf)
  BY DEF Receive, parserVars
<1>2. buf \in Seq(Byte)
  BY ProtocolAssumption
<1>3. ProtocolTypeOK'
  BY <1>1, <1>2 DEF IInv, ProtocolTypeOK
<1>4. Framing'
  BY <1>1 DEF IInv, Framing, FieldOffset, FieldWidth, UseSpecials
<1> QED
  BY <1>3, <1>4 DEF IInv

(* A call that returns keeps the framing, whatever it leaves unread.       *)
LEMMA ReturnFramed ==
  ASSUME IInv, ReturnCall, UNCHANGED parserVars
  PROVE  IInv'
<1>1. UNCHANGED <<state, bytes_read, bytes_to_read, pos, next_is_special, packet>>
      /\ data' = <<>> /\ busy' = FALSE /\ iter' = 0 /\ received' = received
  BY DEF ReturnCall, parserVars
<1>2. ProtocolTypeOK'
  <2>1. <<>> \in Seq(Byte)
    OBVIOUS
  <2> QED
    BY <1>1, <2>1 DEF IInv, ProtocolTypeOK
<1>3. FieldOffset(state)' = FieldOffset(state)
      /\ FieldWidth(state)' = FieldWidth(state)
  BY <1>1 DEF FieldOffset, FieldWidth
<1>4. Framing'
  BY <1>1, <1>3 DEF IInv, Framing, UseSpecials
<1> QED
  BY <1>2, <1>4 DEF IInv

(* A byte lands at its place and an escape prefix waits for its byte.      *)
LEMMA ParseByteFramed ==
  ASSUME MAX_PACKET_LEN > 265, IInv, ParseByte
  PROVE  IInv'
<1> DEFINE b == Head(data)
<1>1. /\ data # <<>> /\ bytes_read < bytes_to_read
      /\ Prefix \/ Store
      /\ data' = Tail(data)
      /\ iter' \in {iter, iter + 1}
      /\ UNCHANGED <<state, bytes_to_read, busy, received>>
  BY DEF ParseByte, InLoop
<1>2. b \in Byte /\ Tail(data) \in Seq(Byte)
  BY <1>1 DEF IInv, ProtocolTypeOK
<1>3. /\ state \in 1..9 /\ bytes_read \in 0..255 /\ bytes_to_read \in 0..255
      /\ pos \in 0..MAX_PACKET_LEN - 1 /\ MAX_PACKET_LEN \in Nat
      /\ packet \in [0..MAX_PACKET_LEN - 1 -> Byte]
      /\ busy \in BOOLEAN /\ iter \in Nat /\ received \in Nat
      /\ next_is_special \in {0, 125, 126}
  BY FramedPosition, ProtocolAssumption DEF IInv, ProtocolTypeOK
<1>4. /\ pos = FieldOffset(state) + bytes_read
      /\ bytes_to_read = FieldWidth(state)
  BY DEF IInv, Framing, FieldWidth
<1>5. CASE Prefix
  <2>1. /\ UseSpecials
        /\ next_is_special' \in {125, 126}
        /\ UNCHANGED <<pos, bytes_read, packet>>
    BY <1>5 DEF Prefix, IsPrefixByte
  <2>2. ProtocolTypeOK'
    BY <1>1, <1>2, <1>3, <2>1 DEF ProtocolTypeOK
  <2>3. FieldOffset(state)' = FieldOffset(state)
        /\ FieldWidth(state)' = FieldWidth(state)
    BY <1>1, <2>1 DEF FieldOffset, FieldWidth
  <2>4. Framing'
    BY <1>1, <1>3, <1>4, <2>1, <2>3 DEF Framing, UseSpecials
  <2> QED
    BY <2>2, <2>4 DEF IInv
<1>6. CASE Store
  <2>1. /\ packet' = [packet EXCEPT ![pos] = Decoded(b)]
        /\ pos' = pos + 1
        /\ bytes_read' = bytes_read + 1
        /\ next_is_special' = 0
    BY <1>6 DEF Store
  <2>2. packet' \in [0..MAX_PACKET_LEN - 1 -> Byte]
    BY <1>2, <1>3, <2>1, DecodedByte
  <2>3. ProtocolTypeOK'
    BY <1>1, <1>2, <1>3, <2>1, <2>2 DEF ProtocolTypeOK
  <2>4. state > 6 => packet'[6] = packet[6]
    BY <1>3, <2>1, FramedPosition
  <2>5. FieldOffset(state)' = FieldOffset(state)
    BY <1>1, <1>3, <2>4
    DEF FieldOffset, SEEKING_DESTINATION_ADDRESS, SEEKING_AM_TYPE,
        SEEKING_PAYLOAD, SEEKING_CRC
  <2>6. FieldWidth(state)' = FieldWidth(state)
    BY <1>1, <1>3, <2>4
    DEF FieldWidth, SEEKING_DESTINATION_ADDRESS, SEEKING_PAYLOAD, SEEKING_CRC
  <2>7. FieldOffset(state) \in Int
    <3>1. packet[6] \in Int
      BY FramedPosition DEF Byte
    <3>2. state \in {1, 2, 3, 4, 5, 6, 7, 8, 9}
      BY <1>3
    <3>3. CASE state \in {8, 9}
      BY <3>1, <3>3, FieldTable
    <3>4. CASE state \notin {8, 9}
      BY <3>2, <3>4, FieldTable
    <3> QED
      BY <3>3, <3>4
  <2>8. bytes_to_read' = FieldWidth(state)'
    BY <1>1, <1>4, <2>6
  <2>9. Framing'
    BY <1>1, <1>3, <1>4, <2>1, <2>5, <2>7, <2>8 DEF Framing
  <2> QED
    BY <2>3, <2>9 DEF IInv
<1> QED
  BY <1>1, <1>5, <1>6

(* The next field begins where the last one ended, with its own width.     *)
LEMMA NextFieldFramed ==
  ASSUME MAX_PACKET_LEN > 265, IInv, NextField
  PROVE  IInv'
<1>1. /\ bytes_read = bytes_to_read /\ state < 9
      /\ state' = state + 1 /\ bytes_to_read' = Width(state + 1)
      /\ bytes_read' = 0 /\ iter' = 0
      /\ UNCHANGED <<pos, next_is_special, packet, data, busy, received>>
  BY DEF NextField, FieldRead, set_state, SEEKING_END_BYTE
<1>2. /\ state \in 1..9 /\ bytes_read \in 0..255
      /\ pos \in 0..MAX_PACKET_LEN - 1 /\ MAX_PACKET_LEN \in Nat
      /\ packet[6] \in Byte
      /\ state = 6 => pos = 6 + bytes_read
  BY FramedPosition, ProtocolAssumption DEF IInv, ProtocolTypeOK
<1>3. /\ pos = FieldOffset(state) + bytes_read
      /\ bytes_read = FieldWidth(state)
      /\ next_is_special = 0
  BY <1>1 DEF IInv, Framing, ProtocolTypeOK
<1>4. Width(state + 1) = FieldWidth(state + 1)
  <2>1. state = 6 => pos - 1 = 6
    BY <1>2, <1>3, FieldTable
  <2> QED
    BY <1>2, <2>1
    DEF Width, FieldWidth, SEEKING_DESTINATION_ADDRESS, SEEKING_PAYLOAD,
        SEEKING_CRC
<1>5. FieldWidth(state + 1) \in 0..255
  BY <1>1, <1>2, FieldTable DEF Byte
<1>6. FieldOffset(state + 1) = FieldOffset(state) + FieldWidth(state)
  BY <1>1, <1>2, FieldTable DEF Byte
<1>7. FieldOffset(state)' = FieldOffset(state + 1)
      /\ FieldWidth(state)' = FieldWidth(state + 1)
  BY <1>1 DEF FieldOffset, FieldWidth
<1>8. ProtocolTypeOK'
  BY <1>1, <1>2, <1>4, <1>5 DEF IInv, ProtocolTypeOK
<1>9. Framing'
  <2>1. FieldOffset(state) \in Int
    BY <1>2, FieldTable DEF Byte
  <2> QED
    BY <1>1, <1>2, <1>3, <1>4, <1>5, <1>6, <1>7, <2>1 DEF Framing
<1> QED
  BY <1>8, <1>9 DEF IInv

(* After a packet the parser is where it started.                          *)
LEMMA PacketDoneFramed ==
  ASSUME MAX_PACKET_LEN > 265, IInv, PacketDone
  PROVE  IInv'
<1>1. /\ state' = 1 /\ bytes_to_read' = 1 /\ bytes_read' = 0
      /\ pos' = 0 /\ next_is_special' = 0 /\ packet' = packet
      /\ data' = <<>> /\ busy' = FALSE /\ iter' = 0 /\ received' = received
  BY DEF PacketDone, ReturnCall, set_state, SEEKING_START_BYTE
<1>2. ProtocolTypeOK'
  BY <1>1, ProtocolAssumption DEF IInv, ProtocolTypeOK
<1>3. FieldOffset(1) = 0 /\ FieldWidth(1) = 1
  BY FieldTable
<1>4. FieldOffset(state)' = 0 /\ FieldWidth(state)' = 1
  BY <1>1, <1>3 DEF FieldOffset, FieldWidth
<1>5. Framing'
  BY <1>1, <1>4 DEF Framing
<1> QED
  BY <1>2, <1>5 DEF IInv

(* Every step of the parser and every new buffer keeps the framing.        *)
LEMMA NextFramed ==
  ASSUME MAX_PACKET_LEN > 265, IInv, [ProtocolNext]_protocolVars
  PROVE  IInv'
<1>1. CASE \E buf \in Buffers : Receive(buf)
  BY <1>1, ReceiveFramed
<1>2. CASE GiveUp
  BY <1>2, ReturnFramed DEF GiveUp
<1>3. CASE Overflow
  <2>1. pos = MAX_PACKET_LEN
    BY <1>3 DEF Overflow
  <2> QED
    BY <2>1, FramedPosition, ProtocolAssumption
<1>4. CASE ParseByte
  BY <1>4, ParseByteFramed
<1>5. CASE NextField
  BY <1>5, NextFieldFramed
<1>6. CASE PacketDone
  BY <1>6, PacketDoneFramed
<1>7. CASE BufferDone
  BY <1>7, ReturnFramed DEF BufferDone
<1>8. CASE UNCHANGED protocolVars
  <2>1. UNCHANGED <<state, bytes_read, bytes_to_read, pos, next_is_special,
                    packet, data, busy, iter, received>>
    BY <1>8 DEF protocolVars, parserVars, callVars
  <2>2. ProtocolTypeOK'
    BY <2>1 DEF IInv, ProtocolTypeOK
  <2>3. Framing'
    BY <2>1 DEF IInv, Framing, FieldOffset, FieldWidth, UseSpecials
  <2> QED
    BY <2>2, <2>3 DEF IInv
<1> QED
  BY <1>1, <1>2, <1>3, <1>4, <1>5, <1>6, <1>7, <1>8 DEF ProtocolNext, Parse

-----------------------------------------------------------------------------
(* Whatever bytes arrive and however they are cut, in a build whose buffer *)
(* holds a packet of 265 bytes lunix_protocol_received_buf stores every    *)
(* byte at its place in the packet table.                                  *)
THEOREM Framed ==
  ASSUME MAX_PACKET_LEN > 265
  PROVE  ProtocolSpec => []Framing
<1>1. ProtocolInit => IInv
  BY InitFramed
<1>2. IInv /\ [ProtocolNext]_protocolVars => IInv'
  BY NextFramed
<1>3. IInv => Framing
  BY DEF IInv
<1> QED
  BY <1>1, <1>2, <1>3, PTL DEF ProtocolSpec

(* In such a build the "packet buffer would overflow" branch of            *)
(* lunix_protocol_parse_state is dead code.                                *)
THEOREM OverflowIsDead ==
  ASSUME MAX_PACKET_LEN > 265
  PROVE  ProtocolSpec => []NeverOverflows
<1>1. ProtocolInit => IInv
  BY InitFramed
<1>2. IInv /\ [ProtocolNext]_protocolVars => IInv'
  BY NextFramed
<1>3. IInv => NeverOverflows
  BY FramedPosition, ProtocolAssumption DEF NeverOverflows
<1> QED
  BY <1>1, <1>2, <1>3, PTL DEF ProtocolSpec

-----------------------------------------------------------------------------
(* Builds with any buffer.  A payload that does not fit takes the position *)
(* back to 0 and may then overwrite the header, its own length included;   *)
(* what is left in step are the counters and the escape.                   *)
Counting ==
  /\ bytes_read <= bytes_to_read
  /\ next_is_special # 0 => UseSpecials /\ bytes_read < bytes_to_read

AnyInv == ProtocolTypeOK /\ Counting /\ Resynchronises

(* What the header's fields look like.                                     *)
LEMMA HeaderPosition ==
  ASSUME AnyInv, state <= 6
  PROVE  /\ pos = FieldOffset(state) + bytes_read
         /\ bytes_to_read = FieldWidth(state)
         /\ FieldOffset(state) \in 0..6 /\ FieldWidth(state) \in {1, 2}
         /\ FieldOffset(state) + FieldWidth(state) <= 7
<1>1. Framing
  BY DEF AnyInv, Resynchronises, SEEKING_PAYLOAD_LENGTH
<1>2. state \in {1, 2, 3, 4, 5, 6}
  BY DEF AnyInv, ProtocolTypeOK
<1> QED
  BY <1>1, <1>2, FieldTable DEF Framing

LEMMA HeaderFits ==
  ASSUME AnyInv, state <= 6
  PROVE  pos \in 0..7 /\ pos < MAX_PACKET_LEN
<1>1. bytes_read \in 0..255 /\ bytes_read <= bytes_to_read
  BY DEF AnyInv, ProtocolTypeOK, Counting
<1>2. MAX_PACKET_LEN \in Nat /\ MAX_PACKET_LEN > 23
  BY ProtocolAssumption DEF LIGHT_OFFSET
<1> QED
  BY <1>1, <1>2, HeaderPosition

LEMMA InitAny == ProtocolInit => AnyInv
<1> SUFFICES ASSUME ProtocolInit PROVE AnyInv
  OBVIOUS
<1>1. ProtocolTypeOK
  <2>1. MAX_PACKET_LEN \in Nat
    BY ProtocolAssumption
  <2>2. packet \in [0..MAX_PACKET_LEN - 1 -> Byte]
    BY DEF ProtocolInit, Byte
  <2>3. data \in Seq(Byte) /\ pos \in 0..MAX_PACKET_LEN
    BY <2>1 DEF ProtocolInit
  <2>4. /\ state = 1 /\ bytes_read = 0 /\ bytes_to_read = 1
        /\ next_is_special = 0 /\ busy = FALSE /\ iter = 0 /\ received = 0
    BY DEF ProtocolInit, SEEKING_START_BYTE
  <2>5. /\ state \in 1..9 /\ bytes_read \in 0..255 /\ bytes_to_read \in 0..255
        /\ next_is_special \in {0, 125, 126} /\ iter \in Nat /\ received \in Nat
    BY <2>4
  <2>6. busy \in BOOLEAN
    BY <2>4
  <2> QED
    BY <2>2, <2>3, <2>5, <2>6 DEF ProtocolTypeOK
<1>2. Framing
  BY FieldTable DEF ProtocolInit, Framing, SEEKING_START_BYTE
<1> QED
  BY <1>1, <1>2 DEF AnyInv, Counting, Resynchronises, Framing

(* Steps between the bytes.                                                *)
LEMMA IdleAny ==
  ASSUME AnyInv, UNCHANGED parserVars,
         data' \in Seq(Byte), busy' \in BOOLEAN, iter' \in Nat, received' \in Nat
  PROVE  AnyInv'
<1>1. UNCHANGED <<state, bytes_read, bytes_to_read, pos, next_is_special, packet>>
  BY DEF parserVars
<1>2. ProtocolTypeOK'
  BY <1>1 DEF AnyInv, ProtocolTypeOK
<1>3. Counting'
  BY <1>1 DEF AnyInv, Counting, UseSpecials
<1>4. Resynchronises'
  BY <1>1 DEF AnyInv, Resynchronises, Framing, FieldOffset, FieldWidth, UseSpecials
<1> QED
  BY <1>2, <1>3, <1>4 DEF AnyInv

(* The position is lost in the payload or behind it only.                  *)
LEMMA OverflowAny ==
  ASSUME AnyInv, Overflow PROVE AnyInv'
<1>1. /\ pos = MAX_PACKET_LEN /\ pos' = 0
      /\ UNCHANGED <<state, bytes_read, bytes_to_read, next_is_special, packet>>
      /\ data' = <<>> /\ busy' = FALSE /\ iter' = 0 /\ received' = received
  BY DEF Overflow, ReturnCall
<1>2. ~(state <= 6)
  BY <1>1, HeaderFits
<1>3. ProtocolTypeOK'
  <2>1. <<>> \in Seq(Byte) /\ 0 \in 0..MAX_PACKET_LEN
    BY ProtocolAssumption
  <2> QED
    BY <1>1, <2>1 DEF AnyInv, ProtocolTypeOK
<1>4. Counting'
  BY <1>1 DEF AnyInv, Counting, UseSpecials
<1>5. Resynchronises'
  BY <1>1, <1>2 DEF Resynchronises, SEEKING_PAYLOAD_LENGTH
<1> QED
  BY <1>3, <1>4, <1>5 DEF AnyInv

LEMMA ParseByteAny ==
  ASSUME AnyInv, ParseByte PROVE AnyInv'
<1> DEFINE b == Head(data)
<1>1. /\ data # <<>> /\ bytes_read < bytes_to_read /\ pos # MAX_PACKET_LEN
      /\ Prefix \/ Store
      /\ data' = Tail(data)
      /\ iter' \in {iter, iter + 1}
      /\ UNCHANGED <<state, bytes_to_read, busy, received>>
  BY DEF ParseByte, InLoop
<1>2. b \in Byte /\ Tail(data) \in Seq(Byte)
  BY <1>1 DEF AnyInv, ProtocolTypeOK
<1>3. /\ state \in 1..9 /\ bytes_read \in 0..255 /\ bytes_to_read \in 0..255
      /\ MAX_PACKET_LEN \in Nat /\ pos \in 0..MAX_PACKET_LEN - 1
      /\ packet \in [0..MAX_PACKET_LEN - 1 -> Byte]
      /\ busy \in BOOLEAN /\ iter \in Nat /\ received \in Nat
  <2>1. MAX_PACKET_LEN \in Nat
    BY ProtocolAssumption
  <2> QED
    BY <1>1, <2>1 DEF AnyInv, ProtocolTypeOK
<1>4. state <= 6 => FieldOffset(state)' = FieldOffset(state)
                    /\ FieldWidth(state)' = FieldWidth(state)
  BY <1>1, <1>3
     DEF FieldOffset, FieldWidth, SEEKING_DESTINATION_ADDRESS, SEEKING_AM_TYPE,
         SEEKING_PAYLOAD, SEEKING_CRC
<1>5. CASE Prefix
  <2>1. /\ UseSpecials
        /\ next_is_special' \in {125, 126}
        /\ UNCHANGED <<pos, bytes_read, packet>>
    BY <1>5 DEF Prefix, IsPrefixByte
  <2>2. ProtocolTypeOK'
    BY <1>1, <1>2, <1>3, <2>1 DEF ProtocolTypeOK
  <2>3. Counting'
    BY <1>1, <2>1 DEF AnyInv, Counting, UseSpecials
  <2>4. Resynchronises'
    BY <1>1, <1>4, <2>1, <2>3, HeaderPosition
       DEF Counting, Resynchronises, Framing, SEEKING_PAYLOAD_LENGTH
  <2> QED
    BY <2>2, <2>3, <2>4 DEF AnyInv
<1>6. CASE Store
  <2>1. /\ packet' = [packet EXCEPT ![pos] = Decoded(b)]
        /\ pos' = pos + 1
        /\ bytes_read' = bytes_read + 1
        /\ next_is_special' = 0
    BY <1>6 DEF Store
  <2>2. packet' \in [0..MAX_PACKET_LEN - 1 -> Byte]
    BY <1>2, <1>3, <2>1, DecodedByte
  <2>3. ProtocolTypeOK'
    BY <1>1, <1>2, <1>3, <2>1, <2>2 DEF ProtocolTypeOK
  <2>4. Counting'
    BY <1>1, <1>3, <2>1 DEF Counting
  <2>5. Resynchronises'
    <3> SUFFICES ASSUME state <= 6 PROVE Framing'
      BY <1>1 DEF Resynchronises, SEEKING_PAYLOAD_LENGTH
    <3>1. pos' = FieldOffset(state)' + bytes_read'
      <4>1. pos = FieldOffset(state) + bytes_read /\ FieldOffset(state) \in Int
        BY HeaderPosition
      <4>2. FieldOffset(state)' = FieldOffset(state)
        BY <1>4
      <4> QED
        BY <1>3, <2>1, <4>1, <4>2
    <3> QED
      BY <1>1, <1>4, <2>1, <2>4, <3>1, HeaderPosition DEF Framing, Counting
  <2> QED
    BY <2>3, <2>4, <2>5 DEF AnyInv
<1> QED
  BY <1>1, <1>5, <1>6

(* The payload's length is taken from the header while it is in step.      *)
LEMMA NextFieldAny ==
  ASSUME AnyInv, NextField PROVE AnyInv'
<1>1. /\ bytes_read = bytes_to_read /\ state < 9
      /\ state' = state + 1 /\ bytes_to_read' = Width(state + 1)
      /\ bytes_read' = 0 /\ iter' = 0
      /\ UNCHANGED <<pos, next_is_special, packet, data, busy, received>>
  BY DEF NextField, FieldRead, set_state, SEEKING_END_BYTE
<1>2. /\ state \in 1..8 /\ packet \in [0..MAX_PACKET_LEN - 1 -> Byte]
      /\ MAX_PACKET_LEN \in Nat /\ MAX_PACKET_LEN > 23
      /\ next_is_special \in {0, 125, 126} /\ bytes_read \in 0..255
  BY <1>1, ProtocolAssumption DEF AnyInv, ProtocolTypeOK, LIGHT_OFFSET
<1>3. next_is_special = 0
  BY <1>1, <1>2 DEF AnyInv, Counting
<1>4. state <= 6 => /\ pos = FieldOffset(state) + FieldWidth(state)
                    /\ pos = FieldOffset(state + 1)
  <2> SUFFICES ASSUME state <= 6
               PROVE  /\ pos = FieldOffset(state) + FieldWidth(state)
                      /\ pos = FieldOffset(state + 1)
    OBVIOUS
  <2>1. pos = FieldOffset(state) + FieldWidth(state)
    BY <1>1, HeaderPosition
  <2> QED
    BY <1>2, <2>1, FieldTable
<1>5. /\ state = 6 => Width(7) = packet[6]
      /\ state # 6 => Width(state + 1) \in {1, 2}
  <2>1. state = 6 => pos = 7
    BY <1>4, FieldTable
  <2> QED
    BY <1>2, <2>1 DEF Width, SEEKING_DESTINATION_ADDRESS, SEEKING_PAYLOAD, SEEKING_CRC
<1>6. bytes_to_read' \in 0..255
  <2>1. packet[6] \in 0..255
    BY <1>2 DEF Byte
  <2> QED
    BY <1>1, <1>5, <2>1
<1>7. ProtocolTypeOK'
  BY <1>1, <1>2, <1>6 DEF AnyInv, ProtocolTypeOK
<1>8. Counting'
  BY <1>1, <1>3, <1>6 DEF Counting
<1>9. Resynchronises'
  <2> SUFFICES ASSUME state + 1 <= 6 PROVE Framing'
    BY <1>1 DEF Resynchronises, SEEKING_PAYLOAD_LENGTH
  <2>1. Width(state + 1) = FieldWidth(state + 1)
    BY <1>2 DEF Width, FieldWidth, SEEKING_DESTINATION_ADDRESS, SEEKING_PAYLOAD,
                SEEKING_CRC
  <2>2. /\ FieldOffset(state)' = FieldOffset(state + 1)
        /\ FieldWidth(state)' = FieldWidth(state + 1)
    BY <1>1 DEF FieldOffset, FieldWidth
  <2>3. FieldOffset(state + 1) \in Int
    BY <1>2, FieldTable
  <2> QED
    BY <1>1, <1>2, <1>3, <1>4, <1>8, <2>1, <2>2, <2>3 DEF Framing, Counting
<1> QED
  BY <1>7, <1>8, <1>9 DEF AnyInv

LEMMA PacketDoneAny ==
  ASSUME AnyInv, PacketDone PROVE AnyInv'
<1>1. /\ state' = 1 /\ bytes_to_read' = 1 /\ bytes_read' = 0
      /\ pos' = 0 /\ next_is_special' = 0 /\ packet' = packet
      /\ data' = <<>> /\ busy' = FALSE /\ iter' = 0 /\ received' = received
  BY DEF PacketDone, ReturnCall, set_state, SEEKING_START_BYTE
<1>2. ProtocolTypeOK'
  <2>1. <<>> \in Seq(Byte) /\ MAX_PACKET_LEN \in Nat
    BY ProtocolAssumption
  <2>2. packet' \in [0..MAX_PACKET_LEN - 1 -> Byte] /\ received \in Nat
    BY <1>1 DEF AnyInv, ProtocolTypeOK
  <2>3. /\ state' \in 1..9 /\ bytes_read' \in 0..255 /\ bytes_to_read' \in 0..255
        /\ pos' \in 0..MAX_PACKET_LEN
    BY <1>1, <2>1
  <2>4. next_is_special' \in {0, 125, 126} /\ iter' \in Nat
    BY <1>1
  <2>5. data' \in Seq(Byte) /\ received' \in Nat
    BY <1>1, <2>1, <2>2
  <2>6. busy' \in BOOLEAN
    BY <1>1
  <2> QED
    BY <2>2, <2>3, <2>4, <2>5, <2>6 DEF ProtocolTypeOK
<1>3. FieldOffset(state)' = 0 /\ FieldWidth(state)' = 1
  <2>1. FieldOffset(1) = 0 /\ FieldWidth(1) = 1
    BY FieldTable
  <2> QED
    BY <1>1, <2>1 DEF FieldOffset, FieldWidth
<1> QED
  BY <1>1, <1>2, <1>3 DEF AnyInv, Counting, Resynchronises, Framing

LEMMA NextAny == AnyInv /\ [ProtocolNext]_protocolVars => AnyInv'
<1> SUFFICES ASSUME AnyInv, [ProtocolNext]_protocolVars PROVE AnyInv'
  OBVIOUS
<1>1. data \in Seq(Byte) /\ busy \in BOOLEAN /\ iter \in Nat /\ received \in Nat
  BY DEF AnyInv, ProtocolTypeOK
<1>2. ASSUME NEW buf \in Buffers, Receive(buf) PROVE AnyInv'
  <2>1. buf \in Seq(Byte)
    BY ProtocolAssumption
  <2> QED
    BY <1>1, <1>2, <2>1, IdleAny DEF Receive
<1>3. CASE GiveUp \/ BufferDone
  <2>1. /\ UNCHANGED parserVars /\ data' = <<>> /\ busy' = FALSE /\ iter' = 0
        /\ received' = received
    BY <1>3 DEF GiveUp, BufferDone, ReturnCall
  <2>2. <<>> \in Seq(Byte) /\ FALSE \in BOOLEAN /\ 0 \in Nat
    OBVIOUS
  <2> QED
    BY <1>1, <2>1, <2>2, IdleAny
<1>4. CASE UNCHANGED protocolVars
  BY <1>1, <1>4, IdleAny DEF protocolVars, callVars
<1> QED
  BY <1>2, <1>3, <1>4, OverflowAny, ParseByteAny, NextFieldAny, PacketDoneAny
     DEF ProtocolNext, Parse

LEMMA AnyInvariance == ProtocolSpec => []AnyInv
BY InitAny, NextAny, PTL DEF ProtocolSpec

(* Whatever arrives, in builds with any buffer, the fields of the state    *)
(* structure keep their ranges: a byte is stored inside packet[].          *)
THEOREM ProtocolTypeCorrect == ProtocolSpec => []ProtocolTypeOK
<1> QED
  BY AnyInvariance, PTL DEF AnyInv

(* A packet that does not fit the buffer does not put the next one out of  *)
(* step: every header is stored where it belongs.                          *)
THEOREM HeadersResynchronise == ProtocolSpec => []Resynchronises
<1> QED
  BY AnyInvariance, PTL DEF AnyInv

-----------------------------------------------------------------------------
(* The token is free, or one terminal has it.                              *)
Token ==
  \/ lunix_disc_available = 1 /\ attached = {}
  \/ lunix_disc_available = 0 /\ \E t \in TTYs : attached = {t}

LEMMA InitToken == Init => Token
BY DEF Init, Token

LEMMA NextToken == Token /\ [Next]_vars => Token'
<1> SUFFICES ASSUME Token, [Next]_vars PROVE Token'
  OBVIOUS
<1>1. ASSUME NEW t \in TTYs, OpenLdisc(t) PROVE Token'
  BY <1>1 DEF OpenLdisc, Token
<1>2. ASSUME NEW t \in TTYs, CloseLdisc(t) PROVE Token'
  BY <1>2 DEF CloseLdisc, Token
<1>3. ASSUME UNCHANGED lineVars PROVE Token'
  BY <1>3 DEF lineVars, Token
<1>4. CASE UNCHANGED vars
  BY <1>3, <1>4 DEF vars
<1>5. CASE ParseStep
  BY <1>3, <1>5 DEF ParseStep
<1>6. ASSUME NEW t \in TTYs, NEW p \in Packets, Transmit(t, p) PROVE Token'
  BY <1>3, <1>6 DEF Transmit
<1>7. ASSUME NEW t \in TTYs, NEW n \in Chunks, ReceiveBuf(t, n) PROVE Token'
  BY <1>3, <1>7 DEF ReceiveBuf
<1> QED
  BY <1>1, <1>2, <1>4, <1>5, <1>6, <1>7 DEF Next

(* However terminals take and leave the discipline, at most one has it.    *)
THEOREM OneLine == Spec => []OneTerminal
<1>1. Token => OneTerminal
  BY DEF Token, OneTerminal
<1> QED
  BY <1>1, InitToken, NextToken, PTL DEF Spec
=============================================================================
