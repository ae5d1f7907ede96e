--------------------------- MODULE LunixProtocol ---------------------------
(***************************************************************************)
(* The packet parser of the Lunix:TNG line discipline (lunix-protocol.c),  *)
(* one byte of a received buffer at a time.  The state machine is global,  *)
(* a call of lunix_protocol_received_buf runs alone, and a packet may be   *)
(* spread over any number of calls.                                        *)
(***************************************************************************)
EXTENDS Integers, Sequences

CONSTANTS
  Buffers,          \* byte sequences the tty layer may hand over
  MaxBytes,         \* bound: bytes handed over in a behaviour
  MAX_PACKET_LEN,
  LUNIX_DEBUG,      \* the build flag; the Makefile sets it
  IterLimit,        \* value of iter at which a debug build gives up
  lunix_sensor_cnt

Byte == 0..255

(* lunix-protocol.h *)
SEEKING_START_BYTE          == 1
SEEKING_PACKET_TYPE         == 2
SEEKING_DESTINATION_ADDRESS == 3
SEEKING_AM_TYPE             == 4
SEEKING_AM_GROUP            == 5
SEEKING_PAYLOAD_LENGTH      == 6
SEEKING_PAYLOAD             == 7
SEEKING_CRC                 == 8
SEEKING_END_BYTE            == 9

PACKET_SIGNATURE_OFFSET == 4
NODE_OFFSET             == 9
VREF_OFFSET             == 18
TEMPERATURE_OFFSET      == 20
LIGHT_OFFSET            == 22

ASSUME ProtocolAssumption ==
  /\ Buffers \subseteq Seq(Byte)
  /\ MaxBytes \in Nat
  /\ MAX_PACKET_LEN \in Nat /\ MAX_PACKET_LEN > LIGHT_OFFSET + 1
  /\ LUNIX_DEBUG \in BOOLEAN /\ IterLimit \in Nat \ {0}
  /\ lunix_sensor_cnt \in Nat

VARIABLES
  state, bytes_read, bytes_to_read, pos, next_is_special, packet,
  data,       \* bytes of the current buffer not consumed yet
  busy,       \* lunix_protocol_received_buf is running
  iter,       \* local of lunix_protocol_parse_state
  received,   \* bytes handed over so far
  updates     \* history: the sensor updates made, oldest first

parserVars == <<state, bytes_read, bytes_to_read, pos, next_is_special, packet>>
callVars   == <<data, busy, iter, received>>
protocolVars == <<parserVars, callVars, updates>>

set_state(s, btr) ==
  /\ state' = s
  /\ bytes_to_read' = btr
  /\ bytes_read' = 0

ProtocolInit ==      \* lunix_protocol_init, on a zeroed global
  /\ state = SEEKING_START_BYTE /\ bytes_to_read = 1 /\ bytes_read = 0
  /\ pos = 0 /\ next_is_special = 0
  /\ packet = [i \in 0..MAX_PACKET_LEN - 1 |-> 0]
  /\ data = <<>> /\ busy = FALSE /\ iter = 0 /\ received = 0
  /\ updates = <<>>

-----------------------------------------------------------------------------
(* The start, type and end bytes are never escaped. *)
UseSpecials ==
  state \notin {SEEKING_START_BYTE, SEEKING_PACKET_TYPE, SEEKING_END_BYTE}

Flip(b) == IF (b \div 32) % 2 = 1 THEN b - 32 ELSE b + 32     \* b ^ 0x20

(* Broken variant: forgets that the prefix tells how to read the next byte *)
DecodedRaw(b) == b

(* The byte to store after the prefix in next_is_special. *)
Decoded(b) ==
  IF UseSpecials /\ next_is_special = 125 THEN Flip(b) ELSE b

IsPrefixByte(b) == UseSpecials /\ next_is_special = 0 /\ b \in {125, 126}

Receive(buf) ==
  /\ ~busy
  /\ received + Len(buf) <= MaxBytes
  /\ busy' = TRUE /\ data' = buf /\ iter' = 0
  /\ received' = received + Len(buf)
  /\ UNCHANGED <<parserVars, updates>>

InLoop == busy /\ data # <<>> /\ bytes_read < bytes_to_read

(* The call returns; bytes of the buffer that are left are lost. *)
ReturnCall == busy' = FALSE /\ data' = <<>> /\ iter' = 0 /\ UNCHANGED received

TooManyIterations == LUNIX_DEBUG /\ iter + 1 = IterLimit

GiveUp ==
  /\ InLoop /\ TooManyIterations
  /\ ReturnCall
  /\ UNCHANGED <<parserVars, updates>>

Overflow ==
  /\ InLoop /\ ~TooManyIterations /\ pos = MAX_PACKET_LEN
  /\ pos' = 0
  /\ ReturnCall
  /\ UNCHANGED <<state, bytes_read, bytes_to_read, next_is_special, packet,
                 updates>>

Prefix ==
  /\ IsPrefixByte(Head(data))
  /\ next_is_special' = Head(data)
  /\ UNCHANGED <<pos, bytes_read, packet>>

Store ==
  /\ ~IsPrefixByte(Head(data))
  /\ packet' = [packet EXCEPT ![pos] = Decoded(Head(data))]
  /\ pos' = pos + 1
  /\ bytes_read' = bytes_read + 1
  /\ next_is_special' = 0

(* Broken variant: stores without looking at the length of the buffer. *)
ParseByteUnchecked ==
  /\ InLoop /\ ~TooManyIterations
  /\ Prefix \/ Store
  /\ data' = Tail(data)
  /\ iter' = IF LUNIX_DEBUG THEN iter + 1 ELSE iter
  /\ UNCHANGED <<state, bytes_to_read, busy, received, updates>>

ParseByte ==
  /\ InLoop /\ ~TooManyIterations /\ pos # MAX_PACKET_LEN
  /\ Prefix \/ Store
  /\ data' = Tail(data)
  /\ iter' = IF LUNIX_DEBUG THEN iter + 1 ELSE iter
  /\ UNCHANGED <<state, bytes_to_read, busy, received, updates>>

FieldRead == busy /\ bytes_read = bytes_to_read

(* Broken variant: the payload length is taken from the wrong byte. *)
WidthOffByOne(s) ==
  CASE s \in {SEEKING_DESTINATION_ADDRESS, SEEKING_CRC} -> 2
    [] s = SEEKING_PAYLOAD -> packet[pos - 1] + 1
    [] OTHER -> 1

(* bytes_to_read of the field entered next. *)
Width(s) ==
  CASE s \in {SEEKING_DESTINATION_ADDRESS, SEEKING_CRC} -> 2
    [] s = SEEKING_PAYLOAD -> packet[pos - 1]
    [] OTHER -> 1

NextField ==
  /\ FieldRead /\ state < SEEKING_END_BYTE
  /\ set_state(state + 1, Width(state + 1))
  /\ iter' = 0
  /\ UNCHANGED <<pos, next_is_special, packet, data, busy, received, updates>>

uint16_from_packet(offset) == packet[offset] + 256 * packet[offset + 1]

(* lunix_protocol_update_sensors *)
IsReport ==
  /\ packet[PACKET_SIGNATURE_OFFSET] = 11
  /\ uint16_from_packet(NODE_OFFSET) \in 1..lunix_sensor_cnt

Report ==
  [node  |-> uint16_from_packet(NODE_OFFSET),
   batt  |-> uint16_from_packet(VREF_OFFSET),
   temp  |-> uint16_from_packet(TEMPERATURE_OFFSET),
   light |-> uint16_from_packet(LIGHT_OFFSET)]

(* Broken variant: the escape state and position survive the packet. *)
PacketDoneKeepsPos ==
  /\ FieldRead /\ state = SEEKING_END_BYTE
  /\ updates' = IF IsReport THEN Append(updates, Report) ELSE updates
  /\ set_state(SEEKING_START_BYTE, 1)
  /\ ReturnCall
  /\ UNCHANGED <<pos, next_is_special, packet>>

PacketDone ==
  /\ FieldRead /\ state = SEEKING_END_BYTE
  /\ updates' = IF IsReport THEN Append(updates, Report) ELSE updates
  /\ pos' = 0 /\ next_is_special' = 0
  /\ set_state(SEEKING_START_BYTE, 1)
  /\ ReturnCall
  /\ UNCHANGED packet

BufferDone ==
  /\ busy /\ data = <<>> /\ bytes_read < bytes_to_read
  /\ ReturnCall
  /\ UNCHANGED <<parserVars, updates>>

(* The steps of one call of lunix_protocol_received_buf. *)
Parse ==
  GiveUp \/ Overflow \/ ParseByte \/ NextField \/ PacketDone \/ BufferDone

ProtocolNext == Parse \/ \E buf \in Buffers : Receive(buf)

ProtocolSpec == ProtocolInit /\ [][ProtocolNext]_protocolVars

-----------------------------------------------------------------------------
(* The fields of lunix_protocol_state_struct. *)
ProtocolTypeOK ==
  /\ state \in 1..9
  /\ bytes_read \in 0..255 /\ bytes_to_read \in 0..255
  /\ pos \in 0..MAX_PACKET_LEN
  /\ next_is_special \in {0, 125, 126}
  /\ packet \in [0..MAX_PACKET_LEN - 1 -> Byte]
  /\ data \in Seq(Byte) /\ busy \in BOOLEAN
  /\ iter \in Nat /\ received \in Nat

(* Where in the packet the field of each state begins. *)
FieldOffset(s) ==
  CASE s <= SEEKING_DESTINATION_ADDRESS -> s - 1
    [] s \in SEEKING_AM_TYPE..SEEKING_PAYLOAD -> s
    [] s = SEEKING_CRC -> 7 + packet[6]
    [] OTHER -> 9 + packet[6]

FieldWidth(s) ==
  CASE s \in {SEEKING_DESTINATION_ADDRESS, SEEKING_CRC} -> 2
    [] s = SEEKING_PAYLOAD -> packet[6]
    [] OTHER -> 1

(* The position, the state and the counters of the parser agree, however   *)
(* the bytes are cut into buffers and wherever a debug build gives up: each*)
(* stored byte lands at its place in the packet table of lunix-protocol.c  *)
(* and an escape prefix never outlives its field.                          *)
Framing ==
  /\ pos = FieldOffset(state) + bytes_read
  /\ bytes_read <= bytes_to_read
  /\ bytes_to_read = FieldWidth(state)
  /\ next_is_special # 0 => UseSpecials /\ bytes_read < bytes_to_read

(* With the buffer of 300 bytes no byte stream reaches its end: the branch *)
(* of lunix_protocol_parse_state that drops the position is never taken.   *)
NeverOverflows == pos < MAX_PACKET_LEN

(* In a build with a buffer too short for the payload the position is lost *)
(* at most until the packet ends: the header of the next one is stored     *)
(* where update_sensors looks for it.                                      *)
Resynchronises == state <= SEEKING_PAYLOAD_LENGTH => Framing

=============================================================================
