----------------------------- MODULE LunixLine -----------------------------
(***************************************************************************)
(* The line discipline (lunix-ldisc.c) between the serial lines and the    *)
(* parser: which terminal it is attached to, and how the packets on the    *)
(* line reach lunix_protocol_received_buf in buffers cut anywhere.         *)
(***************************************************************************)
EXTENDS LunixProtocol, SequencesExt

CONSTANTS
  TTYs,          \* terminals
  Packets,       \* packets the motes send
  MaxPackets,    \* bound: packets sent in a behaviour
  Chunks,        \* sizes of the buffers the tty layer hands over
  Aligned        \* do buffers and attachments begin and end with a packet?

ASSUME LineAssumption ==
  /\ MaxPackets \in Nat /\ Chunks \subseteq Nat \ {0}
  /\ Aligned \in BOOLEAN

VARIABLES
  lunix_disc_available,
  attached,      \* terminals the discipline is set on
  wire,          \* per terminal, packets on the line: what is left of each
  coming,        \* packets the motes may still send
  sent           \* history: the sensor reports sent, in order

lineVars == <<lunix_disc_available, attached>>
netVars  == <<wire, coming, sent>>
vars == <<protocolVars, lineVars, netVars>>

(* The motes' side of the packet table in lunix-protocol.c. *)
LittleEndian(n) == <<n % 256, n \div 256>>

EscapedByte(b) == IF b \in {125, 126} THEN <<125, Flip(b)>> ELSE <<b>>
Escaped(s) == FlattenSeq([i \in DOMAIN s |-> EscapedByte(s[i])])

(* A packet p has a payload of p.length bytes: a sensor report, or as much *)
(* of it as fits, and zeros.                                               *)
ReportBytes(p) ==
  LET report == <<0, 0>> \o LittleEndian(p.node) \o [i \in 1..7 |-> 0]
                  \o LittleEndian(p.batt) \o LittleEndian(p.temp)
                  \o LittleEndian(p.light)
  IN  SubSeq(report, 1, IF p.length < 17 THEN p.length ELSE 17)

Encoded(p) ==
  <<126, 66>>
    \o Escaped(<<126, 0, p.am, 1, p.length>> \o ReportBytes(p))
    \o [i \in 1..p.length - Len(ReportBytes(p)) |-> 0]
    \o Escaped(<<7, 125>>)
    \o <<126>>

IsReported(p) ==
  p.am = 11 /\ p.length >= 17 /\ p.node \in 1..lunix_sensor_cnt

ReportOf(p) ==
  [node |-> p.node, batt |-> p.batt, temp |-> p.temp, light |-> p.light]

Init ==
  /\ ProtocolInit
  /\ lunix_disc_available = 1 /\ attached = {}
  /\ wire = [t \in TTYs |-> <<>>]
  /\ coming = MaxPackets /\ sent = <<>>

(* Broken variant of lunix_ldisc_open: the token is tested, not taken. *)
OpenUncounted(t) ==
  /\ t \notin attached /\ lunix_disc_available # 0
  /\ attached' = attached \cup {t}
  /\ UNCHANGED <<lunix_disc_available, protocolVars, netVars>>

(* lunix_ldisc_open; -EPERM and -EBUSY change nothing. *)
OpenLdisc(t) ==
  /\ t \notin attached
  /\ lunix_disc_available # 0                  \* atomic_add_unless
  /\ lunix_disc_available' = lunix_disc_available - 1
  /\ attached' = attached \cup {t}
  /\ UNCHANGED <<protocolVars, netVars>>

(* lunix_ldisc_close, after the call in progress.  The parser keeps the    *)
(* packet it is in the middle of; another discipline gets what is left on  *)
(* the line.                                                               *)
CloseLdisc(t) ==
  /\ t \in attached /\ ~busy
  /\ Aligned => wire[t] = <<>>
  /\ lunix_disc_available' = lunix_disc_available + 1
  /\ attached' = attached \ {t}
  /\ wire' = [wire EXCEPT ![t] = <<>>]
  /\ UNCHANGED <<protocolVars, coming, sent>>

Transmit(t, p) ==
  /\ t \in attached /\ coming > 0
  /\ coming' = coming - 1
  /\ wire' = [wire EXCEPT ![t] = Append(@, Encoded(p))]
  /\ sent' = IF IsReported(p) THEN Append(sent, ReportOf(p)) ELSE sent
  /\ UNCHANGED <<protocolVars, lineVars>>

(* What is left of the packets ps when the first n bytes are taken. *)
DropBytes(ps, n) ==
  LET gone(k) == Len(FlattenSeq(SubSeq(ps, 1, k)))
      k == CHOOSE i \in 0..Len(ps) :
             gone(i) <= n /\ \A j \in 0..Len(ps) : gone(j) <= n => j <= i
      rest == SubSeq(ps, k + 1, Len(ps))
  IN  IF n = gone(k) THEN rest
      ELSE <<SubSeq(rest[1], n - gone(k) + 1, Len(rest[1]))>> \o Tail(rest)

(* lunix_ldisc_receive: the next n bytes of the line. *)
ReceiveBuf(t, n) ==
  /\ t \in attached
  /\ wire[t] # <<>>
  /\ n <= Len(IF Aligned THEN Head(wire[t]) ELSE FlattenSeq(wire[t]))
  /\ Receive(SubSeq(FlattenSeq(wire[t]), 1, n))
  /\ wire' = [wire EXCEPT ![t] = DropBytes(@, n)]
  /\ UNCHANGED <<lineVars, coming, sent>>

ParseStep == Parse /\ UNCHANGED <<lineVars, netVars>>

Next ==
  \/ ParseStep
  \/ \E t \in TTYs : OpenLdisc(t) \/ CloseLdisc(t)
  \/ \E t \in TTYs, p \in Packets : Transmit(t, p)
  \/ \E t \in TTYs, n \in Chunks : ReceiveBuf(t, n)

Spec == Init /\ [][Next]_vars

(* The tty worker hands over what has arrived and the parser runs.         *)
FairSpec ==
  /\ Spec
  /\ WF_vars(ParseStep)
  /\ \A t \in TTYs : WF_vars(\E n \in Chunks : ReceiveBuf(t, n))

-----------------------------------------------------------------------------
(* The parser's fields, the token of lunix_ldisc_open, and updates of       *)
(* sensors that exist.                                                     *)
TypeOK ==
  /\ ProtocolTypeOK
  /\ lunix_disc_available \in Nat
  /\ attached \subseteq TTYs
  /\ updates \in Seq([node : 1..lunix_sensor_cnt, batt : 0..65535,
                      temp : 0..65535, light : 0..65535])

(* Opens and closes in any order leave at most one terminal on the         *)
(* discipline, and a free discipline can be set on some terminal.          *)
OneTerminal ==
  /\ \A t, u \in attached : t = u
  /\ attached = {} <=> lunix_disc_available = 1

Feed == INSTANCE LunixFeed
          WITH Reports <- {ReportOf(p) : p \in Packets}, shown <- updates
(* When buffers and attachments are aligned with packets, the sensors are  *)
(* fed exactly what was sent, in order, however the packets are cut and    *)
(* escaped and whichever terminal they come from.                          *)
Fed == Feed!FeedSpec

(* The bytes of a packet begin with the start byte of the packet table.    *)
StartsWithStartByte == pos > 0 => packet[0] = 126
=============================================================================
