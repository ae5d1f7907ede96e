---------------------------- MODULE MCLunixLine -----------------------------
EXTENDS LunixLine

Mote(am, len, node, temp) ==
  [am |-> am, length |-> len, node |-> node, batt |-> 500, temp |-> temp,
   light |-> 381]                              \* 381 = <<125, 1>>

MCPlain     == Mote(11, 17, 1, 513)
MCEscaped   == Mote(11, 18, 2, 32381)          \* <<125, 126>>
MCForeign   == Mote(3, 4, 1, 513)
MCLong      == Mote(3, 255, 1, 513)
MCOutside   == Mote(11, 17, 3, 513)            \* no such node

MCPackets   == {MCEscaped, MCLong, MCOutside}
MCTwo       == {MCPlain, MCForeign}
=============================================================================
