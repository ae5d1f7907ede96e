----------------------------- MODULE LunixFeed -----------------------------
(***************************************************************************)
(* What the line discipline promises to the sensors' buffers: every report *)
(* the network sends reaches its sensor once, in the order sent, with the  *)
(* values sent.                                                            *)
(***************************************************************************)
EXTENDS Naturals, Sequences

CONSTANT Reports      \* the measurements a sensor can report

VARIABLES sent, shown

FeedInit == sent = <<>> /\ shown = <<>>

Send == \E r \in Reports : sent' = Append(sent, r) /\ UNCHANGED shown

Show ==
  /\ Len(shown) < Len(sent)
  /\ shown' = Append(shown, sent[Len(shown) + 1])
  /\ UNCHANGED sent

FeedNext == Send \/ Show

FeedSpec == FeedInit /\ [][FeedNext]_<<sent, shown>> /\ WF_<<sent, shown>>(Show)
=============================================================================
