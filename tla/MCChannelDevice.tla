--------------------------- MODULE MCChannelDevice ---------------------------
(* Two channels with a handler, as in the test-pamela firmware, a number     *)
(* that has none and one that is out of range, under a driver that may send  *)
(* anything.                                                                 *)
EXTENDS ChannelDevice

MCChannels == {0, 1}
MCIds == {0, 1, 2, MaxChannel}
MCMtus == {1}
MCOffsets == {0}

==============================================================================
