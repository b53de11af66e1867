--------------------------- MODULE MCChannelMaster ---------------------------
(* Small instances of ChannelMaster.                                         *)
EXTENDS ChannelMaster

Message(id, op, num, off) == [id |-> id, op |-> op, num |-> num, off |-> off]

(* One handle, whose channel is not the one that a fresh device has selected *)
(* and has no handler; three words in chunks of at most two, and offsets.    *)
OneChannel == {1}
OneAndNone == {0, 1}
WriteAndRead == {Message("w", "TX", 3, 1), Message("r", "RX", 1, 0)}
TwoWords == {2}
TwoOffsets == {0, 1}

(* Two channels that share the device.                                       *)
TwoChannels == {0, 1}
NoOffset == {0}
None == {}
SmallRead == {Message("r", "RX", 1, 0)}
SmallWrite == {Message("w", "TX", 1, 0)}
OneMtu == {1}


(* What the driver's future depends on: no command of a handle reads the     *)
(* error code or the error bit, the handlers' view of things is only         *)
(* written, and so is the result of a message until it is handed in again.   *)
(* States that differ in nothing else need not be told apart.                *)
DriverView ==
  <<mcu, [c \in Channels |-> [chan[c] EXCEPT !.err = "NONE"]], sel, busy,
    ch, work, {<<m, mres[m].got_words>> : m \in UNION {due[c] : c \in Handles}},
    due, moved, session, stray, faults>>

==============================================================================
