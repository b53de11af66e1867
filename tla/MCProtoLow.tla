----------------------------- MODULE MCProtoLow -----------------------------
(* A small instance of ProtoLow: an action, RESET and KNOK, and a word and a *)
(* block in each direction; a block is two words, like a long.               *)
EXTENDS ProtoLow

SomeCommands == {16, CmdReset, CmdKnok, 32, 48, 96, 112}

==============================================================================
