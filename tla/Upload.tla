------------------------------- MODULE Upload -------------------------------
(***************************************************************************)
(* The "knok" mode of the firmware (mcu/src/proto/knok.c on strobe.c): the *)
(* plipbox of a machine without software is asked with a few printed       *)
(* characters for an image, and a reader of PAR: (TYPE or boot.rexx) gets  *)
(* it byte by byte.  The main program polls, the strobe interrupt moves    *)
(* the data, and they share `state' and the acknowledge line.              *)
(*                                                                         *)
(* The Amiga's port is external.  It latches a pulse of ACK until it has   *)
(* read a byte, every access to the data pulses STROBE, and the interrupt  *)
(* of the device is over before the Amiga can answer its pulse: a read and *)
(* the interrupt it causes are one step.                                   *)
(***************************************************************************)
EXTENDS Naturals, Sequences

CONSTANTS Sizes,        \* sizes of images, in bytes
          Buffer,       \* bytes TYPE reads at a time (0xc4)
          Polls,        \* polls for a strobe and for the end (100)
          Ends,         \* polls for the end of the reader (60)
          BusyPolls,    \* polls with BUSY high after which it is gone (5)
          Key,          \* the characters that ask for the image
          Lines,        \* what is printed
          Readable,     \* the characters 32..127
          Wants,        \* how much a reader reads before it closes PAR:
          MaxUses       \* bound: PAR: is opened that often

UploadAssumption ==
  /\ Sizes \subseteq Nat \ {0} /\ Wants \subseteq Nat \ {0}
  /\ {Buffer, Polls, Ends, BusyPolls} \subseteq Nat \ {0}
  /\ MaxUses \in Nat
  /\ Key \in Seq(Readable)

VARIABLES size,      \* the image the key stands for
          phase,     \* where the main program is
          func,      \* strobe_func: "read" or "write"
          state,     \* the flags of the interrupt; "key" is state = 1
          key,       \* strobe_key
          strobes,   \* strobe_count
          left,      \* send_size
          data,      \* the data lines: a byte's number, or 0 for none
          ack,       \* the Amiga's latch of ACK
          count, busy, flag,   \* the locals of knok_upload
          result,    \* what the last upload returned, "none" in between
          amiga,     \* PAR: "idle", "writing" or "reading"
          todo,      \* characters to print
          want,      \* bytes to read
          uses,      \* how often PAR: was opened
          steady,    \* the reader has read a byte since the last poll
          got,       \* ghost: what was read in this upload
          mixed,     \* ghost: a character was printed in this upload
          cut        \* ghost: the last reader was stopped by its user

isr == <<state, key, strobes, left, data, ack>>
main == <<phase, func, count, busy, flag, result>>
port == <<amiga, todo, want, uses>>
ghosts == <<got, mixed, cut>>
vars == <<size, isr, main, port, steady, ghosts>>

Phases == {"keys", "print", "start", "pulse", "pulsed", "sending", "ending",
           "proto"}
Flags == {"GOT_STROBE", "ALL_SENT", "BUFFER_FILLED", "IS_BUSY"}

\* The byte of an image that follows n bytes, 0 after its end.
ByteAfter(n) == IF n < size THEN n + 1 ELSE 0

LastChars(s) == IF Len(s) > Len(Key)
                THEN SubSeq(s, Len(s) - Len(Key) + 1, Len(s)) ELSE s

-----------------------------------------------------------------------------
(* The strobe interrupt *)

\* A readable character enters the key; the fourth tells the main program.
ReadFunc(c) ==
  /\ ack' = TRUE
  /\ IF c \in Readable
     THEN /\ key' = LastChars(Append(key, c))
          /\ strobes' = (strobes + 1) % Len(Key)
          /\ state' = IF strobes + 1 = Len(Key) THEN {"key"} ELSE state
     ELSE UNCHANGED <<key, strobes, state>>
  /\ UNCHANGED <<left, data>>

\* A bug to rule out: the end is reported with the last byte put out.
WriteFuncEarly ==
  LET rest == IF left = 0 THEN 0 ELSE left - 1
      holds == strobes + 1 = Buffer /\ rest = 0
  IN /\ data' = ByteAfter(size - left)
     /\ left' = rest
     /\ state' = {"GOT_STROBE"}
                   \union (IF rest = 0 THEN {"ALL_SENT"} ELSE {})
                   \union (IF holds THEN {"BUFFER_FILLED"} ELSE {})
     /\ strobes' = (strobes + 1) % Buffer
     /\ ack' = ~holds
     /\ UNCHANGED key

\* A bug to rule out: every full buffer holds the acknowledge back.
WriteFuncHolds ==
  LET rest == IF left = 0 THEN 0 ELSE left - 1
      holds == strobes + 1 = Buffer
  IN /\ data' = ByteAfter(size - left)
     /\ left' = rest
     /\ state' = {"GOT_STROBE"}
                   \union (IF left = 0 THEN {"ALL_SENT"} ELSE {})
                   \union (IF holds THEN {"BUFFER_FILLED"} ELSE {})
     /\ strobes' = (strobes + 1) % Buffer
     /\ ack' = ~holds
     /\ UNCHANGED key

\* The flags of the strobe before are overwritten, and the acknowledge is
\* held back when a buffer is full and no byte is left to put out.
WriteFunc ==
  LET rest == IF left = 0 THEN 0 ELSE left - 1
      holds == strobes + 1 = Buffer /\ rest = 0
  IN /\ data' = ByteAfter(size - left)
     /\ left' = rest
     /\ state' = {"GOT_STROBE"}
                   \union (IF left = 0 THEN {"ALL_SENT"} ELSE {})
                   \union (IF holds THEN {"BUFFER_FILLED"} ELSE {})
     /\ strobes' = (strobes + 1) % Buffer
     /\ ack' = ~holds
     /\ UNCHANGED key

Strobe(c) == IF func = "write" THEN WriteFunc ELSE ReadFunc(c)

-----------------------------------------------------------------------------
(* The Amiga *)

OpenWrite(l) ==
  /\ amiga = "idle" /\ uses < MaxUses
  /\ amiga' = "writing" /\ todo' = l /\ uses' = uses + 1
  /\ UNCHANGED <<size, isr, main, want, steady, ghosts>>

\* A printed character waits for its acknowledge, and takes it.
WriteChar ==
  /\ amiga = "writing"
  /\ Strobe(Head(todo))
  /\ todo' = Tail(todo)
  /\ amiga' = IF Len(todo) = 1 THEN "idle" ELSE "writing"
  /\ mixed' = (mixed \/ func = "write")
  /\ UNCHANGED <<size, main, want, uses, steady, got, cut>>

OpenRead(n) ==
  /\ amiga = "idle" /\ uses < MaxUses
  /\ amiga' = "reading" /\ want' = n /\ uses' = uses + 1
  /\ cut' = FALSE
  /\ UNCHANGED <<size, isr, main, todo, steady, got, mixed>>

ReadByte ==
  /\ amiga = "reading" /\ ack
  /\ Strobe("open")
  /\ got' = IF func = "write" THEN Append(got, data) ELSE got
  /\ want' = want - 1
  /\ amiga' = IF want = 1 THEN "idle" ELSE "reading"
  /\ steady' = TRUE
  /\ UNCHANGED <<size, main, todo, uses, mixed, cut>>

\* Ctrl-C.
Stop ==
  /\ amiga = "reading"
  /\ amiga' = "idle"
  /\ cut' = TRUE
  /\ UNCHANGED <<size, isr, main, todo, want, uses, steady, got, mixed>>

-----------------------------------------------------------------------------
(* The main program *)

\* strobe_read_flag: BUSY is low while PAR: is in use, and the flags of the
\* interrupt are taken.
ReadFlag == state \union (IF amiga = "idle" THEN {"IS_BUSY"} ELSE {})

\* Timing: between two polls a reader with a latched pulse reads a byte.
PollDue == (amiga = "reading" /\ ack => steady) /\ steady' = FALSE

\* The early exit of knok_main after a reset for RESET or BOOTLOADER.
Bail ==
  /\ phase = "keys" /\ amiga = "idle"
  /\ phase' = "proto"
  /\ UNCHANGED <<size, isr, func, count, busy, flag, result, port, steady,
                 ghosts>>

GetKey ==
  /\ phase = "keys" /\ "key" \in state
  /\ state' = {}
  /\ phase' = IF key = Key THEN "print" ELSE "keys"
  /\ UNCHANGED <<size, key, strobes, left, data, ack, func, count, busy, flag,
                 result, port, steady, ghosts>>

\* The messages on the serial line take longer than the rest of a line that
\* is being printed (2 ms against one character).
SendBegin ==
  /\ phase = "print" /\ amiga # "writing"
  /\ phase' = "start"
  /\ data' = 1 /\ left' = size - 1
  /\ state' = {} /\ strobes' = 0 /\ func' = "write"
  /\ ack' = TRUE
  /\ count' = 0 /\ busy' = 0 /\ flag' = {} /\ result' = "none"
  /\ got' = <<>> /\ mixed' = FALSE
  /\ steady' = FALSE
  /\ UNCHANGED <<size, key, port, cut>>

SendEnd(res) ==
  /\ phase' = "keys" /\ func' = "read" /\ result' = res
  /\ data' = 0 /\ state' = {} /\ strobes' = 0

Sending(f) ==
  /\ phase' = IF "ALL_SENT" \in f THEN "ending" ELSE "sending"
  /\ flag' = f

\* 200 ms are over.  The interrupt may come between the look at the flags
\* and the pulse.
StartPoll ==
  /\ phase = "start" /\ PollDue
  /\ IF "GOT_STROBE" \in state
     THEN /\ Sending(ReadFlag)
          /\ count' = 0 /\ busy' = 0
     ELSE /\ phase' = "pulse" /\ flag' = ReadFlag
          /\ UNCHANGED <<count, busy>>
  /\ state' = {}
  /\ UNCHANGED <<size, key, strobes, left, data, ack, func, result, port,
                 ghosts>>

Pulse ==
  /\ phase = "pulse"
  /\ phase' = "pulsed" /\ ack' = TRUE
  /\ UNCHANGED <<size, state, key, strobes, left, data, func, count, busy,
                 flag, result, port, steady, ghosts>>

Pulsed ==
  /\ phase = "pulsed"
  /\ count' = count + 1
  /\ IF count + 1 = Polls
     THEN SendEnd("not started")
     ELSE /\ phase' = "start"
          /\ UNCHANGED <<func, result, data, state, strobes>>
  /\ UNCHANGED <<size, key, left, ack, busy, flag, port, steady, ghosts>>

BusyCount(f) == IF "IS_BUSY" \in f THEN busy + 1 ELSE 0

SendPoll ==
  /\ phase = "sending" /\ PollDue
  /\ LET f == ReadFlag
         b == BusyCount(f)
     IN IF b = BusyPolls \/ count + 1 = Polls
        THEN /\ SendEnd("aborted")
             /\ flag' = f
             /\ UNCHANGED <<count, busy>>
        ELSE /\ Sending(f)
             /\ state' = {}
             /\ IF "ALL_SENT" \in f
                THEN count' = 0 /\ busy' = 0
                ELSE count' = count + 1 /\ busy' = b
             /\ UNCHANGED <<func, result, data, strobes>>
  /\ UNCHANGED <<size, key, left, ack, port, ghosts>>

\* The flags a poll handles are those the poll before has read.
EndPoll ==
  /\ phase = "ending" /\ PollDue
  /\ ack' = (ack \/ "BUFFER_FILLED" \in flag)
  /\ LET b == BusyCount(flag)
     IN IF b = BusyPolls \/ count + 1 = Ends
        THEN /\ SendEnd(IF b = BusyPolls THEN "ok" ELSE "not finished")
             /\ UNCHANGED <<count, busy, flag>>
        ELSE /\ count' = count + 1 /\ busy' = b
             /\ flag' = ReadFlag /\ state' = {}
             /\ UNCHANGED <<phase, func, result, data, strobes>>
  /\ UNCHANGED <<size, key, left, port, ghosts>>

-----------------------------------------------------------------------------
Init ==
  /\ size \in Sizes
  /\ phase = "keys" /\ func = "read"
  /\ state = {} /\ key = <<>> /\ strobes = 0 /\ left = 0
  /\ data = 0 /\ ack = FALSE
  /\ count = 0 /\ busy = 0 /\ flag = {} /\ result = "none"
  /\ amiga = "idle" /\ todo = <<>> /\ want = 0 /\ uses = 0
  /\ steady = FALSE
  /\ got = <<>> /\ mixed = FALSE /\ cut = FALSE

KnokRuns == \/ GetKey \/ SendBegin \/ StartPoll \/ Pulse \/ Pulsed
            \/ SendPoll \/ EndPoll

Next ==
  \/ KnokRuns
  \/ Bail
  \/ \E l \in Lines : OpenWrite(l)
  \/ WriteChar
  \/ \E n \in Wants : OpenRead(n)
  \/ ReadByte
  \/ Stop

Spec == Init /\ [][Next]_vars

\* The main loop runs on, and a reader reads what is acknowledged.
LiveSpec == Spec /\ WF_vars(KnokRuns) /\ WF_vars(ReadByte)
                 /\ WF_vars(WriteChar)

-----------------------------------------------------------------------------
(* Properties *)

\* What readers get is the image in order and then zeros, whatever polls
\* pulse ACK in between; and an upload that reports SEND_OK was read to its
\* last byte.  Characters printed into an upload use up bytes (`mixed').
OkMeansRead ==
  mixed \/ /\ \A i \in DOMAIN got : got[i] = ByteAfter(i - 1)
           /\ result = "ok" => Len(got) >= size

\* A reader that opens PAR: while the device still waits for it, that reads
\* on steadily and is not stopped, gets the whole image, wherever its
\* buffers end.  One case is left out: when the last byte is the first of a
\* buffer its acknowledge is held back, and no poll of the second loop makes
\* up for it (strobe.c:150, knok.c:89).
ReaderGetsImage ==
  (/\ phase = "start" /\ count < Polls - 1 /\ got = <<>>
   /\ amiga = "reading" /\ want >= size /\ ~mixed
   /\ size < Polls /\ (size = 1 \/ size % Buffer # 1))
  ~> (Len(got) >= size \/ cut)
==============================================================================
