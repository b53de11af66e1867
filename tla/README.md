# A TLA+ model of amiparbox

amiparbox connects a microcontroller (MCU) to the parallel port of an Amiga.
The Amiga is the master: it sends *commands*, and messages travel over
*channels* whose other end is a handler in the firmware. This directory holds
TLA+ modules of that system, TLC configurations that check them on small
instances, and proofs that TLAPS checks. Paths below are relative to `src/`.

1 the system · 2 modules · 3 runs · 4 proofs · 5 where the code differs from
its intent · 6 not modelled · 7 plan · 8 running it

## 1. The system

### Components

| component | code | state it keeps | operations |
|---|---|---|---|
| channel driver | `amiga/src/pamela/channel.c`, `channel_ops.c` | per handle: `state`, `mtu`, `mode`, message in work, `tr_words` | `channel_open/close/reset/poll/transfer/cancel`, `channel_work` |
| protocol commands | `amiga/src/proto/proto.c`, `proto_env.c` | port, timer, timeout | actions, word and long functions, message read/write, wait for events, init and exit |
| bit level, Amiga | `amiga/src/arch/m68k/mach-cia/proto_low.s` | CLK, data port, its direction | one routine per kind of command, `RAK`/`BUSY` tests with timeout flag |
| bit level, MCU | `mcu/src/arch/common/proto_low.c`, `mcu/src/arch/avr/proto_low_asm.S` | RAK, BUSY, data port | the duals of the above |
| protocol handler | `mcu/src/proto/proto.c`, `knok.c` | `busy` | dispatch of commands, knok mode, first command |
| channel core | `mcu/src/pamela/channel.c`, `proto_api.c`, `status.c` | per channel: `dev_state`, `flags`, `error_code`, `mtu`, transfer; selected channel; status word; busy count | one function per command, calls of the handlers |
| bootloader | `mcu/src/arch/common/bootbase.c`, `mcu/src/arch/avr/flash.c`, `amiga/src/pablo/` | page address and buffer, flash ROM | enter, write, read and verify pages, leave |
| exec devices | `amiga/src/device/`, `amiga/src/pamela/pam_engine.c` | library base, unit, worker task, semaphore, request port | OpenDevice, CloseDevice, BeginIO, AbortIO, Expunge |
| ACK interrupt, timers | `mach-cia/pario.c`, `pario_irq.s`, `amiga/src/base/timer.c` | `sent_signal`, task signals, timeout flag, the allocated resources | interrupt handler, confirm, wait, init and exit |
| heap | `mcu/src/base/mem.c` | free list, `free_total` | alloc, free, shrink |
| parameters | `mcu/src/param/param.c`, `bsp/eeprom.c` | EEPROM: values, CRC, size, version | get, set, sync, reset, check at start |
| strobe and `PAR:` upload | `mcu/src/arch/*/strobe.c`, `mcu/src/proto/knok.c` | byte stream of the `PAR:` handler, flags shared with the interrupt | keys, upload of the Amiga's software |
| drivers, SD card | `mcu/src/paloma/`, `mcu/src/driver/sdcard/` | table of drivers, card type, SPI bus | init, read, write, capacity |
| file system reader | `mcu/src/tools/ufat/` | mounted disk, reader and map of one file | mount, find, read, map |
| Ethernet chip | `mcu/src/driver/enc28j60/` | ring of received frames, buffer of the one sent | setup, receive, send |
| network chip | `mcu/src/driver/wiznet/` | sockets with a ring in each direction | open, receive, send, close |
| port of the emulator | `amiga/src/arch/m68k/mach-net/`, `host/test/proto_sim.py` | sequence numbers of both ends, queues of datagrams | every protocol command over UDP |
| displays, former handlers | `mcu/src/driver/display/` and others | cursor | drawing of text |
| definitions of the hardware | `mcu/src/arch/mk20/bsp/kinetis.h`, `mk20dx128.c` | – | register names, vectors, clocks |
| legacy core | `amiga/src/pamela/pamela.c` | – | not part of a build since `channel.c` |

### How they interact

* One Amiga task calls `channel_work` for one handle after the other (the test
  programs do it in a loop); each call runs *several* protocol commands for
  that handle. Between two of these commands the device runs its main loop:
  handlers may fail, raise BUSY, or the firmware may restart.
* All handles share one variable of the device, `channel_id`
  (`proto_api.c:17`), the channel that the next open, close, reset or status
  command is for. Data commands carry their channel themselves.
* A command either is carried out, is refused (`RET_DEVICE_BUSY`, RAK or BUSY
  in the wrong state before it starts), or times out — and a command that timed
  out may have been carried out.
* Amiga and device both compute the length of each data chunk, each from its
  own copy of message size, progress and MTU; nothing on the bus tells them
  that they disagree.
* The device recovers from a hang by a 500 ms watchdog. It then waits in knok
  mode for the RESET action; channels, selection and flags are gone, and no
  channel handle of the Amiga is told. The same RESET, as the BOOTLOADER
  action, leads into the bootloader, and knok mode is also where the device
  serves an Amiga without software over `PAR:`.
* A command polls the device and a flag that an exception of its timer sets;
  triggers of the device come as an interrupt of the ACK line that signals the
  task. The exec devices run this from a worker task, or from the caller's
  when the semaphore of the engine is free.
* In the firmware one loop calls the protocol handler and the handlers of the
  channels; only the strobe interrupt runs in between. The drivers share one
  SPI bus.

### What is hard about it

Interleaving of several handles over one selection; retries of operations that
were executed in part; a device that restarts in the middle; 16 bit counters
that are subtracted from; two peers that must compute the same chunk length;
one status bit for all channels; ownership of a message across cancel, reset,
failure and retry; a handshake that only half of the time waits for the other
side; timers and interrupts that belong to the call before; tasks that enter
while another leaves; power failures between two writes; rings and counters
that wrap at different places. The list, each at its line, is `hazards` in
`PROJECT.json`.

### What makes the components correct

* Channel core: one transfer per channel at a time; a running transfer keeps
  size and direction; a handler that was told of a begin can be told of an end;
  the status word tells the truth; errors of a channel stay with that channel.
* Channel driver: commands reach the channel they are meant for; a handle that
  looks open has an open channel; every accepted message is returned once, with
  the number of words that were moved; every operation ends.
* Bit level: both peers never drive the data lines at once, but for a late
  answer to a command that was given up; what one sends the other gets, in
  order; a dead peer is detected; RESET gets a device back.
* Devices: a request is replied exactly once; nobody uses a unit that is
  freed. Signals: no wakeup is lost, no timeout belongs to another call. Init:
  what failed in part is given back.
* Heap: chunks do not overlap, and freed memory can be allocated again.
  Parameters: after a power failure the device uses values of one sync, never a
  mixture. Bootloader: only whole images run; flashing again helps, unless a
  reset made the bootloader write over itself.
* Card and files: what is read is what was written; the bus is left free.
  Network: packets are taken whole and once; an OK belongs to its call.

## 2. Modules

    ChannelDevice ─┬ MCChannelDevice                ProtoLow ─┬ MCProtoLow
                   ├ ChannelDeviceProofs                      └ ProtoLowProofs
                   └ ChannelMaster ┬ INSTANCE ChannelService
                                   ├ MCChannelMaster
                                   └ ChannelMasterProofs
                                                    NetPort ─ INSTANCE Remote
    MemHeap ─┐                                      EncRing ──┼ MCNetwork
    Crc16 ───┤                                      Wiznet ───┘   └ NetworkProofs
    Params ──┼ MCStorage
    Ufat ────┤    └ StorageProofs                   Pablo ──────┬ MCPablo
    SdCard ──┘                                                  └ BootProofs
                                                    Upload ─ MCUpload ┘
    AmigaEvents ─┬ MCAmigaEvents
    ProtoEnv ────┘    └ EventsProofs                DevWorker ┬ MCDevWorker
                                                              └ DevWorkerProofs

`ChannelMasterProofs` also extends `ChannelDeviceProofs`, whose theorems it
uses. A module of proofs that extends an MC module reaches the parts of that
module under the names it gives them (`Sd`, `Eep`, `Env`, `Up`, `Wiz`, `Enc`); the
sizes such a part has in its run are constants there, and stay open in the
proofs.

`ChannelMaster` takes the protocol command as one step with a set of outcomes,
`ProtoLow` shows at the level of edges which outcomes there are, `AmigaEvents`
how a command's timeout comes about, `ProtoEnv` what must be acquired before,
and `NetPort` what becomes of the same commands over a network.

### ChannelDevice: the channels of the firmware

`chan` is the array of `struct channel`, `sel` is `channel_id`, `status` the
set of bits in `status_mask`, `busy` the counter of `status.c`. `mcu` says
whether the firmware is in its loop, hangs, or is in knok mode. `hnd` is what
the calls a handler got tell it: closed, open, or in the middle of a read or
write.

Every command binding is one action, complete with the handler call and the
error flag it raises. The firmware is one loop, so a command is atomic for
everything inside the device. Choices of a handler (does its open fail, which
MTU does it take, how many words does it offer) are nondeterministic.
`NoSuchChannel` is what a command to a channel without handler does: an endless
recursion between `get_channel` and `channel_set_error_code`.

`DevCommand` is the most general driver, any command for any channel at any
time, so the properties of this module hold whatever runs on the Amiga.

### ChannelMaster: the handles of the Amiga, with the device

`ch[c]` is the `struct channel_handle` (the fields that decide something),
`work` the handle `channel_work` runs for and its next protocol command,
`mres` the result fields of the messages. History variables: `due` (messages
accepted and not given back), `moved` (words the protocol confirmed for the
current message), `session` (how far the open of a handle got), `stray` and
`faults`.

The work of a handle is one action per protocol command (`WorkIndex`,
`WorkState`, ... `WorkChunk`, `WorkCancel`), each with the code that follows it
up to the next command. `Sends(told, cmd, res)` is a command with its outcome
`res`: done; refused because of BUSY; timed out because the device hangs or is
in knok mode; and, at most `MaxFaults` times, carried out although the Amiga
sees a timeout or BUSY, or not carried out because the firmware hangs. A
command that hangs the device ends in a timeout or, because the watchdog's
reset lets RAK rise, in `OK` (`HangResults`); `ProtoLow` shows both.

`AfterWork` is the tail of `channel_work`. `Report` is the end of
`channel_op_transfer` and `channel_op_cancel`, with `got_words` as a UWORD.

When both peers compute the same length, a chunk is one command
(`WorkChunk`). When they do not (`WorkChunkOutOfStep`), a device that expects
more words hangs until its watchdog; a device that expects fewer goes back to
its loop while the Amiga still clocks words, and takes one of them for a
command (`StrayCommand`) or restarts. `proto_low_read_block` and `_write_block`
count down before they test, so zero words are 65536 on the Amiga
(`WordsOnBus`).

### ChannelService: what the user of a handle is promised

Phases closed, ready, working, failed, and the messages a handle owns. No
device, no protocol, no commands. `ChannelMaster!KeepsService` is the
refinement: phase is `Phase(ch[c].state)`, owned is `due`.

### ProtoLow: the handshake, edge by edge

`apc`, `acmd`, `ai` are where the Amiga is in a routine of `proto_low.s`,
`dpc`, `dcmd`, `di` the same for the device; `clk`, `rak`, `busy` the lines,
`aout`/`adata` and `dout`/`ddata` the two data ports. What is read while both
ports drive, or none, is nobody's byte; a data byte that is taken for a
command may mean any (`ReadAsCommand`). One action per edge or turn of a port:
`Start` (the tests of RAK and BUSY), `ClkLow`, `InSync`, `PutByte`/`PutEdge`,
`DdrIn`, `GetEdge`/`GetByte`, ..., and the device's `SeesClk`, `GetCommand`,
`RakLow`, `TurnOut`, `SendByte`, `TakeByte`, `TurnIn`, `End`. Between its first
and last wait the Amiga does not look at RAK: it goes on as soon as the device
has answered the last edge, which is the pace `pamela.rst` gives
(`~Answering`). `Abort` and `EndTimeout` are the timeouts; `Watchdog`,
`BootPorts`, `EarlyExit`, `KnokBail` the way from a hang through the reset and
knok mode to the first command. `Recover` is an application that from then on
sends RESET only. The ghost `clean` becomes FALSE when the Amiga gives up
(`Abort`) on a command that the device has taken (`Serving`), and TRUE again
with the first attempt that finds the device without a command. What the code
does in between is in the model like everything else: the device goes on with
the command, drives the lines against the Amiga if it is a read, and may pass
off its RAK to the next one (section 5). `ChannelMaster`, whose commands are one
step, leaves this case out: there a command after a timeout finds a device that
is through with the one before.

### AmigaEvents and ProtoEnv: timers, triggers, resources

`AmigaEvents` is one task with its exception handler and interrupt, statement
by statement: `timer_start` to `timer_stop` with the flag the exception sets
(`cmdReq`, `flag`), `proto_env_wait_event` with its own timer (`sigReq`), the
ACK interrupt with `sent_signal` and the two statements of its confirm.
Exceptions come only where exec delivers them (not while the handler itself
runs), interrupts between any two steps.

`ProtoEnv` is `proto_env_init`, `proto_env_exit` and their `_events` variants
as sequences of things to acquire and to give back, one step each, any of which
may fail; `Undo` is the error exit of each. Two programs compete with each
other and with `other`, a printer driver, for the port and its bits
(misc.resource) and for the interrupt vector. `saved` and `regs` are the
registers of the CIA that `setup_port` saves and `restore_port` writes back.

### DevWorker: the exec devices

Clients open, use and close `pambox.device` or `pamnet.device` (`pc[c]`, one
request each, `req[c]`); `worker` is the task with its port, `sem` its
semaphore, `libOpen`, `openCnt`, `delexp` and `devSem` the library. exec calls
the library under Forbid, which every wait breaks: a step ends where the code
may wait, or where another task may come between two accesses. `EndIO` and
`WorkerRelease` run the engine's call. Three races of the code end in memory
that belongs to nobody; `harm` tells which has struck, and the model stops.

### MemHeap, Params, Crc16: memory of the firmware

`MemHeap`: `hdr` are the headers in the free memory, with both links, `first`
is `first_mi`, `blk` the size words of the blocks handed out. `Reached` is what
a walk along the list comes to. `FreeInternal` has a definition for
each branch of `free_internal`, in its order. The one that merges with the
*next* chunk only leaves a damaged list; what follows depends on the contents
of memory, so the model stops there (`mangled`).

`Params`: `cells` is the EEPROM, `todo` the writes the running call has still
to do — four, two or one byte on the mk20, as the address allows, single bytes
on the AVR. `PowerFail` strikes between any two. `Update` flashes the next
version of the firmware with another table. `Crc16` is the CRC as the code
computes it.

### Pablo: flashing

`pc`, `file`, `opts`, `page` are the Amiga's tool, from loading and checking
the file (`LoadFile`, `FileOk`) to leaving the bootloader; `dev` the device: off,
booting, in the loop of the bootloader, erasing, filling, in knok mode, in the
application. `MiniCommands` are what the bootloader's loop answers; it resets
on any other. `rom` holds a content per page, `Torn` after an erase. A reset in
a command makes it look done, since it releases RAK (`ResetInSetAddr`,
`ResetInWrite`), and leaves any address in RAM (`LoseRam`). The bootloader
checks no address. What is not in `Pages` is `Outside`, its own pages: there an
erase takes code away (`dev` becomes `"lost"`, and nothing is known of the
device any more) or meets a page without code, and the model has both outcomes
(`EraseBootloader`). A lost address that lies within a page is modelled as the
begin of that page; on the AVR the words would be rotated in it, which is again a
page that is not the file's.

### Upload: the image over `PAR:`

The phases of `knok_main` and `knok_upload` are the main program's polls of
200 ms, `WriteFunc` and `ReadFunc` the strobe interrupt; they share `state`,
whose flags the interrupt overwrites, and `ack`. The Amiga prints characters
(`WriteChar`), reads (`ReadByte`), or is stopped.

### SdCard, Ufat: storage

`SdCard`: a call of the driver is a sequence of commands, each a step; a
command may be damaged up to its retries, and data in both directions. `card`
is the real card, `cardType` what the driver takes it for, `cells` its blocks,
`wires` the select line and speed. `slots` is the driver's entry in the table
of `paloma.c`. `Ufat`: every FAT of at most `MaxCluster` clusters with one
file (`Disks`), `Mount`, `Find`, `ReadNext` over `ufat_read_t`, `MapInit` and
`MapBlock` over the list of runs.

### NetPort and Remote, EncRing, Wiznet: networks

`NetPort`: the port of the emulator (`mach-net`) sends each command with a
sequence number as a datagram and waits for the reply; `srvq` and `inbox` are
the queues of the sockets, from which datagrams are lost and in which they are
copied; the simulator and the handle start again. `Remote` is what it promises:
from one OK to the next one call is carried out at most, and OK brings its
answer. `ImplementsRemote` maps its history to the promise. `EncRing`: the chip
writes frames into a ring between any two calls of the driver, which keeps
`gNextPacketPtr` and tells the chip how far it may write; `bank` is the bank of
registers the chip has selected and the one the driver remembers, which a reset
of the chip tells apart. `Wiznet`: rings with
counters that wrap apart from the rings (`Counters`, `Mem`), commands that time
out, and the interrupt bits a call waits for.

### Abstractions

Words have no contents in the channel modules; lengths have. Sizes of messages
are small in the runs and arbitrary up to 65535 in the proofs. The chain of
buffers of a message (`advance_iov`) is taken to be as long as the message.
Callbacks do not call the API back. A caller clears `got_words` before it hands
in a message, as the callers in the repository do. The bytes of a transfer are
numbered in `ProtoLow` (byte i is i), an image is a sequence of page contents
in `Pablo` and of numbered bytes in `Upload`. Bounds in guards are named in
their modules: `MaxBusy`, `MaxFaults`, `MaxGiveUps`, `MaxCalls`, `MaxUses`,
`MaxVersion`, `MaxQueue`, `MaxPackets`, `MaxTimeouts`.

## 3. Runs

Some configurations hold several small parts that do not interact; the initial
states choose a part (`part`), and the others rest for the whole behaviour, so
that their states add up instead of multiplying.

| run | instance | properties | states |
|---|---|---|---|
| `device` | 2 channels with handler, one number without, one out of range; size 0 or 1 | `HandlerInStep`, `ErrorBitTellsTruth`, `TransferKept` | 1 168 129 |
| `master_one` | 1 handle, a write of 3 words and a read of at most 1, MTU 2, offsets 0 and 1, 1 fault | `OwnsWhatItMoves`, `BeginsAtOffset`, `ReportsWhatMoved`, `KeepsService` | 452 756 |
| `master_two` | 2 handles, no messages, 1 fault | `OpenedIsOpen`, `ForeignChannelsUntouched` | 200 496 |
| `master_live` | 1 handle, a read of 1 word from a device that offers up to 2, 1 fault | `WorkEnds` | 457 018 |
| `bus` | an action, a word and a block of 2 words in each direction, RESET, KNOK; 2 early timeouts | `NoContention`, `OkMeansDone`, `CarriesOutWhatIsAsked`, `LetsGo`, `Recovers` | 170 092 |
| `events` | the task with both timers; 2 programs and a printer | `TimeoutsAreOwn`, `NoTriggerLost`, `GivesAllBack`, `CallsReturn` | 64 112 |
| `exec` | 3 tasks | `OneOwner`, `UnitInUse`, `CallsEnd` | 26 760 |
| `storage` | heap of 32 bytes, headers of 6, requests of 4, 10 and 17; both EEPROMs, 3 versions; FATs of 6 clusters, chains up to 4, 1 or 2 sectors each, map of 2 runs; mmc, sd, sdhc and no card, 2 blocks, 3 faults | `Apart`, `Reusable`, `ReadsBack`, `StartsFromSync`, `ValidIsSafe`, `ReadsTheFile`, `BusIsFree`, `ReadsWhatWasWritten` | 816 811 |
| `boot` | 3 pages; files that match, of another machine or size, with a wrong CRC, without an AVR; 2 faults | `RunsWholeImages`, `VerifiedIsFlashed`, `KeepsBootloader`, `Recovers` | 229 302 |
| `upload` | images of 1 to 6 bytes, buffer of 3, 7 polls | `OkMeansRead`, `ReaderGetsImage` | 186 372 |
| `network` | 3 calls, blocks that fit, are cut and are too large, 2 faults; ring of 16 bytes; sockets 0 and 1 with 8 bytes, counters up to 16, 3 packets, 1 timeout | `OkIsForThisCall`, `TakenWhole`, `OkWhenSent`, `ImplementsRemote` | 4 164 487 |
| `transfer_ends` | 1 handle, a write, no faults | `TransferEnds`, violated | – |

A deadlock is an error in all runs but `storage`, `exec`, `upload` and
`network`: those come to rest when their calls, uses, polls or packets are used
up, or after a step whose outcome the code leaves open (a mangled heap, memory
used after it was freed).

### Why the instances are large enough

* **Channels.** A channel's commands touch that channel, `sel` and the status
  word only, so two channels show every interference there is; the number
  without handler and the one beyond `PROTO_MAX_CHANNEL` are the two ways to
  name a wrong channel. A message of three words in chunks of two has a first,
  a full and a short last chunk, and the second chunk is where the device,
  which never advances `tr_got_words`, computes a different length. Offsets 0
  and 1 separate the value a fresh channel has from the one a message asks for,
  and the two messages ask for different ones. One fault may hit any command;
  restarts, handler errors and BUSY are not bounded by it. `master_one` uses a
  VIEW (`DriverView`) without the error code, the error bit, the handlers' view
  and the result of messages that nobody has handed in: no action of the driver
  reads them, and none of the properties of that run either.
* **Bus.** The loops of `proto_low` treat all words but the last alike, so two
  words are a loop and its end. Timeouts while the device would still answer
  are bounded by 2: a second one meets what the first has left. Timeouts
  because the device is stuck are free.
* **Events.** There are no constants and no bounds: the state of the code is
  finite, and the run covers all of it.
* **Exec.** Three tasks: one that leaves, one that enters, and one that waits
  between them.
* **Storage.** The requests leave rests smaller and larger than a header, and
  up to three blocks are out at once, so that a chunk has neighbours on both
  sides. The tables put words, longs and blocks on even and odd addresses, and
  version 2 has the size of version 1 with another layout. Chains of four in
  six clusters over blocks of three FAT entries: files in one piece, in several,
  across the ends of a block of the FAT, of a cluster and of a sector, and maps
  that are too small. Two retries and three faults: a command can be lost for
  good and something else be damaged after it.
* **Boot.** A first, a middle and a last page with the tag and CRC. With two
  faults a second failure hits what recovers from the first.
* **Upload.** Images around one and two buffers, readers that want less, as
  much and more.
* **Network.** Ring sizes are those at which two packets fit and the third
  wraps; headers wrap on their own. Two faults: a lost and a copied datagram,
  or a restart and either.

### What the properties say

* `TransferKept`, `HandlerInStep` — begin, second begin, close in the middle,
  cancel and reopen in any order. `HandlerInStep` is subtle
  because `channel_close` does not clear the flags and `channel_open` does not
  end a transfer.
* `ErrorBitTellsTruth` — a raised error bit means that some channel has an
  error code to collect. (The reverse does not hold. With a channel 6 it would
  fail too: its rx bit is the error bit.)
* `ForeignChannelsUntouched` — an operation that is in its middle when the
  device restarts, or that was refused by BUSY, never goes on with another
  handle's channel selected.
* `OkIsForThisCall` — an OK of a call after an OK was carried out once, by the
  datagram of this call; and nothing was carried out after it, unless a
  simulator was started under an open handle (`sound`): a datagram of an
  earlier handle may then carry the number the new simulator expects. That
  takes four faults, more than the run has; the proof showed it.
* `OpenedIsOpen` — a handle that is idle after a successful open has an open
  channel, for any sequence of failed, repeated and refused commands.
* `BeginsAtOffset` — no message begins at the offset of an abandoned one.
* `OwnsWhatItMoves`, `ReportsWhatMoved`, `KeepsService` — messages are owned
  while worked on, returned once, and count exactly the words that were moved,
  repeated chunks counted once.
* `NoContention` — the data lines are never driven from both sides, also when
  the Amiga gives up before the device has taken the command or after its data
  (the handler of a write or an action hangs), or when the device is reset; *not* when the Amiga gives up on a read that the
  device has taken and answers late. `OkMeansDone`, `CarriesOutWhatIsAsked` — what
  reports OK moved all its bytes in order and was carried out once; no command
  is carried out that was not asked for: both also up to a command that the
  device takes and the Amiga gives up on. From there until a command finds the
  device without one (`clean`) they claim only that an OK is not out of thin
  air: the device carried out *some* command meanwhile, or was reset.
* `LetsGo` — the way out of that case, and of every other one: a device that has
  taken a command, whatever the Amiga gives up on and asks for next, gets out
  of it and takes its port off the lines. `Recovers` (bus) — after which RESET
  gets it back, from every state of both sides.
* `KeepsBootloader` — of all the ways a flashing can go wrong, only a reset
  while pablo is at work makes the bootloader write over itself. `Recovers`
  (boot) — if that has not happened, a user who flashes a matching file again
  and again gets it to run.
* `TimeoutsAreOwn`, `NoTriggerLost`, `GivesAllBack`, `OneOwner`, `UnitInUse`,
  `Apart`, `Reusable`, `ReadsBack`, `StartsFromSync`,
  `ValidIsSafe`, `ReadsTheFile`, `BusIsFree`, `ReadsWhatWasWritten`,
  `RunsWholeImages`, `VerifiedIsFlashed`, `OkMeansRead`, `TakenWhole`,
  `OkWhenSent` — stated, each with the code behaviour it is
  about, at the end of their modules.

### Fairness

| run | assumed | because |
|---|---|---|
| `master_live`, `transfer_ends` | SF of the work of each handle, BUSY stays down in the end; nothing of the device | the application calls `channel_work` for every handle again and again, as `wait_status` of `pamela-testsuite.c` does; strong, because the handles take turns |
| `bus` | WF of the Amiga's routine, of its timeout, of the device's loop, of the watchdog; an application that has decided to recover sends RESET again; `LetsGo` rests on the device's loop and the watchdog | code that runs without waiting for the other side; two timers |
| `events` | WF of the task, of the exception handler, of both timers | exec schedules the task; timers run out. Nothing of the device, of interrupts, of extra signals |
| `exec` | WF of worker and clients, SF of what obtains a semaphore, as long as no harm is done | exec's semaphores are granted in the order of requests |
| `boot` | WF of pablo and of the device, SF of a user's flashing each matching file | "flashing again helps" is about a user who does |
| `upload` | WF of the polls, of `ReadByte` and of `WriteChar` | the main loop runs; a reader and a writer of `PAR:` that do not stop |

`Upload` also assumes timing: the strobe interrupt is over before the Amiga
answers its pulse, serial printing of a line is slower than the rest of the key
arrives, and a steady reader reads between two polls of 200 ms (`PollDue`).

### Where a property is exempt

A property says what the code does in all cases but those where it visibly
does not; the exempt case is named by a history variable or condition of the
module, and the step that leads to it is in the model.

| condition | module | what it exempts |
|---|---|---|
| `wiped` | AmigaEvents | an interrupt between `sent_signal = 0` and `SetSignal` (`pario.c:241`) |
| `harm` | DevWorker | the three races of section 5 |
| `mangled` | MemHeap | a free that merges with the next chunk only |
| `above`, `lost` | MemHeap | frees below the first chunk; a rest too small for a header |
| `unmarked` | Params | settings changed by `param_set_block` alone, which does not mark them DIRTY |
| `clean` | ProtoLow | what follows when the Amiga gives up on a command that the device has taken, until a command finds the device without one: a read answered late drives the lines against the Amiga; the leftover is carried out; a command sent meanwhile may end OK with the leftover's RAK, and its bytes may be taken for commands |
| `intact` | Pablo | for a clean verify, a reset during it; for the bootloader's pages, a reset since the device gave its infos |
| `dev = "lost"` | Pablo | for flashing again, a bootloader that wrote over itself; of what it does then nothing is said |
| `eepState = "INVALID"` | Params | what the getters give while the record is refused |
| `mixed`, `size % Buffer # 1` | Upload | characters printed into an upload; an image whose last byte begins a buffer stalls |
| `InOnePiece` | Ufat | reading (not mapping) a file in several pieces |
| `known`, `useCrc` | SdCard | an init that lost a command for good; cards without CRC |
| `hist.after`, `sound` | NetPort | the call after one that failed; a simulator started under an open handle |
| `cpu = "avr"` | EncRing | the mk20, whose 32 bit int defeats a test |
| `sound` | Wiznet | sockets on which a command timed out |
| `"env"` | ProtoEnv | the handle that a failed init does not free |

Each property of the passing runs has a mutant: a definition with a plausible
mistake that makes TLC find a violation (`mutants` in `PROJECT.json`). The
mutated definitions stand before the ones they replace and are used nowhere
else.

## 4. Proofs

For every value of the constants that satisfies the named assumptions:

| theorem | module | states |
|---|---|---|
| `DeviceType` | ChannelDeviceProofs | `DevSpec => []DevTypeOK` |
| `OneTransferAtATime` | | `DevSpec => []OneTransfer` |
| `HandlersInStep` | | `DevSpec => []HandlerInStep` |
| `TransfersKept` | | `DevSpec => TransferKept` |
| `ErrorBitIsTrue` | | `DevSpec => []ErrorBitTellsTruth`, if `ErrorBit \notin Channels` |
| `DriverType` | ChannelMasterProofs | `Spec => []TypeOK` |
| `OwnershipKept` | | `Spec => []OwnsWhatItMoves` |
| `ReportsTrueCounts` | | `Spec => ReportsWhatMoved` |
| `OpenedStaysOpen` | | `Spec => []OpenedIsOpen` |
| `MessageAtOffset` | | `Spec => []BeginsAtOffset` |
| `ChannelsApart` | | `Spec => ForeignChannelsUntouched` |
| `DriverImplementsService` | | `Spec => KeepsService` |
| `PortsApart` | ProtoLowProofs | `Spec => []NoContention` |
| `OkWasDone` | | `Spec => []OkMeansDone` |
| `CarriedOutAsAsked` | | `Spec => CarriesOutWhatIsAsked` |
| `TimeoutsBelong` | EventsProofs | `Spec => []TimeoutsAreOwn` |
| `TriggersArePending` | | `Spec => []NoTriggerLost` |
| `EverythingIsGivenBack` | | `Env!Spec => []GivesAllBack` |
| `RequestsHaveOneOwner` | DevWorkerProofs | `Spec => []OneOwner` |
| `UnitServesItsUsers` | | `Spec => []UnitInUse` |
| `HeapType` | StorageProofs | `Spec => []TypeOK` |
| `NothingOverlaps` | | `Spec => []Apart` |
| `EveryByteIsCounted` | | `Spec => []Accounted` |
| `HeapComesBack` | | `Spec => []Reusable` |
| `BusLeftFree` | | `Sd!Spec => []BusIsFree` |
| `ReadsWhatIsWritten` | | `Sd!Spec => []ReadsWhatWasWritten` |
| `ValidSurvives` | | `Eep!Spec => []ValidIsSafe` |
| `ReadsBackAsSet` | | `Eep!Spec => []ReadsBack` |
| `FilesReadInOrder` | | `File!Spec => []ReadsTheFile` |
| `OnlyWholeImagesRun` | BootProofs | `Spec => []RunsWholeImages` |
| `CleanVerifyMeansFlashed` | | `Spec => []VerifiedIsFlashed` |
| `OnlyResetsHarmBootloader` | | `Spec => KeepsBootloader` |
| `UploadsAreRead` | | `Up!Spec => []OkMeansRead` |
| `OkIsForItsCall` | NetworkProofs | `Spec => []OkIsForThisCall` |
| `PortKeepsPromise` | | `Spec => ImplementsRemote` |
| `OkIsForItsPacket` | | `Wiz!Spec => []OkWhenSent` |
| `PacketsComeWhole` | | `NetworkSpec => []TakenWhole` |

Assumptions, each named in its module and evaluated by TLC in the runs:

* channels: `ChannelsAssumption`, `MtuAssumption` (MTUs are positive),
  `WordsAssumption` (sizes fit 16 bits), `OffsetAssumption`,
  `HandlesAssumption`, `ModeAssumption`, `MsgsAssumption` (sizes and offsets of
  messages are in range), `FaultsAssumption`;
* bus: `CommandsAssumption` (commands are 16 to 191, as in `proto_shared.h`),
  `BlockAssumption` (a block has a word), `GiveUpsAssumption`;
* exec devices: `ClientsAssumption`, that tasks are finitely many and none is
  one of the marks; events: `EventsAssumption`, the same of programs;
* heap: `FreeAssumption`, heap and header have a size, and
  `RequestsAssumption`, no request makes the 16 bit sum of `mem_alloc` wrap;
* card and EEPROM: `StorageAssumption`, positive sizes and retries of the card;
  tables of parameters whose entries lie within the data and apart, as those
  of `param_def.c` do, and settings that are bytes; files: `UfatAssumption`,
  positive sizes, and the fields of a boot sector are not negative;
* flashing: those of `Pablo`: at least one page, images and files that map
  pages to contents; upload: `UploadsAssumption`, positive sizes;
* emulator: `SizesAssumption` and `NoneAssumption`, that the mark for "nothing"
  is no call;
* network chips: `NetworkAssumption`. WIZ820io: the size of a ring divides the
  number of values of its counters and is less, as 4096 does 65536. ENC28J60:
  `RXSTOP` is odd, as the chip's errata ask for, and below `RAM_END`, which fits
  16 bits; a header has an even, positive number of bytes.

`ErrorBitIsTrue` alone has a hypothesis that is no assumption of its module:
`status_set_rx_flag` (`status.c:42`) sets bit `1 << chan` of the status word,
so a channel numbered 6 raises the error bit whenever it has something to read.
`PROTO_STATUS_MASK_RX_PENDING` leaves room for the channels 0 to 5 only,
`PROTO_MAX_CHANNEL` allows 14.

**Device.** `OneTransfer` with types is inductive: a flag is only added when
none is set. `HandlerInStep` needs `OneTransfer`: a cancel clears the read flag
*or else* the write flag, and only because at most one is set does the handler
that is told of the end have none left. `TransferKept` follows from the
refusal in both begins and, again, from one flag at a time.

`ErrorBitTellsTruth` with types is inductive as well, in one way only because
`channel_get_error_code` clears the bit whenever it clears an error, although
others may be left (section 5).

**Types of the driver.** `TypeOK` is not inductive. `Report` indexes `mres`
with the handle's message, so in TRANSFER and CANCEL the message must be one;
`work.pc` must fit the handle's state, or a chunk would be moved for a handle
without message. `TypeInv` adds that. Lemmas on words (`WordRange`, `WordSum`)
bound what 16 bit subtraction gives.

**Ownership.** `OwnInv` is `TypeInv` with `OwnsWhatItMoves` and: a running
command belongs to a handle in the state that started it, which only a reset
can change, and no reset happens during `channel_work`. Every work step is one
of a few *effects* on its handle (`Holds`, `Sized`, `Moves`, `Reports`), every
API call a `Calls`; the lemmas `WorkEffect` and `CallEffects` classify the
actions once, and ownership, counts and refinement are each proved from the
effects.

**Counts.** `MoveInv`: while a message has its size, `got_words` of the message
is the size and `moved[c] + tr_words` equals it; before that both are 0.
`Report` subtracts what is left, so what it hands back is `moved`. The size
mismatch of a read is excluded by the property (its count is wrong, see
section 5).

**Selection.** `SelectInv` is what `OpenedIsOpen`, `BeginsAtOffset` and
`ForeignChannelsUntouched` rest on. `SelIsOwn`: from the command that selects
the channel until the end of the run of `channel_work`, the selection of a
device that runs is that handle's. It is what the device's own resets could
break; but then `mcu` leaves "run", and every command fails until an
application's RESET, which no `channel_work` is in the middle of.
`ClosingIsOver`: a handle that is being closed or reset has no session any
more, so that the CLOSE action ends nobody's. `CheckedIsActed`: the look at the
state that follows an open comes after its action. Each command then is one
that changes no channel but its own (`Near`), and keeps its own open unless it
is the CLOSE action.

**Refinement of the driver.** Every effect maps to a step of `ChannelService` or leaves
phases and ownership alone; `StepServes` puts them together.

**Heap.** `Apart` needs to know that the links are sound: `HeapInv` says that
prev and next agree (`Linked`), that a rank falls along the list so that it has
no loop (`Ranked`), and that headers and blocks lie within the heap and apart
from each other. A rank, not the address: the list is *not* in the order of
addresses, because a chunk freed below the first one is linked behind it. Each
branch of `free_internal` then is a lemma on how the three sets change, and
`mangled` closes the one that breaks `Linked`. The same lemmas say which bytes
a step adds to the chunks, and `Counted` follows for their number;
`AllAreListed` shows that a walk reaches every chunk: the lowest rank among the
others would belong to the next of a chunk that is reached (`Least`: a set of
numbers has a least one). For `Reusable` nothing may have been freed below the
first chunk (`above`): then the list *is* in the order of addresses with a gap
between neighbours (`Sorted`), so that with all bytes covered (`Covered`) there
can be no second chunk. A free that mangles the list leaves such a gap, and the
bytes in the gap belong to another block.

**Card.** `BusInv` adds to `BusIsFree` that only an init slows the bus down,
and that the record of the call has its fields. `CardInv` follows an init
command by command: as long as none was lost (`known`), the type found so far
is that of the card (`InitSofar`); after it the driver counts blocks as the
card does and the card checks CRCs as the driver does. Then the address of a
block leads to that block (`BlockOfAddress`, for every block size), and a
write changes what was written and nothing else.

**Timers and triggers.** `CommandInv` ties the timer of the commands to the
places of the task: it goes round from `Ready` by `Armed` and `Runs` to `Back`,
where exactly one of the signal, the exception handler and the flag has it. A
command has it `Runs`, or has used up its time; `WaitSync` lets nobody clear the
flag before it is `Ready` again. `WaitInv` says the same of the timer of a wait,
whose signal is cleared before it is sent. For triggers, `SentInv` says that
while `sent_signal` is set the signal is pending, or the wait that took it has
still to confirm it.

**Resources.** Every call goes through a sequence of things. `EnvInv` says that
what is left of it is in order (`Ordered`: what stands on a thing is given back
before it; `Upright`: a thing comes when all that it stands on is had), how much
a program has at most at rest and after a failure (`HasInv`), and that a shared
thing is held by who has it and the saved registers are those of the others
(`SharedInv`).

**Exec devices.** `DevInv` is that, unless `harm` was done, a request is at the
port at most once and only where its owner has sent it (`RequestInv`), each
semaphore is held by the task between its two calls (`HolderInv`), the counters
are the numbers of tasks in certain places (`CountInv`), and the unit and its
worker are there for all who count on them (`UnitInv`). The last needs that the
task which starts a worker finds an empty port and the one which stops it is
the last, so that no request of another is at the port together with CMD_TERM.
The three steps that do harm need no argument: they set `harm`, and are the
ones for which `UnitInv` cannot be shown.

**Bus.** `BusInv` first says of each side alone what its place tells of its
lines and its count (`AmigaInv`, `DeviceInv`): the level of CLK is the parity of
the bytes moved, RAK is low from the begin of a transfer to its end. Each side's
steps preserve its own part whatever the other does. `AnswerInv` is what holds of
every attempt: one that got past the wait for RAK has been answered by a
command that is or was carried out, or by a reset. `CleanInv` is about
the attempts that are not exempt (`clean`: section 3), and the theorems claim
contention, order and identity for these only. It says for each place of the device where the
Amiga may be meanwhile: without a command (`QuietInv`), with one (`ServedInv`),
within a read (`ReadInv`) or a write (`WriteInv`), where their counts differ by
one edge at most; `DataInv` is that the bytes so far arrived in order. Because
a word moves on two edges CLK is back where it was after each word, and a
command ends with the level at which it began (`CommandBytes`). Ports are
apart since the device drives in `"bytes"` of a read only, and there
`ReadInv` says that the Amiga has turned its own port round. A data byte is
never taken for a command, since in `"poll"` the Amiga is at a command or at
rest. What happens after the Amiga has given up on a command that was taken,
until one finds the device without a command, is in the model and exempt:
the properties would be wrong there.

**Parameters.** `ParamsInv` follows a sync write by write: each byte of the
header is what `param_sync` means it to be, or a write still to come (`todo`)
covers it (`Syncing`). The data do not change meanwhile, so neither does the CRC
that belongs there. When nothing is left to write, `param_check` would accept
the record, and only then the state is VALID. That words, longs and bytes
together write each byte once, at even and odd addresses, are lemmas on pieces
(`PairPieces`, `OnePiece`, `HasJoined`). That `calc_eep_crc` gives a word is all
the proof needs of it. `Reading` does the same for the data: each byte that the
calls have asked for (`want`) is in the EEPROM, or a write of the running call
covers it, and such a call writes nothing that was not asked for
(`DataWrites`). It rests on what the two loops over a value and over the table
write, whatever their length: `StoresPieces`, for a value of any size at any
address, and `DefaultsStored`, for a table of any entries. Their recursive
functions exist (`RecursionEnds`, `RecursionGrows`), and a least place where
they go wrong would have a smaller one. Since entries lie apart, one write
cannot undo another (`OneEntry`).

**Files.** `FileInv` ties a reader to a place in the file (`Place`): sector
`reads` lies in the cluster where the reader is, the clusters that it has
counted ahead belong to the file, and `next` names the last of them unless the
file ends there. That counting ahead stops at the end of the file is because the
mark there continues no count (`NextInPiece`), wherever the blocks of the FAT
end. A map (`IsMap`) is described by where its runs begin: each run holds as
many clusters of the file as it says, in their order, and all of them are in
some run. A cluster that joins the last run or begins the next one keeps that
(`RunGrows`, `RunBegins`), so it holds for a chain of any length
(`MapOfChain`), and the sums that `ufat_blk_io_map` counts up are these begins
(`BeforeIs`).

**Upload.** `SendMode`: the strobes serve an image only while one is sent.
`Position`: unless characters were printed into the upload, the byte on the
lines is the one after those that were read, and `left` counts those behind it,
so the flag that ends `knok_upload` comes after the last byte.

**Port of the emulator.** The queues are looked at as sets of datagrams, so
that loss, copies and another order need no case of their own. `OwnInv`:
nothing bears a number the handle has yet to reach. `IdInv`: a datagram that
was carried out, and each of its copies, bears a number that the simulator no
longer expects, so nothing is carried out twice. `CallInv`: after an OK the
number of the next call is new, and until a first failure only that call bears
it, so the reply with that number is its reply. `SoundInv`: while no simulator
was started behind the handle's back, the simulator is never behind the handle,
and once it has carried out a call since the last OK it is ahead of all that
was sent, and carries out no other; that is the refinement of `Remote`, whose
steps `PortKeepsPromise` finds one by one. `LastInv`: nothing comes after what
was answered.

**Sending by the WIZ820io.** `AtRest`, `Filling` and `Waiting` say for each place
of a call what lies in the ring between TX_RD and TX_WR: nothing, the bytes
handed over so far, the packet. Pointers are counters modulo `Counters` and
places in the ring modulo `Mem`, and since the one divides the other, a place
in the ring does not depend on how often the counter has wrapped. A packet
is at most as long as the ring, so that its bytes lie apart.

**Taking packets.** For both chips the packets that wait tile the ring: offsets
from the first one grow by the size of each packet (`Tiles`), together they are
what the write pointer is ahead of the read pointer, and at each offset lies the
header and the data of its packet (`Lies`, `Fits`). A packet that comes is
written behind the last tile; a packet that is taken moves all offsets; in
between, what a call has read is a prefix of the first one. Then the next
header is at the first offset. The chip of the ENC28J60 writes whenever it
likes; it is kept out by ERXRDPT, which is one before the oldest frame
(`Before`), or at the end of the ring for a frame at 0. Frames take an even
number of bytes, so that all pointers are even and this one is odd: it never
meets the pointer that writes, "empty" is not taken for "full", and what the
chip sees as room is room (`EncRoom`). `Idle` is the invariant between calls,
`Within` from `recv_begin` to `recv_end`. For the banks, `Settled`: the driver's
copy of the bank is wrong at most from a reset to the setup, and then is not
the bank that the setup selects first, so that this selection is not left out.

**Flashing.** `RunsWholeImages` with types is inductive: `AfterReset` looks at
the ROM whenever an application starts, and the application is left by a reset
only. For `VerifiedIsFlashed`, `Compared` says that as long as the device has
not reset (`intact`) it is in its loop during the verify, so that it writes
nothing, that it holds the address of the page that is read next, and that all
pages below `page` are those of the file; after the last page they are all
(`SamePages`). A device that did reset may hold any address, and nothing is
claimed. `Addressed` says the same of flashing: as long as the device is
`intact`, the address it holds from the command that sets it to the erase is
that of a page of the ROM; hence `KeepsBootloader`. `RunsWholeImages` needs no
such thing, since nothing but a whole bootloader makes `dev` an application.

The inductive invariants were first checked with TLC on the instances of their
runs.

### Only proved

`OneTransfer` and `Accounted` are bookkeeping that `HandlerInStep`,
`TransferKept` and `Reusable` rest on: theorems, but not properties of a run.

### Only model-checked

* Liveness: `WorkEnds`, `LetsGo`, `Recovers` (bus and boot), `CallsReturn`, `CallsEnd`,
  `ReaderGetsImage`. Out of the prover's reach.
* `StartsFromSync`: that a CRC tells one record from another is true of the
  run's values, and cannot be of all records of more than two bytes.

## 5. Where the code differs from its intent

The models follow the code in all of this. The first entry is the run
`transfer_ends` and a finding in `PROJECT.json`; the others were met while
modelling, are steps of the models, and are exempt from the properties where
those would speak of them.

Channels (`amiga/src/pamela`, `mcu/src/pamela`)
* an `=` for `==` (`channel_ops.c:353`) turns every protocol error of a
  transfer into BUSY: it is tried for ever. Checked under the fairness of
  `WorkEnds`, with no faults and BUSY down: one restart of the device is enough.
* the firmware never counts the words of a transfer (`channel.c:325`): its
  handler never hears of the end, and the next transfer is refused.
* `channel_op_poll` does not select its channel.
* `channel_close` during a pending open leaves the handle IDLE; an open that
  BUSY interrupts after its action fails on retry.
* a read that is too large comes back with `got_words` wrapped below zero.
* a write that the channel refused is returned as done.
* collecting the error of one channel hides that of another.
* a reset from within `transfer_cb` is lost: `channel_work` writes the state
  after it.
* `status.c` and `proto.c` of the firmware each count busy for the one line.

Bus (`proto_low.s`, `proto_low.c`)
* an Amiga that gives up waiting for RAK, because of its timer or of BUSY, keeps
  its port at output and raises CLK (`proto_low.s:482`, `510`). A device that has
  taken the command goes on: for a read it turns its port to output as well, as
  soon as CLK is high (`proto_low_asm.S:241-254`), and both drive the lines until
  the edges of the next command or the watchdog end it.
* the next command is let in when RAK is high, which it is also while the
  handler of the one given up on runs. RAK going low for that one then is taken
  for its own: it may end with OK although the device carried out the other,
  a read may get bytes that nobody sent, and a data byte that is on the lines
  when the device is back in its loop is taken for a command.

Exec devices and events (`amiga/src/device`, `base`, `proto`, `mach-cia`)
* the worker replies to CMD_TERM, and reports a failed start, before it is
  through with the unit's memory, which the stopper then frees; AbortIO takes a
  request off the port that the worker has taken already; an expunge frees the
  base while an opener waits for `devSem` (`harm`).
* between the two statements of a confirm an interrupt is lost for good.
* `proto_env_init` leaks its handle when a step fails, and returns an unset
  result when there is no memory for it.
* `pario_init` that fails before `setup_port` restores registers through
  pointers that are 0;
  `initFlags & 4 == 0` (`pario.c:212`) is never true; `timer_sig_exit` waits
  for a request that was never sent.
* the bits of CIA B port A are changed by read and write (`pario.c:90`), beside
  others who own its serial lines.

Firmware
* `free_internal` merges with the next chunk only by losing the freed one; a
  chunk below the first one is never merged; a block handed out with a rest
  too small for a header keeps only the size asked for, so that the rest is
  lost for good (`mem.c:93-117`).
* `param_set_block` does not mark DIRTY; the default of a long is read with its
  words swapped.
* with two like pages and a reset in between, a verify sees no difference.
* `page_addr` is set (`bootbase.c:70`), erased and written (`bootbase.c:157`,
  `flash.c:17`, `25`) without a test of its bounds, and RAM is not cleared at the
  bootloader's start: when the device resets between the command that sends the
  address and the one that sends the page, the page may go over the bootloader,
  which begins where `CONFIG_MAX_ROM` ends and which no configuration protects
  (none sets `CONFIG_AVRDUDE_LOCK_BYTE`). Such a device may no longer be flashed
  over the port.
* `flash.c:8` gives the counter of a page's bytes 16 bits where 8 would do and
  8 where the page has 256 bytes, which it then never reaches.
* an upload whose last byte begins a buffer stalls until it is given up.

Card and files
* a missing answer, 0xff, has the bit of a CRC error and is tried again as one;
  an SD card whose CMD55 gets lost is addressed as an MMC; after a failed init
  the type of the card before stays; a write that failed may have been taken;
  the card stays selected after an error of CMD8 until the next command.
* the reader leaves out the first cluster of each further piece of a file, and
  has advanced its state before the read that fails; `dir_scan` never advances
  to the next block, so that a full one is scanned for ever; the map of
  clusters is written one past its end.

Networks
* ENC28J60: with a 32 bit int the test of the free pointer for -1 fails;
  `recv_seek` uses the pointer of the *next* packet; the buffer is filled while
  the frame before is still sent; the cached bank outlives a reset of the chip, so
  that a second init reads the revision from another register;
  `!readOp() & CLKRDY` is not the test it looks like.
* WIZ820io: `udp_send` asks socket 0 for room; the rings of the second half of
  the sockets lie over those of the first; a SEND_OK that comes too late is
  found by the next call; a RECV that times out leaves its size; `eth_recv`
  does not ask whether something is pending.
* Emulator: a reply that comes after its timeout answers the next call of the
  same command; a restarted simulator under an open handle carries out a call
  twice; blocks beyond 4096 bytes are cut; -1 for a socket passes for success.
* `driver.h:115-133`: the wrappers of the driver calls lack their `return`.

## 6. Not modelled

* `kinetis.h` and `mk20dx128.c` (7195 lines of register names, vectors and
  clock setup of the vendor): no behaviour of the project.
* Tests, benchmarks and tools of Amiga and host (about 3000 lines): they drive
  the API; the models use them as the reference for how it is called.
* `amiga/src/pamela/pamela.c`: superseded, in no build.
* Displays, the former handlers, LED and serial output: output without state a
  property could be about.
* Drawing, formatting and parsing of arguments; the layout of a PBL file beyond
  its checks; byte order in the arguments of commands.
* What single commands of the exec devices do with a request's fields (the
  engine is a call that takes time); partial failures of `pario_init` of
  mach-net; FAT16; names in directories; link state, power down and self test
  of the network chips; their addresses.

## 7. Plan

What is left, in this order.

1. Models: callbacks that call the API; the chain of buffers of a message; the
   commands of the box and net devices; the variants of the handshake for
   swapped words and the bootloader; address and link state of the chips.
2. Composition of `ChannelMaster` with `AmigaEvents`: triggers of the channels'
   status against the polls of an application.

## 8. Running it

    tlc -workers 2 -config MCMasterOne.cfg MCChannelMaster
    tlapm ChannelMasterProofs.tla

`PROJECT.json` names the module and configuration of every run, and the source
lines every definition stands for (`map`). The runs take from 4 seconds to two
minutes each, the proofs up to five minutes a module.
