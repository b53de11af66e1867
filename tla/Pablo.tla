------------------------------- MODULE Pablo -------------------------------
(***************************************************************************)
(* Flashing over the parallel port: the Amiga's tool pablo (pablo.c,       *)
(* bootloader.c of amiga/src/pablo), the bootloader of the device          *)
(* (bootbase.c, arch/avr) and the flash ROM with the application.          *)
(*                                                                         *)
(* Power may fail and the watchdog may bite at any moment, between the     *)
(* erasing and the writing of a page too, and after a reset the address of *)
(* the page is whatever the RAM holds, since the bootloader does not clear *)
(* it.  A command in which the device resets is taken for done, because    *)
(* the reset releases RAK; any command may also fail.  The bootloader      *)
(* checks no address: what lies beyond the ROM is the bootloader itself,   *)
(* and it can be written over.                                             *)
(*                                                                         *)
(* The pages of an image stand for their bytes.  The CRC is taken to tell  *)
(* the images from everything else a ROM can hold here.                    *)
(***************************************************************************)
EXTENDS Naturals

CONSTANTS
  LastPage,   \* of the ROM; it holds the footer with the machine's tag
  Contents,   \* of a page
  Tags,       \* machine tags
  TagIn,      \* the tag in the footer of each content
  Machine,    \* the tag of this machine
  Images,     \* the contents of ROMs whose CRC is 0
  AvrTags,    \* those of AVRs, whose ROM has a CRC
  Files,      \* .pbl files: tag and size of the header, and the data
  Options,    \* options given to pablo
  Torn,       \* content of an erased or half written page
  Outside,    \* an address in the bootloader, or what is read from there
  MaxFaults   \* bound: resets and failing commands

(* One image or file for the whole ROM, CONFIG_MAX_ROM bytes.               *)
Pages == 0 .. LastPage

ASSUME PagesAssumption == LastPage \in Nat
ASSUME ContentsAssumption == Torn \notin Contents /\ Outside \notin Contents /\ Torn # Outside
ASSUME TagsAssumption == TagIn \in [Contents -> Tags] /\ Machine \in Tags
                         /\ AvrTags \subseteq Tags
ASSUME ImagesAssumption == Images \subseteq [Pages -> Contents]
ASSUME FilesAssumption ==
  /\ Files \subseteq [tag : Tags, fits : BOOLEAN, data : [Pages -> Contents]]
  /\ Files # {}
  /\ Options \subseteq SUBSET {"file", "flash", "verify", "stay"}
ASSUME OutsideAssumption == Outside \notin Pages
ASSUME FaultsAssumption == MaxFaults \in Nat

VARIABLES
  pc,      \* where pablo is
  file,    \* its .pbl file
  opts,    \* its options: subset of {"file", "flash", "verify", "stay"}
  page,    \* the page it is at
  dev,     \* "off", "boot", "loop", "erase", "fill", "knok", "app"; "lost":
           \* code of the bootloader is gone, what it does is unknown
  rom,     \* the flash ROM
  addr,    \* page_addr
  buf,     \* page_buf
  intact,  \* ghost: the device has not reset since it gave its infos
  verified,\* ghost: this run of pablo has compared every page, and intact
  faults

session == <<pc, file, opts, page, verified>>
flash == <<rom, addr, buf>>
vars == <<session, dev, flash, intact, faults>>

RomContents == [Pages -> Contents \cup {Torn}]

Pcs == {"idle", "load", "enter", "info", "flash_addr", "flash_page", "flash_wait",
        "update", "verify", "verify_addr", "verify_page", "leave", "app_id"}

------------------------------------------------------------------------------
(* The bootloader.                                                          *)

(* Mutant of RomValid: without the CRC.                                     *)
RomValidTagOnly(r) == r[LastPage] \in Contents /\ TagIn[r[LastPage]] = Machine

(* pablo_check_rom_crc and the tag in the footer.                           *)
RomValid(r) == r \in Images /\ TagIn[r[LastPage]] = Machine

(* Mutant of AfterReset: a valid ROM is run whatever the command.           *)
AfterResetRuns(bootloader, r) == IF RomValid(r) THEN "app" ELSE "loop"

(* bootbase_init: what follows a reset, with the command BOOTLOADER on the  *)
(* lines or not.                                                            *)
AfterReset(bootloader, r) == IF ~bootloader /\ RomValid(r) THEN "app" ELSE "loop"

(* The RAM after a reset, and the ghost.                                    *)
LoseRam == addr' \in Pages \cup {Outside} /\ intact' = FALSE

(* What its loop answers; after any other command it resets.                *)
MiniCommands == {"info", "flash_addr", "flash_page", "flash_wait", "update",
                 "verify_addr", "verify_page", "app_id"}

(* The id it gives for its firmware, which no application gives.            *)
IsBootloader == dev = "loop"

(* Without RESET on the lines an application stays in knok mode.            *)
Boot ==
  /\ dev = "boot"
  /\ dev' = IF AfterReset(FALSE, rom) = "app" THEN "knok" ELSE "loop"
  /\ UNCHANGED <<session, flash, intact, faults>>

(* flash_program_page erases the page, and then writes it.  A page of the   *)
(* bootloader holds its code, which is lost with it, or holds none.         *)
ErasePage == dev' = "fill" /\ rom' = [rom EXCEPT ![addr] = Torn]
EraseBootloader == dev' \in {"fill", "lost"} /\ rom' = rom

Erase ==
  /\ dev = "erase"
  /\ IF addr \in Pages THEN ErasePage ELSE EraseBootloader
  /\ UNCHANGED <<session, addr, buf, intact, faults>>

(* Of the bootloader only a page without code can still be met here.        *)
Fill ==
  /\ dev = "fill" /\ dev' = "loop"
  /\ rom' = IF addr \in Pages THEN [rom EXCEPT ![addr] = buf] ELSE rom
  /\ UNCHANGED <<session, addr, buf, intact, faults>>

------------------------------------------------------------------------------
(* Pablo.                                                                   *)
ArgsOk(o) == o \intersect {"flash", "verify"} # {} => "file" \in o

Begin(f, o) ==
  /\ pc = "idle" /\ ArgsOk(o)
  /\ pc' = IF "file" \in o THEN "load" ELSE "enter"
  /\ file' = f /\ opts' = o /\ page' = 0 /\ verified' = FALSE
  /\ UNCHANGED <<dev, flash, intact, faults>>

(* pblfile_check.                                                           *)
FileOk(f) == f.tag \in AvrTags /\ f.data \in Images

LoadFile ==
  /\ pc = "load"
  /\ pc' = IF FileOk(file) THEN "enter" ELSE "idle"
  /\ UNCHANGED <<file, opts, page, verified, dev, flash, intact, faults>>

(* What dosmain does next: flash, verify, leave or stay.                    *)
Leaving == IF "stay" \in opts THEN "idle" ELSE "leave"
FirstStep == IF "flash" \in opts THEN "flash_addr"
             ELSE IF "verify" \in opts THEN "verify" ELSE Leaving

(* bootloader_enter: any device but one without power resets into its loop. *)
Enter ==
  /\ pc = "enter" /\ dev \in {"boot", "loop", "knok", "app"}
  /\ dev' = AfterReset(TRUE, rom)
  /\ LoseRam
  /\ pc' = "info"
  /\ UNCHANGED <<file, opts, page, verified, rom, buf, faults>>

(* bootloader_check_file, if there is one.                                  *)
FileFits == "file" \in opts => file.tag = Machine /\ file.fits

(* The magic, the sizes and the tag; bootloader_check_file.                 *)
Info ==
  /\ pc = "info" /\ dev \in {"loop", "app"}
  /\ pc' = IF IsBootloader /\ FileFits THEN FirstStep ELSE "idle"
  /\ intact' = TRUE
  /\ UNCHANGED <<file, opts, page, verified, dev, flash, faults>>

(* Mutant of SetAddr: the address is counted up before it is sent.          *)
SetAddrNext ==
  /\ pc \in {"flash_addr", "verify_addr"} /\ dev = "loop"
  /\ addr' = IF page < LastPage THEN page + 1 ELSE Outside
  /\ pc' = IF pc = "flash_addr" THEN "flash_page" ELSE "verify_page"
  /\ UNCHANGED <<file, opts, page, verified, dev, rom, buf, intact, faults>>

SetAddr ==
  /\ pc \in {"flash_addr", "verify_addr"} /\ dev = "loop"
  /\ addr' = page
  /\ pc' = IF pc = "flash_addr" THEN "flash_page" ELSE "verify_page"
  /\ UNCHANGED <<file, opts, page, verified, dev, rom, buf, intact, faults>>

(* flash_func and post_verify_func: the page of the file.                   *)
FilePage == file.data[page]

WritePage ==
  /\ pc = "flash_page" /\ dev = "loop"
  /\ buf' = FilePage /\ dev' = "erase"
  /\ pc' = "flash_wait"
  /\ UNCHANGED <<file, opts, page, verified, rom, addr, intact, faults>>

(* The loops of bootloader_flash.                                           *)
NextPage ==
  /\ verified' = verified /\ UNCHANGED <<file, opts>>
  /\ IF page < LastPage THEN page' = page + 1 /\ pc' = "flash_addr"
                        ELSE page' = 0 /\ pc' = "update"

WrittenPage ==
  /\ pc = "flash_wait" /\ dev = "loop"
  /\ NextPage
  /\ UNCHANGED <<dev, flash, intact, faults>>

(* bootloader_update_fw_info; a verify follows.                             *)
UpdateInfo ==
  /\ pc = "update" /\ dev = "loop"
  /\ pc' = "verify" /\ intact' = TRUE
  /\ UNCHANGED <<file, opts, page, verified, dev, flash, faults>>

(* do_verify gets a buffer for a page, and the loop begins.                 *)
BeginVerify ==
  /\ pc = "verify" /\ pc' = "verify_addr"
  /\ UNCHANGED <<file, opts, page, verified, dev, flash, intact, faults>>

(* What the device sends for the page at addr.                              *)
PageRead == IF addr \in Pages THEN rom[addr] ELSE Outside

(* post_verify_func.                                                        *)
PageDiffers == PageRead # FilePage

(* Mutant of VerifyPage: the last page is left out.                         *)
VerifyPageShort ==
  /\ pc = "verify_page" /\ dev = "loop"
  /\ IF PageDiffers
     THEN pc' = "idle" /\ UNCHANGED <<page, verified>>
     ELSE IF page + 1 < LastPage
     THEN pc' = "verify_addr" /\ page' = page + 1 /\ UNCHANGED verified
     ELSE pc' = Leaving /\ verified' = intact /\ UNCHANGED page
  /\ UNCHANGED <<file, opts, dev, flash, intact, faults>>

(* The loop of bootloader_read.                                             *)
VerifyPage ==
  /\ pc = "verify_page" /\ dev = "loop"
  /\ IF PageDiffers
     THEN pc' = "idle" /\ UNCHANGED <<page, verified>>
     ELSE IF page < LastPage
     THEN pc' = "verify_addr" /\ page' = page + 1 /\ UNCHANGED verified
     ELSE pc' = Leaving /\ verified' = intact /\ UNCHANGED page
  /\ UNCHANGED <<file, opts, dev, flash, intact, faults>>

(* bootloader_leave: RESET is answered by an application only; a device     *)
(* without one resets again and again until the Amiga gives up.             *)
Leave ==
  /\ pc = "leave" /\ dev \in {"loop", "knok", "app"}
  /\ dev' = AfterReset(FALSE, rom)
  /\ LoseRam
  /\ pc' = IF dev' = "app" THEN "app_id" ELSE "idle"
  /\ UNCHANGED <<file, opts, page, verified, rom, buf, faults>>

AppId ==
  /\ pc = "app_id" /\ dev = "app"
  /\ pc' = "idle"
  /\ UNCHANGED <<file, opts, page, verified, dev, flash, intact, faults>>

------------------------------------------------------------------------------
(* Faults.                                                                  *)

(* No answer: the device has no power or no bootloader, or is one that does *)
(* not know the command.  Pablo stops at the first error.                   *)
TimesOut ==
  /\ pc \notin {"idle", "load", "verify"}
  /\ \/ dev \in {"off", "lost"}
     \/ dev = "knok" /\ pc \in MiniCommands
     \/ dev = "app" /\ pc \in MiniCommands \ {"info", "app_id"}
  /\ pc' = "idle"
  /\ UNCHANGED <<file, opts, page, verified, dev, flash, intact, faults>>

Faulty == faults < MaxFaults /\ faults' = faults + 1

(* A file that cannot be opened or read, or no memory for it.               *)
LoadFails ==
  /\ Faulty /\ pc = "load" /\ pc' = "idle"
  /\ UNCHANGED <<file, opts, page, verified, dev, flash, intact>>

(* A timeout, whether the device has carried out the command or not; or no  *)
(* buffer for the pages.                                                    *)
Fails ==
  /\ Faulty /\ pc \notin {"idle", "load"} /\ pc' = "idle"
  /\ UNCHANGED <<file, opts, page, verified, dev, flash, intact>>

(* The watchdog, or power that fails and returns.                           *)
Reset(to) ==
  /\ Faulty /\ dev \notin {"off", "lost"}
  /\ dev' = to /\ LoseRam
  /\ UNCHANGED <<rom, buf>>

ResetAnytime == \E to \in {"boot", "off"} : Reset(to) /\ UNCHANGED session

(* The reset within a command that seems done: no address is set and no     *)
(* page is written.                                                         *)
ResetInSetAddr ==
  /\ pc \in {"flash_addr", "verify_addr"} /\ dev = "loop" /\ Reset("boot")
  /\ pc' = IF pc = "flash_addr" THEN "flash_page" ELSE "verify_page"
  /\ UNCHANGED <<file, opts, page, verified>>

ResetInWrite ==
  /\ pc = "flash_wait" /\ dev \in {"erase", "fill"} /\ Reset("boot")
  /\ NextPage

PowerOn ==
  /\ dev = "off" /\ dev' = "boot"
  /\ UNCHANGED <<session, flash, intact, faults>>

------------------------------------------------------------------------------
Init ==
  /\ pc = "idle" /\ file \in Files /\ opts = {} /\ page = 0
  /\ rom \in RomContents /\ rom \in Images \cup {[p \in Pages |-> Torn]}
  /\ dev = "off" /\ addr = Outside /\ buf = Torn
  /\ intact = FALSE /\ verified = FALSE /\ faults = 0

PabloRuns == LoadFile \/ Enter \/ Info \/ SetAddr \/ WritePage \/ WrittenPage
             \/ UpdateInfo \/ BeginVerify \/ VerifyPage \/ Leave \/ AppId \/ TimesOut
DeviceRuns == Boot \/ Erase \/ Fill \/ PowerOn

Next ==
  \/ \E f \in Files, o \in Options : Begin(f, o)
  \/ PabloRuns \/ DeviceRuns
  \/ LoadFails \/ Fails \/ ResetAnytime \/ ResetInSetAddr \/ ResetInWrite

Spec == Init /\ [][Next]_vars

(* Both sides run, power comes back, and the user goes on trying to flash   *)
(* each file that is made for this machine.                                 *)
Matching(f) == FileOk(f) /\ f.tag = Machine /\ f.fits /\ TagIn[f.data[LastPage]] = Machine
Fairness ==
  /\ WF_vars(PabloRuns) /\ WF_vars(DeviceRuns)
  /\ \A f \in Files : Matching(f) => SF_vars(Begin(f, {"file", "flash"}))

LiveSpec == Spec /\ Fairness

------------------------------------------------------------------------------
(* The device never runs what is left of a flashing that broke off, nor a   *)
(* mixture of two images, nor the image of another machine, however often   *)
(* and wherever the power fails; and what runs is never written over.  The  *)
(* bootloader itself must be whole: of a lost one nothing is said.          *)
RunsWholeImages ==
  dev \in {"knok", "app"} => rom \in Images /\ TagIn[rom[LastPage]] = Machine

(* If pablo finds no difference, the ROM holds the file, even if a page was *)
(* lost or written to a wrong address because the device had reset in a     *)
(* command that seemed done; unless it also reset during the verify.        *)
VerifiedIsFlashed == verified => rom = file.data

(* Only a reset while pablo is at work can make the bootloader write over   *)
(* itself: none of the pages that pablo sends meets it, whatever else went  *)
(* wrong before, unless the device lost their address in between.           *)
KeepsBootloader == [][dev' = "lost" /\ dev # "lost" => ~intact]_vars

(* As long as the bootloader has not written over itself, the device can    *)
(* always be flashed again: whatever has gone wrong, once nothing goes      *)
(* wrong any more each matching file is brought to run.                     *)
Recovers ==
  \A f \in Files :
    Matching(f) => []<>(dev = "lost" \/ (dev = "app" /\ rom = f.data))

==============================================================================
