------------------------------ MODULE BootProofs ------------------------------
(***************************************************************************)
(* Proofs about how software gets into machines that have none.  Of the    *)
(* flashing, for every size of ROM, set of images and files and number of  *)
(* faults: what the device runs, and what a clean verify means.  Of the    *)
(* upload to a plain reader of PAR:, for every size of image and buffer,   *)
(* number of polls and use of the port: what a reader gets, and what       *)
(* SEND_OK means.                                                          *)
(***************************************************************************)
EXTENDS Pablo, MCUpload, TLAPS

------------------------------------------------------------------------------
(* Flashing.                                                                *)

Devs == {"off", "boot", "loop", "erase", "fill", "knok", "app", "lost"}

PabloType ==
  /\ pc \in Pcs /\ file \in Files /\ page \in Pages /\ dev \in Devs
  /\ rom \in RomContents /\ addr \in Pages \cup {Outside}
  /\ buf \in Contents \cup {Torn}
  /\ {intact, verified} \subseteq BOOLEAN

(* The pages before this one were compared with a device that did not       *)
(* reset, and that writes nothing in the meantime.                          *)
Compared ==
  /\ pc \in {"load", "enter", "info", "update", "verify"} => page = 0
  /\ pc \in {"verify", "verify_addr", "verify_page"} /\ intact =>
       dev = "loop" /\ \A p \in Pages : p < page => rom[p] = file.data[p]
  /\ pc = "verify_page" /\ intact => addr = page
  /\ verified => /\ rom = file.data /\ pc \in {"leave", "app_id", "idle"}
                 /\ dev \notin {"erase", "fill"}

(* The page that is written is the one that pablo set, unless the device    *)
(* has reset.                                                               *)
Addressed ==
  intact => /\ pc = "flash_page" => addr = page
            /\ dev = "erase" => addr \in Pages

PabloInv == PabloType /\ RunsWholeImages /\ Compared /\ Addressed

-------------------------------------------------------------------------------
LEMMA FileData == ASSUME NEW f \in Files PROVE f.data \in [Pages -> Contents]
  BY FilesAssumption

(* Two images that agree on every page are the same.                        *)
LEMMA SamePages ==
  ASSUME NEW r \in [Pages -> Contents \cup {Torn}], NEW d \in [Pages -> Contents],
         \A p \in Pages : r[p] = d[p]
  PROVE  r = d
<1>1. r = [p \in Pages |-> r[p]] /\ d = [p \in Pages |-> d[p]]
  OBVIOUS
<1>2. [p \in Pages |-> r[p]] = [p \in Pages |-> d[p]]
  BY Zenon
<1> QED BY <1>1, <1>2, Zenon

LEMMA AfterResets ==
  ASSUME NEW b \in BOOLEAN
  PROVE  /\ AfterReset(b, rom) \in {"app", "loop"}
         /\ AfterReset(b, rom) = "app" =>
              rom \in Images /\ TagIn[rom[LastPage]] = Machine
  BY DEF AfterReset, RomValid

LEMMA PabloInit == Init => PabloInv
<1> SUFFICES ASSUME Init PROVE PabloInv
  OBVIOUS
<1>1. 0 \in Pages
  BY PagesAssumption DEF Pages
<1> QED
  BY <1>1 DEF Init, PabloInv, PabloType, RunsWholeImages, Compared, Addressed, Pcs, Devs

(* Types.                                                                   *)
LEMMA TypeStep == PabloType /\ [Next]_vars => PabloType'
<1> SUFFICES ASSUME PabloType, [Next]_vars PROVE PabloType'
  OBVIOUS
<1> USE DEF PabloType, Pcs, Devs
<1>0. /\ 0 \in Pages
      /\ \A p \in Pages : p < LastPage => p + 1 \in Pages
      /\ file.data \in [Pages -> Contents]
  BY PagesAssumption, FileData DEF Pages
<1>1. CASE UNCHANGED vars
  BY <1>1 DEF vars, session, flash
<1>2. ASSUME NEW f \in Files, NEW o, Begin(f, o) PROVE PabloType'
  BY <1>0, <1>2 DEF Begin, flash
<1>3. CASE Enter
  BY <1>3, AfterResets DEF Enter, LoseRam
<1>4. CASE Info \/ LoadFile \/ LoadFails \/ BeginVerify
  BY <1>4 DEF Info, LoadFile, LoadFails, BeginVerify, FirstStep, Leaving, flash
<1>5. CASE SetAddr
  BY <1>5 DEF SetAddr
<1>6. CASE WritePage
  BY <1>0, <1>6 DEF WritePage, FilePage
<1>7. CASE WrittenPage
  BY <1>0, <1>7 DEF WrittenPage, NextPage, flash
<1>8. CASE UpdateInfo
  BY <1>8 DEF UpdateInfo, flash
<1>9. CASE VerifyPage
  BY <1>0, <1>9 DEF VerifyPage, Leaving, flash
<1>10. CASE Leave
  BY <1>10, AfterResets DEF Leave, LoseRam
<1>11. CASE AppId \/ TimesOut \/ Fails
  BY <1>11 DEF AppId, TimesOut, Fails, flash
<1>12. CASE Boot \/ PowerOn
  BY <1>12, AfterResets DEF Boot, PowerOn, session, flash
<1>13. CASE Erase \/ Fill
  BY <1>13 DEF Erase, ErasePage, EraseBootloader, Fill, session, RomContents
<1>14. CASE ResetAnytime
  BY <1>14 DEF ResetAnytime, Reset, LoseRam, session
<1>15. CASE ResetInSetAddr
  BY <1>15 DEF ResetInSetAddr, Reset, LoseRam
<1>16. CASE ResetInWrite
  BY <1>0, <1>16 DEF ResetInWrite, Reset, LoseRam, NextPage
<1> QED
  BY <1>1, <1>2, <1>3, <1>4, <1>5, <1>6, <1>7, <1>8, <1>9, <1>10, <1>11, <1>12,
     <1>13, <1>14, <1>15, <1>16 DEF Next, PabloRuns, DeviceRuns

(* A device gets into an image by a reset only, and leaves it by one.       *)
LEMMA WholeStep == PabloInv /\ [Next]_vars => RunsWholeImages'
<1> SUFFICES ASSUME PabloInv, [Next]_vars PROVE RunsWholeImages'
  OBVIOUS
<1> USE DEF PabloInv, RunsWholeImages
<1>1. CASE UNCHANGED <<dev, rom>>
  BY <1>1
<1>2. CASE Enter \/ Leave \/ Boot
  BY <1>2, AfterResets DEF Enter, Leave, Boot, flash
<1>3. CASE dev' \in {"off", "boot", "loop", "erase", "fill", "lost"}
  BY <1>3
<1>4. CASE \/ \E f \in Files, o \in Options : Begin(f, o)
           \/ Info \/ SetAddr \/ WrittenPage \/ UpdateInfo \/ VerifyPage \/ AppId
           \/ TimesOut \/ Fails \/ LoadFile \/ LoadFails \/ BeginVerify \/ UNCHANGED vars
  BY <1>1, <1>4 DEF Begin, LoadFile, LoadFails, BeginVerify, Info, SetAddr, WrittenPage, UpdateInfo, VerifyPage,
    AppId, TimesOut, Fails, vars, flash
<1>5. CASE WritePage \/ Erase \/ Fill \/ PowerOn
  BY <1>3, <1>5 DEF WritePage, Erase, ErasePage, EraseBootloader, Fill, PowerOn
<1>6. CASE ResetAnytime \/ ResetInSetAddr \/ ResetInWrite
  BY <1>3, <1>6 DEF ResetAnytime, ResetInSetAddr, ResetInWrite, Reset
<1> QED
  BY <1>2, <1>4, <1>5, <1>6 DEF Next, PabloRuns, DeviceRuns

(* Comparing.                                                               *)
LEMMA ComparedStep == PabloInv /\ PabloType' /\ [Next]_vars => Compared'
<1> SUFFICES ASSUME PabloInv, PabloType', [Next]_vars PROVE Compared'
  OBVIOUS
<1> USE DEF PabloInv, PabloType, Compared
<1>0. /\ page \in Nat /\ file.data \in [Pages -> Contents]
      /\ \A p \in Pages : ~(p < 0)
  BY PagesAssumption, FileData DEF Pages
<1>1. CASE UNCHANGED vars
  BY <1>1 DEF vars, session, flash
<1>2. ASSUME NEW f \in Files, NEW o, Begin(f, o) PROVE Compared'
  BY <1>2 DEF Begin, flash
<1>3. CASE Enter
  BY <1>3 DEF Enter
<1>4. CASE Info
  BY <1>0, <1>4 DEF Info, IsBootloader, FirstStep, Leaving, flash
<1>5. CASE SetAddr
  BY <1>5 DEF SetAddr
<1>6. CASE WritePage
  BY <1>6 DEF WritePage, FilePage
<1>7. CASE WrittenPage
  BY <1>7 DEF WrittenPage, NextPage
<1>8. CASE UpdateInfo
  BY <1>0, <1>8 DEF UpdateInfo, flash
<1>9. CASE VerifyPage
  <2>1. pc = "verify_page" /\ dev = "loop" /\ UNCHANGED <<file, dev, rom, addr, intact>>
    BY <1>9 DEF VerifyPage, flash
  <2>2. ~verified
    BY <2>1
  <2>3. CASE PageDiffers
    BY <1>9, <2>2, <2>3 DEF VerifyPage
  <2>4. ASSUME ~PageDiffers, intact
        PROVE  \A p \in Pages : p <= page => rom[p] = file.data[p]
    <3>1. rom[page] = file.data[page]
      BY <2>1, <2>4 DEF PageDiffers, PageRead, FilePage
    <3> QED BY <2>1, <2>4, <3>1, PagesAssumption DEF Pages
  <2>5. CASE ~PageDiffers /\ page < LastPage
    <3>1. /\ pc' = "verify_addr" /\ page' = page + 1 /\ ~verified'
      BY <1>9, <2>2, <2>5 DEF VerifyPage
    <3>2. \A p \in Pages : p < page + 1 => p <= page
      BY <1>0 DEF Pages
    <3> QED BY <2>1, <2>4, <2>5, <3>1, <3>2
  <2>6. CASE ~PageDiffers /\ ~(page < LastPage)
    <3>1. pc' \in {"idle", "leave"} /\ verified' = intact
      BY <1>9, <2>6 DEF VerifyPage, Leaving
    <3>2. ASSUME intact PROVE rom = file.data
      <4>1. \A p \in Pages : p <= page
        BY <2>6, PagesAssumption DEF Pages
      <4>2. \A p \in Pages : rom[p] = file.data[p]
        BY <2>4, <2>6, <3>2, <4>1
      <4>3. rom \in [Pages -> Contents \cup {Torn}]
        BY DEF RomContents
      <4> QED BY <1>0, <4>2, <4>3, SamePages
    <3> QED BY <2>1, <3>1, <3>2
  <2> QED BY <2>3, <2>5, <2>6
<1>10. CASE Leave
  BY <1>10, AfterResets DEF Leave
<1>11. CASE AppId \/ TimesOut \/ Fails \/ LoadFile \/ LoadFails \/ BeginVerify
  BY <1>11 DEF AppId, TimesOut, Fails, LoadFile, LoadFails, BeginVerify, flash
<1>12. CASE Boot \/ PowerOn
  <2>1. /\ dev \in {"boot", "off"} /\ UNCHANGED <<pc, file, page, verified>>
        /\ UNCHANGED <<rom, addr, intact>>
    BY <1>12 DEF Boot, PowerOn, session, flash
  <2>2. dev' \notin {"erase", "fill"}
    BY <1>12 DEF Boot, PowerOn
  <2> QED BY <2>1, <2>2
<1>13. CASE Erase \/ Fill
  <2>1. /\ dev \in {"erase", "fill"} /\ UNCHANGED <<session, intact, addr>>
        /\ ~verified /\ ~(pc \in {"verify", "verify_addr", "verify_page"} /\ intact)
    BY <1>13 DEF Erase, Fill
  <2> QED BY <2>1 DEF session
<1>14. CASE ResetAnytime
  BY <1>14 DEF ResetAnytime, Reset, LoseRam, session
<1>15. CASE ResetInSetAddr
  BY <1>15 DEF ResetInSetAddr, Reset, LoseRam
<1>16. CASE ResetInWrite
  BY <1>16 DEF ResetInWrite, Reset, LoseRam, NextPage
<1> QED
  BY <1>1, <1>2, <1>3, <1>4, <1>5, <1>6, <1>7, <1>8, <1>9, <1>10, <1>11, <1>12,
     <1>13, <1>14, <1>15, <1>16 DEF Next, PabloRuns, DeviceRuns

(* The address.                                                             *)
LEMMA AddressedStep == PabloInv /\ [Next]_vars => Addressed'
<1> SUFFICES ASSUME PabloInv, [Next]_vars PROVE Addressed'
  OBVIOUS
<1> USE DEF PabloInv, Addressed
<1>1. CASE UNCHANGED vars
  BY <1>1 DEF vars, session, flash
<1>2. CASE \/ \E f \in Files, o \in Options : Begin(f, o)
           \/ LoadFile \/ Info \/ WrittenPage \/ UpdateInfo \/ BeginVerify \/ VerifyPage
           \/ AppId \/ TimesOut \/ LoadFails \/ Fails
  <2>1. UNCHANGED <<dev, addr>> /\ (pc' = "flash_page" => pc = pc' /\ page = page')
        /\ (intact' => intact \/ dev # "erase")
    BY <1>2 DEF Begin, LoadFile, Info, FirstStep, WrittenPage, NextPage, UpdateInfo, BeginVerify,
       VerifyPage, Leaving, AppId, TimesOut, LoadFails, Fails, flash
  <2>2. pc' = "flash_page" => (intact' => intact)
    BY <1>2 DEF Begin, LoadFile, Info, FirstStep, Leaving, WrittenPage, NextPage, UpdateInfo,
       BeginVerify, VerifyPage, AppId, TimesOut, LoadFails, Fails
  <2> QED BY <2>1, <2>2
<1>3. CASE Enter \/ Leave
  BY <1>3 DEF Enter, Leave, LoseRam
<1>4. CASE SetAddr
  BY <1>4 DEF SetAddr
<1>5. CASE WritePage
  BY <1>5 DEF WritePage, PabloType
<1>6. CASE Boot \/ PowerOn \/ Erase \/ Fill
  BY <1>6 DEF Boot, PowerOn, Erase, ErasePage, EraseBootloader, Fill, session, flash
<1>7. CASE ResetAnytime \/ ResetInSetAddr \/ ResetInWrite
  BY <1>7 DEF ResetAnytime, ResetInSetAddr, ResetInWrite, Reset, LoseRam
<1> QED
  BY <1>1, <1>2, <1>3, <1>4, <1>5, <1>6, <1>7 DEF Next, PabloRuns, DeviceRuns

LEMMA PabloInvariant == Spec => []PabloInv
<1>1. PabloInv /\ [Next]_vars => PabloInv'
  BY TypeStep, WholeStep, ComparedStep, AddressedStep DEF PabloInv
<1> QED BY <1>1, PabloInit, PTL DEF Spec

(* Whatever the power, the watchdog and the commands do, a whole bootloader *)
(* starts an application only when the ROM holds a whole image for this     *)
(* machine, and nothing writes to the ROM while the application runs.       *)
THEOREM OnlyWholeImagesRun == Spec => []RunsWholeImages
  BY PabloInvariant, PTL DEF PabloInv

(* A verify of pablo that finds no difference, on a device that has not     *)
(* reset meanwhile, means that the ROM holds the file, page by page, for a  *)
(* ROM of any size.                                                         *)
THEOREM CleanVerifyMeansFlashed == Spec => []VerifiedIsFlashed
<1>1. PabloInv => VerifiedIsFlashed
  BY DEF PabloInv, Compared, VerifiedIsFlashed
<1> QED BY <1>1, PabloInvariant, PTL

(* Whatever went wrong before, none of the pages that pablo sends to a      *)
(* device meets the bootloader, unless the device has reset since it gave   *)
(* its infos and so lost the address of the page; for a ROM of any size.    *)
THEOREM OnlyResetsHarmBootloader == Spec => KeepsBootloader
<1>1. ASSUME PabloInv, [Next]_vars, dev' = "lost", dev # "lost"
      PROVE  ~intact
  <2>1. CASE Erase
    BY <1>1, <2>1 DEF Erase, ErasePage, PabloInv, Addressed
  <2>2. CASE Enter \/ Leave \/ Boot
    BY <1>1, <2>2, AfterResets DEF Enter, Leave, Boot
  <2>3. ~(\E f \in Files, o \in Options : Begin(f, o))
    BY <1>1 DEF Begin
  <2>4. ~(\/ LoadFile \/ Info \/ SetAddr \/ WritePage \/ WrittenPage \/ UpdateInfo
          \/ BeginVerify \/ VerifyPage \/ AppId \/ TimesOut \/ PowerOn \/ Fill
          \/ LoadFails \/ Fails \/ ResetAnytime \/ ResetInSetAddr \/ ResetInWrite
          \/ UNCHANGED vars)
    BY <1>1 DEF LoadFile, Info, SetAddr, WritePage, WrittenPage, UpdateInfo, BeginVerify,
       VerifyPage, AppId, TimesOut, PowerOn, Fill, LoadFails, Fails, ResetAnytime,
       ResetInSetAddr, ResetInWrite, Reset, vars
  <2> QED BY <1>1, <2>1, <2>2, <2>3, <2>4 DEF Next, PabloRuns, DeviceRuns
<1>2. PabloInv /\ [Next]_vars => [dev' = "lost" /\ dev # "lost" => ~intact]_vars
  BY <1>1
<1> QED BY <1>2, PabloInvariant, PTL DEF Spec, KeepsBootloader

------------------------------------------------------------------------------
(* The upload.                                                              *)

Modes == {"start", "pulse", "pulsed", "sending", "ending"}

UploadType ==
  /\ size \in Nat \ {0} /\ left \in Nat /\ left < size /\ data \in Nat
  /\ got \in Seq(Nat)
  /\ func \in {"read", "write"}

(* The strobes are those of an image while one is sent, and only then.      *)
SendMode ==
  /\ func = "write" <=> phase \in Modes
  /\ func = "write" => result = "none"

(* The byte on the lines is the one after those that were read, left counts *)
(* those behind it, and the end is reported by a strobe after the last.     *)
Position ==
  func = "write" =>
    /\ left = IF Len(got) < size THEN size - 1 - Len(got) ELSE 0
    /\ data = Up!ByteAfter(Len(got))
    /\ "ALL_SENT" \in state \/ phase = "ending" => Len(got) >= size

UploadInv == UploadType /\ SendMode /\ (~mixed => Position) /\ Up!OkMeansRead

-----------------------------------------------------------------------------
LEMMA NothingRead == <<>> \in Seq(Nat) /\ Len(<<>>) = 0 /\ DOMAIN <<>> = {}
<1>1. <<>> \in Seq(Nat) /\ Len(<<>>) = 0
  OBVIOUS
<1>2. DOMAIN <<>> = 1 .. Len(<<>>)
  BY <1>1
<1> QED BY <1>1, <1>2

LEMMA UploadInit == Up!Init => UploadInv
<1> SUFFICES ASSUME Up!Init PROVE UploadInv
  OBVIOUS
<1>1. size \in Nat \ {0}
  BY UploadsAssumption DEF Up!UploadAssumption, Up!Init
<1>2. got \in Seq(Nat) /\ DOMAIN got = {}
  BY NothingRead DEF Up!Init
<1> QED
  BY <1>1, <1>2
  DEF Up!Init, UploadInv, UploadType, SendMode, Modes, Position, Up!OkMeansRead

LEMMA WriteTypes ==
  ASSUME UploadType, Up!WriteFunc 
  PROVE  left' \in Nat /\ left' < size /\ data' \in Nat
<1>1. /\ left' = IF left = 0 THEN 0 ELSE left - 1
      /\ data' = Up!ByteAfter(size - left)
  BY DEF Up!WriteFunc
<1>2. size \in Nat \ {0} /\ left \in Nat /\ left < size
  BY DEF UploadType
<1>3. left' \in Nat /\ left' < size
  BY <1>1, <1>2
<1> QED BY <1>1, <1>2, <1>3 DEF Up!ByteAfter

(* One strobe while an image is sent.                                       *)
LEMMA Strobed ==
  ASSUME UploadInv, ~mixed, func = "write", Up!WriteFunc, got' = Append(got, data),
         UNCHANGED <<size, func, phase, result, mixed>>
  PROVE  UploadInv'
<1> USE DEF UploadInv, UploadType, SendMode, Position, Up!OkMeansRead
<1>1. /\ data = Up!ByteAfter(Len(got))
      /\ Len(got) \in Nat
  BY DEF Up!ByteAfter
<1>2. /\ got' \in Seq(Nat) /\ Len(got') = Len(got) + 1
      /\ \A i \in DOMAIN got' : got'[i] = IF i = Len(got) + 1 THEN data ELSE got[i]
      /\ \A i \in DOMAIN got' : i = Len(got) + 1 \/ i \in DOMAIN got
  BY <1>1
<1>3. \A i \in DOMAIN got' : got'[i] = Up!ByteAfter(i - 1)
  <2> TAKE i \in DOMAIN got'
  <2>1. CASE i = Len(got) + 1
    BY <1>1, <1>2, <2>1
  <2>2. CASE i # Len(got) + 1
    BY <1>2, <2>2
  <2> QED BY <2>1, <2>2
<1>4. (\A i \in DOMAIN got : got[i] = Up!ByteAfter(i - 1))'
  BY <1>3 DEF Up!ByteAfter
<1>5. /\ left' = IF Len(got') < size THEN size - 1 - Len(got') ELSE 0
      /\ data' = Up!ByteAfter(Len(got'))
      /\ "ALL_SENT" \in state' => Len(got') >= size
  BY <1>1, <1>2 DEF Up!WriteFunc, Up!ByteAfter
<1>6. phase = "ending" => Len(got') >= size
  BY <1>2
<1>7. left' \in Nat /\ left' < size /\ data' \in Nat
  BY <1>5, <1>2 DEF Up!ByteAfter
<1> QED
  BY <1>2, <1>4, <1>5, <1>6, <1>7 DEF Up!ByteAfter, Modes

LEMMA UploadStep == UploadInv /\ [Up!Next]_Up!vars => UploadInv'
<1> SUFFICES ASSUME UploadInv, [Up!Next]_Up!vars PROVE UploadInv'
  OBVIOUS
<1> USE DEF UploadInv, UploadType, SendMode, Position, Up!OkMeansRead
<1>0. size \in Nat \ {0}
  OBVIOUS
<1>1. CASE UNCHANGED Up!vars
  BY <1>1 DEF Up!vars, Up!isr, Up!main, Up!port, Up!ghosts, Up!ByteAfter
<1>2. CASE Up!Bail
  BY <1>2 DEF Up!Bail, Up!isr, Up!port, Up!ghosts, Up!ByteAfter, Modes
<1>3. CASE Up!GetKey
  BY <1>3 DEF Up!GetKey, Up!port, Up!ghosts, Up!ByteAfter, Modes
<1>4. CASE Up!SendBegin
  <2>1. got' \in Seq(Nat) /\ Len(got') = 0 /\ DOMAIN got' = {}
    BY <1>4, NothingRead DEF Up!SendBegin
  <2>2. /\ phase' = "start" /\ func' = "write" /\ result' = "none"
        /\ size' = size /\ left' = size - 1 /\ data' = 1 /\ state' = {}
        /\ mixed' = FALSE
    BY <1>4 DEF Up!SendBegin
  <2>3. data' = 1 /\ (Up!ByteAfter(Len(got)))' = 1
    BY <1>0, <2>1, <2>2 DEF Up!ByteAfter
  <2>5. UploadType' /\ SendMode'
    BY <1>0, <2>1, <2>2, <2>3 DEF Modes
  <2>6. Position'
    BY <1>0, <2>1, <2>2, <2>3 DEF Modes
  <2>7. Up!OkMeansRead'
    BY <1>0, <2>1, <2>2, <2>3 DEF Modes
  <2> QED BY <2>5, <2>6, <2>7
<1>5. CASE Up!StartPoll
  BY <1>5 DEF Up!StartPoll, Up!PollDue, Up!Sending, Up!ReadFlag, Up!port, Up!ghosts, Up!ByteAfter, Modes
<1>6. CASE Up!Pulse
  BY <1>6 DEF Up!Pulse, Up!port, Up!ghosts, Up!ByteAfter, Modes
<1>7. CASE Up!Pulsed
  <2>1. /\ UNCHANGED <<size, left, got, mixed>>
        /\ \/ Up!SendEnd("not started")
           \/ phase' = "start" /\ UNCHANGED <<func, result, data, state>>
    BY <1>7 DEF Up!Pulsed, Up!ghosts
  <2>3. \/ data' = 0 /\ func' = "read"
        \/ data' = data /\ func' = func
    BY <2>1 DEF Up!SendEnd
  <2>4. UploadType'
    <3>1. size' = size /\ left' = left /\ got' = got
      BY <2>1
    <3>2. data' \in Nat /\ func' \in {"read", "write"}
      BY <2>3
    <3> QED BY <3>1, <3>2
  <2>5. SendMode'
    BY <1>7, <2>1 DEF Up!Pulsed, Up!SendEnd, Modes
  <2>6. (~mixed => Position)'
    BY <1>7, <2>1 DEF Up!Pulsed, Up!SendEnd, Up!ByteAfter, Modes
  <2>7. Up!OkMeansRead'
    BY <1>7, <2>1 DEF Up!Pulsed, Up!SendEnd, Up!ByteAfter, Modes
  <2> QED BY <2>4, <2>5, <2>6, <2>7
<1>8. CASE Up!SendPoll
  BY <1>8 DEF Up!SendPoll, Up!SendEnd, Up!Sending, Up!ReadFlag, Up!port, Up!ghosts, Up!ByteAfter, Modes
<1>9. CASE Up!EndPoll
  <2>1. /\ UNCHANGED <<size, left, got, mixed>>
        /\ \/ Up!SendEnd("ok")
           \/ Up!SendEnd("not finished")
           \/ state' = {} /\ UNCHANGED <<phase, func, result, data>>
    BY <1>9 DEF Up!EndPoll, Up!ghosts
  <2>2. phase = "ending" /\ func = "write"
    BY <1>9 DEF Up!EndPoll, Modes
  <2>3. \/ data' = 0 /\ func' = "read"
        \/ data' = data /\ func' = func
    BY <2>1 DEF Up!SendEnd
  <2>4. UploadType'
    <3>1. size' = size /\ left' = left /\ got' = got
      BY <2>1
    <3>2. data' \in Nat /\ func' \in {"read", "write"}
      BY <2>3
    <3> QED BY <3>1, <3>2
  <2>5. SendMode'
    BY <2>1, <2>2 DEF Up!Pulsed, Up!SendEnd, Modes
  <2>6. (~mixed => Position)'
    BY <2>1, <2>2 DEF Up!SendEnd, Up!ByteAfter, Modes
  <2>7. Up!OkMeansRead'
    BY <2>1, <2>2 DEF Up!SendEnd, Up!ByteAfter, Modes
  <2> QED BY <2>4, <2>5, <2>6, <2>7
<1>10. ASSUME NEW l \in Lines, Up!OpenWrite(l) PROVE UploadInv'
  BY <1>10 DEF Up!OpenWrite, Up!isr, Up!main, Up!ghosts, Up!ByteAfter
<1>11. ASSUME NEW n \in Wants, Up!OpenRead(n) PROVE UploadInv'
  BY <1>11 DEF Up!OpenRead, Up!isr, Up!main, Up!ByteAfter
<1>12. CASE Up!WriteChar
  <2>1. CASE func = "read"
    <3>1. Up!ReadFunc(Head(todo)) /\ (mixed => mixed')
      BY <1>12, <2>1 DEF Up!WriteChar, Up!Strobe
    <3> QED
      BY <1>12, <2>1, <3>1 DEF Up!WriteChar, Up!ReadFunc, Up!main, Up!ByteAfter, Modes
  <2>2. CASE func = "write"
    <3>1. Up!WriteFunc /\ mixed' = TRUE
      BY <1>12, <2>2 DEF Up!WriteChar, Up!Strobe
    <3>2. left' \in Nat /\ left' < size /\ data' \in Nat
      BY <3>1, WriteTypes
    <3> QED
      BY <1>12, <2>2, <3>1, <3>2 DEF Up!WriteChar, Up!main
  <2> QED BY <2>1, <2>2
<1>13. CASE Up!ReadByte
  <2>1. CASE func = "read"
    <3>1. Up!ReadFunc("open") /\ got' = got
      BY <1>13, <2>1 DEF Up!ReadByte, Up!Strobe
    <3> QED
      BY <1>13, <2>1, <3>1 DEF Up!ReadByte, Up!ReadFunc, Up!main, Up!ByteAfter, Modes
  <2>2. CASE func = "write"
    <3>1. Up!WriteFunc /\ got' = Append(got, data)
      BY <1>13, <2>2 DEF Up!ReadByte, Up!Strobe
    <3>2. UNCHANGED <<size, func, phase, result, mixed>>
      BY <1>13 DEF Up!ReadByte, Up!main
    <3>3. CASE mixed
      <4>1. left' \in Nat /\ left' < size /\ data' \in Nat
        BY <3>1, WriteTypes
      <4>2. got' \in Seq(Nat)
        BY <3>1
      <4> QED BY <3>1, <3>2, <3>3, <4>1, <4>2
    <3> QED BY <2>2, <3>1, <3>2, <3>3, Strobed
  <2> QED BY <2>1, <2>2
<1>14. CASE Up!Stop
  BY <1>14 DEF Up!Stop, Up!isr, Up!main, Up!ByteAfter
<1> QED
  BY <1>1, <1>2, <1>3, <1>4, <1>5, <1>6, <1>7, <1>8, <1>9, <1>10, <1>11, <1>12,
     <1>13, <1>14 DEF Up!Next, Up!KnokRuns

(* What readers of an upload get is the image in its order and then zeros,  *)
(* and SEND_OK means that they got all of it: wherever the polls pulse ACK  *)
(* in between, and however often readers stop, come back or are stopped.    *)
THEOREM UploadsAreRead == Up!Spec => []OkMeansRead
<1>1. Up!Init => UploadInv
  BY UploadInit
<1>2. UploadInv => OkMeansRead
  BY DEF UploadInv, OkMeansRead
<1> QED BY <1>1, <1>2, UploadStep, PTL DEF Up!Spec

==============================================================================
