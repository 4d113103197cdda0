-------------------------------- MODULE Ata --------------------------------
(***************************************************************************)
(* The disk command and what it asks: the ATA driver (kernel/ata.c) and    *)
(* the floppy detection (kernel/floppy.c).  ata_identify and ata_flush,    *)
(* which the kernel offers and does not call yet, are calls of their own.  *)
(* The drives run by themselves: a driver that polls sees them change.     *)
(*                                                                         *)
(* A status register is the set of its bits that are set.  The drives are  *)
(* modelled after what the driver expects of them (see Environment); the   *)
(* delays (ata_delay) are long enough for a register to follow a write.    *)
(*                                                                         *)
(* A definition marked "Fault" belongs to no specification: it is a wrong  *)
(* version of the definition after it, that the properties must refuse.    *)
(***************************************************************************)
EXTENDS Integers

CONSTANTS
  Machines,  \* what may be attached: bus -> drive -> type, NONE for no drive
  Floppies,  \* contents of CMOS register 0x10: a type of drive per nibble
  Calls      \* which of disk, ata_identify and ata_flush are called

Buses == {"PRIMARY", "SECONDARY"}
Drives == {"MASTER", "SLAVE"}
Types == {"ATA", "SATA", "ATAPI", "SATAPI"}
Packet == {"ATAPI", "SATAPI"}

ASSUME AtaConstants ==
  /\ Machines \subseteq [Buses -> [Drives -> Types \cup {"NONE"}]]
  /\ \A m \in Machines, b \in Buses : m[b]["MASTER"] = "NONE" => m[b]["SLAVE"] = "NONE"
  /\ Floppies \subseteq 0 .. 255
  /\ Calls \subseteq {"disk", "ata_identify", "ata_flush"}

VARIABLES
  attached, cmos,      \* the machine
  empty,               \* status register of a bus without drives
  device, status, lba, \* the drive a bus addresses; registers of each drive
  selected,            \* primary_selected and secondary_selected
  identify,            \* the drive the last call has read words from, if it has
  report,              \* what the last call has said of each drive
  now,                 \* the call in progress
  addressed            \* history: buses the driver has set the drive of

machine == <<attached, cmos, empty>>
registers == <<device, status, lba>>
results == <<identify, report>>
vars == <<machine, registers, selected, results, now, addressed>>

Bits == {"ERR", "DRQ", "SRV", "DF", "RDY", "BSY", "IDX", "CORR"}
FLOATING_BUS == Bits

\* LBA mid and high of a drive that has been reset.
Signature ==
  [ATA |-> <<0, 0>>, SATA |-> <<60, 195>>, ATAPI |-> <<20, 235>>, SATAPI |-> <<105, 150>>]
SELECT_SLAVE == 176
Nothing == <<255, 255>>

Present(b, d) == attached[b][d] # "NONE"
Status(b) == IF Present(b, "MASTER") THEN status[b][device[b]] ELSE empty

IDLE == [call |-> "none", step |-> "idle", bus |-> "PRIMARY", drive |-> "MASTER"]
UNKNOWN == [b \in Buses |-> [d \in Drives |-> "unknown"]]

\* The BIOS leaves a drive selected on each bus, and packet drives with or
\* without RDY; the driver's variables start as zeros, which mean MASTER.
Init ==
  /\ attached \in Machines /\ cmos \in Floppies /\ empty \in {{}, FLOATING_BUS}
  /\ device \in [Buses -> Drives]
  /\ status \in [Buses -> [Drives -> {{}, {"RDY"}}]]
  /\ \A b \in Buses, d \in Drives :
       /\ ~Present(b, d) => status[b][d] = {}
       /\ Present(b, d) /\ attached[b][d] \notin Packet => status[b][d] = {"RDY"}
  /\ lba = [b \in Buses |-> [d \in Drives |-> <<0, 0>>]]
  /\ selected = [b \in Buses |-> "MASTER"]
  /\ identify = <<>> /\ report = UNKNOWN /\ now = IDLE /\ addressed = {}

At(step) == now.step = step
GoTo(step) == now' = [now EXCEPT !.step = step]
bus == now.bus
drive == now.drive

-----------------------------------------------------------------------------
(* The driver.                                                               *)

ata_floating(b) == Status(b) \in {FLOATING_BUS, {}}

\* Fault: one variable for the drive selected on both buses.
ata_select_shared(b, d) ==
  /\ selected' = [c \in Buses |-> d]
  /\ IF selected[b] = d THEN UNCHANGED <<device, addressed>>
     ELSE device' = [device EXCEPT ![b] = d] /\ addressed' = addressed \cup {b}

ata_select(b, d) ==
  IF selected[b] = d THEN UNCHANGED <<selected, device, addressed>>
  ELSE /\ selected' = [selected EXCEPT ![b] = d]
       /\ device' = [device EXCEPT ![b] = d] /\ addressed' = addressed \cup {b}

\* SRST: every drive of the bus starts over and the master is addressed.
Srst(b) ==
  /\ device' = [device EXCEPT ![b] = "MASTER"] /\ addressed' = addressed \cup {b}
  /\ status' = [status EXCEPT ![b] = [d \in Drives |-> IF Present(b, d) THEN {"BSY"} ELSE {}]]
  /\ lba' = [lba EXCEPT ![b] =
               [d \in Drives |-> IF Present(b, d) THEN Signature[attached[b][d]] ELSE Nothing]]

\* Fault: forgets that a reset addresses the master.
ata_reset_forgets ==
  /\ At("ata_reset")
  /\ \/ ata_floating(bus) /\ GoTo("ata_type") /\ UNCHANGED <<registers, addressed>>
     \/ ~ata_floating(bus) /\ Srst(bus) /\ GoTo("resetting")
  /\ UNCHANGED <<machine, results, selected>>

\* Nothing is reset on a floating bus.
ata_reset ==
  /\ At("ata_reset")
  /\ \/ ata_floating(bus) /\ GoTo("ata_type") /\ UNCHANGED <<registers, selected, addressed>>
     \/ /\ ~ata_floating(bus) /\ Srst(bus) /\ GoTo("resetting")
        /\ selected' = [selected EXCEPT ![bus] = "MASTER"]
  /\ UNCHANGED <<machine, results>>

\* Fault: waits for DRQ, the third bit, instead of RDY, the sixth.
ResetDoneDrq ==
  /\ At("resetting") /\ "DRQ" \in Status(bus) /\ "BSY" \notin Status(bus)
  /\ GoTo("ata_type")
  /\ UNCHANGED <<machine, registers, selected, results, addressed>>

\* The loop at the end of ata_reset.
ResetDone ==
  /\ At("resetting") /\ "RDY" \in Status(bus) /\ "BSY" \notin Status(bus)
  /\ GoTo("ata_type")
  /\ UNCHANGED <<machine, registers, selected, results, addressed>>

\* What LBA mid, LBA high and the drive register may read as when drive d is
\* addressed.  For a drive that is not there the master answers, or nobody;
\* bits 5 and 7 of the drive register are 1 in what the driver writes, and
\* either after a reset.
Answers(b, d) ==
  {<<r[1], r[2], h>> :
     r \in IF Present(b, d) THEN {lba[b][d]} ELSE {lba[b]["MASTER"], Nothing},
     h \in IF d = "SLAVE" THEN {SELECT_SLAVE} ELSE {0, 160}}

\* Two bytes, which on the secondary bus are read one register too far.
TypeRead(b, r) ==
  LET bytes == IF b = "PRIMARY" THEN <<r[1], r[2]>> ELSE <<r[2], r[3]>>
      is == {y \in Types : Signature[y] = bytes}
  IN  IF is = {} THEN "NONE" ELSE CHOOSE y \in is : TRUE

\* disk goes on to the other bus, or to the other drive of this one, with the
\* reset that ata_type begins with.
NextBus ==
  now' = IF bus = "SECONDARY" THEN IDLE
         ELSE [now EXCEPT !.step = "bus", !.bus = "SECONDARY", !.drive = "MASTER"]
NextDrive ==
  IF drive = "SLAVE" THEN NextBus ELSE now' = [now EXCEPT !.step = "ata_reset", !.drive = "SLAVE"]

\* Fault: reads the registers of the drive that the reset left addressed.
ata_type_unselected ==
  /\ At("ata_type") /\ UNCHANGED <<selected, device, addressed>>
  /\ \E r \in Answers(bus, device'[bus]) :
       report' = [report EXCEPT ![bus][drive] = TypeRead(bus, r)]
  /\ NextDrive
  /\ UNCHANGED <<machine, status, lba, identify>>

\* ata_type after the reset, ata_tostring and the line that disk prints.
ata_type ==
  /\ At("ata_type") /\ ata_select(bus, drive)
  /\ \E r \in Answers(bus, device'[bus]) :
       report' = [report EXCEPT ![bus][drive] = TypeRead(bus, r)]
  /\ NextDrive
  /\ UNCHANGED <<machine, status, lba, identify>>

\* Fault: the port is not moved on from LBA mid to LBA high.
CommandMidOnly(zeros) ==
  /\ status' = [status EXCEPT ![bus][device'[bus]] =
                  IF Present(bus, device'[bus]) THEN {"BSY"} ELSE {}]
  /\ lba' = IF zeros THEN [lba EXCEPT ![bus] = [d \in Drives |-> <<0, lba[bus][d][2]>>]] ELSE lba

\* A command goes to the drive addressed, if it is there, after zeros to the
\* registers of both when it is IDENTIFY.
Command(zeros) ==
  /\ status' = [status EXCEPT ![bus][device'[bus]] =
                  IF Present(bus, device'[bus]) THEN {"BSY"} ELSE {}]
  /\ lba' = IF zeros THEN [lba EXCEPT ![bus] = [d \in Drives |-> <<0, 0>>]] ELSE lba

\* The status is read once before the driver waits for BSY to go.
Answered0 == IF Present(bus, "MASTER") THEN status'[bus][device'[bus]] = {} ELSE empty = {}

ata_identify ==
  /\ At("ata_identify") /\ ata_select(bus, drive) /\ Command(TRUE)
  /\ IF Answered0 THEN now' = IDLE ELSE GoTo("identifying")
  /\ UNCHANGED <<machine, results>>

\* BSY is gone: the drive must not have a signature in LBA mid and high, and
\* have set DRQ and not ERR.  Then 256 words are read from it.
Identified ==
  /\ At("identifying") /\ "BSY" \notin Status(bus)
  /\ LET words == /\ Answers(bus, device[bus]) \subseteq {<<0, 0, h>> : h \in 0 .. 255}
                  /\ "ERR" \notin Status(bus)
     IN  /\ words => "DRQ" \in Status(bus)
         /\ identify' = IF words THEN <<bus, device[bus]>> ELSE <<>>
         /\ status' = IF words THEN [status EXCEPT ![bus][device[bus]] = @ \ {"DRQ"}] ELSE status
  /\ now' = IDLE
  /\ UNCHANGED <<machine, device, lba, selected, report, addressed>>

ata_flush ==
  /\ At("ata_flush") /\ UNCHANGED device /\ Command(FALSE) /\ GoTo("flushing")
  /\ UNCHANGED <<machine, selected, results, addressed>>

Flushed ==
  /\ At("flushing") /\ "BSY" \notin Status(bus)
  /\ now' = IDLE
  /\ UNCHANGED <<machine, registers, selected, results, addressed>>

-----------------------------------------------------------------------------
(* The disk command.                                                         *)

floppy_gettype(slave) == IF slave THEN cmos % 16 ELSE cmos \div 16
FLOPPY_2_88MB_3_5 == 5

\* floppy_getstring, of both: a type it does not know ends in haltdump.
floppy_getstring ==
  /\ At("floppy")
  /\ GoTo(IF \A slave \in BOOLEAN : floppy_gettype(slave) <= FLOPPY_2_88MB_3_5
          THEN "bus" ELSE "haltdump")
  /\ UNCHANGED <<machine, registers, selected, results, addressed>>

\* disk asks for the drives of a bus only if it does not float.
DiskBus ==
  /\ At("bus")
  /\ IF ata_floating(bus)
     THEN NextBus /\ report' = [report EXCEPT ![bus] = [d \in Drives |-> "not detected"]]
     ELSE GoTo("ata_reset") /\ UNCHANGED report
  /\ UNCHANGED <<machine, registers, selected, identify, addressed>>

Call(call, step, b, d) ==
  /\ At("idle") /\ call \in Calls
  /\ now' = [call |-> call, step |-> step, bus |-> b, drive |-> d]
  /\ report' = UNKNOWN /\ identify' = <<>>
  /\ UNCHANGED <<machine, registers, selected, addressed>>

disk == Call("disk", "floppy", "PRIMARY", "MASTER")
Identify(b, d) == Call("ata_identify", "ata_identify", b, d)
Flush(b) == Call("ata_flush", "ata_flush", b, "MASTER")

\* The loops that poll, and haltdump.
Poll ==
  /\ At("resetting") \/ At("identifying") \/ At("flushing") \/ At("haltdump")
  /\ UNCHANGED vars

-----------------------------------------------------------------------------
(* Environment.  A drive that is busy becomes ready.  After a reset the      *)
(* master waits for the slave (PDIAG), and a packet drive leaves RDY clear   *)
(* until it gets a packet; asked to identify itself it shows its signature   *)
(* with an error.  Other commands succeed or fail.                           *)

Outcomes(type) ==
  CASE At("resetting") -> IF type \in Packet THEN {{}} ELSE {{"RDY"}}
    [] At("identifying") -> IF type \in Packet THEN {{"RDY", "ERR"}}
                            ELSE {{"RDY", "DRQ"}, {"RDY", "ERR"}}
    [] OTHER -> {{"RDY"}, {"RDY", "ERR"}}

DriveReady(b, d) ==
  /\ "BSY" \in status[b][d] /\ (d = "MASTER" => "BSY" \notin status[b]["SLAVE"])
  /\ \E s \in Outcomes(attached[b][d]) : status' = [status EXCEPT ![b][d] = s]
  /\ lba' = IF At("identifying") /\ attached[b][d] \in Packet
            THEN [lba EXCEPT ![b][d] = Signature[attached[b][d]]] ELSE lba
  /\ UNCHANGED <<machine, device, selected, results, now, addressed>>

Driver ==
  \/ floppy_getstring \/ DiskBus \/ ata_reset \/ ResetDone \/ ata_type
  \/ ata_identify \/ Identified \/ ata_flush \/ Flushed

Next ==
  \/ disk \/ \E b \in Buses : Flush(b) \/ \E d \in Drives : Identify(b, d)
  \/ Driver \/ Poll
  \/ \E b \in Buses, d \in Drives : DriveReady(b, d)

\* The driver goes on and the drives become ready; nobody has to call.
Fairness == WF_vars(Driver) /\ \A b \in Buses, d \in Drives : WF_vars(DriveReady(b, d))

Spec == Init /\ [][Next]_vars /\ Fairness

-----------------------------------------------------------------------------
\* Every variable has its type.
TypeOK ==
  /\ attached \in Machines /\ cmos \in Floppies /\ empty \in {{}, FLOATING_BUS}
  /\ device \in [Buses -> Drives] /\ selected \in [Buses -> Drives]
  /\ status \in [Buses -> [Drives -> SUBSET Bits]]
  /\ lba \in [Buses -> [Drives -> {Signature[y] : y \in Types} \cup {Nothing}]]
  /\ identify \in {<<>>} \cup (Buses \X Drives)
  /\ report \in [Buses -> [Drives -> Types \cup {"NONE", "unknown", "not detected"}]]
  /\ now \in [call : Calls \cup {"none"}, bus : Buses, drive : Drives,
              step : {"idle", "floppy", "haltdump", "bus", "ata_reset", "resetting", "ata_type",
                      "ata_identify", "identifying", "ata_flush", "flushing"}]
  /\ addressed \subseteq Buses

\* Once the driver has addressed a drive of a bus, what it remembers is the
\* drive that answers, through resets, which address the master.  Before
\* that it takes the master to be selected and cannot know.
SelectionKnown == \A b \in addressed : selected[b] = device[b]

\* A type that disk names for a drive that is there is that drive's, and on the
\* primary bus, where ata_type reads the registers it means to, it names one.
TypesReported ==
  /\ \A b \in Buses, d \in Drives :
       Present(b, d) /\ report[b][d] \in Types => report[b][d] = attached[b][d]
  /\ \A d \in Drives : Present("PRIMARY", d) => report["PRIMARY"][d] # "NONE"

\* The words of a successful ata_identify come from the drive it was asked
\* about, which is no packet drive, unless the driver had never addressed a
\* drive of that bus.
IdentifyRight ==
  [][Identified /\ identify' # <<>> /\ bus \in addressed =>
       identify' = <<bus, drive>> /\ attached[bus][drive] \in Types \ Packet]_vars

\* Where a call can wait for ever: haltdump, for a floppy type that does not
\* exist; a packet drive that is master, which never sets RDY after a reset; and
\* FLOATING_BUS, which has BSY set.
Hopeless ==
  \/ At("haltdump") /\ \E slave \in BOOLEAN : floppy_gettype(slave) > FLOPPY_2_88MB_3_5
  \/ At("resetting") /\ attached[bus]["MASTER"] \in Packet
  \/ now.step \in {"identifying", "flushing"} /\ Status(bus) = FLOATING_BUS

\* Every call returns, although no loop that polls has a limit, unless it comes
\* to wait there.
CallsReturn == now.call # "none" ~> now.call = "none" \/ Hopeless

\* ata_floating is to "check if the bus is floating (no drives connected)"
\* (ata.h): disk says that of a bus only when there is no drive on it.
FloatingMeansEmpty ==
  \A b \in Buses : report[b]["MASTER"] = "not detected" => ~Present(b, "MASTER")

\* ata_type is to "return the type of drive at the specified location" and NONE
\* "if no drive" (ata.h), and that is what disk says.
TypeOfLocation ==
  \A b \in Buses, d \in Drives :
    report[b][d] \in Types \cup {"NONE"} => report[b][d] = attached[b][d]
=============================================================================
