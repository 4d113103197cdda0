----------------------------- MODULE AtaProofs -----------------------------
(***************************************************************************)
(* The ATA driver, proved for every set of machines: any types of drives   *)
(* on either bus, whatever the BIOS has selected and however the calls and *)
(* the drives interleave.                                                  *)
(***************************************************************************)
EXTENDS Ata, TLAPS

Values == {Signature[y] : y \in Types} \cup {Nothing}
Steps ==
  {"idle", "floppy", "haltdump", "bus", "ata_reset", "resetting", "ata_type",
   "ata_identify", "identifying", "ata_flush", "flushing"}

\* While ata_identify waits, the drive it has asked for is the one selected,
\* and a packet drive that is no longer busy has put its signature back.
Asked ==
  At("identifying") =>
    /\ selected[bus] = drive
    /\ /\ attached[bus][device[bus]] \in Packet
       /\ "BSY" \notin status[bus][device[bus]]
       => lba[bus][device[bus]] = Signature[attached[bus][device[bus]]]

\* disk resets a bus that does not float.  From the reset to ata_type, the
\* master is selected and addressed, every drive shows its signature, and
\* once the driver has waited for the master it stays ready.
JustReset ==
  /\ At("ata_reset") => ~ata_floating(bus)
  /\ At("resetting") \/ At("ata_type") =>
       /\ selected[bus] = "MASTER" /\ device[bus] = "MASTER" /\ Present(bus, "MASTER")
       /\ \A d \in Drives : Present(bus, d) => lba[bus][d] = Signature[attached[bus][d]]
  /\ At("ata_type") =>
       "RDY" \in status[bus]["MASTER"] /\ "BSY" \notin status[bus]["MASTER"]

\* All that ata_type can make of a drive that has been reset: its type; NONE on
\* the secondary bus, where it reads the wrong registers; and, where a slave is
\* missing and the master answers for it, the type of the master.
Reported ==
  \A b \in Buses, d \in Drives :
    report[b][d] \in Types \cup {"NONE"} =>
      \/ report[b][d] = attached[b][d]
      \/ report[b][d] = "NONE" /\ b = "SECONDARY"
      \/ report[b][d] = attached[b]["MASTER"] /\ ~Present(b, d)

\* What holds in every state.
IInv == TypeOK /\ SelectionKnown /\ Asked /\ JustReset /\ Reported

-----------------------------------------------------------------------------
(* Tables with a row for each bus and a column for each drive.               *)

LEMMA Table ==
  ASSUME NEW V, NEW f \in [Buses -> [Drives -> V]], NEW b \in Buses
  PROVE  /\ \A d \in Drives : f[b][d] \in V
         /\ \A d \in Drives, v \in V : [f EXCEPT ![b][d] = v] \in [Buses -> [Drives -> V]]
         /\ \A row \in [Drives -> V] : [f EXCEPT ![b] = row] \in [Buses -> [Drives -> V]]
OBVIOUS

\* The drives of a machine have one of the four types, and a slave does not
\* come without a master.
LEMMA Attached ==
  ASSUME TypeOK, NEW b \in Buses, NEW d \in Drives
  PROVE  /\ attached[b][d] \in Types \cup {"NONE"}
         /\ Present(b, d) => attached[b][d] \in Types /\ Present(b, "MASTER")
<1>1. attached \in [Buses -> [Drives -> Types \cup {"NONE"}]]
  BY AtaConstants DEF TypeOK
<1>2. attached[b]["MASTER"] = "NONE" => attached[b]["SLAVE"] = "NONE"
  BY AtaConstants DEF TypeOK
<1>3. attached[b][d] \in Types \cup {"NONE"}
  BY <1>1, Table
<1> QED  BY <1>2, <1>3 DEF Present, Drives

\* The signatures differ from each other, and those of packet drives from zeros.
LEMMA Signatures ==
  /\ Signature \in [Types -> Values]
  /\ Packet \subseteq Types /\ \A y \in Packet : Signature[y] # <<0, 0>>
  /\ <<0, 0>> \in Values /\ Nothing \in Values /\ Nothing # <<0, 0>>
BY DEF Signature, Types, Values, Packet, Nothing

-----------------------------------------------------------------------------
(* The parts of a step.                                                      *)

Now == [call : Calls \cup {"none"}, bus : Buses, drive : Drives, step : Steps]

LEMMA NowTyped == (TypeOK => now \in Now) /\ (TypeOK' => now' \in Now)
BY DEF TypeOK, Now, Steps

\* A step of a call that is at one of its places.
LEMMA Going ==
  ASSUME TypeOK, NEW step \in Steps, GoTo(step)
  PROVE  now' \in Now /\ now'.step = step /\ now'.bus = bus /\ now'.drive = drive
<1>1. now \in Now /\ now' = [now EXCEPT !.step = step]
  BY NowTyped DEF GoTo
<1> QED  BY <1>1 DEF Now, bus, drive

\* NextDrive and NextBus go on to a place where nobody waits for a drive.
LEMMA GoingOn ==
  ASSUME TypeOK, NextDrive \/ NextBus
  PROVE  now' \in Now /\ now'.step \in {"idle", "bus", "ata_reset"}
<1>1. now \in Now
  BY NowTyped
<1>2. CASE now' = IDLE
  BY <1>2 DEF IDLE, Now, Steps, Buses, Drives
<1>3. CASE now' = [now EXCEPT !.step = "bus", !.bus = "SECONDARY", !.drive = "MASTER"]
  BY <1>1, <1>3 DEF Now, Steps, Buses, Drives
<1>4. CASE now' = [now EXCEPT !.step = "ata_reset", !.drive = "SLAVE"]
  BY <1>1, <1>4 DEF Now, Steps, Buses, Drives
<1> QED  BY <1>2, <1>3, <1>4 DEF NextDrive, NextBus

\* ata_select leaves the drive asked for selected, and what is remembered is
\* still right.
LEMMA Selects ==
  ASSUME TypeOK, SelectionKnown, NEW b \in Buses, NEW d \in Drives, ata_select(b, d)
  PROVE  /\ selected' \in [Buses -> Drives] /\ device' \in [Buses -> Drives]
         /\ addressed' \in SUBSET Buses
         /\ selected'[b] = d /\ SelectionKnown'
<1>1. /\ selected \in [Buses -> Drives] /\ device \in [Buses -> Drives]
      /\ addressed \subseteq Buses
  BY DEF TypeOK
<1>2. CASE selected[b] = d
  BY <1>1, <1>2 DEF SelectionKnown, ata_select
<1>3. CASE selected[b] # d
  <2>1. /\ selected' = [selected EXCEPT ![b] = d]
        /\ device' = [device EXCEPT ![b] = d] /\ addressed' = addressed \cup {b}
    BY <1>3 DEF ata_select
  <2>2. selected'[b] = d /\ device'[b] = d
    BY <1>1, <2>1
  <2>3. \A c \in Buses : c # b => selected'[c] = selected[c] /\ device'[c] = device[c]
    BY <1>1, <2>1
  <2>4. \A c \in addressed' : selected'[c] = device'[c]
    <3> TAKE c \in addressed'
    <3>1. CASE c = b
      BY <2>2, <3>1
    <3>2. CASE c # b
      BY <1>1, <2>1, <2>3, <3>2 DEF SelectionKnown
    <3> QED  BY <3>1, <3>2
  <2> QED  BY <1>1, <2>1, <2>2, <2>4 DEF SelectionKnown
<1> QED  BY <1>2, <1>3

-----------------------------------------------------------------------------
(* Every step keeps the types.                                               *)

Registers == [Buses -> [Drives -> SUBSET Bits]]
Reports == [Buses -> [Drives -> Types \cup {"NONE", "unknown", "not detected"}]]

\* TypeOK with names for its sets.
Typed ==
  /\ attached \in Machines /\ cmos \in Floppies /\ empty \in {{}, FLOATING_BUS}
  /\ device \in [Buses -> Drives] /\ selected \in [Buses -> Drives]
  /\ status \in Registers /\ lba \in [Buses -> [Drives -> Values]]
  /\ identify \in {<<>>} \cup (Buses \X Drives)
  /\ report \in Reports /\ now \in Now /\ addressed \subseteq Buses

LEMMA TypeParts == (TypeOK <=> Typed) /\ (TypeOK' <=> Typed')
BY DEF TypeOK, Typed, Registers, Values, Reports, Now, Steps

LEMMA SrstTyped ==
  ASSUME TypeOK, NEW b \in Buses, Srst(b)
  PROVE  /\ device' \in [Buses -> Drives] /\ addressed' \subseteq Buses
         /\ status' \in Registers /\ lba' \in [Buses -> [Drives -> Values]]
<1>1. [d \in Drives |-> IF Present(b, d) THEN {"BSY"} ELSE {}] \in [Drives -> SUBSET Bits]
  BY DEF Bits
<1>2. \A d \in Drives : Present(b, d) => Signature[attached[b][d]] \in Values
  BY Attached, Signatures
<1>3. [d \in Drives |-> IF Present(b, d) THEN Signature[attached[b][d]] ELSE Nothing]
        \in [Drives -> Values]
  BY <1>2, Signatures
<1>4. status' \in Registers
  BY <1>1, Table, TypeParts DEF Typed, Srst, Registers
<1>5. lba' \in [Buses -> [Drives -> Values]]
  BY <1>3, Table, TypeParts DEF Typed, Srst
<1> QED  BY <1>4, <1>5, TypeParts DEF Typed, Srst, Drives

LEMMA CommandTyped ==
  ASSUME TypeOK, NEW zeros \in BOOLEAN, Command(zeros), device' \in [Buses -> Drives]
  PROVE  status' \in Registers /\ lba' \in [Buses -> [Drives -> Values]]
<1>1. bus \in Buses /\ device'[bus] \in Drives
  BY TypeParts DEF Typed, Now, bus
<1>2. {"BSY"} \in SUBSET Bits /\ {} \in SUBSET Bits
  BY DEF Bits
<1>3. [d \in Drives |-> <<0, 0>>] \in [Drives -> Values]
  BY Signatures
<1>4. status' \in Registers
  BY <1>1, <1>2, Table, TypeParts DEF Typed, Command, Registers
<1>5. lba' \in [Buses -> [Drives -> Values]]
  BY <1>1, <1>3, Table, TypeParts DEF Typed, Command
<1> QED  BY <1>4, <1>5

\* What ata_type reads is a type or NONE.
LEMMA TypeReadTyped ==
  ASSUME NEW b, NEW r PROVE TypeRead(b, r) \in Types \cup {"NONE"}
<1> DEFINE bytes == IF b = "PRIMARY" THEN <<r[1], r[2]>> ELSE <<r[2], r[3]>>
           is == {y \in Types : Signature[y] = bytes}
<1>1. TypeRead(b, r) = IF is = {} THEN "NONE" ELSE CHOOSE y \in is : TRUE
  BY DEF TypeRead
<1>2. is # {} => (CHOOSE y \in is : TRUE) \in is
  OBVIOUS
<1> QED  BY <1>1, <1>2

LEMMA TypeStep ==
  ASSUME TypeOK, SelectionKnown, [Next]_vars
  PROVE  TypeOK'
<1> USE TypeParts DEF Typed, machine, registers, results
<1>1. ASSUME NEW call, NEW step \in Steps, NEW b \in Buses, NEW d \in Drives,
             Call(call, step, b, d)
      PROVE  TypeOK'
  <2>1. now' \in Now
    BY <1>1 DEF Call, Now
  <2>2. report' \in Reports
    BY <1>1 DEF Call, UNKNOWN, Reports
  <2> QED  BY <1>1, <2>1, <2>2 DEF Call
<1>2. CASE disk
  BY <1>1, <1>2 DEF disk, Steps, Buses, Drives
<1>3. ASSUME NEW b \in Buses, Flush(b) PROVE TypeOK'
  BY <1>1, <1>3 DEF Flush, Steps, Drives
<1>4. ASSUME NEW b \in Buses, NEW d \in Drives, Identify(b, d) PROVE TypeOK'
  BY <1>1, <1>4 DEF Identify, Steps
<1>5. CASE floppy_getstring
  <2>1. now' \in Now
    BY <1>5, Going DEF floppy_getstring, Steps
  <2> QED  BY <1>5, <2>1 DEF floppy_getstring
<1>6. CASE DiskBus
  <2>1. bus \in Buses
    BY DEF Now, bus
  <2>2. now' \in Now
    BY <1>6, Going, GoingOn DEF DiskBus, Steps
  <2>3. report' \in Reports
    <3>1. [d \in Drives |-> "not detected"]
            \in [Drives -> Types \cup {"NONE", "unknown", "not detected"}]
      OBVIOUS
    <3>2. [report EXCEPT ![bus] = [d \in Drives |-> "not detected"]] \in Reports
      BY <2>1, <3>1, Table DEF Reports
    <3> QED  BY <1>6, <3>2 DEF DiskBus
  <2> QED  BY <1>6, <2>2, <2>3 DEF DiskBus
<1>7. CASE ata_reset
  <2>1. bus \in Buses
    BY DEF Now, bus
  <2>2. CASE ata_floating(bus) /\ GoTo("ata_type") /\ UNCHANGED <<registers, selected, addressed>>
    <3>1. now' \in Now
      BY <2>2, Going DEF Steps
    <3> QED  BY <1>7, <2>2, <3>1 DEF ata_reset
  <2>3. CASE /\ ~ata_floating(bus) /\ Srst(bus) /\ GoTo("resetting")
             /\ selected' = [selected EXCEPT ![bus] = "MASTER"]
    <3>1. now' \in Now
      BY <2>3, Going DEF Steps
    <3>2. /\ device' \in [Buses -> Drives] /\ addressed' \subseteq Buses
          /\ status' \in Registers /\ lba' \in [Buses -> [Drives -> Values]]
      BY <2>1, <2>3, SrstTyped
    <3>3. selected' \in [Buses -> Drives]
      BY <2>3 DEF Drives
    <3> QED  BY <1>7, <3>1, <3>2, <3>3 DEF ata_reset
  <2> QED  BY <1>7, <2>2, <2>3 DEF ata_reset
<1>8. CASE ResetDone
  <2>1. now' \in Now
    BY <1>8, Going DEF ResetDone, Steps
  <2> QED  BY <1>8, <2>1 DEF ResetDone
<1>9. CASE ata_type
  <2>1. bus \in Buses /\ drive \in Drives
    BY DEF Now, bus, drive
  <2>2. /\ device' \in [Buses -> Drives] /\ selected' \in [Buses -> Drives]
        /\ addressed' \subseteq Buses
    BY <1>9, <2>1, Selects DEF ata_type
  <2>3. now' \in Now
    BY <1>9, GoingOn DEF ata_type
  <2>4. report' \in Reports
    <3>1. PICK r \in Answers(bus, device'[bus]) :
            report' = [report EXCEPT ![bus][drive] = TypeRead(bus, r)]
      BY <1>9 DEF ata_type
    <3>2. TypeRead(bus, r) \in Types \cup {"NONE", "unknown", "not detected"}
      BY TypeReadTyped
    <3> QED  BY <2>1, <3>1, <3>2, Table DEF Reports
  <2> QED  BY <1>9, <2>2, <2>3, <2>4 DEF ata_type
<1>10. CASE ata_identify
  <2>1. bus \in Buses /\ drive \in Drives
    BY DEF Now, bus, drive
  <2>2. /\ device' \in [Buses -> Drives] /\ selected' \in [Buses -> Drives]
        /\ addressed' \subseteq Buses
    BY <1>10, <2>1, Selects DEF ata_identify
  <2>3. status' \in Registers /\ lba' \in [Buses -> [Drives -> Values]]
    BY <1>10, <2>2, CommandTyped DEF ata_identify
  <2>4. now' \in Now
    <3>1. CASE now' = IDLE
      BY <3>1 DEF IDLE, Now, Steps, Buses, Drives
    <3>2. CASE GoTo("identifying")
      BY <3>2, Going DEF Steps
    <3> QED  BY <1>10, <3>1, <3>2 DEF ata_identify
  <2> QED  BY <1>10, <2>2, <2>3, <2>4 DEF ata_identify
<1>11. CASE Identified
  <2>1. bus \in Buses /\ device[bus] \in Drives
    BY DEF Now, bus
  <2>2. now' \in Now
    BY <1>11 DEF Identified, IDLE, Now, Steps, Buses, Drives
  <2>3. identify' \in {<<>>} \cup (Buses \X Drives)
    BY <1>11, <2>1 DEF Identified
  <2>4. status' \in Registers
    <3>1. status[bus][device[bus]] \ {"DRQ"} \in SUBSET Bits
      BY <2>1, Table DEF Registers
    <3>2. [status EXCEPT ![bus][device[bus]] = @ \ {"DRQ"}] \in Registers
      BY <2>1, <3>1, Table DEF Registers
    <3> QED  BY <1>11, <3>2 DEF Identified
  <2> QED  BY <1>11, <2>2, <2>3, <2>4 DEF Identified
<1>12. CASE ata_flush
  <2>1. status' \in Registers /\ lba' \in [Buses -> [Drives -> Values]]
    BY <1>12, CommandTyped DEF ata_flush
  <2>2. now' \in Now
    BY <1>12, Going DEF ata_flush, Steps
  <2> QED  BY <1>12, <2>1, <2>2 DEF ata_flush
<1>13. CASE Flushed
  <2>1. now' \in Now
    BY <1>13 DEF Flushed, IDLE, Now, Steps, Buses, Drives
  <2> QED  BY <1>13, <2>1 DEF Flushed
<1>14. ASSUME NEW b \in Buses, NEW d \in Drives, DriveReady(b, d) PROVE TypeOK'
  <2>1. PICK s \in Outcomes(attached[b][d]) : status' = [status EXCEPT ![b][d] = s]
    BY <1>14 DEF DriveReady
  <2>2. s \in SUBSET Bits
    BY DEF Outcomes, Bits
  <2>3. status' \in Registers
    BY <2>1, <2>2, Table DEF Registers
  <2>4. lba' \in [Buses -> [Drives -> Values]]
    <3>1. attached[b][d] \in Packet => Signature[attached[b][d]] \in Values
      BY Signatures
    <3> QED  BY <1>14, <3>1, Table DEF DriveReady
  <2> QED  BY <1>14, <2>3, <2>4 DEF DriveReady
<1>15. CASE UNCHANGED vars
  BY <1>15 DEF vars
<1> QED
  BY <1>2, <1>3, <1>4, <1>5, <1>6, <1>7, <1>8, <1>9, <1>10, <1>11, <1>12, <1>13, <1>14, <1>15
  DEF Next, Driver, Poll

-----------------------------------------------------------------------------
(* Every step keeps the rest.                                                *)

Ready == \E b \in Buses, d \in Drives : DriveReady(b, d)

\* Which steps come to the places that the invariant is about, or stay there.
LEMMA Arrives ==
  ASSUME TypeOK, [Next]_vars
  PROVE  /\ now'.step = "identifying" => ata_identify \/ Ready \/ UNCHANGED vars
         /\ now'.step = "ata_reset" => DiskBus \/ ata_type \/ Ready \/ UNCHANGED vars
         /\ now'.step = "resetting" => ata_reset \/ Ready \/ UNCHANGED vars
         /\ now'.step = "ata_type" => ata_reset \/ ResetDone \/ Ready \/ UNCHANGED vars
<1> DEFINE Elsewhere ==
      now'.step \notin {"identifying", "ata_reset", "resetting", "ata_type"}
<1>1. ASSUME NEW b \in Buses, Flush(b) PROVE Elsewhere
  BY <1>1 DEF Flush, Call
<1>2. ASSUME NEW b \in Buses, NEW d \in Drives, Identify(b, d) PROVE Elsewhere
  BY <1>2 DEF Identify, Call
<1>3. CASE disk \/ Identified \/ Flushed
  BY <1>3 DEF disk, Call, Identified, Flushed, IDLE
<1>4. CASE floppy_getstring
  <2>1. GoTo("bus") \/ GoTo("haltdump")
    BY <1>4 DEF floppy_getstring
  <2> QED  BY <2>1, Going DEF Steps
<1>5. CASE ata_flush
  BY <1>5, Going DEF ata_flush, Steps
<1>6. CASE DiskBus
  <2>1. now'.step \in {"idle", "bus", "ata_reset"}
    BY <1>6, Going, GoingOn DEF DiskBus, Steps
  <2> QED  BY <1>6, <2>1
<1>7. CASE ata_type
  <2>1. now'.step \in {"idle", "bus", "ata_reset"}
    BY <1>7, GoingOn DEF ata_type
  <2> QED  BY <1>7, <2>1
<1>8. CASE ata_reset
  <2>1. now'.step \in {"resetting", "ata_type"}
    BY <1>8, Going DEF ata_reset, Steps
  <2> QED  BY <1>8, <2>1
<1>9. CASE ResetDone
  <2>1. now'.step = "ata_type"
    BY <1>9, Going DEF ResetDone, Steps
  <2> QED  BY <1>9, <2>1
<1>10. CASE ata_identify
  <2>1. now'.step \in {"idle", "identifying"}
    <3>1. CASE now' = IDLE
      BY <3>1 DEF IDLE
    <3>2. CASE GoTo("identifying")
      BY <3>2, Going DEF Steps
    <3> QED  BY <1>10, <3>1, <3>2 DEF ata_identify
  <2> QED  BY <1>10, <2>1
<1> QED
  BY <1>1, <1>2, <1>3, <1>4, <1>5, <1>6, <1>7, <1>8, <1>9, <1>10
  DEF Next, Driver, Poll, Ready

LEMMA SelectionStep ==
  ASSUME TypeOK, SelectionKnown, [Next]_vars
  PROVE  SelectionKnown'
<1>1. bus \in Buses /\ drive \in Drives /\ Typed
  BY TypeParts DEF Typed, Now, bus, drive
<1>2. CASE UNCHANGED <<device, selected, addressed>>
  BY <1>2 DEF SelectionKnown
<1>3. CASE ata_type \/ ata_identify
  BY <1>1, <1>3, Selects DEF ata_type, ata_identify
<1>4. CASE ata_reset
  <2>1. CASE UNCHANGED <<registers, selected, addressed>>
    BY <1>2, <2>1 DEF registers
  <2>2. CASE Srst(bus) /\ selected' = [selected EXCEPT ![bus] = "MASTER"]
    <3>1. selected'[bus] = "MASTER" /\ device'[bus] = "MASTER"
      BY <1>1, <2>2 DEF Srst, Typed
    <3>2. \A c \in Buses : c # bus => selected'[c] = selected[c] /\ device'[c] = device[c]
      BY <1>1, <2>2 DEF Srst, Typed
    <3>3. addressed' = addressed \cup {bus} /\ addressed \subseteq Buses
      BY <1>1, <2>2 DEF Srst, Typed
    <3>4. \A c \in addressed' : selected'[c] = device'[c]
      <4> TAKE c \in addressed'
      <4>1. CASE c = bus
        BY <3>1, <4>1
      <4>2. CASE c # bus
        BY <3>2, <3>3, <4>2 DEF SelectionKnown
      <4> QED  BY <4>1, <4>2
    <3> QED  BY <3>4 DEF SelectionKnown
  <2> QED  BY <1>4, <2>1, <2>2 DEF ata_reset
<1> QED
  BY <1>2, <1>3, <1>4
  DEF Next, Driver, Poll, disk, Flush, Identify, Call, floppy_getstring, DiskBus, ResetDone,
      Identified, ata_flush, Flushed, DriveReady, vars, registers

\* A drive that becomes ready changes its own registers: its status, which
\* has RDY and not BSY unless it has been reset, and a packet drive that has
\* been asked to identify itself its signature.
LEMMA BecomesReady ==
  ASSUME TypeOK, NEW b \in Buses, NEW d \in Drives, DriveReady(b, d)
  PROVE  /\ UNCHANGED <<attached, empty, device, selected, report, now>>
         /\ \A c \in Buses, e \in Drives : c # b \/ e # d =>
              status'[c][e] = status[c][e] /\ lba'[c][e] = lba[c][e]
         /\ "BSY" \in status[b][d]
         /\ ~At("resetting") => "RDY" \in status'[b][d] /\ "BSY" \notin status'[b][d]
         /\ lba'[b][d] = IF At("identifying") /\ attached[b][d] \in Packet
                         THEN Signature[attached[b][d]] ELSE lba[b][d]
<1>1. status \in [Buses -> [Drives -> SUBSET Bits]] /\ lba \in [Buses -> [Drives -> Values]]
  BY TypeParts DEF Typed, Registers
<1>2. PICK s \in Outcomes(attached[b][d]) : status' = [status EXCEPT ![b][d] = s]
  BY DEF DriveReady
<1>3. ~At("resetting") => "RDY" \in s /\ "BSY" \notin s
  BY <1>2 DEF Outcomes, At
<1>4. /\ status'[b][d] = s
      /\ \A c \in Buses, e \in Drives : c # b \/ e # d => status'[c][e] = status[c][e]
  BY <1>1, <1>2
<1>5. CASE At("identifying") /\ attached[b][d] \in Packet
  <2>1. lba' = [lba EXCEPT ![b][d] = Signature[attached[b][d]]]
    BY <1>5 DEF DriveReady
  <2> QED  BY <1>1, <1>3, <1>4, <1>5, <2>1 DEF DriveReady, machine, results
<1>6. CASE ~(At("identifying") /\ attached[b][d] \in Packet)
  <2>1. lba' = lba
    BY <1>6 DEF DriveReady
  <2> QED  BY <1>3, <1>4, <1>6, <2>1 DEF DriveReady, machine, results
<1> QED  BY <1>5, <1>6

LEMMA AskedStep ==
  ASSUME TypeOK, SelectionKnown, Asked, [Next]_vars
  PROVE  Asked'
<1> SUFFICES ASSUME now'.step = "identifying" PROVE Asked'
  BY DEF Asked, At
<1>1. bus \in Buses /\ drive \in Drives /\ Typed
  BY TypeParts DEF Typed, Now, bus, drive
<1>2. CASE ata_identify
  <2>1. GoTo("identifying")
    BY <1>2 DEF ata_identify, IDLE
  <2>2. bus' = bus /\ drive' = drive
    BY <2>1, Going DEF Steps, bus, drive
  <2>3. selected'[bus] = drive /\ device' \in [Buses -> Drives]
    BY <1>1, <1>2, Selects DEF ata_identify
  <2>4. attached' = attached /\ attached[bus][device'[bus]] \in Packet
        => "BSY" \in status'[bus][device'[bus]]
    <3>1. device'[bus] \in Drives
      BY <1>1, <2>3
    <3>2. attached[bus][device'[bus]] \in Packet => Present(bus, device'[bus])
      BY DEF Packet, Present
    <3>3. status' = [status EXCEPT ![bus][device'[bus]] =
                       IF Present(bus, device'[bus]) THEN {"BSY"} ELSE {}]
      BY <1>2 DEF ata_identify, Command
    <3>4. status'[bus][device'[bus]] = IF Present(bus, device'[bus]) THEN {"BSY"} ELSE {}
      BY <1>1, <3>1, <3>3 DEF Typed, Registers
    <3> QED  BY <3>2, <3>4
  <2>5. attached' = attached
    BY <1>2 DEF ata_identify, machine
  <2> QED  BY <2>2, <2>3, <2>4, <2>5 DEF Asked
<1>3. ASSUME NEW b \in Buses, NEW d \in Drives, DriveReady(b, d) PROVE Asked'
  <2>1. UNCHANGED <<attached, device, selected, now>>
    BY <1>3, BecomesReady
  <2>2. UNCHANGED <<bus, drive>> /\ At("identifying")
    BY <2>1 DEF At, bus, drive
  <2>3. device[bus] \in Drives
    BY <1>1 DEF Typed
  <2>4. CASE b = bus /\ d = device[bus]
    <3>1. attached[b][d] \in Packet => lba'[b][d] = Signature[attached[b][d]]
      BY <1>3, <2>2, BecomesReady
    <3> QED  BY <2>1, <2>2, <2>4, <3>1 DEF Asked
  <2>5. CASE b # bus \/ d # device[bus]
    <3>1. /\ status'[bus][device[bus]] = status[bus][device[bus]]
          /\ lba'[bus][device[bus]] = lba[bus][device[bus]]
      BY <1>1, <1>3, <2>3, <2>5, BecomesReady
    <3> QED  BY <2>1, <2>2, <3>1 DEF Asked
  <2> QED  BY <2>4, <2>5
<1>4. CASE UNCHANGED vars
  BY <1>4 DEF Asked, At, bus, drive, vars, machine, registers
<1> QED  BY <1>2, <1>3, <1>4, Arrives DEF Ready

LEMMA JustResetStep ==
  ASSUME TypeOK, JustReset, [Next]_vars
  PROVE  JustReset'
<1>1. bus \in Buses /\ drive \in Drives /\ Typed
  BY TypeParts DEF Typed, Now, bus, drive
<1>2. CASE UNCHANGED vars
  BY <1>2 DEF JustReset, At, bus, ata_floating, Status, Present, vars, machine, registers
<1>3. ASSUME NEW b \in Buses, NEW d \in Drives, DriveReady(b, d) PROVE JustReset'
  <2>1. UNCHANGED <<attached, empty, device, selected, now>>
    BY <1>3, BecomesReady
  <2>2. UNCHANGED bus /\ \A step : At(step)' <=> At(step)
    BY <2>1 DEF At, bus
  <2>3. /\ \A c \in Buses, e \in Drives : c # b \/ e # d =>
             status'[c][e] = status[c][e] /\ lba'[c][e] = lba[c][e]
        /\ ~At("resetting") => "RDY" \in status'[b][d] /\ "BSY" \notin status'[b][d]
        /\ ~At("identifying") => lba'[b][d] = lba[b][d]
    BY <1>3, BecomesReady
  <2>4. At("ata_reset") => ~ata_floating(bus)'
    <3> SUFFICES ASSUME At("ata_reset") PROVE ~ata_floating(bus)'
      OBVIOUS
    <3>1. ~ata_floating(bus) /\ ~At("resetting")
      BY DEF JustReset, At
    <3>2. device[bus] \in Drives
      BY <1>1 DEF Typed
    <3>3. CASE b = bus /\ d = device[bus]
      <4>1. "RDY" \in status'[bus][device[bus]] /\ "BSY" \notin status'[bus][device[bus]]
        BY <2>3, <3>1, <3>3
      <4>2. Present(bus, "MASTER")
        BY <1>1, <3>1 DEF ata_floating, Status, Typed
      <4> QED  BY <2>1, <2>2, <4>1, <4>2 DEF ata_floating, Status, Present, FLOATING_BUS, Bits
    <3>4. CASE b # bus \/ d # device[bus]
      <4>1. status'[bus][device[bus]] = status[bus][device[bus]]
        BY <1>1, <2>3, <3>2, <3>4
      <4> QED  BY <2>1, <2>2, <3>1, <4>1 DEF ata_floating, Status, Present
    <3> QED  BY <3>3, <3>4
  <2>5. At("resetting") \/ At("ata_type") =>
          \A e \in Drives : Present(bus, e) => lba'[bus][e] = Signature[attached[bus][e]]
    <3>1. At("resetting") \/ At("ata_type") => ~At("identifying")
      BY DEF At
    <3> QED  BY <1>1, <2>3, <3>1 DEF JustReset
  <2>6. At("ata_type") => "RDY" \in status'[bus]["MASTER"] /\ "BSY" \notin status'[bus]["MASTER"]
    <3>1. At("ata_type") => ~At("resetting")
      BY DEF At
    <3>2. "MASTER" \in Drives
      BY DEF Drives
    <3>3. CASE b = bus /\ d = "MASTER"
      BY <2>3, <3>1, <3>3
    <3>4. CASE b # bus \/ d # "MASTER"
      BY <1>1, <2>3, <3>2, <3>4 DEF JustReset
    <3> QED  BY <3>3, <3>4
  <2> QED  BY <2>1, <2>2, <2>4, <2>5, <2>6 DEF JustReset, Present
<1>4. CASE DiskBus
  <2>1. CASE NextBus
    <3>1. now'.step \in {"idle", "bus"}
      BY <1>1, <2>1 DEF NextBus, IDLE, Typed, Now
    <3> QED  BY <3>1 DEF JustReset, At
  <2>2. CASE GoTo("ata_reset") /\ ~ata_floating(bus)
    <3>1. now'.step = "ata_reset" /\ bus' = bus
      BY <2>2, Going DEF Steps, bus
    <3>2. UNCHANGED <<attached, empty, device, status>>
      BY <1>4 DEF DiskBus, machine, registers
    <3>3. ~ata_floating(bus)'
      BY <2>2, <3>1, <3>2 DEF ata_floating, Status, Present
    <3> QED  BY <3>1, <3>3 DEF JustReset, At
  <2> QED  BY <1>4, <2>1, <2>2 DEF DiskBus
<1>5. CASE ata_reset
  <2>1. ~ata_floating(bus)
    BY <1>5 DEF ata_reset, JustReset
  <2>2. /\ Srst(bus) /\ GoTo("resetting")
        /\ selected' = [selected EXCEPT ![bus] = "MASTER"] /\ attached' = attached
    BY <1>5, <2>1 DEF ata_reset, machine
  <2>3. now'.step = "resetting" /\ bus' = bus
    BY <2>2, Going DEF Steps, bus
  <2>4. selected'[bus] = "MASTER" /\ device'[bus] = "MASTER"
    BY <1>1, <2>2 DEF Srst, Typed
  <2>5. Present(bus, "MASTER")
    BY <1>1, <2>1 DEF ata_floating, Status, Typed
  <2>6. \A d \in Drives : Present(bus, d) => lba'[bus][d] = Signature[attached[bus][d]]
    BY <1>1, <2>2 DEF Srst, Typed
  <2> QED  BY <2>2, <2>3, <2>4, <2>5, <2>6 DEF JustReset, At, Present
<1>6. CASE ResetDone
  <2>1. now'.step = "ata_type" /\ bus' = bus
    BY <1>6, Going DEF ResetDone, Steps, bus
  <2>2. UNCHANGED <<attached, device, status, lba, selected>>
    BY <1>6 DEF ResetDone, machine, registers
  <2>3. /\ selected[bus] = "MASTER" /\ device[bus] = "MASTER" /\ Present(bus, "MASTER")
        /\ \A d \in Drives : Present(bus, d) => lba[bus][d] = Signature[attached[bus][d]]
    BY <1>6 DEF ResetDone, JustReset
  <2>4. "RDY" \in status[bus]["MASTER"] /\ "BSY" \notin status[bus]["MASTER"]
    BY <1>6, <2>3 DEF ResetDone, Status
  <2> QED  BY <2>1, <2>2, <2>3, <2>4 DEF JustReset, At, Present
<1>7. CASE ata_type
  <2> SUFFICES ASSUME now'.step = "ata_reset" PROVE ~ata_floating(bus)'
    <3>1. now'.step \in {"idle", "bus", "ata_reset"}
      BY <1>7, GoingOn DEF ata_type
    <3> QED  BY <3>1 DEF JustReset, At
  <2>1. now' = [now EXCEPT !.step = "ata_reset", !.drive = "SLAVE"] /\ drive # "SLAVE"
    <3>1. NextBus => now'.step \in {"idle", "bus"}
      BY <1>1 DEF NextBus, IDLE, Typed, Now
    <3> QED  BY <1>7, <3>1 DEF ata_type, NextDrive
  <2>2. bus' = bus /\ drive = "MASTER"
    BY <1>1, <2>1 DEF Typed, Now, bus, Drives
  <2>3. /\ selected[bus] = "MASTER" /\ device[bus] = "MASTER" /\ Present(bus, "MASTER")
        /\ "RDY" \in status[bus]["MASTER"] /\ "BSY" \notin status[bus]["MASTER"]
    BY <1>7 DEF ata_type, JustReset
  <2>4. UNCHANGED <<attached, device, status>>
    BY <1>7, <2>2, <2>3 DEF ata_type, ata_select, machine
  <2> QED
    BY <2>2, <2>3, <2>4 DEF ata_floating, Status, Present, FLOATING_BUS, Bits
<1>8. CASE now'.step \notin {"ata_reset", "resetting", "ata_type"}
  BY <1>8 DEF JustReset, At
<1> QED  BY <1>2, <1>3, <1>4, <1>5, <1>6, <1>7, <1>8, Arrives DEF Ready

\* What ata_type makes of the registers of a drive that shows its signature.
LEMMA Reads ==
  ASSUME TypeOK, NEW b \in Buses, NEW d \in Drives, Present(b, "MASTER"),
         \A e \in Drives : Present(b, e) => lba[b][e] = Signature[attached[b][e]],
         NEW r \in Answers(b, d)
  PROVE  \/ TypeRead(b, r) = attached[b][d]
         \/ TypeRead(b, r) = "NONE" /\ b = "SECONDARY"
         \/ TypeRead(b, r) = attached[b]["MASTER"] /\ ~Present(b, d)
<1> DEFINE bytes == IF b = "PRIMARY" THEN <<r[1], r[2]>> ELSE <<r[2], r[3]>>
           is == {y \in Types : Signature[y] = bytes}
<1>1. TypeRead(b, r) = IF is = {} THEN "NONE" ELSE CHOOSE y \in is : TRUE
  BY DEF TypeRead
<1>2. is # {} => TypeRead(b, r) \in Types /\ Signature[TypeRead(b, r)] = bytes
  <2>1. is # {} => (CHOOSE y \in is : TRUE) \in is
    OBVIOUS
  <2> QED  BY <1>1, <2>1
<1>3. \A x, y \in Types : Signature[x] = Signature[y] => x = y
  BY DEF Signature, Types
<1>4. PICK l, h :
      /\ l \in IF Present(b, d) THEN {lba[b][d]} ELSE {lba[b]["MASTER"], Nothing}
      /\ h \in {0, 160, SELECT_SLAVE} /\ r = <<l[1], l[2], h>>
  BY DEF Answers
<1>5. bytes = IF b = "PRIMARY" THEN <<l[1], l[2]>> ELSE <<l[2], h>>
  BY <1>4
<1>6. ASSUME NEW e \in Drives, Present(b, e), l = lba[b][e]
      PROVE  TypeRead(b, r) \in {attached[b][e]} \cup (IF b = "PRIMARY" THEN {} ELSE {"NONE"})
  <2>1. attached[b][e] \in Types /\ l = Signature[attached[b][e]]
    BY <1>6, Attached
  <2>2. CASE b = "PRIMARY"
    <3>1. bytes = Signature[attached[b][e]]
      BY <1>5, <2>1, <2>2 DEF Signature, Types
    <3> QED  BY <1>1, <1>2, <1>3, <2>1, <3>1
  <2>3. CASE b # "PRIMARY"
    <3>1. bytes = <<l[2], h>>
      BY <1>5, <2>3
    <3>2. \A x, y \in Types : Signature[x] = <<Signature[y][2], h>> => x = y
      BY <1>4 DEF Signature, Types, SELECT_SLAVE
    <3> QED  BY <1>1, <1>2, <2>1, <2>3, <3>1, <3>2
  <2> QED  BY <2>2, <2>3
<1>7. l = Nothing => TypeRead(b, r) = "NONE"
  <2>1. \A y \in Types : Signature[y][1] # 255 /\ \E k : Signature[y] = <<Signature[y][1], k>>
    BY DEF Signature, Types
  <2> SUFFICES ASSUME l = Nothing PROVE is = {}
    BY <1>1
  <2>2. bytes[1] = 255
    BY <1>5 DEF Nothing
  <2> QED  BY <2>1, <2>2
<1>8. b \in {"PRIMARY", "SECONDARY"} /\ "MASTER" \in Drives
  BY DEF Buses, Drives
<1>9. CASE Present(b, d)
  BY <1>4, <1>6, <1>8, <1>9
<1>10. CASE ~Present(b, d)
  <2>1. attached[b][d] = "NONE"
    BY <1>10 DEF Present
  <2> QED  BY <1>4, <1>6, <1>7, <1>8, <1>10, <2>1
<1> QED  BY <1>9, <1>10

LEMMA ReportedStep ==
  ASSUME TypeOK, JustReset, Reported, [Next]_vars
  PROVE  Reported'
<1>1. bus \in Buses /\ drive \in Drives /\ Typed
  BY TypeParts DEF Typed, Now, bus, drive
<1>2. attached' = attached
  BY DEF Next, Driver, Poll, disk, Flush, Identify, Call, floppy_getstring, DiskBus, ata_reset,
         ResetDone, ata_type, ata_identify, Identified, ata_flush, Flushed, DriveReady,
         vars, machine
<1> DEFINE Right(b, d) ==
      report'[b][d] \in Types \cup {"NONE"} =>
        \/ report'[b][d] = attached[b][d]
        \/ report'[b][d] = "NONE" /\ b = "SECONDARY"
        \/ report'[b][d] = attached[b]["MASTER"] /\ ~Present(b, d)
<1>3. SUFFICES ASSUME NEW b \in Buses, NEW d \in Drives PROVE Right(b, d)
  BY <1>2 DEF Reported, Present
<1>4. ASSUME report'[b][d] = report[b][d] PROVE Right(b, d)
  BY <1>4 DEF Reported
<1>5. CASE UNCHANGED report
  BY <1>4, <1>5
<1>6. CASE report' = UNKNOWN
  BY <1>6 DEF UNKNOWN, Types
<1>7. CASE DiskBus
  <2>1. CASE b = bus /\ report' = [report EXCEPT ![bus] = [e \in Drives |-> "not detected"]]
    <3>1. report'[b][d] = "not detected"
      BY <1>1, <2>1 DEF Typed, Reports
    <3> QED  BY <3>1 DEF Types
  <2>2. CASE b # bus \/ report' = report
    <3>1. report'[b][d] = report[b][d]
      BY <1>1, <1>7, <2>2 DEF DiskBus, Typed, Reports
    <3> QED  BY <1>4, <3>1
  <2> QED  BY <1>7, <2>1, <2>2 DEF DiskBus
<1>8. CASE ata_type
  <2>1. PICK r \in Answers(bus, device'[bus]) :
          report' = [report EXCEPT ![bus][drive] = TypeRead(bus, r)]
    BY <1>8 DEF ata_type
  <2>2. CASE b # bus \/ d # drive
    <3>1. report'[b][d] = report[b][d]
      BY <1>1, <2>1, <2>2 DEF Typed, Reports
    <3> QED  BY <1>4, <3>1
  <2>3. CASE b = bus /\ d = drive
    <3>1. report'[b][d] = TypeRead(bus, r)
      BY <1>1, <2>1, <2>3 DEF Typed, Reports
    <3>2. /\ selected[bus] = "MASTER" /\ device[bus] = "MASTER" /\ Present(bus, "MASTER")
          /\ \A e \in Drives : Present(bus, e) => lba[bus][e] = Signature[attached[bus][e]]
      BY <1>8 DEF ata_type, JustReset
    <3>3. device'[bus] = drive
      BY <1>1, <1>8, <3>2 DEF ata_type, ata_select, Typed
    <3> QED  BY <1>1, <2>1, <2>3, <3>1, <3>2, <3>3, Reads
  <2> QED  BY <2>2, <2>3
<1> QED
  BY <1>5, <1>6, <1>7, <1>8
  DEF Next, Driver, Poll, disk, Flush, Identify, Call, floppy_getstring, ata_reset, ResetDone,
      ata_identify, Identified, ata_flush, Flushed, DriveReady, vars, results

-----------------------------------------------------------------------------
(* The theorems.                                                             *)

LEMMA InitIInv == Init => IInv
<1> SUFFICES ASSUME Init PROVE IInv
  OBVIOUS
<1>1. /\ attached \in Machines /\ cmos \in Floppies /\ empty \in {{}, FLOATING_BUS}
      /\ device \in [Buses -> Drives] /\ identify = <<>> /\ addressed = {}
      /\ status \in [Buses -> [Drives -> {{}, {"RDY"}}]]
      /\ lba = [b \in Buses |-> [d \in Drives |-> <<0, 0>>]]
      /\ selected = [b \in Buses |-> "MASTER"] /\ report = UNKNOWN /\ now = IDLE
  BY DEF Init
<1>2. status \in Registers
  <2>1. {{}, {"RDY"}} \subseteq SUBSET Bits
    BY DEF Bits
  <2>2. \A b \in Buses : status[b] \in [Drives -> SUBSET Bits]
    <3> TAKE b \in Buses
    <3>1. status[b] \in [Drives -> {{}, {"RDY"}}]
      BY <1>1
    <3> QED  BY <2>1, <3>1
  <2>3. status = [b \in Buses |-> status[b]]
    BY <1>1
  <2> QED  BY <2>2, <2>3 DEF Registers
<1>3. lba \in [Buses -> [Drives -> Values]]
  BY <1>1, Signatures
<1>4. report \in Reports /\ now \in Now /\ selected \in [Buses -> Drives]
  BY <1>1 DEF UNKNOWN, Reports, IDLE, Now, Steps, Buses, Drives
<1>5. TypeOK
  BY <1>1, <1>2, <1>3, <1>4, TypeParts DEF Typed
<1>6. SelectionKnown /\ Asked /\ JustReset
  BY <1>1 DEF SelectionKnown, Asked, JustReset, At, IDLE
<1>7. Reported
  BY <1>1 DEF Reported, UNKNOWN, Types
<1> QED  BY <1>5, <1>6, <1>7 DEF IInv

\* The invariant is inductive and holds in every state.
THEOREM AtaInductive == Spec => []IInv
<1>1. IInv /\ [Next]_vars => IInv'
  BY TypeStep, SelectionStep, AskedStep, JustResetStep, ReportedStep DEF IInv
<1> QED  BY InitIInv, <1>1, PTL DEF Spec

\* Every variable keeps its type, whatever is attached and however the
\* driver's steps and the drives' interleave.
THEOREM AtaTyped == Spec => []TypeOK
<1>1. IInv => TypeOK
  BY DEF IInv
<1> QED  BY AtaInductive, <1>1, PTL

\* What ata_select remembers is the drive that answers, once it has addressed
\* one of the bus: the resets keep it in step.
THEOREM SelectionStays == Spec => []SelectionKnown
<1>1. IInv => SelectionKnown
  BY DEF IInv
<1> QED  BY AtaInductive, <1>1, PTL

\* A type that disk names for a drive that is there is the drive's, and on the
\* primary bus it names one: of the ways a report can go wrong, one needs the
\* drive to be missing and the other, NONE, the secondary bus.
THEOREM TypesStay == Spec => []TypesReported
<1>1. ASSUME IInv PROVE TypesReported
  <2>1. ASSUME NEW b \in Buses, NEW d \in Drives, Present(b, d)
        PROVE  /\ report[b][d] \in Types => report[b][d] = attached[b][d]
               /\ b = "PRIMARY" => report[b][d] # "NONE"
    BY <1>1, <2>1 DEF IInv, Reported, Present, Types
  <2>2. "PRIMARY" \in Buses
    BY DEF Buses
  <2> QED  BY <2>1, <2>2 DEF TypesReported
<1> QED  BY AtaInductive, <1>1, PTL

\* The words of a successful ata_identify are those of the drive it was asked
\* for: the drive is selected and, by SelectionKnown, addressed; had it been
\* absent, or a packet drive, LBA mid and high would not have read as zeros.
THEOREM IdentifyStays == Spec => IdentifyRight
<1>1. ASSUME IInv, Identified, identify' # <<>>, bus \in addressed
      PROVE  identify' = <<bus, drive>> /\ attached[bus][drive] \in Types \ Packet
  <2>1. bus \in Buses /\ drive \in Drives /\ Typed /\ TypeOK
    BY <1>1, TypeParts DEF IInv, Typed, Now, bus, drive
  <2>2. selected[bus] = drive /\ device[bus] = drive
    BY <1>1 DEF IInv, Identified, Asked, SelectionKnown
  <2>3. identify' = <<bus, drive>> /\ "BSY" \notin Status(bus)
        /\ Answers(bus, drive) \subseteq {<<0, 0, h>> : h \in 0 .. 255}
    BY <1>1, <2>2 DEF Identified
  <2>4. PICK h : h \in IF drive = "SLAVE" THEN {SELECT_SLAVE} ELSE {0, 160}
    OBVIOUS
  <2>5. Present(bus, drive)
    <3>1. ~Present(bus, drive) => <<Nothing[1], Nothing[2], h>> \in Answers(bus, drive)
      BY <2>4 DEF Answers
    <3> QED  BY <2>3, <3>1 DEF Nothing
  <2>6. attached[bus][drive] \in Types /\ Present(bus, "MASTER")
    BY <2>1, <2>5, Attached
  <2>7. lba[bus][drive][1] = 0 /\ lba[bus][drive][2] = 0
    <3>1. <<lba[bus][drive][1], lba[bus][drive][2], h>> \in Answers(bus, drive)
      BY <2>4, <2>5 DEF Answers
    <3> QED  BY <2>3, <3>1
  <2>8. attached[bus][drive] \in Packet => lba[bus][drive] = Signature[attached[bus][drive]]
    BY <1>1, <2>2, <2>3, <2>6 DEF IInv, Identified, Asked, Status
  <2>9. \A y \in Packet : Signature[y][1] # 0
    BY DEF Signature, Packet, Types
  <2> QED  BY <2>3, <2>6, <2>7, <2>8, <2>9
<1>2. IInv /\ [Next]_vars
      => [Identified /\ identify' # <<>> /\ bus \in addressed =>
            identify' = <<bus, drive>> /\ attached[bus][drive] \in Types \ Packet]_vars
  BY <1>1
<1> QED  BY AtaInductive, <1>2, PTL DEF IdentifyRight, Spec
=============================================================================
