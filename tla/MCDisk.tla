------------------------------- MODULE MCDisk -------------------------------
(* Ata with every kind of drive somewhere, alone or with another. *)
EXTENDS Ata

On(master, slave) == [d \in Drives |-> IF d = "MASTER" THEN master ELSE slave]
Machine(primary, secondary) == [b \in Buses |-> IF b = "PRIMARY" THEN primary ELSE secondary]

Cables ==
  {On("NONE", "NONE"), On("ATA", "NONE"), On("ATA", "SATAPI"), On("SATA", "ATA"),
   On("ATAPI", "NONE")}
MCMachines == {Machine(p, s) : p \in Cables, s \in Cables}
MCSecondary == {Machine(On("NONE", "NONE"), On("SATA", "NONE"))}
MCOneDrive == {Machine(On("ATA", "NONE"), On("NONE", "NONE"))}

\* No drive and 1.44MB; 2.88MB and 360KB; a type that does not exist.
MCFloppies == {4, 81, 96}
MCFloppy == {64}
MCCalls == {"disk", "ata_identify", "ata_flush"}
MCDiskOnly == {"disk"}

\* The BIOS leaves the masters selected, as the driver takes it to.
MasterSpec == Spec /\ device = [b \in Buses |-> "MASTER"]
=============================================================================
