-------------------------- MODULE BootLoaderProofs --------------------------
(***************************************************************************)
(* The boot loader, proved for every drive the BIOS may report, whichever  *)
(* of its calls fail and whatever they leave behind, and for kernels of any *)
(* size up to what it can address.                                         *)
(***************************************************************************)
EXTENDS BootLoader, TLAPS

\* What the next read asks for is the second stage, or the next sector.
Asking ==
  /\ pc = "read_second_stage" => chs = [cyl |-> 0, head |-> 0, sector |-> 2]
  /\ pc = "read_kernel" => /\ spt # 0 /\ numhd # 0 /\ chs = lba_chs(CURRENT_SECTOR)
                           /\ es = CURRENT_OFFSET
  /\ Reading => READ_ATTEMPTS <= MAX_ATTEMPTS

\* The segments filled are the one of the second stage and those up to
\* CURRENT_OFFSET, and the loader goes on from one to the next.  It knows no
\* geometry before the second stage runs, which is in its place then.
Filled ==
  /\ pc \in {"start", "second_stage", "read_second_stage"} =>
       CURRENT_SECTOR = 2 /\ DOMAIN memory = {} /\ spt = 0
  /\ pc \in {"get_diskinfo", "lost"} => CURRENT_SECTOR = 2 /\ spt = 0
  /\ pc = "get_diskinfo" =>
       DOMAIN memory = {es + SECONDSTAGE} /\ memory[es + SECONDSTAGE] = 1
  /\ pc \in {"kernel_load", "read_kernel"} => CURRENT_SECTOR <= TOTALSECTORS
  /\ pc \in {"get_himem", "kernel_main"} => CURRENT_SECTOR = TOTALSECTORS + 1
  /\ pc \in {"kernel_load", "read_kernel", "get_himem", "kernel_main"} =>
       /\ DOMAIN memory = {SECONDSTAGE} \cup
                          {KERNEL + SECTORSIZE * (k - 2) : k \in 2 .. CURRENT_SECTOR - 1}
       /\ memory[SECONDSTAGE] = 1

\* What holds in every state.
IInv == TypeOK /\ Asking /\ Filled /\ SectorsInPlace

-----------------------------------------------------------------------------
(* Sectors as numbers and as cylinders, heads and sectors.                   *)

USE DEF SECONDSTAGE, KERNEL, SECTORSIZE

LEMMA DivMod ==
  ASSUME NEW n \in Nat, NEW d \in Nat \ {0}
  PROVE  /\ (n \div d) \in 0 .. n /\ (n % d) \in 0 .. d - 1
         /\ n = d * (n \div d) + (n % d)
OBVIOUS

\* A sector's cylinder, head and place in its track name it again.
LEMMA Chs ==
  \A lba \in Nat, s, h \in Nat \ {0} :
    \E t, c \in Nat, k \in 0 .. h - 1, i \in 0 .. s - 1 :
      /\ t = lba \div s /\ c = t \div h /\ k = (t % h) /\ i = (lba % s)
      /\ c <= lba /\ (c * h + k) * s + i = lba
<1> TAKE lba \in Nat, s, h \in Nat \ {0}
<1>0. PICK t \in Nat, c \in Nat : t = lba \div s /\ c = t \div h
  <2>1. PICK t \in Nat : t = lba \div s
    BY DivMod
  <2>2. (t \div h) \in Nat
    BY DivMod
  <2> QED  BY <2>1, <2>2
<1>1. t \in 0 .. lba /\ (lba % s) \in 0 .. s - 1
  BY <1>0, DivMod
<1>2. c \in 0 .. t /\ (t % h) \in 0 .. h - 1
  BY <1>0, DivMod
<1>3. c <= lba
  BY <1>1, <1>2
<1>4. lba = s * t + (lba % s) /\ t = h * c + (t % h)
  BY <1>0, DivMod
<1>5. c * h + (t % h) = t
  BY <1>4
<1>6. (c * h + (t % h)) * s = s * t
  <2>1. \A x : x = t => x * s = s * t
    OBVIOUS
  <2> QED  BY <1>5, <2>1
<1>7. (c * h + (t % h)) * s + (lba % s) = lba
  BY <1>4, <1>6
<1> QED  BY <1>0, <1>1, <1>2, <1>3, <1>7, Zenon

\* The drive has 1 .. 63 sectors to a track and 1 .. 256 heads; the loader has
\* to know them to get either right.
LEMMA Geometry ==
  ASSUME TypeOK
  PROVE  /\ drive.spt \in 1 .. 63 /\ drive.heads \in 1 .. 256
         /\ spt \in 0 .. 63 /\ numhd \in 0 .. 255
         /\ GeometryKnown => spt # 0
<1>1. drive.spt \in 1 .. 63 /\ drive.heads \in 1 .. 256
  <2>1. drive \in Geometries
    BY DEF TypeOK
  <2> QED  BY <2>1, BootConstants
<1> QED  BY <1>1 DEF TypeOK, GeometryKnown

\* lba_chs gives registers that fit their bytes, whatever geometry it goes by,
\* and that name the sector it is asked for when that is the drive's: the
\* conversion there is undone by the drive's.
LEMMA LbaNamed ==
  ASSUME TypeOK, spt # 0, numhd # 0, NEW lba \in 0 .. TOTALSECTORS
  PROVE  /\ lba_chs(lba) \in [cyl : 0 .. 255, head : 0 .. 255, sector : 0 .. 63]
         /\ chs = lba_chs(lba) /\ GeometryKnown => Named = lba
<1>1. lba \in 0 .. 255
  BY BootConstants
<1>2. spt \in 1 .. 63 /\ numhd \in 1 .. 255
  BY Geometry
<1>3. PICK s \in 1 .. 63, h \in 1 .. 255 : s = spt /\ h = numhd
  BY <1>2
<1>4. lba \in Nat /\ s \in Nat \ {0} /\ h \in Nat \ {0}
  BY <1>1
<1>5. PICK t, c \in Nat, k \in 0 .. h - 1, i \in 0 .. s - 1 :
        /\ t = lba \div s /\ c = t \div h /\ k = (t % h) /\ i = (lba % s)
        /\ c <= lba /\ (c * h + k) * s + i = lba
  BY <1>4, Chs, Zenon
<1>6. c \in 0 .. 255 /\ (c % 256) = c
  <2>1. \A n \in 0 .. 255 : (n % 256) = n
    OBVIOUS
  <2>2. c <= lba
    BY <1>5
  <2>3. c \in 0 .. 255
    BY <1>1, <2>2
  <2> QED  BY <2>1, <2>3
<1>7. lba_chs(lba) = [cyl |-> c, head |-> k, sector |-> i + 1]
  <2>1. t = lba \div spt /\ c = t \div numhd /\ k = (t % numhd) /\ i = (lba % spt)
    BY <1>3, <1>5
  <2> QED  BY <1>6, <2>1 DEF lba_chs
<1>8. k \in 0 .. 255 /\ i + 1 \in 0 .. 63
  <2>1. \A a \in 1 .. 63 : \A n \in 0 .. a - 1 : n + 1 \in 0 .. 63
    OBVIOUS
  <2>2. \A a \in 1 .. 255 : \A n \in 0 .. a - 1 : n \in 0 .. 255
    OBVIOUS
  <2> QED  BY <2>1, <2>2
<1>9. ASSUME chs = lba_chs(lba), GeometryKnown PROVE Named = lba
  <2>1. PICK n \in Int : n = (c * h + k) * s
    BY <1>3, <1>5
  <2>2. chs.cyl = c /\ chs.head = k /\ chs.sector = i + 1
    BY <1>7, <1>9
  <2>3. Named = n + (i + 1) - 1
    BY <1>3, <1>9, <2>1, <2>2 DEF Named, GeometryKnown
  <2>4. n + i = lba
    BY <1>5, <2>1
  <2> QED  BY <1>1, <2>1, <2>3, <2>4
<1> QED  BY <1>6, <1>7, <1>8, <1>9

-----------------------------------------------------------------------------
(* Every step keeps the invariant.                                           *)

\* A sector read: it goes to the segment it belongs to, if the loader knows
\* where on the drive it is; for the second stage that is es to decide.
LEMMA ReadInPlace ==
  ASSUME IInv, Reading, OnDrive
  PROVE  /\ Target \in Nat /\ Named \in Nat
         /\ pc = "read_second_stage" => Named = 1 /\ Target = es + SECONDSTAGE
         /\ pc = "read_kernel" =>
              /\ CURRENT_SECTOR \in 2 .. TOTALSECTORS
              /\ Target = KERNEL + SECTORSIZE * (CURRENT_SECTOR - 2)
              /\ GeometryKnown => Target - SECONDSTAGE = SECTORSIZE * (Named - 1)
<1>1. /\ drive.spt \in Nat /\ drive.heads \in Nat /\ es \in Nat
      /\ chs.cyl \in Nat /\ chs.head \in Nat /\ chs.sector \in Nat \ {0}
  BY Geometry DEF IInv, TypeOK, OnDrive
<1>2. Named \in Nat
  <2>1. PICK n \in Nat : n = (chs.cyl * drive.heads + chs.head) * drive.spt
    BY <1>1
  <2>2. Named = n + chs.sector - 1
    BY <2>1 DEF Named
  <2> QED  BY <1>1, <2>2
<1>3. CASE pc = "read_second_stage"
  <2>1. chs = [cyl |-> 0, head |-> 0, sector |-> 2]
    BY <1>3 DEF IInv, Asking
  <2>2. Named = 1
    BY <1>1, <2>1 DEF Named
  <2> QED  BY <1>1, <1>2, <1>3, <2>2 DEF Target
<1>4. CASE pc = "read_kernel"
  <2>1. CURRENT_SECTOR \in 2 .. TOTALSECTORS
    BY <1>4, BootConstants DEF IInv, TypeOK, Filled
  <2>2. GeometryKnown => Named = CURRENT_SECTOR
    BY <1>4, <2>1, LbaNamed, BootConstants DEF IInv, Asking
  <2>3. Target = KERNEL + SECTORSIZE * (CURRENT_SECTOR - 2)
    BY <1>4 DEF IInv, TypeOK, Asking, Target
  <2> QED  BY <1>2, <1>4, <2>1, <2>2, <2>3, BootConstants
<1> QED  BY <1>3, <1>4 DEF Reading

LEMMA InitIInv == Init => IInv
<1> SUFFICES ASSUME Init PROVE IInv
  OBVIOUS
<1>1. TypeOK
  BY BootConstants DEF Init, TypeOK
<1>2. Asking /\ Filled /\ SectorsInPlace
  BY DEF Init, Asking, Reading, Filled, SectorsInPlace
<1> QED  BY <1>1, <1>2 DEF IInv

\* A step that reads nothing and comes to no read.
LEMMA NoReadKeeps ==
  ASSUME IInv, UNCHANGED <<geometry, disk, current>>, ~Reading',
         pc' # pc => pc' \in {"hung", "second_stage", "lost", "kernel_main"},
         pc' = "second_stage" => pc = "start", pc' = "kernel_main" => pc = "get_himem",
         pc' = "lost" => pc = "get_diskinfo",
         LOWMEM' \in LowMemSizes \cup {0}, HIGHMEM' \in Nat
  PROVE  IInv'
<1> USE DEF geometry, disk, current
<1>1. TypeOK /\ Asking /\ Filled /\ SectorsInPlace
  BY DEF IInv
<1>2. TypeOK'
  <2>1. pc' \in {"start", "second_stage", "read_second_stage", "get_diskinfo", "kernel_load",
                 "read_kernel", "get_himem", "kernel_main", "hung", "lost"}
    BY <1>1 DEF TypeOK
  <2> QED  BY <1>1, <2>1 DEF TypeOK
<1>3. Asking'
  BY DEF Asking, Reading
<1>4. Filled'
  BY <1>1 DEF Filled
<1>5. SectorsInPlace'
  BY <1>1 DEF SectorsInPlace, GeometryKnown, InPlace
<1> QED  BY <1>2, <1>3, <1>4, <1>5 DEF IInv

\* The geometry is learnt, or what a failed call has left is taken for it.
LEMMA DiskinfoKeeps ==
  ASSUME IInv, get_diskinfo
  PROVE  IInv'
<1> USE DEF disk, current
<1>1. TypeOK /\ Filled
  BY DEF IInv
<1>2. /\ pc = "get_diskinfo" /\ pc' = "kernel_load" /\ SECONDSTAGE \in DOMAIN memory
      /\ UNCHANGED <<drive, ah, chs, es, READ_ATTEMPTS, memory, CURRENT_SECTOR, CURRENT_OFFSET,
                     LOWMEM, HIGHMEM>>
  BY DEF get_diskinfo
<1>3. spt' \in 0 .. 63 /\ numhd' \in 0 .. 255
  <2>1. PICK r \in {[cl |-> drive.spt, dh |-> drive.heads - 1]} \cup Leftovers :
          spt' = r.cl % 64 /\ numhd' = (r.dh + 1) % 256
    BY DEF get_diskinfo
  <2>2. r.cl \in 0 .. 255 /\ r.dh \in 0 .. 255
    <3>1. CASE r \in Leftovers
      BY <3>1, BootConstants
    <3>2. CASE r = [cl |-> drive.spt, dh |-> drive.heads - 1]
      <4>1. r.cl = drive.spt /\ r.dh = drive.heads - 1
        BY <3>2
      <4> QED  BY <1>1, <4>1, Geometry
    <3> QED  BY <3>1, <3>2
  <2>3. \A n \in 0 .. 255 : (n % 64) \in 0 .. 63 /\ ((n + 1) % 256) \in 0 .. 255
    OBVIOUS
  <2> QED  BY <2>1, <2>2, <2>3
<1>4. /\ DOMAIN memory = {SECONDSTAGE} /\ memory[SECONDSTAGE] = 1
      /\ CURRENT_SECTOR = 2
  BY <1>1, <1>2 DEF Filled
<1>5. TypeOK'
  BY <1>1, <1>2, <1>3 DEF TypeOK
<1>6. Asking'
  BY <1>2 DEF Asking, Reading
<1>7. Filled'
  <2>1. 2 .. CURRENT_SECTOR' - 1 = {}
    BY <1>2, <1>4
  <2> QED  BY <1>2, <1>4, <2>1, BootConstants DEF Filled
<1>8. SectorsInPlace'
  BY <1>2, <1>4 DEF SectorsInPlace, InPlace
<1> QED  BY <1>5, <1>6, <1>7, <1>8 DEF IInv

LEMMA KernelLoadKeeps ==
  ASSUME IInv, kernel_load
  PROVE  IInv'
<1> USE DEF geometry, current
<1>1. TypeOK /\ Filled /\ SectorsInPlace
  BY DEF IInv
<1>2. /\ pc = "kernel_load" /\ es' = CURRENT_OFFSET
      /\ UNCHANGED <<drive, spt, numhd, CURRENT_SECTOR, CURRENT_OFFSET, memory, LOWMEM, HIGHMEM>>
  BY DEF kernel_load
<1>3. CURRENT_SECTOR \in 2 .. TOTALSECTORS /\ CURRENT_OFFSET \in Nat
  BY <1>1, <1>2, BootConstants DEF TypeOK, Filled
<1>4. CASE spt = 0 \/ numhd = 0
  <2>1. pc' = "hung" /\ UNCHANGED <<ah, chs, READ_ATTEMPTS>>
    BY <1>4 DEF kernel_load
  <2>2. TypeOK' /\ Asking' /\ Filled'
    BY <1>1, <1>2, <1>3, <2>1 DEF TypeOK, Asking, Reading, Filled
  <2>3. SectorsInPlace'
    BY <1>1, <1>2 DEF SectorsInPlace, GeometryKnown, InPlace
  <2> QED  BY <2>2, <2>3 DEF IInv
<1>5. CASE ~(spt = 0 \/ numhd = 0)
  <2>1. /\ pc' = "read_kernel" /\ ah' = "read" /\ READ_ATTEMPTS' = 0
        /\ chs' = lba_chs(CURRENT_SECTOR)
    BY <1>5 DEF kernel_load, Read
  <2>2. chs' \in [cyl : 0 .. 255, head : 0 .. 255, sector : 0 .. 63]
    BY <1>1, <1>3, <1>5, <2>1, LbaNamed, BootConstants
  <2>3. TypeOK'
    BY <1>1, <1>2, <1>3, <2>1, <2>2, BootConstants DEF TypeOK
  <2>4. Asking'
    BY <1>2, <1>5, <2>1, BootConstants DEF Asking, Reading, lba_chs
  <2>5. Filled'
    BY <1>1, <1>2, <2>1 DEF Filled
  <2>6. SectorsInPlace'
    BY <1>1, <1>2 DEF SectorsInPlace, GeometryKnown, InPlace
  <2> QED  BY <2>3, <2>4, <2>5, <2>6 DEF IInv
<1> QED  BY <1>4, <1>5

\* Memory once a sector is put in it.
LEMMA Filling ==
  ASSUME NEW m, NEW S, m \in [S -> Nat], S \subseteq Nat, NEW t \in Nat, NEW v \in Nat
  PROVE  LET n == [s \in S \cup {t} |-> IF s = t THEN v ELSE m[s]]
         IN  /\ n \in [S \cup {t} -> Nat] /\ S \cup {t} \subseteq Nat
             /\ n[t] = v /\ \A s \in S : s # t => n[s] = m[s]
OBVIOUS

LEMMA ReadDiskKeeps ==
  ASSUME IInv, read_disk
  PROVE  IInv'
<1> USE BootConstants DEF geometry, disk, current
<1>1. TypeOK /\ Asking /\ Filled /\ SectorsInPlace
  BY DEF IInv
<1>2. /\ Target \in Nat /\ Named \in Nat
      /\ pc = "read_second_stage" => Named = 1 /\ Target = es + SECONDSTAGE
      /\ pc = "read_kernel" =>
           /\ CURRENT_SECTOR \in 2 .. TOTALSECTORS
           /\ Target = KERNEL + SECTORSIZE * (CURRENT_SECTOR - 2)
           /\ GeometryKnown => Target - SECONDSTAGE = SECTORSIZE * (Named - 1)
  BY ReadInPlace DEF read_disk
<1>3. PICK target \in Nat, named \in Nat : target = Target /\ named = Named
  BY <1>2
<1>4. /\ memory' = [s \in DOMAIN memory \cup {target} |-> IF s = target THEN named ELSE memory[s]]
      /\ Reading /\ Advance
      /\ UNCHANGED <<drive, spt, numhd, ah, chs, es, READ_ATTEMPTS, LOWMEM, HIGHMEM>>
  BY <1>3 DEF read_disk
<1>5. memory' \in [DOMAIN memory' -> Nat] /\ DOMAIN memory' \subseteq Nat
      /\ DOMAIN memory' = DOMAIN memory \cup {target} /\ memory'[target] = named
      /\ \A s \in DOMAIN memory : s # target => memory'[s] = memory[s]
  <2>1. PICK m, S : /\ m = memory /\ S = DOMAIN memory
                    /\ m \in [S -> Nat] /\ S \subseteq Nat
    BY <1>1 DEF TypeOK
  <2>2. PICK n : n = [s \in S \cup {target} |-> IF s = target THEN named ELSE m[s]]
    OBVIOUS
  <2>3. /\ n \in [S \cup {target} -> Nat] /\ S \cup {target} \subseteq Nat
        /\ n[target] = named /\ \A s \in S : s # target => n[s] = m[s]
    BY <2>1, <2>2, Filling
  <2>4. DOMAIN n = S \cup {target}
    BY <2>2
  <2>5. memory' = n
    BY <1>4, <2>1, <2>2
  <2> QED  BY <2>1, <2>3, <2>4, <2>5
<1>6. CASE pc = "read_kernel"
  <2>1. /\ CURRENT_SECTOR' = CURRENT_SECTOR + 1 /\ CURRENT_SECTOR \in 2 .. TOTALSECTORS
        /\ CURRENT_OFFSET' = CURRENT_OFFSET + SECTORSIZE
        /\ pc' = IF CURRENT_SECTOR + 1 <= TOTALSECTORS THEN "kernel_load" ELSE "get_himem"
    BY <1>2, <1>4, <1>6 DEF Advance
  <2>2. CURRENT_OFFSET' = KERNEL + SECTORSIZE * (CURRENT_SECTOR' - 2)
    BY <1>1, <2>1 DEF TypeOK
  <2>3. TypeOK'
    BY <1>1, <1>4, <1>5, <2>1, <2>2 DEF TypeOK
  <2>4. target = KERNEL + SECTORSIZE * (CURRENT_SECTOR - 2)
    BY <1>2, <1>3, <1>6
  <2>5. DOMAIN memory' = {SECONDSTAGE} \cup
                         {KERNEL + SECTORSIZE * (k - 2) : k \in 2 .. CURRENT_SECTOR' - 1}
    <3>1. DOMAIN memory' = {SECONDSTAGE} \cup {target} \cup
                           {KERNEL + SECTORSIZE * (k - 2) : k \in 2 .. CURRENT_SECTOR - 1}
      BY <1>1, <1>5, <1>6 DEF Filled
    <3>2. 2 .. CURRENT_SECTOR' - 1 = (2 .. CURRENT_SECTOR - 1) \cup {CURRENT_SECTOR}
      BY <2>1
    <3> QED  BY <2>4, <3>1, <3>2
  <2>6. memory'[SECONDSTAGE] = 1
    <3>1. SECONDSTAGE \in DOMAIN memory /\ memory[SECONDSTAGE] = 1
      BY <1>1, <1>6 DEF Filled
    <3>2. target # SECONDSTAGE
      BY <2>1, <2>4
    <3> QED  BY <1>5, <3>1, <3>2
  <2>7. Filled'
    BY <2>1, <2>5, <2>6 DEF Filled
  <2>8. SectorsInPlace'
    <3>1. ASSUME GeometryKnown', NEW s \in DOMAIN memory' PROVE InPlace(s)'
      <4>1. GeometryKnown
        BY <1>4, <3>1 DEF GeometryKnown
      <4>2. CASE s = target
        <5>1. target - SECONDSTAGE = SECTORSIZE * (named - 1)
          BY <1>2, <1>3, <1>6, <4>1
        <5> QED  BY <1>5, <4>2, <5>1 DEF InPlace
      <4>3. CASE s # target
        BY <1>1, <1>5, <4>1, <4>3 DEF SectorsInPlace, InPlace
      <4> QED  BY <4>2, <4>3
    <3> QED  BY <3>1 DEF SectorsInPlace
  <2>9. Asking'
    BY <2>1 DEF Asking, Reading
  <2> QED  BY <2>3, <2>7, <2>8, <2>9 DEF IInv
<1>7. CASE pc = "read_second_stage"
  <2>1. pc' = "get_diskinfo" /\ UNCHANGED current
    BY <1>4, <1>7 DEF Advance
  <2>2. CURRENT_SECTOR = 2 /\ DOMAIN memory = {} /\ spt = 0
    BY <1>1, <1>7 DEF Filled
  <2>3. TypeOK'
    BY <1>1, <1>4, <1>5, <2>1 DEF TypeOK
  <2>4. Filled'
    <3>1. DOMAIN memory' = {es + SECONDSTAGE} /\ memory'[es + SECONDSTAGE] = 1
      BY <1>2, <1>3, <1>5, <1>7, <2>2
    <3> QED  BY <1>4, <2>1, <2>2, <3>1 DEF Filled
  <2>5. SectorsInPlace'
    <3>1. ~GeometryKnown
      BY <1>1, <2>2, Geometry
    <3> QED  BY <1>4, <3>1 DEF GeometryKnown, SectorsInPlace
  <2>6. Asking'
    BY <2>1 DEF Asking, Reading
  <2> QED  BY <2>3, <2>4, <2>5, <2>6 DEF IInv
<1> QED  BY <1>4, <1>6, <1>7 DEF Reading

LEMMA NextIInv ==
  ASSUME IInv, [Next]_vars
  PROVE  IInv'
<1>1. TypeOK /\ Asking /\ Filled /\ SectorsInPlace
  BY DEF IInv
<1>2. CASE start \/ mem_error \/ NoSecondStage
  BY <1>1, <1>2, NoReadKeeps DEF start, mem_error, NoSecondStage, Reading, TypeOK
<1>3. CASE get_himem \/ himem_error
  <2>1. HIGHMEM' \in Nat
    BY <1>1, <1>3, BootConstants DEF get_himem, himem_error, TypeOK
  <2> QED  BY <1>1, <1>3, <2>1, NoReadKeeps DEF get_himem, himem_error, Reading, TypeOK
<1>4. CASE second_stage
  <2> USE DEF geometry, current
  <2>1. TypeOK'
    BY <1>1, <1>4, BootConstants DEF TypeOK, second_stage, Read
  <2>2. Asking'
    BY <1>4, BootConstants DEF Asking, Reading, second_stage, Read
  <2>3. Filled'
    BY <1>1, <1>4 DEF Filled, second_stage
  <2>4. SectorsInPlace'
    BY <1>1, <1>4 DEF SectorsInPlace, GeometryKnown, InPlace, second_stage
  <2> QED  BY <2>1, <2>2, <2>3, <2>4 DEF IInv
<1>5. CASE read_error
  <2> USE DEF geometry, current
  <2>1. READ_ATTEMPTS <= MAX_ATTEMPTS
    BY <1>1, <1>5 DEF Asking, read_error
  <2>2. TypeOK'
    BY <1>1, <1>5, <2>1, BootConstants DEF TypeOK, read_error
  <2>3. Asking'
    BY <1>1, <1>5 DEF Asking, Reading, read_error, lba_chs
  <2>4. Filled'
    BY <1>1, <1>5 DEF Filled, read_error
  <2>5. SectorsInPlace'
    BY <1>1, <1>5 DEF SectorsInPlace, GeometryKnown, InPlace, read_error
  <2> QED  BY <2>2, <2>3, <2>4, <2>5 DEF IInv
<1>6. CASE UNCHANGED vars
  <2> USE DEF vars, geometry, disk, current
  <2>1. TypeOK'
    BY <1>1, <1>6 DEF TypeOK
  <2>2. Asking'
    BY <1>1, <1>6 DEF Asking, Reading, lba_chs
  <2>3. Filled' /\ SectorsInPlace'
    BY <1>1, <1>6 DEF Filled, SectorsInPlace, GeometryKnown, InPlace
  <2> QED  BY <2>1, <2>2, <2>3 DEF IInv
<1> QED
  BY <1>2, <1>3, <1>4, <1>5, <1>6, DiskinfoKeeps, KernelLoadKeeps, ReadDiskKeeps DEF Next, Ended

-----------------------------------------------------------------------------
(* The theorems.                                                             *)

\* The invariant is inductive and holds in every state.
THEOREM BootInductive == Spec => []IInv
BY InitIInv, NextIInv, PTL DEF Spec

\* Every variable keeps its type: the registers of the reads and the count of
\* attempts fit their bytes.
THEOREM BootTyped == Spec => []TypeOK
<1>1. IInv => TypeOK
  BY DEF IInv
<1> QED  BY BootInductive, <1>1, PTL

\* Whatever the drive is like, and whichever reads are tried again, a loader
\* that knows the geometry reads every sector where it belongs.
THEOREM SectorsStay == Spec => []SectorsInPlace
<1>1. IInv => SectorsInPlace
  BY DEF IInv
<1> QED  BY BootInductive, <1>1, PTL

\* kernel_main is entered only with every place of the second stage and of the
\* kernel filled, and the second stage right, whichever calls of the BIOS fail;
\* and with every sector of the kernel, unless the one for the geometry did.
THEOREM KernelStaysComplete == Spec => []KernelComplete
<1>1. IInv => KernelComplete
  <2> SUFFICES ASSUME IInv, pc = "kernel_main"
               PROVE  /\ DOMAIN memory = {SECONDSTAGE + SECTORSIZE * (k - 1) : k \in 1 .. TOTALSECTORS}
                      /\ memory[SECONDSTAGE] = 1
                      /\ GeometryKnown =>
                           {memory[s] : s \in DOMAIN memory} = 1 .. TOTALSECTORS
    BY DEF KernelComplete
  <2>1. /\ DOMAIN memory = {SECONDSTAGE} \cup
                           {KERNEL + SECTORSIZE * (k - 2) : k \in 2 .. TOTALSECTORS}
        /\ memory[SECONDSTAGE] = 1
    BY BootConstants DEF IInv, Filled
  <2>2. DOMAIN memory = {SECONDSTAGE + SECTORSIZE * (k - 1) : k \in 1 .. TOTALSECTORS}
    <3>1. \A k \in 2 .. TOTALSECTORS :
            SECONDSTAGE + SECTORSIZE * (k - 1) = KERNEL + SECTORSIZE * (k - 2)
      BY BootConstants
    <3>2. SECONDSTAGE + SECTORSIZE * (1 - 1) = SECONDSTAGE
      OBVIOUS
    <3>3. 1 .. TOTALSECTORS = {1} \cup (2 .. TOTALSECTORS)
      BY BootConstants
    <3> QED  BY <2>1, <3>1, <3>2, <3>3
  <2>3. ASSUME GeometryKnown PROVE {memory[s] : s \in DOMAIN memory} = 1 .. TOTALSECTORS
    <3>1. \A s \in DOMAIN memory :
            memory[s] \in Nat /\ s - SECONDSTAGE = SECTORSIZE * (memory[s] - 1)
      BY <2>3 DEF IInv, TypeOK, SectorsInPlace, InPlace
    <3>2. ASSUME NEW k \in 1 .. TOTALSECTORS, NEW s \in DOMAIN memory,
                 s = SECONDSTAGE + SECTORSIZE * (k - 1)
          PROVE  memory[s] = k
      BY <3>1, <3>2, BootConstants
    <3>3. \A n \in 1 .. TOTALSECTORS : n \in {memory[s] : s \in DOMAIN memory}
      BY <2>2, <3>2
    <3>4. \A s \in DOMAIN memory : memory[s] \in 1 .. TOTALSECTORS
      BY <2>2, <3>2
    <3> QED  BY <3>3, <3>4
  <2> QED  BY <2>1, <2>2, <2>3
<1> QED  BY BootInductive, <1>1, PTL
=============================================================================
