---------------------------- MODULE DriveSectors ----------------------------
(***************************************************************************)
(* A Drive component (components/drive.cpp): a buffer of bytes that Lua reads *)
(* and writes by byte and by sector.  It is filled from a host file when the  *)
(* component is made and written back when it is destroyed.                   *)
(*                                                                           *)
(* Offsets are ints of 2 * DriveMaxInt + 2 values and wrap as the build's do.  The  *)
(* build keeps its assertions: a failing one ends the process.                *)
(***************************************************************************)
EXTENDS Integers

CONSTANTS
  DriveByte,          \* values of a byte, 0 among them
  SectorSize,    \* getSectorSize()
  DriveMaxInt,        \* the largest int
  Tiers,         \* tiers a configuration may give
  Sectors(_),    \* sectors of a tier, 0 for one that is not known
  Arguments,     \* offsets and sector numbers Lua passes
  MaxBoots       \* bound: times the drive is made

ASSUME DriveAssumption ==
  /\ 0 \in DriveByte
  /\ SectorSize \in Nat \ {0}
  /\ DriveMaxInt \in Nat /\ SectorSize <= DriveMaxInt
  /\ \A t \in Tiers : Sectors(t) \in Nat /\ Sectors(t) * SectorSize <= DriveMaxInt
  /\ Arguments \subseteq (-DriveMaxInt - 1)..DriveMaxInt
  /\ MaxBoots \in Nat

VARIABLES
  phase,     \* "off"; "on"; "closing", when the destructor has emptied the host
             \* file; "aborted" by an assertion
  tier,      \* _tier
  size,      \* _buffer.size()
  _buffer,   \* the bytes of _buffer, by offset
  disk,      \* the host file: its length and its bytes
  boots,
  \* history
  memory,    \* the bytes as Lua has written them
  wrapped,   \* a sector was accepted whose offset is no int
  saved      \* what the destructor last meant to leave in the host file

driveVars == <<phase, tier, size, _buffer, disk, boots, memory, wrapped, saved>>

DriveWrap(n) == ((n + DriveMaxInt + 1) % (2 * DriveMaxInt + 2)) - DriveMaxInt - 1
Abs(n) == IF n < 0 THEN -n ELSE n

Zeros == [o \in 0..DriveMaxInt |-> 0]
DriveCells == [0..DriveMaxInt -> DriveByte]
File(len, cells) == [len |-> len, cells |-> cells]
Capacity(t) == Sectors(t) * SectorSize

\* Types, and the size of the buffer: as long as the drive is on it has the
\* capacity of its tier, whatever file it was filled from (drive.cpp:130, 134).
DriveTypeOK ==
  /\ phase \in {"off", "on", "closing", "aborted"}
  /\ tier \in Tiers
  /\ size \in 0..DriveMaxInt
  /\ phase = "on" => size = Capacity(tier)
  /\ _buffer \in DriveCells /\ memory \in DriveCells
  /\ disk \in [len : 0..DriveMaxInt, cells : DriveCells]
  /\ saved \in [len : 0..DriveMaxInt, cells : DriveCells]
  /\ boots \in 0..MaxBoots
  /\ wrapped \in BOOLEAN

DriveInit ==
  /\ phase = "off" /\ tier \in Tiers /\ size = 0 /\ boots = 0
  /\ _buffer = Zeros /\ memory = Zeros /\ wrapped = FALSE
  /\ disk = File(0, Zeros) /\ saved = disk

-----------------------------------------------------------------------------
(* Making and destroying the component *)

\* The first n of some cells, and zeros.
DriveResized(cells, n) == [o \in 0..DriveMaxInt |-> IF o < n THEN cells[o] ELSE 0]

\* onInitialize: the file's bytes, cut or filled to the tier's capacity.
Load(t) ==
  /\ phase = "off" /\ boots < MaxBoots /\ boots' = boots + 1
  /\ phase' = "on" /\ tier' = t
  /\ size' = Capacity(t)
  /\ _buffer' = DriveResized(disk.cells, Capacity(t))
  /\ memory' = DriveResized(disk.cells, Capacity(t))
  /\ wrapped' = FALSE
  /\ UNCHANGED <<disk, saved>>

\* The tier is no number: the component goes at once, and its destructor writes
\* the empty buffer.
LoadFailed ==
  /\ phase = "off" /\ boots < MaxBoots /\ boots' = boots + 1
  /\ disk' = File(0, Zeros) /\ saved' = disk'
  /\ UNCHANGED <<phase, tier, size, _buffer, memory, wrapped>>

\* ~Drive: opening the stream empties the file,
EmptyFile ==
  /\ phase = "on"
  /\ phase' = "closing"
  /\ disk' = File(0, Zeros)
  /\ UNCHANGED <<tier, size, _buffer, boots, memory, wrapped, saved>>

\* Mutant: the last byte is not written.
WriteFileShort ==
  /\ phase = "closing"
  /\ phase' = "off"
  /\ disk' = IF size = 0 THEN File(0, Zeros) ELSE File(size - 1, DriveResized(_buffer, size - 1))
  /\ saved' = File(size, _buffer)
  /\ UNCHANGED <<tier, size, _buffer, boots, memory, wrapped>>

\* and the buffer is written to it.
WriteFile ==
  /\ phase = "closing"
  /\ phase' = "off"
  /\ disk' = File(size, _buffer)
  /\ saved' = disk'
  /\ UNCHANGED <<tier, size, _buffer, boots, memory, wrapped>>

\* The process is killed, or its assertion has failed: the file stays as it is.
\* If it has been emptied, what it held is not expected back.
DriveKilled ==
  /\ phase \in {"on", "closing", "aborted"}
  /\ phase' = "off"
  /\ saved' = IF phase = "closing" THEN disk ELSE saved
  /\ UNCHANGED <<tier, size, _buffer, disk, boots, memory, wrapped>>

-----------------------------------------------------------------------------
(* Lua's calls *)

\* validateSector; an argument it refuses is an error in Lua.
Valid(sector) == sector >= 0 /\ DriveWrap(sector * SectorSize) < Capacity(tier)

\* offsetToSector: C++ divides towards zero.
SectorOf(offset) == IF offset >= 0 THEN offset \div SectorSize
                    ELSE -(Abs(offset) \div SectorSize)

\* The n bytes of data from offset on, as far as the buffer goes.
Stored(cells, len, offset, n, data) ==
  [o \in 0..DriveMaxInt |-> IF o \in offset..(offset + n - 1) /\ o < len
                       THEN data[o - offset] ELSE cells[o]]

\* assert(offset >= 0) in read and write.
Asserted(offset) == IF offset >= 0 THEN UNCHANGED phase ELSE phase' = "aborted"

\* Mutant: the bytes of a sector are stored from the next one on.
WriteNext(offset, n, data) ==
  /\ Asserted(offset)
  /\ _buffer' = IF offset < 0 THEN _buffer ELSE Stored(_buffer, size, offset + 1, n, data)
  /\ UNCHANGED <<tier, size, disk, boots, saved>>

DriveWrite(offset, n, data) ==
  /\ Asserted(offset)
  /\ _buffer' = IF offset < 0 THEN _buffer ELSE Stored(_buffer, size, offset, n, data)
  /\ UNCHANGED <<tier, size, disk, boots, saved>>

WriteByte(offset, b) ==
  /\ phase = "on" /\ Valid(SectorOf(offset))
  /\ DriveWrite(offset, 1, [o \in {0} |-> b])
  /\ memory' = IF wrapped \/ offset < 0 THEN _buffer' ELSE [memory EXCEPT ![offset] = b]
  /\ UNCHANGED wrapped

\* The string is cut or filled to a sector.  Its number counts from one.
WriteSector(number, data) ==
  LET sector == DriveWrap(number - 1) IN
  /\ phase = "on" /\ Valid(sector)
  /\ DriveWrite(DriveWrap(sector * SectorSize), SectorSize, data)
  /\ wrapped' = (wrapped \/ sector * SectorSize > DriveMaxInt)
  /\ memory' = IF wrapped' THEN _buffer'
               ELSE Stored(memory, Capacity(tier), sector * SectorSize, SectorSize, data)

\* What read(offset, n) gives: the first offset and the number of bytes.
DriveReads(offset, n) ==
  IF offset >= size THEN [from |-> 0, n |-> 0]
  ELSE [from |-> offset,
        n |-> IF DriveWrap(offset + n) < 0 \/ DriveWrap(offset + n) > size THEN size - offset ELSE n]

\* readByte and readSector change nothing, but they assert, too: that there is an
\* offset, and that all that was asked for was read.
DriveRead(offset, n) ==
  /\ phase = "on"
  /\ offset < 0 \/ DriveReads(offset, n).n # n
  /\ phase' = "aborted"
  /\ UNCHANGED <<tier, size, _buffer, disk, boots, memory, wrapped, saved>>

ReadByte(offset) == Valid(SectorOf(offset)) /\ DriveRead(offset, 1)

ReadSector(number) ==
  LET sector == DriveWrap(number - 1)
  IN  Valid(sector) /\ DriveRead(DriveWrap(sector * SectorSize), SectorSize)

-----------------------------------------------------------------------------
\* The string of a sector as Lua passes it: short ones of one byte, and full ones.
SectorData == {[o \in 0..(SectorSize - 1) |-> IF o < len THEN b ELSE 0] :
                 b \in DriveByte, len \in {1, SectorSize}}

Lua == \E a \in Arguments :
         \/ \E b \in DriveByte : WriteByte(a, b)
         \/ \E d \in SectorData : WriteSector(a, d)
         \/ ReadByte(a) \/ ReadSector(a)

DriveNext == \/ \E t \in Tiers : Load(t)
        \/ LoadFailed \/ EmptyFile \/ WriteFile \/ DriveKilled \/ Lua

DriveSpec == DriveInit /\ [][DriveNext]_driveVars

-----------------------------------------------------------------------------
(* Properties *)

\* What is in the buffer is what Lua wrote, at the place it named: no sector
\* changes because of another one.  (Sector numbers from 2^23 on are excepted:
\* their offsets wrap, and some are taken for those of the first sectors.)
WritesWhereAsked == phase = "on" /\ ~wrapped => _buffer = memory

\* What a drive held when it was destroyed in good order it holds again when it is
\* made for a tier that is no lower, however often the process was killed since
\* (unless it was killed while it wrote).
FoundAsLeft ==
  [][phase = "off" /\ phase' = "on" /\ saved.len <= Capacity(tier')
       => \A o \in 0..(saved.len - 1) : _buffer'[o] = saved.cells[o]]_driveVars
=============================================================================
