----------------------------- MODULE FileHandles -----------------------------
(***************************************************************************)
(* File handles of a Filesystem component (components/filesystem.cpp).  Lua   *)
(* opens a file for reading, which copies all of it (FileHandleReader), or    *)
(* for writing, through an fstream that keeps what it was given until its     *)
(* buffer is full, the handle is moved or it is closed (FileHandleWriter).    *)
(* A handle goes when Lua's garbage collector disposes of it.                 *)
(*                                                                           *)
(* A file is an inode: a handle keeps the one it opened when the name is      *)
(* removed, renamed or used again.  Paths are those of files, not of          *)
(* directories; the disk is not full.  Positions are ints of 2 * MaxInt + 2    *)
(* values, and their arithmetic wraps as the build's does.                     *)
(***************************************************************************)
EXTENDS Integers, Sequences, Functions

CONSTANTS
  Paths, Handles, Inodes, None,
  Byte,         \* values of a byte, 0 among them
  MaxInt,       \* the largest int32_t
  Distances,    \* arguments of seek
  Sizes,        \* arguments of read
  MaxOpens, MaxWrites, MaxSeeks   \* bounds: such calls in a behaviour

ASSUME FileAssumption ==
  /\ None \notin Paths \cup Handles \cup Inodes
  /\ {0, 1} \subseteq Byte /\ MaxInt \in Nat \ {0}
  /\ Distances \cup Sizes \subseteq (-MaxInt - 1)..MaxInt
  /\ MaxOpens \in Nat /\ MaxWrites \in Nat /\ MaxSeeks \in Nat

VARIABLES
  readOnly,   \* _isReadOnly: a loot disk
  dir,        \* the inode of each path, or None
  content,    \* what the host has of each inode
  handle,     \* the handles Lua holds
  opens, writes, seeks,
  \* history
  meant,      \* content of each inode if writes were not buffered
  shared,     \* inodes with two writers at a time, or a writer that was killed
  start, got  \* of a reader: where it was put by the last open or seek, and the
              \* bytes read since

counts == <<opens, writes, seeks>>
history == <<meant, shared, start, got>>
vars == <<readOnly, dir, content, handle, counts, history>>

Int32 == (-MaxInt - 1)..MaxInt
Wrap(n) == ((n + MaxInt + 1) % (2 * MaxInt + 2)) - MaxInt - 1

\* A handle that Lua does not hold (any more), a reader and a writer.  out is
\* what the fstream has not handed to the host; at is the host's position.
NoHandle  == [kind |-> "none"]
Reader(data, file) ==
  [kind |-> "reader", open |-> TRUE, file |-> file, data |-> data, position |-> 0]
Writer(ino, append) ==
  [kind |-> "writer", open |-> TRUE, ino |-> ino, append |-> append, at |-> 0, out |-> <<>>]

ReaderHandle == [kind : {"reader"}, open : BOOLEAN, file : BOOLEAN,
                 data : Seq(Byte), position : Int32]
WriterHandle == [kind : {"writer"}, open : BOOLEAN, ino : Inodes, append : BOOLEAN,
                 at : Nat, out : Seq(Byte)]

Kind(h)   == handle[h].kind
isOpen(h) == Kind(h) # "none" /\ handle[h].open
Writers(i) == {h \in Handles : Kind(h) = "writer" /\ isOpen(h) /\ handle[h].ino = i}

TypeOK ==
  /\ readOnly \in BOOLEAN
  /\ dir \in [Paths -> Inodes \cup {None}]
  /\ content \in [Inodes -> Seq(Byte)] /\ meant \in [Inodes -> Seq(Byte)]
  /\ handle \in [Handles -> {NoHandle} \cup ReaderHandle \cup WriterHandle]
  /\ shared \subseteq Inodes
  /\ start \in [Handles -> Int32] /\ got \in [Handles -> Seq(Byte)]
  /\ opens \in 0..MaxOpens /\ writes \in 0..MaxWrites /\ seeks \in 0..MaxSeeks

Init ==
  /\ readOnly \in BOOLEAN
  /\ \E p \in Paths, i \in Inodes :
       /\ dir = [q \in Paths |-> IF q = p THEN i ELSE None]
       /\ content = [j \in Inodes |-> IF j = i THEN <<1, 0>> ELSE <<>>]
  /\ handle = [h \in Handles |-> NoHandle]
  /\ opens = 0 /\ writes = 0 /\ seeks = 0
  /\ meant = content /\ shared = {}
  /\ start = [h \in Handles |-> 0] /\ got = [h \in Handles |-> <<>>]

-----------------------------------------------------------------------------
(* The host's files *)

\* d written into s at a position; a hole is filled with zeros.
Put(s, at, d) ==
  [i \in 1..(IF Len(s) < at + Len(d) THEN at + Len(d) ELSE Len(s)) |->
     IF i \in (at + 1)..(at + Len(d)) THEN d[i - at]
     ELSE IF i <= Len(s) THEN s[i] ELSE 0]

\* The fstream of writer w hands its bytes to the host.
Flushed(w) == IF w.out = <<>> THEN content[w.ino]
              ELSE IF w.append THEN content[w.ino] \o w.out
              ELSE Put(content[w.ino], w.at, w.out)
Drained(w) == [w EXCEPT !.out = <<>>,
                        !.at = CASE w.out = <<>> -> @
                                 [] w.out # <<>> /\ w.append -> Len(Flushed(w))
                                 [] OTHER -> @ + Len(w.out)]

-----------------------------------------------------------------------------
(* Lua's calls.  A handle that is not open answers "bad file descriptor". *)

\* open(path, mode), by the flags the letters of the mode stand for: "in" for r,
\* "out" for w, "app" for a, "binary" for b.  Refused are a mode that reads and
\* writes, one that does neither (the fstream opens nothing for b alone), and
\* writing to a loot disk.
Modes == SUBSET {"in", "out", "app", "binary"}
Reads(mode)  == "in" \in mode
Writes(mode) == mode \cap {"out", "app"} # {}

\* Mutant: a loot disk is protected from w only.
OpensAppend(mode) == (Reads(mode) # Writes(mode)) /\ ~(readOnly /\ "out" \in mode)

Opens(mode)  == (Reads(mode) # Writes(mode)) /\ ~(readOnly /\ Writes(mode))

NextOpen(h, mode) == /\ Kind(h) = "none" /\ Opens(mode)
                     /\ opens < MaxOpens /\ opens' = opens + 1
                     /\ UNCHANGED <<readOnly, writes, seeks>>

\* FileHandleReader takes what the host has.  _isOpen is not initialized when
\* there is no such file: it is what the memory held, and create() goes by it.
OpenReader(h, p, mode) ==
  /\ NextOpen(h, mode) /\ Reads(mode)
  /\ \/ /\ dir[p] # None
        /\ handle' = [handle EXCEPT ![h] = Reader(content[dir[p]], TRUE)]
     \/ /\ dir[p] = None
        /\ handle' \in {handle, [handle EXCEPT ![h] = Reader(<<>>, FALSE)]}
  /\ start' = [start EXCEPT ![h] = 0] /\ got' = [got EXCEPT ![h] = <<>>]
  /\ UNCHANGED <<dir, content, meant, shared>>

\* FileHandleWriter: without append the file is emptied, without a file there is
\* a new one.
OpenWriter(h, p, mode) ==
  /\ NextOpen(h, mode) /\ Writes(mode)
  /\ \E i \in Inodes :
       /\ IF dir[p] = None THEN i \notin Range(dir) /\ Writers(i) = {} ELSE i = dir[p]
       /\ dir' = [dir EXCEPT ![p] = i]
       /\ handle' = [handle EXCEPT ![h] = Writer(i, "app" \in mode)]
       /\ LET emptied == "app" \notin mode \/ dir[p] = None
          IN  /\ content' = [content EXCEPT ![i] = IF emptied THEN <<>> ELSE @]
              /\ meant' = [meant EXCEPT ![i] = IF emptied THEN <<>> ELSE @]
       /\ shared' = CASE dir[p] = None -> shared \ {i}
                      [] dir[p] # None /\ Writers(i) # {} -> shared \cup {i}
                      [] OTHER -> shared
  /\ UNCHANGED <<start, got>>

-----------------------------------------------------------------------------
\* truncate; high wins.
Trunc(value, low, high) ==
  LET raised == IF value < low THEN low ELSE value
  IN  IF raised > high THEN high ELSE raised

\* Mutant: the offset is not brought into the file.
ReadPlanRaw(position, len, size) ==
  LET total == Trunc(size, 0, Wrap(len - position))
      n     == Trunc(total, 0, len - position)
  IN  IF total <= 0 THEN [offset |-> 0, n |-> 0, fill |-> 0]
      ELSE [offset |-> position, n |-> n, fill |-> total - n]

\* What read(size) takes of a reader with its position and len bytes: n bytes
\* from an offset, then zeros.  The length is an int, too, so that of a file of
\* more than MaxInt bytes may be negative.
ReadPlan(position, len, size) ==
  LET total  == Trunc(size, 0, Wrap(len - position))
      offset == Trunc(position, 0, len)
      n      == Trunc(total, 0, len - offset)
  IN  IF total <= 0 THEN [offset |-> 0, n |-> 0, fill |-> 0]
      ELSE [offset |-> offset, n |-> n, fill |-> total - n]

\* Mutant: the position is not moved by what was read.
ReadInPlace(h, size) ==
  /\ Kind(h) = "reader" /\ isOpen(h)
  /\ LET r == handle[h]
         plan == ReadPlan(r.position, Wrap(Len(r.data)), size)
     IN  /\ Len(got[h]) < 2 * MaxInt
         /\ got' = [got EXCEPT ![h] = @ \o SubSeq(r.data, plan.offset + 1, plan.offset + plan.n)
                                        \o [i \in 1..plan.fill |-> 0]]
  /\ UNCHANGED <<readOnly, dir, content, handle, counts, meant, shared, start>>

Read(h, size) ==
  /\ Kind(h) = "reader" /\ isOpen(h)
  /\ LET r == handle[h]
         plan == ReadPlan(r.position, Wrap(Len(r.data)), size)
     IN  /\ handle' = [handle EXCEPT ![h].position = Wrap(@ + plan.n + plan.fill)]
         /\ got' = [got EXCEPT ![h] = @ \o SubSeq(r.data, plan.offset + 1, plan.offset + plan.n)
                                        \o [i \in 1..plan.fill |-> 0]]
  /\ UNCHANGED <<readOnly, dir, content, counts, meant, shared, start>>

\* The stream keeps the byte, or hands over all it has.
Write(h, b) ==
  /\ Kind(h) = "writer" /\ isOpen(h)
  /\ writes < MaxWrites /\ writes' = writes + 1
  /\ LET w == handle[h]
         given == [w EXCEPT !.out = Append(@, b)]
     IN  /\ meant' = [meant EXCEPT ![w.ino] =
                        IF w.append THEN Append(@, b) ELSE Put(@, w.at + Len(w.out), <<b>>)]
         /\ \/ handle' = [handle EXCEPT ![h] = given] /\ UNCHANGED content
            \/ /\ handle' = [handle EXCEPT ![h] = Drained(given)]
               /\ content' = [content EXCEPT ![w.ino] = Flushed(given)]
  /\ UNCHANGED <<readOnly, dir, opens, seeks, shared, start, got>>

\* FileHandleReader::seek puts the position anywhere.
SeekReader(h, way, to) ==
  /\ Kind(h) = "reader" /\ isOpen(h)
  /\ seeks < MaxSeeks /\ seeks' = seeks + 1
  /\ LET r == handle[h]
         position == Wrap(to + CASE way = "cur" -> r.position
                                 [] way = "set" -> 0
                                 [] way = "end" -> Len(r.data))
     IN  /\ handle' = [handle EXCEPT ![h].position = position]
         /\ start' = [start EXCEPT ![h] = position]
  /\ got' = [got EXCEPT ![h] = <<>>]
  /\ UNCHANGED <<readOnly, dir, content, opens, writes, meant, shared>>

\* Mutant: the host's position is moved under the bytes still in the stream.
SeekWriterUnflushed(h, way, to) ==
  /\ Kind(h) = "writer" /\ isOpen(h)
  /\ seeks < MaxSeeks /\ seeks' = seeks + 1
  /\ LET w == handle[h]
         at == to + CASE way = "cur" -> w.at
                      [] way = "set" -> 0
                      [] way = "end" -> Len(content[w.ino])
     IN  handle' = [handle EXCEPT ![h].at = IF at < 0 THEN @ ELSE at]
  /\ UNCHANGED <<readOnly, dir, content, opens, writes, history>>

\* FileHandleWriter::seek: the stream is emptied first, then the host refuses a
\* position before the start.
SeekWriter(h, way, to) ==
  /\ Kind(h) = "writer" /\ isOpen(h)
  /\ seeks < MaxSeeks /\ seeks' = seeks + 1
  /\ LET w  == Drained(handle[h])
         at == to + CASE way = "cur" -> w.at
                      [] way = "set" -> 0
                      [] way = "end" -> Len(Flushed(handle[h]))
     IN  /\ handle' = [handle EXCEPT ![h] = [w EXCEPT !.at = IF at < 0 THEN @ ELSE at]]
         /\ content' = [content EXCEPT ![w.ino] = Flushed(handle[h])]
  /\ UNCHANGED <<readOnly, dir, opens, writes, history>>

\* FileHandle::close.
Closed(h) == CASE Kind(h) = "reader" -> [handle[h] EXCEPT !.open = FALSE, !.data = <<>>,
                                                          !.position = 0]
               [] Kind(h) = "writer" -> [Drained(handle[h]) EXCEPT !.open = FALSE]

Close(h) ==
  /\ isOpen(h)
  /\ handle' = [handle EXCEPT ![h] = Closed(h)]
  /\ content' = IF Kind(h) = "writer"
                THEN [content EXCEPT ![handle[h].ino] = Flushed(handle[h])] ELSE content
  /\ start' = [start EXCEPT ![h] = 0] /\ got' = [got EXCEPT ![h] = <<>>]
  /\ UNCHANGED <<readOnly, dir, counts, meant, shared>>

\* dispose(), by the garbage collector: close(), which does nothing the second
\* time, and the end of the handle.  At the end of the Computer all are disposed.
Dispose(h) ==
  /\ Kind(h) # "none"
  /\ handle' = [handle EXCEPT ![h] = NoHandle]
  /\ content' = IF Kind(h) = "writer" /\ isOpen(h)
                THEN [content EXCEPT ![handle[h].ino] = Flushed(handle[h])] ELSE content
  /\ start' = [start EXCEPT ![h] = 0] /\ got' = [got EXCEPT ![h] = <<>>]
  /\ UNCHANGED <<readOnly, dir, counts, meant, shared>>

\* remove(path) and rename(from, to); handles keep their files.
RemoveFile(p) ==
  /\ ~readOnly /\ dir[p] # None
  /\ dir' = [dir EXCEPT ![p] = None]
  /\ UNCHANGED <<readOnly, content, handle, counts, history>>

RenameFile(p, q) ==
  /\ ~readOnly /\ dir[q] = None /\ dir[p] # None
  /\ dir' = [dir EXCEPT ![p] = None, ![q] = dir[p]]
  /\ UNCHANGED <<readOnly, content, handle, counts, history>>

\* The process is killed and started again.
Killed ==
  /\ \E h \in Handles : Kind(h) # "none"
  /\ shared' = shared \cup {handle[h].ino : h \in {g \in Handles : Kind(g) = "writer"
                                                      /\ handle[g].out # <<>>}}
  /\ handle' = [h \in Handles |-> NoHandle]
  /\ start' = [h \in Handles |-> 0] /\ got' = [h \in Handles |-> <<>>]
  /\ UNCHANGED <<readOnly, dir, content, counts, meant>>

-----------------------------------------------------------------------------
Call(h) ==
  \/ \E p \in Paths, mode \in Modes : OpenReader(h, p, mode) \/ OpenWriter(h, p, mode)
  \/ \E size \in Sizes : Read(h, size)
  \/ \E b \in Byte : Write(h, b)
  \/ \E way \in {"cur", "set", "end"}, to \in Distances :
       SeekReader(h, way, to) \/ SeekWriter(h, way, to)
  \/ Close(h) \/ Dispose(h)

Next == \/ \E h \in Handles : Call(h)
        \/ \E p, q \in Paths : RemoveFile(p) \/ RenameFile(p, q)
        \/ Killed

Spec == Init /\ [][Next]_vars

-----------------------------------------------------------------------------
(* Properties *)

\* A file that no open handle writes to is on the host as it was written, byte
\* for byte at the places the handle was moved to, however the stream was
\* emptied; unless two handles wrote to it at a time or a kill took some of it.
FilesAsWritten ==
  \A i \in Inodes \ shared : Writers(i) = {} => content[i] = meant[i]

\* What a program reads since the last seek is the file as it was when it was
\* opened, from where it put the handle, without gaps or repetition, whatever
\* became of the file since.  (Not so before the start: there bytes are read
\* from the start and zeros put behind them; nor of a file whose length is no int.)
ReadsAreContiguous ==
  \A h \in Handles :
    Kind(h) = "reader" /\ start[h] >= 0 /\ Len(handle[h].data) <= MaxInt =>
      got[h] = SubSeq(handle[h].data, start[h] + 1, start[h] + Len(got[h]))

\* No byte is read outside of the data, and a read never fills for ever: for every
\* position, size and length of file, overflowing differences included.
ReadInBounds ==
  \A h \in Handles : Kind(h) = "reader" =>
    \A size \in Int32 :
      LET plan == ReadPlan(handle[h].position, Wrap(Len(handle[h].data)), size)
      IN  /\ plan.n >= 0 /\ plan.fill >= 0
          /\ plan.n > 0 => plan.offset >= 0 /\ plan.offset + plan.n <= Len(handle[h].data)

\* Nothing changes on a loot disk.
LootDiskUntouched == [][readOnly => UNCHANGED <<dir, content>>]_vars
=============================================================================
