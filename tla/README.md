# A TLA+ model of ocvm

ocvm emulates the machines of the Minecraft mod OpenComputers in a terminal: it
runs their Lua firmware (`machine.lua`) on the main thread and gives it
components (screen, keyboard, gpu, filesystems, modems, internet cards...).
This directory models the parts of it where order, sharing, limits or failure
make the code hard to get right by testing, checks them with TLC on small
instances, and proves with TLAPS what matters most of them for every instance.

`PROJECT.json` lists the components, the runs, the mutants that show each
property can fail, the source lines behind every definition (`map`), the hazards
of the code and the theorems. Line numbers below are those of `src/`.

## 1. The system

### 1.1 Components, their state and how they interact

| Part (source) | State | Operations | Talks to |
|---|---|---|---|
| **Worker** (`drivers/worker.cpp`) | `_continue`, `_running`, `_pthread`, the mutex `_m` | `start`, `stop`, `make_lock`; thread body `proc` with the hooks `onStart`, `runOnce`, `onStop` | base of TtyReader, ModemDriver, ServerPool |
| **Connection** (`drivers/connection.cpp`) | state (Starting, Failed, Ready, Finished, Closed), a bounded buffer, a descriptor | dial on a thread of its own, `preload`, `back_insert`, `move`, `readyNextPacket`, `write`, `close` | sockets and pipes |
| **ServerPool, FileLock** (`drivers/server_pool.cpp`) | a listening socket, accepted connections, the lock file and its `flock` | `create`, `runOnce` (accept, cull, read, rebroadcast), `onStop` | the file system, ModemDrivers of all processes |
| **ModemDriver** (`drivers/modem_drv.cpp`) | `_connection`, `_local_server`, an EventSource | `send`, `runOnce` (dial, retry, become server, forget, read), `onStop` | ServerPool, Modem |
| **EventSource** (`io/event.h`) | a queue under a mutex | `push` by another thread, `pop` by the main thread | screen, keyboard, modem |
| **Client** (`model/client.cpp`) | the component list, crash text | `load`, `run` (a pass of updates), `add_component`, `remove_component`, `close` | all components |
| **Computer** (`components/computer.cpp`) | the Lua state, the signal queue, the standby time | `update`, `resume`, `pushSignal`, shutdown, reboot | machine.lua |
| **Screen, Keyboard** (`components/screen.cpp`, `keyboard.cpp`) | attachment of keyboards, queues | `connectKeyboard`, `push`, `update`, the destructors | terminal thread, Client's list |
| **Boot loop** (`main.cpp`) | none | load, run until halt or reboot, close | Client |
| **Sandbox** (`components/sandbox.cpp`) | none | add, remove, settings of components | Client |
| **Modem** (`components/modem.cpp`) | open ports, strength, wake message | open, close, send, broadcast, receive | ModemDriver, Computer |
| **Internet** (`components/internet.cpp`, `drivers/internet_*.cpp`) | open TCP connections and HTTP requests, what each waits for | connect, request, finishConnect, read, write, response, close | Connection, a wget child process |
| **Terminal input** (`drivers/raw_tty.cpp`, `term_buffer.cpp`, `kb_drv.cpp`, `mouse_drv.cpp`) | a byte buffer, the modifier and button state | decode bytes into key and mouse events | Screen, on a Worker |
| **Terminal output** (`drivers/ansi_escape.cpp`, `io/frame.cpp`) | cells, cursor, colours | write, clear | Gpu, Screen |
| **Gpu** (`components/gpu.cpp`) | the bound screen, cells, colours, viewport | bind, set, fill, copy, setResolution, setDepth, setPaletteColor | Screen |
| **Filesystem** (`components/filesystem.cpp`) | handles, paths, read-only flag | open, read, write, seek, close, list, rename, remove | host file system |
| **Drive, Eeprom, Data** (`components/drive.cpp`, `eeprom.cpp`, `data_card.cpp`) | sectors, code and label, none | byte and sector access, set and get, checksums | host files |
| **Lua APIs, values, configuration, logs** (`apis/`, `model/value.cpp`, `model/config.cpp`, `model/log.cpp`) | none of their own beyond tables | conversions | Lua |

Three kinds of thread run at once: the main thread (every component's `update`
and all of Lua), one Worker thread per ModemDriver, per ServerPool and for the
terminal, and one short-lived thread per dialing Connection. Between processes
there is the lock file, the TCP port of the system and what travels on it.

### 1.2 What is hard, and what makes each part correct

* **Worker.** `stop()` races with a thread that is still starting; `start()`
  overwrites the handle of a thread that ended by itself. Correct: the hooks of
  two runs never overlap, a stop is not lost, it returns, and when it has
  returned nothing of the worker is running.
* **Connection.** TCP keeps order and not boundaries; the buffer is bounded; the
  writer ignores short writes; end of stream and reset may come at any byte.
  Correct: frames come out whole, in order and unchanged, up to the first that
  was damaged, and none is lost because the writer closed after it.
* **Election.** Several processes open, lock and unlink a file and are killed in
  between. Correct: servers own their lock, at most one server, no lock is left
  behind, and everyone gets a connection in the end.
* **Relay.** Clients come, go and fall behind while a server relays. Correct:
  everybody hears packets in one order, none twice, and all of them unless its
  own socket was full.
* **Machine.** Events of three threads become signals of one queue while Lua
  adds and removes the very components the pass walks over, and a boot may end
  at any pass. Correct: signals are heard in order, none lost or doubled; the
  list is what exists; the terminal reaches no destroyed keyboard when the client goes
  (when a keyboard is removed in the middle of a key it does); a sleeping machine
  wakes; the abort key works.

* **Gpu.** Wide characters take two cells and meet edges, fills and copies; copies
  overlap and their arguments overflow; gpus and screens point at each other and
  either may go. Correct: the screen shows what is read back, a copy moves a
  region and nothing else, colours survive a change of the palette, and no call
  goes to a screen or gpu that is gone.
* **Terminal input.** Bytes come in pieces, a pty tells of no releases. Correct: the
  mouse's events have their grammar and keys that were pressed are released.
* **Modem.** Ports change between the arrival of a packet and the pass that hears
  it. Correct: a signal is a packet for this modem on a port open at the pass.
* **Internet.** Streams are opened by threads, closed by Lua and again by its
  collector while the kernel uses their descriptors again. Correct: bytes come in
  order and the end after them; who waits is signalled; a stream closes its own
  descriptor; a response is given when it is complete.
* **Storage.** Handles buffer, drives are written back when they are destroyed, the
  configuration when the client is closed, and a process may be killed at any
  step. Correct: what was written is there, where it was written; names mean the
  same in every spelling.

The complete list, each at its line, is `hazards` in `PROJECT.json`.

## 2. Modules

| Module | Models | Proofs | Runs |
|---|---|---|---|
| `WorkerService` | what a Worker promises (abstract) | | |
| `Worker` | `drivers/worker.cpp` | `TerminalProofs` | `worker` |
| `Connection` | the operations of `drivers/connection.cpp`, as operators on a record | `PacketLinkProofs`, `NetworkProofs` | through `PacketLink` and `InternetSockets` |
| `PacketLink` | frames between a writer and a reader | `PacketLinkProofs` | `packet_link` |
| `ServerElection` | FileLock, the life of ServerPools and ModemDrivers | `NetworkProofs` | `election`, `two_networks` |
| `BroadcastBus` | what the modem network promises (abstract) | | |
| `ServerRelay` | the traffic through a ServerPool | `ServerRelayProofs` | part of `desktop` and of `network` |
| `InternetSockets` | `components/internet.cpp`, `drivers/internet_drv.cpp`, on `Connection` | `NetworkProofs` | part of `network` |
| `HttpResponse` | the response of `drivers/internet_http.cpp`, on `Connection` | `NetworkProofs` | part of `network` |
| `Machine` | boot loop, Client, Computer, event sources | `MachineProofs` | part of `desktop`; `machine_live`, `removal`, `crash_report`, `keyboard_first`, `key_of_the_removed` |
| `GpuCells` | cells, text, fill, copy and size of `components/gpu.cpp`, and `io/frame.cpp` | `TerminalProofs` | part of `desktop` |
| `GpuBinding` | which gpu draws on which screen | `TerminalProofs` | part of `desktop` |
| `GpuColors` | `color/color_map.cpp` and the colours of a gpu | `TerminalProofs` | part of `desktop` |
| `UnicodeText` | `apis/unicode.cpp` | `TextProofs` | part of `desktop` |
| `TtyInput` | `drivers/raw_tty.cpp`, `term_buffer.cpp`, `mouse_drv.cpp`, `kb_drv.cpp`, `kb_data.cpp` | `TerminalProofs` | part of `desktop` |
| `ModemPorts` | `components/modem.cpp` | `NetworkProofs` | part of `desktop` |
| `FileHandles` | the file handles of `components/filesystem.cpp` | `StorageProofs` | part of `storage` |
| `FileTree` | names and directories of `components/filesystem.cpp`, `drivers/fs_utils.cpp` | `StorageProofs` | part of `storage` |
| `DriveSectors` | `components/drive.cpp` | `StorageProofs` | part of `storage` |
| `Settings` | `model/config.cpp`, `components/eeprom.cpp` | `StorageProofs` | part of `storage` |
| `Subsequence` | no code: `Select`, the elements of a sequence that are in a set | `SubsequenceProofs` | through `ServerRelay` and `Machine` |

Parts that share no state are checked in one run: the MC module's variable `part`
is chosen at the start, the next-state relation is that of the part, and the others'
variables stay at one initial state. The states of such a run are the sum of its
parts' states; nothing is said of orders between them, as they have no effect on
each other.

An operator whose comment begins with "Mutant:" is no part of the model: it is
the definition after it with a plausible bug, used to show that a property can
tell.

### 2.1 Worker and WorkerService

The owner (`opc`) calls `start`, `stop` and locked methods of the derived class;
every successful `start` creates a thread (`tpc`) that runs `proc`. A critical
section without a hook is one step; a hook is two steps with `_m` held between
them; `while (_continue)`, which reads without the lock, is a step of its own.
`WorkerService` is what the owner relies on: between the `start` that found the
worker stopped and the end of `onStop` there is one activity, and `stop` returns
only when it is over. `ServiceSpec` is the refinement, with `active <- running`
and `stopping` for the owner inside `stop`.

*Fairness.* Threads are scheduled and hooks return (weak fairness). The steps
that lock the mutex get strong fairness: a looping thread sleeps a millisecond
outside the lock (`worker.cpp:57`), so a waiter is not overtaken for ever.

### 2.2 Connection and PacketLink

`Connection` gives for every operation the set of results it may have, depending
on how much of the wire has arrived. `PacketLink` puts a writer in front of it
(the two writes of `ModemDriver::send`, the single write of
`ServerPool::runOnce`) and polls it as `runOnce` does. A socket takes what fits;
a frame that was cut short, or that is longer than the reader's buffer, is
`damaged`, and the properties promise what comes before it. In the code nothing
resynchronises after such a frame; this is the known limit of the protocol.
Sizes are non-negative: `send` never produces another (`modem_drv.cpp:42`).

*Bounds.* A header of two bytes in base three announces up to 8 bytes, buffers
hold 6, sockets 7, and payloads are one that is too long and two lengths that
fit: every way to split, merge, cut and misread frames occurs with three frames.

### 2.3 ServerElection

One step per system call on what processes share: the directory entry (`path`),
the flock of each inode (`holder`), the open file (`fd`), sockets. `Crash` is a
killed process, `Stop` an orderly end, `BindFailed` and `AcceptFailed` failing
calls; `MaxReleases` and `MaxFaults` bound them. `Inodes` has one more element
than `Procs`, since an inode is free again when nobody has it open.

*Fairness.* Every driver's and pool's thread is scheduled. Nothing is assumed of
starts, stops and kills.

### 2.4 ServerRelay and BroadcastBus

Connections carry whole packets (`PacketLink` says what they make of bytes). The
pool's round is the code's: accept, remove what has ended, read at most one
packet of each, write it to all, its sender included, ignoring refusals.
`BroadcastBus` is the network as a modem sees it, one log of which each client
hears an increasing selection; `BusSpec` is the refinement. What a client sent is on its
way to the server (`up`) or in the log, after it has hung up too, until a server that stops
throws it away: the end of a stream is found behind what was sent before it
(`EndOfStream`), and only a connection whose end was found is removed. This is an orderly
close. A client that closes its socket with bytes in it that it has not read resets the
connection instead, and what the server has not read may be gone then: not modelled.
`posts` and `posted` count
the packets that were sent, in all and on each connection, and number them: what arrived
of a connection is compared with `Posts`, the numbers up to its count.

*Bounds.* Three connections for two clients in `desktop`: one client can come back while
its old connection is still in the pool; two in `network`, where each packet is followed to
its relay. Room for one packet downstream makes
refusals common; two packets are enough for any reordering or doubling.
*Fairness.* The round goes on, and a packet under way is not overlooked in every
round (strong fairness of `Relay`), as it does arrive.

### 2.5 Machine

The main thread's `phase`, the loop of `Client::run` with its position and its
*end iterator*, taken at the start of a pass (`cursor`, `last`, `moved`), since
components come and go under it; the queues (`events`), the Computer's
`signals`, and whether Lua sleeps (`timer`). A component is a name; what Lua does
with other components leaves this state alone. `vec`, `cap` and `moved` model
`std::vector`: a push at capacity moves the elements, and the loop then reads
the old, emptied buffer.

A key is given to the keyboards one by one (`KeyTyped`, `PushKey`) by the terminal's
thread, in the loop of `Screen::push` over `_keyboards`, which takes no lock
(`screen.cpp:195`): `typing` is that loop, with the keyboards it has still to reach. Between
two of its steps the main thread may connect, disconnect or destroy keyboards. Once the
vector was changed under the loop, or where a keyboard is gone, the step has the outcomes a
build can produce: the key is pushed, or it is not, or the process ends. Only the
destruction of the screen waits for the loop, as its frame joins the thread. A key may also
be on its way from the time when the keyboards were connected, before the boot's first pass.

*Fairness.* The main thread goes on, which includes that Lua yields:
`machine.lua` interrupts a program that does not. Time passes.
*Bounds.* Two events and two calls of Lua in one boot: two calls are what it takes to
add a component and remove one in the same pass. A second boot would repeat the states
of the first: it is a new `Client`, and `Load` sets every variable but the count of boots
and `doomed`, which is empty by then. For the liveness properties the computer is listed
last and the modem, one more source that is no keyboard, is left out: a pass then survives
the removal of the keyboard that Lua has added behind the computer. The removal of what was
listed before it ends the process (run `removal` shows how), and after that nothing is owed;
so these properties say what they say of keys, signals and sleep beside an added and removed
keyboard.

### 2.6 FileHandles

One action for every call of Lua on a handle (`open` for each kind, `read`,
`write`, `seek` for each kind, `close`, `dispose`) and for `remove` and `rename` of
files. A reader is a copy of the file made when it was opened; a writer is a
stream that holds bytes back (`out`) until it is full, moved or closed, and a
position of the host's (`at`). Paths lead to inodes, as on the host: a handle
keeps its file when the name goes to another. Histories: `meant` is what the
files would hold without buffering, `got` what was read since the last seek.

When there is no file to read, `_isOpen` is what the memory of the userdata held
before (`filesystem.cpp:105`), so `OpenReader` may answer a handle or none.

*Bounds.* Two handles, two paths, opens, writes and seeks as in the .cfg; an int
has few values there, so that seeks overflow as `position` does after 2^31, and files
grow longer than the largest int. The theorems are for ints of every width. A reader
works with the length of its data as an int (`filesystem.cpp:137`): of a file of 2^31
bytes or more it is negative or too small. Nothing is read outside of the data even then
(`ReadInBounds`), but zeros are given for them, so `ReadsAreContiguous` is about files
whose length is an int.

### 2.7 The devices of `desktop`

All of this runs on the main thread; what makes it hard is the order of calls.

`GpuCells` has a screen's cells (value and whether it is the second half of a wide
character), what the terminal shows of them, and as history the cells nobody has
written since a change of size and whether a wide character was cut. `copy` is
modelled with its order of columns and rows, its clipping and its sums of ints that
overflow (`GWrap`). *Bounds.* Three columns and two rows, four calls, ints of 16 at
each side: wide characters meet both edges and each other, copies overlap in every
direction, start before the screen and end at the largest int.

`GpuBinding` has the two pointers, `Gpu::_screen` and `Screen::_gpu`, and a history of
screens that were bound by two gpus at once: the first keeps a pointer that nobody
clears (`gpu.cpp:73`), the one exception in `NoCallToTheDead`.

`GpuColors` gives the three formats as operators and one cell through all calls that
change its colour. Index 16 reads the depth behind the palette (`color_map.cpp:55`).
Cells drawn with an index do not keep it, since `inflate_all` makes it a colour that
`deflate` takes for an index again: nothing promises otherwise, so the property
leaves them out.

`UnicodeText` has the operators of the library; its behaviour enumerates all texts of
four bytes, well formed or not. Characters from U+0800 to U+0FFF are cut in two
(`unicode.cpp:437` compares 0xE0 with `<=`), which `CharsReadBack` excepts.

`TtyInput` is the reader's loop (`RunOnce` with every length of a read), the mouse
and the two keyboard drivers. Keys that a pty tells by another code while shift is on
(144 to 147) stay down, `KeysReleased` excepts them; the comment at `kb_drv.cpp:230`
says that all keys are released. `TtyAssumption` says of the table what
`kb_data.cpp` fills it with: sequences of bytes, each of a key that is no modifier,
with some of shift, control and alt. *Bounds.* Four inputs, six bytes under way, and
sequences that are beginnings of each other.

`ModemPorts` has two modems on the bus that 2.4 describes, with opening and closing
between the arrival of a packet and the pass that hears it, arguments of every type
that `tryPack` knows, and both limits.

### 2.8 The streams of `network`

`InternetSockets` composes `Connection` with the userdata's life (held, closed,
disposed, destroyed), the threads that dial, and the kernel's table of
descriptors, which gives out the lowest that is free. A connection that Lua closed
closes its number again in its destructor (`connection.cpp:98`); if that is another
stream's by then the model records a robbery, and ends. *Fairness.* Passes of the main
thread and bytes that were sent arrive (weak fairness of `Signals`). *Bounds.* Two
streams of at most two connections, a byte and two reads (of none and of two).

`HttpResponse` polls the child's stderr in chunks and takes lines from it. The child
writes pieces that end anywhere. The first line is the status, every other one a header:
what is before its first colon is a name of the table `response.headers`, what is behind it
the value, both trimmed, and a name that comes again gets the new value
(`internet_http.cpp:262`). What a line reads as a status is a constant, `StatusOf`, and a
line that can't be read as one ends the response. `Cut` is the loop over the buffer, a byte at a time: the
lines so far and what is behind the last newline, which is what the calls of `move` leave.

### 2.9 FileTree, DriveSectors and Settings

`FileTree` translates `clean`, `relative` and `list` on strings of names and slashes,
and the calls with what `fs_utils` asks of the host. A rename onto a name directly
below removes (`hack_broken_rename`). The host may refuse any part of a call: to make, to
move, and to remove or read what is there. `Removals` is the recursion of
`fs_utils::remove` by its results: a removal that breaks off has removed some whole
directories and files below the name, in one directory at a time, and answers no; a directory
that cannot be read makes it `return -1` (`fs_utils.cpp:236`), which is true, with nothing
removed. `refused` says of the last call whether this happened. *Bounds.* Two names, nine
spellings, four calls.

`DriveSectors` has a sector of four bytes and 32 ints, so that sectors 8 and 4 stand
for 2^23 and 2^22 of 512 bytes: one wraps to the first sector, the other to a
negative offset. Making and destroying are separate steps, the latter in two, between
which a kill may come. Offsets that fail an assertion end the process.

`Settings` starts and ends a client over and over in one directory: `client.cfg` is
the program's until one was saved, components draw addresses, Lua sets labels and
flashes the eeprom, writes empty their file first. A label is a sequence of characters, for
what is saved is a text: `quote_string` (`value.cpp:394`) puts it between double quotes as
it is, or in long brackets when it has such a quote in it, and Lua reads it with its escapes
(`Unquoted`), or drops a first line end (`ReadBack`). So a label may come back as another,
or make a text that does not parse (`Legible`); `Plain` are those that do neither. A
`client.cfg` that is empty or does not parse is never replaced, so the environment stays
dead: `StartClient` fails. The property excepts what a kill caught while it was written, and
asks nothing of a label that is not plain. *Bounds.* Three starts; labels with a quote, with
an escape, and with a line end, which is lost from one of them at its first reading.

## 3. What the runs show

* `worker`: three runs of one worker (one that `start` forgets, its successor,
  one after a stop), with every property above and the refinement.
* `packet_link`: `LinkIsSound`, which is `DeliveredAsSent`, `InStep`,
  `FinishedAfterAll` and `NeverOverflows`, and, for a polling reader,
  `SoundFramesArrive`.
* `election`: `ServersOwnTheirLock`, `OneServerUnlessReleased` (the lock
  does its work for killed processes), `NoForgottenLock`, and `EveryoneServed`,
  whose exception is a ServerPool that ended by itself after a failed `accept`:
  its socket goes on taking connections that nobody serves.
* `network`: under fairness, `PostsAreRelayed` in the relay, that a packet of a client that
  hangs up at once is relayed as well unless the server stops; of streams
  `EndOnlyAtEnd`, `ReadyIsSignalled`, `ClosesItsOwn`; and of responses `ResponseComplete`,
  that the status and the table of the headers are those of whole lines the child wrote, the
  last value of each name, and that a response which is given lacks nothing.
* `desktop`: a boot of a machine (`SignalsInOrder`, and `ComponentsExist`, that the
  list is exact and the terminal's thread, in the middle of a key too, goes to no destroyed
  keyboard unless keyboards came or went meanwhile), one property or
  two for each device of 2.7, and the relay: `PacketsComplete`, that nothing is lost on its
  way to the server but by one that stops, or to a client that has room, and the refinement
  `BusSpec`.
* `machine_live`: signals are heard, the abort key is heeded unless its keyboard goes, a
  sleeper wakes, while Lua adds a keyboard and removes it; no other removal is survived.
* `storage`: `FilesAsWritten` says that the buffering of writers does not show once a
  file is left alone; `ReadsAreContiguous` that a reader sees one file from one place,
  whatever happens to the file meanwhile; `ReadInBounds` and `LootDiskUntouched` as in
  section 4; `CallsAnswerTruly` that calls on names do what they answer, as far as the host lets them;
  `WritesWhereAsked` and `FoundAsLeft` are about drives, `SettingsKept` about
  environments.

Five runs show disagreements between the code and what it says of itself
(`findings`):

* `two_networks`: `~FileLock` unlinks after it has unlocked, so two processes can
  each hold a lock of the same name and become servers; the modems of a port are
  then on two networks.
* `removal`: removing a component from Lua while the pass runs ends in a null
  entry of the list.
* `crash_report`: the crash text is written before the screen is closed, and the
  screen's destructor clears it away.
* `keyboard_first`: with a keyboard listed before its screen, closing the client
  leaves the terminal's thread with a destroyed keyboard.
* `key_of_the_removed`: a keyboard that Lua removes while a key is given to the keyboards
  is destroyed and then given the key: nothing keeps `disconnectKeyboard` from changing
  the vector that `Screen::push` goes through on the other thread.

## 4. What is proved

**`TerminalProofs`**, on `Worker`, whose thread the terminal's reader runs on (`raw_tty.h:14`).
For every number of starts: type correctness, the five
safety properties of the run, and `Spec => ServiceSpec`. The properties are not
inductive. `WorkerInv` adds where the mutex may be held (exactly by a thread in a hook
or by the owner in its method), that only the thread in `_pthread` can be alive,
and that `_running` holds exactly while it is; the forgotten threads are then
all done, which is what makes the overwriting of `_pthread` harmless.

**`PacketLinkProofs`.** For every size of header, buffer and sockets' buffers, any base of
a byte and any payloads whose size the header holds: `LinkIsSound`, types included. The
parts of it are not inductive, since they say nothing of the bytes that are under way.
`IInv` says what those are (`Stream`): there is a stream of bytes in which the sound frames
stand one after the other (`Placed`), and the reader, who has taken `d` packets, holds in
buffer and wire what stands behind the `d`-th of them, as far as the sound frames go
(`Carries`); without a damaged frame and a reset it is all of that, but for the payload
that `ModemDriver::send` has still to write. It is stated of one place in the stream and
not of the frames, so that a read, a write and a reset each have one lemma. `BufferInFrame`,
that the buffer holds no byte behind the next frame, is what keeps the reader in step
across `move`; `Ends` relates the states of the two ends. Under them are the lemmas of what
a call can do (`PreloadReads`, `ReadyNextPacketEnds`), and `SoundPacket`: at a sound frame
`readyNextPacket` waits for the rest or gives the packet. `HeaderGivesTheSize` is the round
trip of a size through the bytes of a header, by induction on the number of the bytes.

**`NetworkProofs`**, on `ServerElection`. For all finite sets of processes and inodes and all bounds:
type correctness, `ServersOwnTheirLock`, `OneServerUnlessReleased` and
`NoForgottenLock`. The inductive invariant ties the program counters to the lock:
who is past `flock` holds the flock of the file it has open, nobody else does,
and while nothing was released every open lock file is the one at the path.

**`ServerRelayProofs`.** For any clients, connections, rooms and bounds: types,
`PacketsComplete`, and `Spec => BusSpec`. `IInv` says of every connection that what was
relayed of it followed by what is under way is all that was posted on it, numbered
without a gap, which makes the packets in the log distinct; and of every client that
what it heard followed by what is under way to it are packets of the log at increasing
places, and all since its connection was accepted while it is not lossy. The second is
what maps a client's `got` to the places that `BroadcastBus` keeps; a step of `Relay`
maps to `Post`, one of `Hear` to `Hear` and the others to stutters.

**`MachineProofs`.** For every client.cfg, any spare components and sources and all
bounds: types, `SignalsInOrder`, `ListIsExact`, and `ComponentsExist` where the screen is
listed before its keyboards (`ScreenFirst`). `SignalInv` says that signals are told apart
by their source and that an event source holds its own only; then what one step moves
from a queue to the next leaves the selection of every source as it was. `ListInv` follows
the list through loading, the calls of Lua and the removal: what is alive is in `vec`
while the machine runs, in `doomed` while it is destroyed, each once, and a keyboard
on the screen that is not in a list any more was destroyed after it. Of a key that is being
typed it says (`UnderWay`) that the keyboards it has still to reach are connected, unless some were
connected or disconnected since it began, and that the screen is there. Without
`ScreenFirst` the part about the screen is false, as `keyboard_first` shows; what
`typing.changed` excepts is the race of `key_of_the_removed`.

**`TerminalProofs`**, on `GpuBinding`. For any gpus and screens: types, and `NoCallToTheDead`. Neither
side's pointer is right by itself: the invariant says that a screen's gpu is there
and draws on it, and that a gpu's screen is there and knows it unless it was contested.
Removing a gpu needs the second to clear the right screen, removing a screen the first.

**`TerminalProofs`**, on `TtyInput`. For any table of keys, any input and every way the reads
cut it: types, `MouseGrammar` and `KeysReleased`. `Following` relates what the mouse driver
keeps to the gesture an observer of its events sees; it is inductive as it stands, and
says why a report that comes at the wrong time tells nothing. `Released` says that every key
that is down is in the keyboard's cache, is one of the codes of its modifiers, or is one
that shift renames, and that there are no modifiers without something in the cache: what
`idle` lets go is then all there is. It is lost in raw mode, which keeps no cache, so the
invariant and the property are about a pty. That the codes of modifiers are told as they
are, and that no sequence is of one (`TtyAssumption`), is what the step of `Press` needs.

**`TerminalProofs`**, on `GpuCells`. For any characters, sizes of the window, texts,
rectangles and copies whose numbers are ints: types, with the resolution never beyond the
window, and `ShownAsRead`. A call is many sets, and between two of them the property is
false: a wide character is set over two cells, and what a copy forces over the half of
another leaves its whole alone. `Local` says of each cell what may be shown of it then, and
every set keeps it (`SetSound`), forced or not, as long as a locked cell is not set behind a
wide one that is whole (`Allowed`). That a copy never does this is by the order of its
sets, row by row and from the left (`RowByRow`): a locked cell of the buffer comes just
after the wide one it belongs to, or opens a row that nothing was set in (`ForcedPainting`).
Sets that are not forced keep every wide character whole (`SetPaired`). With all of them
whole, what `Local` leaves open is settled (`SoundIsShown`). `invalidate` is argued by what
it has written so far (`Expected`), as it starts from a terminal that shows nothing. That
`copy` reads no cell beside the screen, whatever overflows on the way, is `SpanInside`.
The calls are recursive functions over the sets to be made; `PaintedSteps` and
`RedrawnSteps` give the views they go through, by `SetInduction`.

Of the same calls `CopyMovesRegion` is proved, as an action property: `copy` is the only
action that can take such a step. The cells are buffered, then set one by one, and a set
also blanks or locks cells beside its own; `Moved` says of the sets made so far that the cells
further on have at most been blanked, that the characters that were set are still there,
and that every cell is what was set in it, or what it was when none was, unless it is
behind a wide character, old or new, which the property leaves out too. It is inductive because the
sets go row by row and from the left (`MovedStep`). `CopyOrder` says that they reach each
cell of the rectangle, `SpanX` and `SpanY` cut to the screen, and no other. The
attempt found that the property was not true of every rectangle: one that ends, or would
when moved, beyond the largest int is not copied at all (`gpu.cpp:254` and `260`), so it
is now stated for the others (`InInts`), and the run has a copy of each kind.

**`TerminalProofs`**, on `GpuColors`. For any colours, indexes and order of calls: types, with a
cell of depth 4 holding an index of the palette, and `OthersKeepTheirColour`. The distance
is a sum of squares over a constant, so that of a colour to itself is 0 and no side matters
(`DeltaIs`); that the nearest entry is at no distance when some entry is so follows from what
`Nearest` minimises (`NearestIs`); and `CubeGivesBack` says that the cube's six, eight and five
levels round back to the index they were made from, for each index but that of the
depth, 16, which is read as the number 8 and comes back too. `deflate8` chooses one of
two candidates, and when either is at no distance so is the chosen one (`DeflateKeeps`).

**`TextProofs`**, on `UnicodeText`. For any bytes, any font and texts of any length:
`TextIsSound`. The state says nothing but that a text is bytes; the argument is about what the
operators return, and it is about where each character begins. `Pieces` says that characters
and their places are the text, `Cut` that they are where `UnicodeIt::next` cuts, and
`CutUnique` that there is one way to be so: what is shown to be a cut of a text is what
`subs` answers for it. So the characters of a beginning of a text are the first of that
text's (`SubsOfPrefix`), and characters whose first bytes ask for as many bytes as they have
are cut alike in any order (`ClosedCut`), which is why reversing twice gives the text back
under the condition that the property names. Of `wtrunc` the invariant of its loop is that
what is kept is the beginning whose columns were counted, until the first character that
does not end before the column. A code point is its digits of six bits (`DigitsOfTwo`,
`DigitsOfThree`), and the first byte of what `char` makes of them asks for as many bytes as
there are but for what starts with 0xE0. The loops are recursive functions over the length,
argued as in `SubsequenceProofs`.

**`StorageProofs`**, on `FileHandles`. For all sets of handles, paths, inodes and bytes and every
width of an int: type correctness and all four properties of the run. `ReadInBounds`
rests on lemmas about the operators. `LootDiskUntouched` needs that a loot disk has no
writer, so there is nothing that a write, a seek, a close, a disposal or a kill could
hand to a file later. `ReadsAreContiguous` needs the position: it is where the program
put it plus what was read since, and inside of the data unless nothing was read, so that
no sum overflows and no zeros are filled in. `FilesAsWritten` needs what the files
are going to be: an unshared file has one open writer at most, and is what it should be
once that writer has handed over what it holds (`KeptFile`); a byte more is then the same
whether the stream kept it or not (`HandedAppend`).

**`StorageProofs`**, on `DriveSectors`. For any sizes of a sector and an int, any tiers and arguments:
the buffer has the capacity of its tier while the drive is on, `FoundAsLeft` and
`WritesWhereAsked`. The invariant of the first two is that the host file is what was last
meant to be in it, but while the destructor has emptied it. The third is by lemmas about
the offsets: one that has not wrapped is that of the sector or byte that was asked for.

**`StorageProofs`**, on `Settings`. For any configuration the program ships, any characters
and escapes, labels, lengths and limits: `SettingsKept`. Its invariant reads the directory as the next start
will (`Effective`, the client.cfg there or the shipped one) and as a write that is under way
will leave it (`WillBe`): the first is the configuration of the last orderly end, in
which every component has an address, so that none draws a new one, and the second what was
last flashed. While the client runs `_cache` is what the next start would read, which is why
a save that is skipped since nothing differs loses nothing. What is read is what was written
for plain labels (`PlainIsRead`), by induction on the length of the text.

**`StorageProofs`**, on `FileTree`. For any names, any strings that spell them, any number of
calls and whatever the host refuses of them: `CallsAnswerTruly`. The lemmas on strings say what `clean` leaves (`CleanIs`): one
slash in front, the names as they were, and a name at the end where one was, with or
without a slash behind it; so what `list` cuts off and puts together again is the name of a
node that is there (`ListIsTrue`). The invariant (`TreeInv`) is that what there is makes a
tree: above every node there are directories. `rename` needs it: nothing below a name that
is not there can be there, so that nothing is overwritten and what was moved is told
from what was not (`MovedTreeIs`).

**`NetworkProofs`**, on `InternetSockets`. For any streams, amounts and bounds and every size of the buffer:
`ClosesItsOwn` and `EndOnlyAtEnd`. The invariant says of each stream (`Sound`) that the bytes
in its buffer and on its wire follow the number of those that were read (`InRow`), and
that there are none before it is connected and none on the wire once its end was found;
of the descriptors that a stream that has not been closed has none or one that the kernel
has down as its own, and that who waits for its destructor was closed. Of the operators of
`Connection` there is a lemma each (`PreloadShifts`, `PreloadHas`, `MoveDrops`), from which a
read gives the next bytes (`ResultsGive`); that `LowestFree` is nobody's is by counting
(`LowestIsFree`). Every action is then shown to be a step on one stream (`Moves`), and
the invariant is argued once for those.

**`NetworkProofs`**, on `HttpResponse`. For any output, any lines that are read as a status,
chunks and buffers of any size: types and `ResponseComplete`. The property speaks of what
Lua has and of what was written; between them are the bytes on their way. The invariant
(`Answering`) says that what was written is a text that cuts into the lines the response
was made of (`took`), followed by the buffer and the pipe, that nothing is in the pipe once its end was found,
and that a response that is given left no newline in the buffer; `Fits` says that the
response has the status and the table of those lines. `CutSplits` and `CutConcat`
say that a text cuts in the same lines wherever the reads divide it, by induction on its
length.

**`NetworkProofs`**, on `ModemPorts`. For any modems, ports, limits and arguments: types,
with each modem's inbox naming packets of the air in increasing order, and
`HeardAsSent`. A packet is a header followed by one or two fields for each argument. `FieldsAt`
says where the fields of each lie, and `ReadsOne`, by induction, that the reader stands at the
first of them when it has read those before it, whether or not the packet names a target
(`MessageRead`). What a pass appends is then one message for each event that is for the
modem; since the inbox is increasing, the place of a message is the number of those that are
for it and are not later (`TellingSteps`, `RankIn`).

**`SubsequenceProofs`.** The lemmas about `Select` that the relay and the machine need:
what it makes of an empty sequence, an appended element, a concatenation, a head. They
are about a recursion over the length, and the library's induction rules take an
operator as a parameter, which no backend can instantiate. `SetInduction` states
induction for a set of numbers instead, and follows from the well-foundedness of `<`;
every induction here is on the set of the numbers for which the claim holds.

The theorems assume what the modules' `ASSUME`s say of the constants and nothing else,
but `ScreenFirst` where it is named; TLC evaluates the assumptions in every run. The type
invariants of the modules with proofs need no run of their own any more.

*Only model-checked:* liveness (`StopReturns`, `EveryoneServed`, `PostsAreRelayed`,
`SoundFramesArrive`, `ReadyIsSignalled` and those of `Machine`), since the prover does not
handle `ENABLED`.

## 5. What is not modelled

* In modelled parts: packets with a negative size in the header (no writer of
  this program produces one), a Lua program that removes its own computer,
  memory accounting and users of the Computer, a connection of the relay that is reset by a
  client which closes it with bytes unread, a full disk (`write` does not look at its stream and answers true),
  handles that outlive their Filesystem (`filesystem.cpp:44`, when it comes before the
  computer in client.cfg), what the host makes of `.` and `..`, a host that answers a question about a path wrongly
  or fails in the middle of reading a directory (`fs_utils.cpp:234`, where the increment
  throws), labels with a carriage return or a zero byte, Lua's escapes of more than one character and
  labels that end the long brackets they are put in (`value.cpp:398`), and the process of a
  request's child (`internet_http.cpp:151` closes its id as a descriptor).
* In the model and in no property, since nothing promises otherwise: what the labels that are
  not plain come back as, `read(0)` tells the
  end of a stream early, the end is not signalled, byte offsets -1 to -511 of a drive
  fail an assertion, what `mkdir` answers is not looked at.
* Whole parts, with the reason for each: `components` in `PROJECT.json`. They are pure
  functions (checksums), conversions (values), layout (escape sequences) or one call to
  the host, and keep no state that a model could take through several steps.

## 6. Plan

FileHandles under Machine's teardown, for handles that outlive their Filesystem.
