# CosmosEx: models, checks and proofs

CosmosEx connects an Atari ST to a Raspberry Pi: hard disk, floppy drive,
keyboard, network and files come from programs on the Pi. This directory holds
TLA+ models of the parts of it where processors, interrupts, buffers and
time-outs meet, the TLC configurations that check them and proofs for TLAPS.

    tlc -workers 2 -config AcsiRetry.cfg MCAcsiRetry       # model checking
    tlapm GemdosFindProofs.tla                              # proofs

`PROJECT.json` lists the components, the runs, the source lines of each
definition, the findings, the hazards and the theorems.

## 1. The system

    Atari ST programs, TOS
        | hooks and drivers: ce_dd_prg, cosmosex_fakesting, ce_conf, ...
        | ACSI / SCSI bus                 | floppy cable     | IKBD serial line
      Hans (STM32, ce_hans_fw)          Franz (STM32, ce_franz_fw)
        | SPI, ATN                        | SPI, ATN, UART
      Raspberry Pi: ce_main_app (core thread, services, worker threads)

| Component | State | Operations and partners | What makes it correct |
|---|---|---|---|
| Atari driver (`ce_dd_prg/hdd_if.c`, `acsi.c`) | current command, retries, DMA, status | first try, retry bit, 16 retries, 3 s time-outs; talks to Hans byte by byte | a call ends; good status means done; the data are those of the command |
| Hans (`ce_hans_fw/main.c`) | command state, SPI packet and DMA flags, `cmdBuffer[]`, `shouldProcessCommands` | command, read, write and status phase, firmware version each second; interrupts, 0.5 s time-outs | never stuck; a late answer does no harm |
| Core thread, ACSI (`ccorethread.cpp`, `retrymodule.cpp`, `acsidatatrans.cpp`, `conspi.cpp`) | poll state, stored command and answer, remaining packet length | poll of both chips, dispatch to modules, replay of a READ, transfers with 1 s time-outs | a READ runs once; the slot is consistent; the poll is reached again |
| Franz, floppy (`ce_franz_fw/main.c`) | head, requested, limiter, streamed position, stream flags, packet, commands | main loop, step and DMA interrupts, index pulse, packets to the Pi | only the right track is streamed; the right track arrives |
| Core thread, Franz (`ccorethread.cpp`) | floppy configuration and disk change flags | firmware version, track and sector packets | configuration and disk change reach Franz |
| Core thread, Hans' firmware version | bus IDs, current and next configuration words, LEDs | packet each second, settings reload, image LED | the configuration converges, LED and slot agree |
| Image silo (`floppy/imagesilo.cpp`, `mfmcachedimage.cpp`) | slots, encoded images, encode queue, current slot | add, swap, remove, encode (own thread), tracks for Franz | a slot's tracks are those of its image |
| Franz UART (`ce_franz_fw/main.c`) and the reader (`ikbd/ikbd_st.cpp`) | two circular buffers, two data registers, TXE enables, half a pair | three UART interrupts; mark and byte for the Pi, bytes of the Pi and of the keyboard for the ST | marks and data stay in step, no byte is forgotten |
| IKBD emulation (`ikbd/`) | hotkey counters, keyboard joysticks, mode, what the ST was told | USB keys, keys and sticks of the ST, mode commands, settings | no key or stick is stuck |
| GEMDOS driver: files (`gemdos.c`, `gemdos_rw.c`) and translated disk | read-ahead, write buffer, two positions, count of bytes to the end | open, create, read, write, seek, close over the ACSI layer | the buffered file behaves like a file |
| GEMDOS driver: searches (`gemdos.c`) and find storages | DTAs, one block of entries, a list per search on the Pi | Fsetdta, Fsfirst, Fsnext | each search gets its own entries, lists are released |
| Network: handles (`netadapter.cpp`, `con_man.c`, `tcp.c`) | slots on the Pi, states and handles on the Atari | open, listen, info, close, VBL update | a handle is one connection, its state is true |
| Network: bytes (`readwrapper.cpp`, `con_man.c`) | socket, peeked characters, copies of count and state | characters, blocks, lines, NDBs | no byte twice, the end is told, not early |
| Names (`filenameshortener.cpp`, `dirtranslator.cpp`) | maps long to short | short names | short names are unique and stable |
| Native SCSI (`native/`) | devices, bus IDs, media change, sense | attach, detach, read, write, sense | sense and media belong to the ID |
| Worker threads (mounter, downloader, periodic thread, device search) | queues, results | system calls, shell commands | a request is done once |
| Hans SOLO mode and SD card | SD state, double buffer | sectors without the Pi | data and errors reach the bus |
| Settings, configuration screens, web server, display, streaming, update, flashing, CPLD, test programs | - | user interface, file and device I/O | not modelled (section 8) |

The hard parts: three processors that wait for each other with different
time-outs; answers without sequence numbers; interrupts that change flags the
main loops test; flags that one side clears before the other has acted; threads
of the Pi that share flags and images without a lock. `hazards` in
`PROJECT.json` lists them at their lines with the properties that cover them.

## 2. Modules

| Module | Content |
|---|---|
| `CeCall` | abstract: what a call of a CosmosEx module promises to a program on the Atari |
| `AcsiRetry`, `MCAcsiRetry` | driver, Hans and core thread for one command at a time, with all retries |
| `AcsiRetryProofs` | types, "a READ runs at most once", `SlotConsistent`; for a patient driver: what a call returns is true, and the refinement of `CeCall` |
| `FranzFloppy` | Franz' main loop and interrupts for the floppy, with the core thread |
| `FranzFloppyProofs` | types, "no stream while a track is received" and `StreamsTheHeadsTrack` |
| `FloppyImages` | silo, encoding thread, core thread, web server and Hans: from the slots to the image Franz streams |
| `FloppyImagesProofs` | types, "no LED without image", "no other image without disk change", the encoding that is due, the slot that follows the LED |
| `FranzUart` | the bytes between ST, keyboard and Pi: interrupts, buffers, marks, the reader |
| `IkbdKeys`, `MCIkbdKeys` | keys, hotkeys and joysticks of two keyboards, and what the ST believes |
| `IkbdProofs` | of both: types, commands and keys in order, packets whole, back in step; counters, nothing stuck, the wait ends |
| `PlainFile` | abstract: a file with a position |
| `GemdosFile` | an open file of the translated drive, with both its buffers and both its positions |
| `GemdosFileProofs` | `InStep` and the refinement of `PlainFile`, for any sizes |
| `GemdosFind` | directory searches over one buffer, and the lists on the Pi |
| `GemdosFindProofs` | types, order and end of a search, release of its list |
| `NetHandles` | connections: slots, handles and states on both sides |
| `NetHandlesProofs` | types, "a handle is its own connection", "an open slot is held", "closed is true" |
| `NetStream` | the bytes of a connection and the calls that fetch them |
| `NetStreamProofs` | "no byte twice", buffer and socket in step, "the end is the end" |

Of a command, `GemdosFile`, `GemdosFind`, `NetHandles` and `NetStream` take this
much of `CeCall`: it is done and answered, or it fails after all retries, before
or after it was done. They are not composed with `AcsiRetry`,
and do not have every way a command can end there. `NetHandles` has the
`TCP_OPEN` that is repeated and carried out twice with a good end, since a slot
is lost with it; a second run of the other WRITEs changes nothing that the
models keep, or is one of the faults (`FwriteFault`). None of them has the old
answer of an earlier READ of the same bytes, which needs a lost first attempt.

### AcsiRetry

`drv` is the driver inside `hddIfCmd_withRetries_worker()`: waiting with the
command (`cmd`), in the data and status phase (`data`), or between calls.
`hans`, `inCmd` are Hans' `state` and whether it is inside
`handleAcsiCommand()`; `READING` and `GETTING_STATUS` split `onDataRead()` and
`onReadStatus()` where they wait for the SPI. `pkt`, `spiIdle`, `cmdBuf`,
`rdBuf` are the armed DMA packet and the receive buffers. `rpi` is where the
core thread is inside `CCoreThread::handleAcsiCommand()`, `rm` is RetryModule.
Each action is a handler up to the next point where it waits. A tag
`[cmd, call]` says which execution data come from; no code looks at `call`.

Abstractions: a transfer is one block; a packet has two parts (`left`), and
only a command packet stays half clocked; the bytes of the command reach Hans
in one step; time-outs may happen whenever the code waits, except that the
driver's 3 s outlast Hans' waits of 0.5 s (only READ data take longer). The
answers that carry only a status are the answers of a WRITE without data.
`Patient` says that the driver does not give up a call while the Pi runs its
module or has not read it: `ce_dd_prg` tries 17 times 3 s. A program that gives
up after one retry (`ce_conf`) is not patient: then a later WRITE may be
answered by data of an earlier one (`WriteDataMatches` and `NoForeignData` fail
for `Patient = FALSE`), the other invariants and all theorems still hold.

### FranzFloppy

`loop` is the section of the main loop Franz is in; a step interrupt
(`HeadMoves`), a DMA interrupt (`PacketDone`) or a step of the Pi may come
between any two sections. `store` and `track` are the two places inside the
track request where an interrupt matters. A position is a track and a side. The
packet's header and its rest are two steps of the Pi; main loop passes may lie
in between, because the condition that should exclude it tests a local
`spiDmaIsIdle` that is always TRUE (`main.c:127`). `due` is whether the 15 ms
since a request have passed in this iteration. `trackStreamedCount` is counted
to 1: the next pulse finds the "two rotations". `indexCount` is counted to
`FwPulses`, 5 in the code and 1 for TLC: a firmware version with each pulse,
which strong fairness (section 4) keeps from being due in every iteration.

Abstractions: whether the ST wants the stream, and when the gate of a write
opens, are free choices; the content of the written sector (dropped by the Pi),
the position inside the stream, MFM times, the UART and `hostIsUp` are left
out; arming a track packet and setting `weAreReceivingTrack` is one step (the
packet's 15 kB take milliseconds); a packet is only given up before the Pi has
read its header. `events` bounds steps, lost packets, image and configuration
changes; `lost` and `torn` are ghosts: a packet was given up, a step pulse hit
the main loop inside its own request.

### FloppyImages

`imageFile` and `encImage` are the slots of `ImageSilo`, `encodeQueue`,
`encoding` and `running` its thread (`encoding.open`: the file was there when
the thread opened it), `currentSlot` what Franz is served from. The core thread
is in its poll or inside `handleFwVersion_hans()`, which is two steps:
`ComposeForHans` up to the flag it clears, `ServeHans` from the transfer on.
Threads that do not wait for it (encoding, web server) may come in between.
`current`, `skipNextSet`, `newLed`, `lastLed`, `prevRunning` and
`ledAfterEncode` are its members. `led`, `config`, `pkt` and `cmdBuf` are Hans.

Abstractions: a slot and its LED are one number, the empty slot (3) and "no
LED" (0xff) are `EMPTY`; `newLed = None` stands for `setNewFloppyImageLed`
being off; `config.imgs` is both `enabledImgs[]` and `configWords.fdd`, which
are always stored together; bus IDs are values; the copy of an encoded image and
the end of `floppyEncodingRunning` are one step; Franz is reduced to the disk
change it is told (`DiskChange`) and a track it asks for (`SendTrack`), its
losses are in `FranzFloppy`. `AnswerLost` is a bus command that arms a packet
into `cmdBuffer[]` before the main loop has looked at it. `used` is a ghost:
which of the commands happened that a property excludes.

### FranzUart

The actions are the interrupts (`Usart1Receives` and so on; the handlers have
one priority and do not nest), the two shift registers (`Line1`, `Line2`), the
Pi's `read()` of any number of bytes (`RpiReads`), a packet of a USB device, and `hostIsUp`, which
changes at any time. `Divided` is the Pi's parser of pairs of a mark and a byte:
it goes forward over the bytes with the half of a pair that is kept from one
read to the next (`Paired` takes one byte). A byte may have the value of a mark. The register `dr` is
empty exactly if TXE is set. Baud rates and overruns of the receive registers
are left out. `lost` and `overtook`
are ghosts: full buffers, and a key that went straight to the ST while bytes
of the Pi were still on their way, which the switch of `hostIsUp` allows.

### IkbdKeys

Keys are those that mean something to `handleHotkeys()` and one keyboard
joystick; all others only pass. `ikbd` is the object with its counters, `told`
what the ST has been told and must believe. `StKeys` handles a batch of bytes
of the ST's own keyboard as `processKeyboardData()` does, in one loop
(`AfterKeys`) whose early `skip` also skips what follows. `Init`, `Next` and so
on are called `IkbdInit`, `IkbdNext` here, because `IkbdProofs` extends this
module and `FranzUart`. Mouse, clock, memory and key codes are
left out. Four ghosts name what the code does not guard against. `unsteady`: a
key's meaning changed while it was held. `forgot`: the counters were reset, or a
keyboard was removed, while a hotkey was held. `skipped`: the last key event
came with the translation skipped beforehand, by a program or by an earlier key
of its batch, so that the end of the wait for the release of a hotkey was not
looked at. `carried`: a key that acts as a joystick was sent as a key, because
of such a batch or of a wait left over from one. So a batch whose second byte
releases the last key of a hotkey leaves the keyboard waiting with no key held
(`ikbd_st.cpp:618`, `ikbd_usb.cpp:741-745`); `WaitsForRelease` says that the
next key ends it.

### GemdosFile and PlainFile

A call of the program is one action, with `...Fault` actions for a command of
it that fails; GEMDOS is not reentrant. `file` and `hpos` are the FILE on the
Pi; `rBuf`, `wBuf`, `currentPos`, `bytesToEOF` the driver's `TFileBuffer`.
`PlainFile` is instantiated with the content as the program sees it
(`Contents`, the write buffer included). `stale` and `plain` are ghosts: a seek
inside the read-ahead leaves `bytesToEOF` behind (`gemdos.c:721`), and `plain`
turns false where the code does not keep the promise: a fault, a big read
with a stale count, an odd byte lost before a big read, a read after a write
and a write after a read-ahead that nobody gives up, a seek that is refused. Each of these conditions is an operator next
to the action (`LosesOddByte`, `ReadsBehindWrite`, ...), so that `ActsAsAFile` says
exactly when a program can rely on its file. Handles, paths, attributes and the
sector size of 512 (`Sector`) are reduced.

### GemdosFind

`area` is the reserved part of a DTA, `buffer` the one block of entries,
`validFor` and `forUs` the two statics that say whose it is, `storage` the lists
on the Pi, and `search` what each program has seen. A directory is named by the
number of its entries. `Move` is a program that copies its DTA and goes on with
the copy, which the driver means to allow (`gemdos.c:378`). The copies follow the
code also where it gives them entries of another search. There are two kinds: a
copy made at the very address the buffer is valid for (`gemdos.c:431`), and one
whose original DTA begins a new search, which replaces the list of both on the
Pi (`translateddisk_gemdos.cpp:279-296`). Two ghosts in `search` mark them: `own`
is lost by a copy whose next entries are those of another search, `alone` by
searches that share a list. Without `own`, TLC violates `InOrder` in six states:
search a directory, copy the DTA, search another directory with the original,
and go on with the copy. Not modelled is what the Pi sends when such a copy is
further than the new list is long (`Beyond`), and the bytes that TOS leaves in
the reserved area of its own searches are taken to be no address of a list.

### NetHandles and NetStream

`NetHandles`: `net` is the world, `slot` the Pi's connections, `state` and
`inUse` the driver's copy, `holds` and `told` what programs have. `Seen` is
`updateCons()`; every update, forced, by a call or by the VBL interrupt, is the
same command. A peer that hung up may have left bytes (`left`), and is only found
gone when they are read (`netadapter.cpp:931`); one that cannot be reached
(`unreachable`) is an error that `updateCons_active()` does not know, and keeps
the slot connecting (`netadapter.cpp:894`). `LostOpen` is a `TCP_OPEN` that ran
while its answer was lost, repeated or not. `Slots` may exceed `MaxHandle`, as in the code: the driver opens
handles it does not update. `NetStream` has one connection: bytes are numbers,
`taken` those the socket gave up, `chars` and `used` the characters
`CNget_char()` peeked at, whose removal goes with the next command. What arrives
while a call runs (`Meanwhile`) comes between its update and its command.
`careful` is a program that only uses calls of one command. `cut` and `forgot`
are ghosts: the Pi closed a socket with bytes in it (the count and `poll()` are
two steps, `netadapter.cpp:929`), and a removal was lost. UDP, sending and ICMP
are left out.

## 3. Runs

| Run | Question | Bounds |
|---|---|---|
| `acsi_retry` | invariants, refinement of `CeCall`, ends of all waits | 2 READs, 2 WRITEs, 2 calls, 2 retries |
| `acsi_retry_hidden` | violated: a retry does not affect the modules, or at least a READ is fresh | 1 READ, 1 WRITE, 3 calls, 1 retry |
| `franz_floppy` | stream and head, with writes, losses and torn requests; stream resumes, track is asked for and arrives, disk change is a pulse | 2 positions, 2 events |
| `franz_image` | violated: the image in the slot is streamed in the end | 2 images, 1 event |
| `floppy_images` | slots, LEDs, bus IDs and disk change agree, at once or in the end | 2 slots, 1 file, 2 bus ID values, 2 events |
| `franz_uart` | order, wholeness, resynchronisation, delivery | buffers of 2; 4 bytes, 2 of them a packet or not; 2 changes of `hostIsUp` |
| `ikbd_keys` | hotkey counters, stuck keys and sticks, the wait | 2 keyboards, 5 keys, 4 keys held, batches of 2, 1 outside change |
| `gemdos_file` | refinement of `PlainFile`, both positions | sectors of 2, 5 calls, 1 fault |
| `gemdos_read` | violated: reads of any size give the file | 4 calls, no fault |
| `gemdos_find` | order, end and release of searches | 3 DTAs, 3 directories, 7 calls, 1 fault |
| `net_handles` | handles, slots and states | 2 slots, 1 of them updated, 3 connections, 1 fault |
| `net_stream` | no byte twice, buffers in step, the end | 5 bytes, 1 fault |

Why the bounds are enough. Two calls give every confusion of one call with the
one before it, which is all RetryModule and the buffers can hold (one command,
one packet, one answer); two retries give an attempt that is overtaken by a
retry and one that follows it. Two positions are "the head's track" and
"another one" for the limiter's single entry; two events allow there
and back, or one way and one loss. Two slots, the empty one and the configuration image are
every pair of a selected and another slot. A UART buffer of 2 is full after one
pair, so pairs are cut by overflow and by reads in every way. A sector of 2
has an odd and an even byte, and block sizes of 6 and 8 give reads and writes
of less than, exactly and more than a sector and a block. With two entries per
block, searches of 0, 1 and 3 entries end in, at and behind a block; a third
DTA and two storages run out of lists. Three connections over two slots reuse a
slot, once updated and once not. Five bytes with 2 characters peeked, sectors
of 2 and NDBs of 3 leave rests in every buffer. One fault is what the
properties allow for (`Released` counts it, the others exclude or survive it).

The deadlock check is off where a bound on the program's calls stops the model;
in the floppy and keyboard runs it is on.

What they show: a READ's module runs at most once per call (`ReadRunsOnce`); a
good READ returns data of the same command (`NoForeignData`), a good WRITE was
carried out (`GoodWriteApplied`) with its own data (`WriteDataMatches`); what
RetryModule would replay belongs to its command (`SlotConsistent`); the calls
implement `CeCall` (`CallSpec`); every call ends (`CallEnds`) and Hans and the
core thread get back to their loops (`NobodyStuck`). Franz has its outputs off
from the moment a track request is armed (`NoStreamWhileReceiving`) and, as
long as nothing was lost or torn, only switches them on with the head's track
(`StreamsTheHeadsTrack`); the flag that keeps them off is always taken back
(`StreamResumes`); the head's track arrives (`TrackCatchesUp`) or is at least
asked for (`AsksForTheHead`); the changed state of the disk change pin ends
(`DiskChangeReleased`). The configuration of Hans becomes that of the Pi though
it is compared one packet late and answers get lost (`ConfigArrives`); Hans
lights no LED of a free slot (`LedIsEnabled`); the encoded images become those
of the slots (`SlotIsEncoded`) and Franz gets the one the LED shows
(`LedIsStreamed`), never without a disk change (`ChangeAnnounced`). `Swap`
exchanges the names only: the encoded images stay where they were, so
`SlotIsEncoded` says nothing of swapped slots.

The ST's commands arrive whole and in order, whatever their values
(`CommandsInOrder`), so do the keyboard's bytes (`KeysInOrder`) and the packets
of USB devices (`PacketsWhole`); after an overflow the pairs are in step again
at once (`BackInStep`); nothing waits in a buffer whose interrupt is off
(`AllArrives`). The hotkey counters are the keys held (`CountsAreKeys`), the
ST believes in no key or stick that is released (`NothingStuck`), and the
wait after a hotkey ends with its last key, or with the next key event if that
one was skipped (`WaitsForRelease`). A buffered file is a
plain file under the named conditions (`ActsAsAFile`), because its positions
differ by what is buffered (`InStep`). Searches are in order (`InOrder`), but for
two kinds of copies, and as long as they share no list complete (`EndsAtEnd`) and
released (`Released`). A handle is its connection (`HandleIsOwn`), a slot that
nobody holds costs a lost answer of `TCP_OPEN` or a failed close (`OpenIsHeld`),
"closed" is true (`ClosedIsTrue`) and told in the end to a program that asks
(`EndIsTold`), except while bytes are left, or a peer cannot be reached. Bytes come once (`NoneTwice`),
the peeked characters are the next ones (`InStep` of `NetStream`), and the end
is the end (`EofIsEnd`) and is told (`EofIsTold`).

### Findings

1. `ImageCatchesUp`: because of the hidden `spiDmaIsIdle` a disk change command
   may be marked as read before it has arrived, and is overwritten by the next
   packet (`ce_franz_fw/main.c:127`); the old image is streamed for good.
2. `ReadsTheFile`: a big read that finds an odd byte in the read-ahead loses it
   or reads it twice (`ce_dd_prg/gemdos_rw.c:155`).
3. `RetryHidden`: `retrymodule.h:6-8` says that a retry does not affect the state
   of the modules, and `ccorethread.cpp:528` that a command which is not buffered
   is received for the first time. A WRITE whose status was lost is done again
   (`ccorethread.cpp:527`), and an identical READ whose first attempt was lost is
   answered with the data of the previous one (`retrymodule.cpp:40`). The run
   shows both in one behaviour. `CeCall` names them as what a program has to
   expect, with their bounds: a WRITE runs at most once for each attempt, and an
   old answer needs a retry and is that of the last module that ran.

Disagreements the models contain but no run repeats: a copied DTA that gets
entries of another search, against `gemdos.c:378`; the wait that outlives its
hotkey after a batch (`ikbd_st.cpp:618`); after a track packet was
given up, the limiter suppresses every further request of that position
(`ce_franz_fw/main.c:199`), against `main.c:290`; an encoding that fits between
two looks of the core thread has no edge, and the LED of the inserted
configuration image is not set (`ccorethread.cpp:332`); `remove()` deletes
`/ce/app/ce_conf.st` (`imagesilo.cpp:335`); setting the selected slot again
clears its new content before anyone announced it (`imagesilo.cpp:387`). The
properties of the runs name them as exceptions (`lost`, `used`, `own`, `skipped`).

## 4. Fairness

`AcsiRetry`: weak fairness of the driver's time-outs, of Hans inside a command
and of the core thread. The code's waits are loops over hardware timers, so each
of them ends; a module on the Pi is assumed to return. No fairness for new
calls or the firmware version.

`FranzFloppy`: weak fairness of the main loop (including the 1 s time-out of
`spiDma_waitForFinish()`) and of the core thread. Strong fairness, because a
pulse takes 200 ms, a request is due after 15 ms and the firmware version is
due each second, of which thousands of iterations see nothing: the index pulse
comes again and again, an iteration without a pulse and without a pending
firmware version too, and a request that waits is due in an iteration without a
pending firmware version. Nothing is assumed about the head, losses or changes.

`FloppyImages`: weak fairness of the encoding thread, of Hans' packet each
second and its main loop, and of the web server's call. Strong fairness of what
the core thread does between two packets of Hans: each iteration looks at the
clock and at both chips, a packet of Hans takes milliseconds of a second. Franz
asks for the track again after each disk change (`AsksForTheHead`). No
fairness of commands, buttons, settings and losses, which `MaxEvents` bounds.

`FranzUart`: weak fairness of each interrupt, of the shift registers and of the
reading thread: an enabled interrupt is served, a line shifts, `select()` wakes
the thread. `NetHandles` and `NetStream`: nothing of the VBL interrupt, which is
only installed when a program sets a handler for ICMP packets
(`fakesting/main.c:126-131`, `icmp.c:147`); all else is polled, so the fairness
is that of a program which goes on asking (`AsksAnew`, `AsksAgain`) or reading
(`GetCharAnew`) for more than 100 ms, after which its call updates first. A
program that does not ask is told nothing.
`GemdosFile`, `GemdosFind` and `IkbdKeys` have no liveness: their calls end in
one step.

## 5. Proofs

The constants are arbitrary sets and numbers that satisfy the assumptions in the
modules. The type invariants are theorems and are not repeated as runs.

`AcsiRetryProofs` proves `TypeOK`, `ReadInv` and `ReadRunsOnce` for any
commands, retries and calls, patient or not. `ReadRunsOnce` alone is not
inductive: it says nothing of the copies of a command that are still on their
way. `ReadInv` adds why they are harmless: once the module of the current READ
has run, whoever can still bring the command to the core thread (the driver, an
armed packet) has the retry bit in it, and RetryModule holds this command as a
READ; while it runs, there is no second copy without the bit. Packets of earlier
calls cannot be newer than the packet being served (`RunInv`). `SlotConsistent`
is proved through `SlotInv`: the command and the data of the slot are stored at
different times, and in between a module runs whose command is the slot's;
before the next poll either its data are stored or the direction is a WRITE.

The same module proves, for a patient driver, `NoForeignData`,
`GoodWriteApplied`, `WriteDataMatches` and the refinement of `CeCall`
(`RetryImplementsCall`): every step of driver, Hans and core thread is a step of
the abstract call or a stutter. The driver has to be patient: its last timeout
outlasts a running module (`PatientInv`), so that no module of an earlier call
answers into the packet of a later one. The inductive invariant `CallInv` then
follows the attempt that Hans serves (`Serving`): while Hans waits, the packet of
the command is clocked to its end only with an answer to this very command, or
with zeros that no state mistakes for one (`WaitInv`); in the data phase of a
READ the core thread sends data of this command or nothing (`ReadPhase`); in that
of a WRITE a good status is only on its way after the module ran
(`WritePhase`). `MadeInv` says that data anywhere on the way come from a run. A
retry that finds the module done needs `ReadInv` and `SlotInv`.

`FranzFloppyProofs` proves `TypeOK`, `StreamInv` and `NoStreamWhileReceiving`,
whatever is lost and wherever step pulses hit. `StreamInv` is needed because the
flag is set twice and cleared by interrupts: a request can only be due in an
iteration that began with the outputs off, and they stay off until the packet is
armed, even if another packet's end clears the flag in between.
`StreamsTheHeadsTrack`, an action property, follows from `StreamInv` and
`HeadInv`: what was requested last is the head's position or a request is
pending, and it is in the data, being put into the packet, or on its way with
that position in the packet, from which the core thread reads it late. It is
also what `TrackCatchesUp` needs besides fairness (`HeadInvHolds`).

`FloppyImagesProofs` proves `TypeOK`, `LedIsEnabled` and `ChangeAnnounced` for
any number of slots, images, bus IDs and events. `ChangeAnnounced` is inductive
with the types, because it follows the mark from hand to hand: a waiting request
for the configuration image (whose slot is current before it is encoded), the
mark of new content, the disk change set, the disk change sent, the track. Two
more theorems are the parts of liveness properties that are not liveness.
`EncodingDueHolds`, of `SlotIsEncoded`: the last request for a slot is for its
file, or the thread works on it and opened it, or it is stored, and no older
request in the queue comes over it; this is inductive as it stands.
`SlotFollowsLedHolds`, of `LedIsStreamed`: the current slot is that of the last
LED Hans told of. TLC checked both with 2 images and 3 events before.

`NetHandlesProofs` proves `TypeOK`, `HandleIsOwn`, `OpenIsHeld` and
`ClosedIsTrue` for any number of slots, updated or not, connections and faults.
The inductive invariant `HandlesInv` adds to the three that a connection not yet
opened is nowhere (`Unopened`), that a slot's status is never "closed" with a
connection (`StatusIsOpen`), and that without a fault such a slot is known to the
driver (`OpenIsKnown`). `OpenIsHeld` counts slots, and a count is not inductive by
itself: `Adrift` are the slots that no program will close, those whose connection
nobody holds under that handle or whose handle the driver has forgotten. Each
lost answer adds one at most and nothing else adds any (`FewAdrift`); the second
half is needed because a close of a forgotten handle does nothing. `ClosedIsTrue`
needs that a forced update follows each opening: the old state of a reused slot
must not be told to its new holder.

`GemdosFindProofs` proves `TypeOK`, `InOrder`, `EndsAtEnd` and `Released` for
any DTAs, directories, block sizes, storages and faults, copies included.
`InOrder` is kept by `FindInv`: each search of this driver has in its area the
number of entries seen (`Place`); if it is its own, what it has seen is in order
and what the buffer holds for the DTA it is valid for are the next entries
(`Buffered`); and if it is its own or shares its list with none, the Pi's list of
its address is its directory, if there is one. The ends need `EndInv`: a search
that is alone has an address no other has (`Apart`), and `Closing`, which follows
the number of faults: without any, the list of a live search is there and neither
the place nor the buffer is beyond it; with at most one, an ended search has no
list, because a lost `onFsnext_last()` is covered by the release in `onFsnext()`
and the other way round.

`GemdosFileProofs` proves `InStep` and the refinement of `PlainFile`
(`ActsAsAFile`) for files, reads, writes, seeks and blocks of any size. The
invariant `FileInv` is conditional on `plain`: a fault or a mix of calls that
gives the promise up needs nothing more, since `plain` never comes back. Besides
`InStep` it says that bytes to be written, or a count to be asked for again,
leave no read-ahead (`Buffered`), and that the count of bytes to the end may be
wrong only where nothing is left (`Counted`). The lemmas are about parts of a
file (`Part`): a read is a concatenation of adjacent parts, and two writes behind
each other are one (`OverlayTwice`). A big read needs `BlocksLinear`: the blocks
follow each other at the position where the used bytes of the read-ahead end,
exactly unless the odd byte is lost.

`NetStreamProofs` proves `NoneTwice`, `InStep` and `EofIsEnd` for streams,
requests, sectors and buffers of any size and any number of faults. Its
invariant `NetInv` has four parts: the peeked bytes are the next ones of the
socket (`Peeked`); a socket is only closed with the peer gone and, unless `cut`,
nothing in it, and the driver only takes a connection for closed when its socket
is (`Ended`); what the program got is behind what comes next, as long as the
socket or the buffer can still give something (`Behind`); and for a program of
single commands it is all there was before (`NoGaps`). The proof reduces the
calls to three effects of a command: it removes the used bytes and `r` more, of
which the program gets the first `m` (`Removes`), it fills the buffer, or it
never ran (`NeverRan`). For a block this needs that its parts reach further and
further (`ReachRanges`), so that the parts that ran are there in the socket.

`IkbdProofs` proves `CommandsInOrder`, `KeysInOrder`, `PacketsWhole` and
`BackInStep` of `FranzUart` for buffers, inputs and reads of any size. None of
them is inductive: they speak of what has arrived, while bytes are on the way in
registers, buffers and a half pair. `Path` is all that is on the way to the Pi,
`ToSt` all that is at or on the way to the ST. `StepKinds` sorts the steps of
`Next` by what they do to these two: nothing (an interrupt or a line only passes
a byte on), a byte with its mark is appended to `Path` (whole, or cut by a full
buffer), a byte or a packet is appended to `ToSt`, or a read takes the front of
`Path`. `Final` is what the Pi will have got of all of `Path`; since the division
of a concatenation continues with the half of its first part (`DivConcat`,
`AfterConcat`), a read at any place leaves it unchanged. So only the appends
remain to be proved: `CommandsInv` says that `Final` is what the ST sent and no
half is left, `KeysInv` that the keys at the ST, on the way to it and on the way
to the Pi are in this order those sent, `WholeInv` that no packet in `ToSt` is
cut. `StepInv` counts: the marks taken for data, together with a mark that is
kept as a half, are at most the bytes lost, and each loss costs at most two
commands, of which a kept mark has already cost one; without the kept half a
mark that became data with the next byte would not be paid for. `AwakeHolds` is
the part of `AllArrives` that is not liveness: no byte is in a circular buffer
while the transmit interrupt is off.

It proves `CountsAreKeys`, `NothingStuck` and `WaitsForRelease` of `IkbdKeys` for
any keyboards, batches and sequences of events. `KeyInv` holds between calls, and
`InCall` is the same for the state inside a call: a batch keeps it because each
key does (`OneKeyKeeps`), by induction over the prefix handled. `NothingStuck`
is not inductive, since it does not say how the release of a key will be told:
`Means` says that a key told to the ST is held and would still be told as a key,
and that the axis and the button of the object belong to held keys which would
still be told as the joystick; `Follows` that what the ST believes of the
joystick is what the object has; `Pushed` that each stick it believes pushed is
pushed and has that port; `Waits` that a wait has a counter above zero.
`Counts` needs only that no counter was reset (`forgot`), `Waits` only that the
last key was handled in full (not `skipped`), whatever happened before it: this
is why a wait that is left over ends with the next key. The other three need that
no meaning changed (`unsteady`) and no joystick's key was sent as a key
(`carried`).

Sequences and batches of any length need induction, but the library's theorems
on it have a parameter that is an operator. `Smallest` (a set of naturals has a
least element, from `WFMin`), `NatInduct` and `SeqInduct` state it for sets
instead, so that recursive functions like `Divided` and `AfterKeys` can be
reasoned about.

Every invariant, every action property and both refinements that a run checks
are theorems now, with three exceptions: the properties that are false
(section 3, findings). Only model-checked are the liveness properties
(`CallEnds`, `NobodyStuck`, `ConfigArrives`, `LedIsStreamed`, `SlotIsEncoded`,
`StreamResumes`, `TrackCatchesUp`, `DiskChangeReleased`, `AsksForTheHead`,
`AllArrives`, `EndIsTold`, `EofIsTold`), which TLAPS cannot prove.

## 6. Plan

0. Proofs: of the remaining liveness properties the part that is an invariant,
   as `Awake` is of `AllArrives` and `EncodingDue` of `SlotIsEncoded` (what must
   be set or on its way while the Pi, Hans or a program waits).
1. Drives of the translated disk that are attached and detached while files and
   searches are open; several handles of `GemdosFile`.
2. `ShortNames`: the name shortener as operators over small names.
3. Bus IDs, settings reload and native devices; SOLO mode and the SD card.
4. Sending and UDP in `NetStream`.
5. Compositions: both chips on one `CConSpi` (`remainingPacketLength`); the disk
   change of `FloppyImages` with the losses of `FranzFloppy`; `NetStream` in
   each slot of `NetHandles`.

## 7. Mutants

Operators commented "Mutant: ..." are plausible bugs in one definition;
`PROJECT.json` pairs them with the property that fails when they replace it.

## 8. Not modelled

User interfaces (configuration screens, web server, display, Atari programs),
media streaming and screencast, update and flashing scripts, time and interface
watching, register-level code (bus handshakes, SCSI controllers, CPLD, MFM
timing), boot sectors, test and bench programs: I/O with little shared state.
The remaining components wait for the plan above; `PROJECT.json` has a note for
each. The models cover the state that processors, threads and buffers share, a
small part of the 130 000 lines; most of the others are register libraries,
tools, screens, web pages and sequential file or device I/O.
