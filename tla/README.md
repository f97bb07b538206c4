# Verification of NEO6502_MMU_V3

The repository is the firmware of an RP2350 board that gives a 6502 its clock,
its memory map, its keyboard, its display and a USB file system. This directory
holds TLA+ models of that firmware, TLC configurations that check them on small
instances, and TLAPS proofs about them for every value of their constants.
Paths below are relative to `src/NEO6502_MMU_V3/`.

- [The system](#the-system)
- [The modules](#the-modules)
- [The runs](#the-runs)
- [What the code does otherwise than it says](#what-the-code-does-otherwise-than-it-says)
- [The proofs](#the-proofs)
- [What is not modelled](#what-is-not-modelled)
- [Plan](#plan)

## The system

One processor runs `loop()` (`NEO6502_MMU_V3.ino`, 169-191): USB storage, USB
keyboard, IRQ timer, scheduler, simple I/O, input, mailbox, VDU, monitor and
indicator, one after the other and for ever. Nothing pre-empts a task. What makes
the system concurrent is

- the 6502, which runs between any two accesses of the firmware to its memory.
  The firmware reads or writes 6502 memory by a *snoop*: halt the 6502, take the
  bus, access, give the bus back;
- the interrupt of the MMU, which sets `gMMUIOTrigger` when the 6502 rings the
  doorbell;
- the callbacks of the USB host stack, which run wherever the firmware calls
  `gUSBHost.task()`, and that includes the wait for every block of every file
  system call;
- the monitor, whose commands reset, stop and step the 6502 and change its memory
  map at any turn of `loop()`.

The queues of `fifo.h` are written for one producer and one consumer that overlap (their
indices are volatile, each written by one side). In this firmware both sides are tasks of
`loop()` and do not overlap; `Fifo` models the overlap that the queue is written for.

| component | state it keeps | operations | hard behaviour | what makes it correct |
|---|---|---|---|---|
| byte queues (`fifo.h`, `input.cpp`) | `head`, `tail`, `buffer` | push, pop, unpush, unpop, clear | push of one side overlapping pop of the other; wrap; a full queue | first in, first out; no slot used by both; nothing lost or repeated below the capacity |
| RP mailbox (`mailbox.cpp`, `rp_console_io.cpp`, `simple_io.cpp`) | request block in 6502 memory, `mailbox_state`, console counters, `lastCheck` | poll, dispatch, complete, console slices, `RP_GETCHAR`, reset | a 6502 polling between two stores of a completion; a doorbell whose interrupt is missed; a reset in mid transfer; a context switch in mid transfer | each request dispatched once and answered once; result before status; no console byte lost or repeated; every request answered |
| IRQ slot (`scheduler.cpp`) | `RP_IRQ_SOURCE`, `RP_IRQ_STATE`, the pin, `gIntrPending`, request flags | request, generate, acknowledge, timer on and off | one slot for four sources; commands that clear it; acknowledgement by a 6502 that runs in between | the slot never leaks; a completion is never lost, and is delivered |
| 6502 control, bus, MMU (`p6502.cpp`, `control.cpp`, `neobus.cpp`, `mmu.cpp`) | `gSysState`, pins, clock, `gCurrentContext`, `gCurrentIndex`, AREG, MMU entries | `set6502State`, halt, step, snoop, context and page access | save and restore in every caller; one register for two purposes; clock stopped in a read cycle | one bus master; state and context restored; the 6502 halted in a read; the map is the one asked for |
| USB storage and mounts (`usb_storage.cpp`, `usb_fatfs.cpp`, `usb_msc_diskio.cpp`) | slots, completion flags, `gUSBFatFsMounted` | mount and removal callbacks, block transfers, mount, unmount | a stick pulled out inside a file system call; a transfer that ends after it was given up | slot N, drive N and the stick in it belong together |
| file system handles (`rp_fs.cpp`) | pools of file and directory handles | open, use, close, close all, close all of a device | handles that outlive their stick; a pool shared by all sticks | open handles are on mounted sticks; nobody else's removal costs a handle |
| file system mailbox (`rp_fs_mailbox.cpp`) | context blocks in 6502 memory | 20 operations of `fs.exec` | bulk transfers in pieces; ends of the address ranges; a failure at any point | a handle is given to the 6502 or closed; a refusal changes nothing; memory is written only where it was offered |
| paths (`rp_fs_path.cpp`) | current directory per process | reset, clone, set, resolve | `..` at the root; buffers of different lengths | what a process is told leads back to where it is |
| memory configuration (`memory_config.cpp`) | the parsed `memory.ini`, resolved layouts | parse, validate, resolve, program the MMU | overlaps, gaps, limits, forward references, pages running out | a valid configuration programs exactly what it says |
| system configuration (`sys_config.cpp`) | cartridges, configurations, load lists | parse, validate, fallback profile | an error after half of the file | the menu offers what can be loaded |
| boot, ROM, RAM (`boot.cpp`, `rom.cpp`, `ram.cpp`) | cartridge headers | menu, load, activate | order of context and loads; shared pages; a load that fails | memory holds the listed cartridges; the 6502 starts in the boot context |
| USB keyboard (`usb_hid_input.cpp`, `usb_keyboard_layout.cpp`) | records, selection, pending report, repeated key, routing | callbacks, key processing, repeat, break key | a report handed over long before it is used; removal with a key held | only a held key repeats; typing goes where this keyboard or the monitor sent it |
| VDU (`vdu.cpp`, commands of `gdu.cpp`) | buffer, framebuffer, cursor, pointer, scroll state | characters, control codes, modes, mouse | a scroll of many steps with anything between them | the display shows the buffer; the cursor stays in it; a scroll ends |
| monitor (`monitor.cpp`) | command line, selected options | reset, go, stop, step, page, zero, boot, irq, timer, dumps, `fsbulk` | any of them between any two steps of the rest | the machine is left as the command says |
| 6502 command slots (`cmd.cpp`) | `gMMUIOTrigger`, one command byte | context switch request and its answer | shares the trigger with the mailbox | no command is lost or answered twice |

They interact by calls inside one turn of `loop()`, by the two byte queues, by
the shared page of 6502 memory, by the IRQ pin and by the trigger.

## The modules

| module | models | state | actions |
|---|---|---|---|
| `BoundedQueue` | what `FIFO<T, SIZE>` promises | the sequence, the last popped element | `Push`, `Pop`, `Unpush`, `Unpop`, `Clear` |
| `Fifo` | `fifo.h` | `head`, `tail`, `buffer`, where each side is in its call | push and pop in two steps each (slot, then index), the other operations in one |
| `RequestReply` | what the ABI v2 mailbox promises a 6502 | idle, asked or answered; request; answer | `Submit`, `Serve`, `Collect`, `Reset` |
| `Mailbox` | `mailbox.cpp`, `rp_console_io.cpp`, `simple_io.cpp`, the queues of `input.cpp`, the tasks around them | the request block, the FSM, the queues, the program on the 6502 | one for each stretch of `taskMailbox` between two snoops the 6502 can tell apart |
| `IrqSlot` | `scheduler.cpp` and the monitor's commands on the slot | the shared locations, the pin, the flags, the 6502's handler | one for each access of `taskIRQTimer` and `genIRQ6502`, one per command |
| `Bus` | `p6502.cpp`, `control.cpp`, `neobus.cpp`, `mmu.cpp` and the operations of scheduler, file system, boot and monitor made of them | pins, clock, bus direction, AREG, MMU entries, contexts | one for each primitive step, one per operation, one for the 6502 |
| `UsbStorage` | `usb_storage.cpp`, `usb_fatfs.cpp`, `usb_msc_diskio.cpp`, `rp_fs.cpp` | slots, transfers, mounts, handles, the call in progress | the callbacks, the transfer with its wait, beginning and end of each call |
| `FsExec` | `rp_fs_mailbox.cpp`, `rp_fs_path.cpp`, the operations of `rp_fs.cpp` | the entries of the sticks, handles with position and size, current directories, the last answer and what it wrote | one per request (a request runs to its end inside `taskMailbox`), reset, a stick plugged in or pulled out |
| `MemoryConfig` | `memory_config.cpp` | the parsed file, the MMU's entries | one per kind of section, the validation, `configureMMUFromActiveModel` |
| `Startup` | `sys_config.cpp`, `boot.cpp`, `rom.cpp`, on top of `MemoryConfig`: all that `setup()` configures | cartridges and configurations, the context, what the pages hold | one per kind of section, the validation, the menu, the load of a cartridge |
| `UsbKeyboard` | `usb_hid_input.cpp` | the mounted interfaces, selection and transfer of each role, last report, repeated key, console process | the three callbacks, `taskUSBHIDInput`, the `pid` command, keys pressed and released |
| `Vdu` | `vdu.cpp`, the mode and clear commands of `gdu.cpp` | one record `v` with the module's variables and the framebuffer; the display queue | `taskInput`, `taskVDU`, `vduMouseUpdate`, the GDU commands, the Enter key; the routines they call are operators from records to records |
| `MCUsbStorage`, `MCFsExec`, `MCStartup`, `MCUsbKeyboard` | values of the constants, symmetry and views for TLC | | |
| `FifoProofs`, `IrqSlotProofs`, `BusProofs`, `MailboxProofs`, `UsbStorageProofs`, `FsExecProofs`, `ConsoleProofs` (`Vdu` and `UsbKeyboard`), `StartupProofs` | the theorems | | |

`Mailbox` uses `RequestReply` by `INSTANCE ... WITH`, `Fifo` uses `BoundedQueue`
the same way: each detailed module implements its abstract one. The two console
queues of `Mailbox` are bounded sequences, which is what `Fifo` implements.
`Startup` EXTENDS `MemoryConfig` and composes with it: cartridges are loaded through
the entries that `configureMMUFromActiveModel` wrote. `fs.exec` is cut three ways: how
a request is submitted and answered is in `Mailbox`, the access to its caller's
context in `Bus`, sticks pulled out in the middle of a call in `UsbStorage`, and what
the request does in `FsExec`.

How the models cut the code:

- **Where a step ends.** In `Mailbox` and `IrqSlot` a step ends where the firmware
  touches a location of 6502 memory that the 6502 may change or look at just then.
  Fields that a 6502 waiting for its answer neither reads nor writes are handled in
  the step that uses them. In `Bus` a step is one call of a primitive, and the
  6502 executes (`Execute`) whenever its clock runs. In `UsbStorage` a step ends
  where `gUSBHost.task()` may run callbacks. In `Fifo` a step is one access to
  shared memory. In `UsbKeyboard`, `Vdu` and `FsExec` a step is one callback, one pass
  of a task or one request, because nothing else of their state runs inside one. In
  `MemoryConfig` and `Startup` a step reads one section of a file, header and keys, or
  loads one cartridge.
- **Data.** A typed character is a number in order of typing, a display byte is its
  offset in the request, a page is a value of a small set, a stick is the number of
  its plugging in. File names, block numbers and the contents of blocks are left
  out. A queue keeps its capacity, a transfer its length and slices. In `FsExec` a path is
  a sequence of components of different lengths, a file its size, an address a number,
  and what a pointer points to an input of the request. In `Vdu` a pixel stands for the
  scanline of the character drawn there, the pointer covers two columns of one row
  (really up to three of two), and figures are a spot of ink. In `MemoryConfig` and
  `Startup` names are strings, sections come in any order, and a page is kept
  by four places: NMI, RESET and IRQ, as they lie at the end of the last slot, and the rest.
  A cartridge's payload fills any of them, before the vectors that its TYPE has a bit for; a
  read error cuts the payload between two slots. In `UsbKeyboard` the keys are those the code treats differently: letters,
  digits, `c`, two route keys, F11.
- **Time.** Timeouts and due times say only that something *may* happen: a poll is
  skipped or not, a timer is due or not, a transfer ends before its timeout or
  after it. A bound on the number of late endings keeps the runs finite.
- **The 6502** is what the headers expect: it stores the request, then RP_STATUS and
  the doorbell in adjacent stores, waits for DONE or ERROR and takes the result; its
  interrupt handler reads the source and clears it. `Bus` only knows whether the
  6502 is in a write cycle, of which it never makes more than a few running.
- **FatFs and the host stack** are external. A FatFs call transfers any number of
  blocks, each read or written, and then succeeds or fails; it must have transferred
  one to find the file system of a stick, refuses an object of a file system that is
  no longer mounted, and gives up the one of a stick that is gone. The stack reports
  a stick, its removal and the end of a transfer in any order, but never the end of
  a transfer of a stick it has reported removed.

What some state stands for: `todo` in `Mailbox` is the list of stores that
`rp_mailbox_set_done` or `rp_mailbox_set_error` has still to make, in the code's
order. `work` in `Bus` is the list of primitive calls an operation has still to
make. `op` in `UsbStorage` is the FatFs call on the stack of `loop()`, `wait` the
transfer it waits for. Variables marked *history* record what happened, for the
properties and bounds; no action of the firmware depends on them.

## The runs

Each run is one configuration file of the same name, of the module of that name or of
its `MC` module.

| run | question | bounds |
|---|---|---|
| `Fifo` | does the ring lose, repeat or mix up elements when push and pop overlap? | 4 slots, 2 values: every position of both indexes, full, empty and wrapped |
| `Mailbox` | is each request dispatched once, answered once, fittingly, and is every console byte in its place? | slices of 3 bytes, queues of 2, transfers of 0, 1, 2 and 4 bytes (none, part of a slice, one that does not fit the queue, two slices), texts without a zero byte, with one first and with two in the middle, 3 characters, 1 skipped poll, 1 reset |
| `MailboxLive` | is every request answered, a read with input too, and is waiting input shown? | the same without resets, transfers of 0 and 2 bytes, 2 characters |
| `MailboxResetServed` | ... also when a reset cuts a transfer short? **No.** | one reset |
| `IrqSlot` | is the slot free again whenever no interrupt is out? | every command, 4 of them, 2 breaks, interrupts asked for at any time |
| `IrqLive` | is a completion held until it is seen, and seen at last? | no reset, 3 commands, 2 breaks, the timer not set over an unanswered interrupt |
| `Bus` | one bus master; state and context restored; 6502 halted in a read; map as asked? | 2 contexts of 2 pages, any initial map, all 12 operations in any order, 3 that change what is wanted, write bursts of 2 |
| `UsbStorage` | do slots, mounts and handles follow the sticks, pulled out at any moment? | 3 addresses, 2 slots, 1 handle of each kind, 3 sticks, 1 late transfer |
| `FsExec` | does any request leave a handle behind, a half-done refusal, a directory that cannot be told, or memory overwritten? | 1 process, 1 drive, 1 handle of each kind; names of 1 and 2 characters, paths of 7, directories of 3; 32 addresses, 16 of them private; chunks of 1 byte, files of 2, seeks up to 3, sticks with 2 entries |
| `Startup` | is an accepted configuration what the MMU maps, what the menu offers and what memory holds? | 4 contexts of 2 pages, 3 pages of memory; 1 model, 2 layouts of 2 regions, 3 bound contexts, 8 sections; 2 cartridges of 5 files, 2 configurations of 3 loads, 6 sections |
| `UsbKeyboard` | does a key repeat that nobody holds, or typing go astray? | 2 interfaces, each a keyboard or a mouse, 2 records |
| `Vdu` | does the display show the buffer, whatever comes between the steps of a scroll? | 2 rows of 2 columns, 2 scanlines a row; mode 0, a mode without scrolling, one without text; 1 letter and every control code; 4 events, 1 character waiting |

Why the bounds are enough. In `Fifo` four slots are the smallest power of two with
an index that is neither the first nor the last. In `Mailbox` a slice longer than
the queue and a request longer than a slice both occur (the code's are 256 and 127),
as do a read shorter than what is typed and one longer, and a text that fits the
queue only because its zero bytes are left out. `IrqSlot` has four sources
and more commands than it takes to occupy the slot, ask for it and clear it. In
`Bus` two contexts tell the current from another, two pages an index from its
neighbour, and three changing commands allow a state, a context and a state again.
In `UsbStorage` three sticks and two slots give a stick that replaces another at
the same address or elsewhere, one that stays meanwhile and one for which there is
no slot. In `FsExec` the buffers end within reach: a path that fits `PATH_MAX` and not
`CWD_MAX`, a range that ends at the private limit, at the end of the context and one
past each, a transfer of several chunks and one cut short by a full stick, and a seek
beyond what may be asked for; handles do
not interact but by running out, which one of each kind does at once. The view leaves
the last answer out, which the action property sees in the step. In `Startup` three
pages are too few for some models and enough for others, two layouts share a region or
not, and a list loads a cartridge twice, through one context or two. Of the files one fills
memory to its end and has one vector in its header, one has two vectors and nothing at
the end, one a payload of two vectors only: each can come over what another left. In `Vdu` four events
fill a screen of two rows, scroll it, and leave two for what comes into the scroll.
In `UsbKeyboard` two interfaces are enough for one keyboard to take the place of another.

What each property says, beyond types:

- `NoSlotRace`, `ImplementsQueue` (`Fifo`): the side that pushes and the side that
  pops never touch one slot at once, and every behaviour is one of `BoundedQueue`.
- `ExactlyOnce`: no request is dispatched twice, by the doorbell and again by the
  status or after a late store, and none is answered without having been
  dispatched. `ImplementsProtocol`: the block is `RequestReply`, so the 6502 that
  sees DONE finds the result that fits, and nothing changes it until it is taken.
- `WriteComplete`: what a `console.write` puts in the display queue is the text without its
  zero bytes, in order, nothing twice and, if the queue had room, all of it. `InputConserved`: each character
  typed is in the queue, in `RP_GETCHAR`, in the buffer of an answered read or used,
  once, and in order.
- `RequestServed`, `ReadServed`, `ReadyShown`: the liveness of the mailbox.
- `SlotNeverLeaks`, `NotificationHeld`, `OnlyAcknowledged`, `FsDelivered`,
  `BreakDelivered`: the slot as described above.
- `OneBusMaster`, `StateRestored`, `ResumesInOwnContext`, `HaltedInRead`,
  `MapsAsAsked`: the bus as described above. `HaltedInRead` leaves out a 6502 whose
  stopped clock was stepped by `sc`, `MapsAsAsked` the contexts `page` was used in;
  both for reasons given in the next section.
- `SlotsTrackSticks`: a present slot has a stick, no stick two slots, and a stick no
  slot only if all were taken. `CalmDrivesAreSlots` and `HandlesAreMounted`: a
  mounted drive holds the file system of the stick in its slot and an open handle is
  on it, unless a call *succeeded* on that drive after its stick had been pulled out
  during the call. `HandlesRemain`: an open handle is lost only by a close of that
  handle or with its own stick.
  `OwnTransfer`: until a transfer has been given up,
  the one waited for counts as done only when its own blocks were transferred.
- `NoOrphanHandle`: an open handle is one that was given to the 6502 and not closed by
  it. What the 6502 has (`owned`) follows from the answers alone (`Given`, `Taken`); the
  tables follow from the opens and closes of the handlers, and LOAD, SAVE and CHDIR open a
  handle of their own and close it on each of their paths (`Opening`, `rp_fs_close`,
  `rp_fs_closedir`), or do not: that is what the mutants do. `CwdRoundTrips`:
  a current directory fits its buffer and GETCWD's, and what GETCWD says resolves to
  it. `KeepsToItsRequest`: a request refused with EINVAL has changed nothing, but a
  SAVE (see below), and memory is written within the private area, or for a LOAD
  within the context.
- `MappedAsDescribed`: two slots of the accepted model have one page exactly where they
  are one piece of memory (same shared region, same offset), and bit 7 is the region's;
  or the memory is too small and the MMU untouched. `MenuIsSound`: at the menu
  every list names cartridges that are defined and have files, and the default is for the
  memory model in force; or the tables are exactly those of the fallback profile.
  `BootedAsListed`: after a successful
  activation each place of each page holds what the last cartridge loaded there, in any of
  the contexts that share it, put there, and the context is the boot context. A vector that
  is in a cartridge's header comes from it even if the payload covers it, and one that is
  not, but is covered, from the payload, whatever earlier cartridges had there.
- `RepeatIsHeld`: the repeated key is down in the selected keyboard's last report and
  types what that report's modifiers make of it. `RouteIsOwn`: nothing is typed to a
  process chosen with a keyboard since removed. `RepeatStops`: a key let go stops.
- `CursorInBuffer`: the cursor is in the buffer, or one row below while a newline's
  scroll runs. `DisplayShowsBuffer`: between scrolls the framebuffer is the picture of
  the buffer with cursor and pointer in their places, unless something disturbed a
  scroll or drew a figure (the history `smudged`). `ScrollEnds`: every scroll does.

**Fairness.** `Mailbox`: weak fairness of the firmware (`taskInput \/ taskMailbox`),
because `loop()` always comes round and the other tasks are optional steps between
the two, and of `Collect`, because the 6502 polls RP_STATUS in a loop. `IrqSlot`: weak
fairness of `taskIRQTimer`, of the 6502's handler and of its acknowledgement, and of
`go`: a machine nobody starts serves nothing, so delivery is claimed for machines
that are started again after a stop. Typing, commands, requests, interrupts of the
doorbell and resets are never fair. `Vdu`: weak fairness of `taskVDU`, which `loop()` calls
in every turn and `vduPutc` while it waits. `UsbKeyboard`: weak fairness of
`taskUSBHIDInput` with its delays over and TinyUSB taking requests, and strong fairness
of a transfer that ends with a whole report: a keyboard that is polled and never again
answers fully is broken. The safety runs assume no fairness.

Deadlock is checked in every run but two: in `Vdu` the number of events is bounded and a
display at rest has nothing to do, and `Startup` ends where `setup()` returns.

## What the code does otherwise than it says

`MailboxResetServed` shows the first: a reset during a console transfer stops the
mailbox (`mailbox.cpp`, 339). `initMailbox` "resets mailbox-owned console/filesystem
state" (334-338) but leaves `mailbox_state`. In mbREAD with `gConsoleLen` 0 the FSM waits
for a read that can never end.

Seen while modelling and not made runs:

- Setting the timer loses a completion (`scheduler.cpp`, 109): `startIRQTimer` and
  `stopIRQTimer` clear the shared source whoever it belongs to, against "it cannot lose
  the completion notification" (152-154). With `Careless` TRUE, `NotificationHeld` fails in
  the first steps: completion requested, generated, `timer`.
- `page` may edit another entry (`mmu.cpp`, 118): the index is latched only if it
  differs from the last one latched, but every memory access writes the same register
  (`writeCPUAddressH`). An edit of index 0, a snoop of page 1, an edit of index 0 again
  changes entry 1. `MapsAsAsked` leaves out the contexts `page` was used in.
- The boot context is not used (`p6502.cpp`, 343): `setup()` ends in `sRESET`, which
  selects context 0 over what `boot.cpp`, 166 has set. `Startup` ends before it.
- A stick pulled out during its mount stays mounted (`usb_fatfs.cpp`, 101): the removal
  runs inside `f_mount`, sees a drive that is not mounted yet and does nothing; then the
  mount is noted. The same way a file that is being opened ends up open on a drive that
  is not mounted, and no removal closes it as long as nothing mounts that drive again.
  `CalmDrivesAreSlots` and `HandlesAreMounted` leave out drives a call succeeded on after
  their stick was pulled.
- SAVE with a buffer that leaves the context has emptied the file before it answers
  EINVAL (`rp_fs_mailbox.cpp`, 392 and 397). OPENDIR, CHDIR, LOAD and SAVE without a free
  handle answer ENOENT, OPEN answers ENOMEM.
- RMDIR removes a file and DELETE an empty directory: both are `f_unlink`
  (`rp_fs.cpp`, 474-498 and 618-642). Files and directories that are open can be removed,
  truncated and renamed, FF_FS_LOCK being 0 (`fatfs_local/ffconf.h`, 49); a current
  directory may be removed, or belong to a stick that has gone.
- The handle of a stick that was pulled out is given to the next open while its first
  owner still has the number (`rp_fs.cpp`, 807).
- A bulk transfer of 65536 bytes answers result 0, its low 16 bits (`rp_fs_mailbox.cpp`, 427).
- `setup()` configures the MMU whatever `initializeMemoryConfig` says
  (`NEO6502_MMU_V3.ino`, 128-129): a rejected `memory.ini` is set up as far as it was read,
  perhaps part of the entries. `MappedAsDescribed` is about accepted files.
- After a failed activation the fallback loads its ROM in context 0, and the boot
  context is then set all the same (`boot.cpp`, 157-166): where it is not 0 the 6502 does
  not start in the fallback. Whether the fallback itself could be loaded is not asked.
- Load lists may name any context the hardware has (`sys_config.cpp`, 229-247), also those
  the memory model does not: these keep the straight map of `initMMU`, and what is
  loaded there overwrites pages the model gave to others. `BootedAsListed` asks that
  the list keeps to the model. Only the default configuration's memory model is compared
  with the active one.
- Click, clear screen or Enter during a smooth scroll leave remains on the display,
  because the framebuffer is between two states of the buffer. During a newline's
  scroll the row is ROWS, and Enter in screen mode then copies `gScreen[ROWS]`
  (`monitor.cpp`, 1084; `vdu.cpp`, 1246), which is beyond the array.
- A zero byte of a `console.write` is counted as written and never shown
  (`input.cpp`, 62-66; `rp_console_io.cpp`, 116): `writeVDUQ` leaves it out and says TRUE.
- `RP_CONSOLE_RDY` is 0 after a reset although characters are queued, until the queue
  has been empty once (`mailbox.cpp`, 249-254 and 361). `ReadyShown` fails with a
  reset allowed in `MailboxLive`.
- The flags of a completion and a break survive a reset (`scheduler.cpp`, 46-48) and
  interrupt the program started next.
- An interrupt generated while the 6502 is in reset keeps the slot with its pin
  high, because every snoop in `sRESET` raises the pin (`p6502.cpp`, 334): nothing is
  delivered until the timer is set or the machine reset. `FsDelivered` fails with
  `reset` among the commands and `Careless` TRUE.
- `halt6502clock(true)` returns at once when the clock is off (`p6502.cpp`, 216); after
  `sc` the 6502 may be held in a write cycle. `HaltedInRead` fails without its
  exception.
- `sBOOT` makes RW and the data bus outputs (`p6502.cpp`, 329); the table of
  `p6502.h`, 44-52 says IN. The code's value is the one that works, as `OneBusMaster`
  shows.
- A transfer that ends after its timeout is taken for the end of the next one, on
  whatever device (`usb_storage.cpp`, 469-487). `OwnTransfer` fails without its
  condition on `timeouts`.
- A stick plugged in when all slots are taken is never looked at again
  (`usb_storage.cpp`, 492-499).
- The signed comparison of `usb_storage.cpp`, 145 blocks automatic mounts for half of
  every 49.7 days after a long pause.

## The proofs

Proved by TLAPS, for every value of the constants that satisfies the assumptions of the
module (`SizeAssumption`, `IrqAssumption`, `BusAssumption`, `ConstantsAssumption`,
`UsbAssumption`, `FsAssumption` and `InputAssumption`, `MemoryAssumption` and
`StartupAssumption`, `KeyboardAssumption`, `VduAssumption`). They say that sizes are numbers, that what is
picked from is a set of what the parser or the driver hands on, and that the sentinels are
none of it; none limits a number from above but the code's own limits.

| theorem | says | argument |
|---|---|---|
| `SlotsNeverRace` | `[](TypeOK /\ NoSlotRace)` of `Fifo` | with `TypeOK` it is inductive; lemmas give `Wrap` without `%` |
| `RingImplementsQueue` | `Fifo` implements `BoundedQueue` | each action under the invariant changes `contents` as an action of the queue or not at all; `Shape` gives the length and the elements of `contents` from `head` and `tail`, modulo SIZE |
| `SlotSafe` | `[](TypeOK /\ SlotNeverLeaks)` of `IrqSlot`, for careless use too | `Progress` adds what holds half way: between the stores of an interrupt none is pending and the source is none or the one being stored; a slot about to be released has no source |
| `NotificationNeverLost` | `[]NotificationHeld`, if `Careless = FALSE` | `Handled` adds that the handler works on what is in the slot and that a request is dropped only when its source is in place |
| `SlotOnlyAcknowledged` | `OnlyAcknowledged`, if `Careless = FALSE` | an action property, from the same invariant |
| `OneMaster`, `Restored`, `StoppedReading`, `Mapped`, `TypeCorrect` | `[]OneBusMaster`, `[]StateRestored`, `[]HaltedInRead`, `[]MapsAsAsked`, `[]TypeOK` of `Bus` | `IInv`, below |
| `OwnContext` | `ResumesInOwnContext` | an action property, from the same invariant: whatever starts the clock is behind the last context change in `work` |
| `MailboxTypes` | `[]TypeOK` of `Mailbox` | `TypeInv` adds that a read fits the console buffer and that a reply being stored has stores left |
| `DispatchedOnce` | `[]ExactlyOnce` of `Mailbox` | `ControlInv`, below |
| `Refines` | `Mailbox` implements `RequestReply` | `AnswerInv` adds what is true of the answer while it is being stored: it is for the request in the block, and the result is stored before the status. Each action is then `Submit`, `Serve`, `Collect`, `Reset` or a stutter |
| `WrittenWhole` | `[]WriteComplete` | `WriteInv`: the bytes queued are in order and before the next slice, none of them zero, across deferrals and resets; with room for all that are to be shown they are all such bytes of the slices done, and the queue holds no more. What one byte does (`ByteKeeps`, `ByteWhole`) is carried over a slice by induction (`OutputIs`) |
| `NoCharacterLost` | `[]InputConserved` | `PlacesInv`: the characters in the queue, in `RP_GETCHAR`, in the buffer of a read and used are together all that were typed, each in one place, and those in the buffer before those in the queue; `CountedInv`: the buffer holds as many as the answer says, so that the 6502 takes them all |
| `SlotsFollowSticks` | `[]SlotsTrackSticks` of `UsbStorage` | `SlotInv`: sticks are numbered in order, present slots are those of different addresses with a stick; by the pigeonhole principle a slot is free for each of the first `MaxDevices` sticks |
| `StorageTypes` | `[]TypeOK` | with `SlotInv`, because a mount takes its stick from a slot |
| `DrivesAreSlots`, `OpenIsMounted` | `[]CalmDrivesAreSlots`, `[]HandlesAreMounted` | `DriveInv` adds `CallInv`: a call that opens has a free handle to fill and, unless its stick was pulled out during it or the drive had outlived its stick before, is about the stick in the slot |
| `OtherHandlesRemain` | `HandlesRemain` | an action property, from the same invariant. The proof showed the property stronger than it had been stated: a handle that is open does not change in any way |
| `FlagIsOwn` | `[]OwnTransfer` | `TransferInv`: as long as no transfer was given up, what is in flight is the one waited for, and its flag is down |
| `HandlesAreOwned` | `[]NoOrphanHandle` of `FsExec` | `OwnedInv`, on top of `FsInv`. What opens and what closes a handle is compared with what the answer says of it (`OpenOwned`, `CloseOwned`); every other handler is shown to leave no handle in use that was not (`Calm`), LOAD, SAVE and CHDIR because a free handle that is opened and closed leaves the table as it was (`Again`) |
| `FsTypes` | `[]TypeOK` | `FsInv`: handles, disks and current directories are made of paths of valid names, and open handles are of sticks that are there. `PieceInv`, where memory may be written, is a part of it; that `owned` is a set of handles comes from `OwnedInv` |
| `DirectoriesRoundTrip` | `[]CwdRoundTrips` | from `FsInv`; the walk of `rp_fs_resolve_process_path` is unrolled by induction over the components: from the root, without `.` and `..`, it rebuilds the path as long as it fits |
| `RequestsKeepTo` | `KeepsToItsRequest` | an action property: one step per handler, with what EINVAL is answered before; a SAVE or LOAD refused in the middle has opened and closed its handle (`Again`) |
| `HeldRepeats`, `OwnRoute` | `[]RepeatIsHeld`, `[]RouteIsOwn` of `UsbKeyboard` | `KeyboardInv` adds `PortInv`, that only what is selected has a transfer or a report and what was removed is not selected, and who has chosen the route once the task has seen a removal; the keys of a report by induction |
| `CursorStays` | `[]CursorInBuffer` of `Vdu` | `Sane`: the types of the record, that the cursor is below the last row only in a scroll that knows its row, and that the pointer is off the display in a scroll |
| `TextIsShown` | `[]DisplayShowsBuffer` of `Vdu` | `DisplayInv`, below |
| `MapsTheFile` | `[]MappedAsDescribed` of `MemoryConfig`, in `Startup` | `MemoryInv`; the entries by induction over contexts, regions and pages, with the invariant `Filled`, below |
| `OffersWhatLoads` | `[]MenuIsSound` of `Startup` | `SystemInv`: what the tables read so far are, and that validation or the fallback profile came before the menu |
| `BootsAsListed` | `[]BootedAsListed` of `Startup` | `BootInv`, on top of the other two: after `n` loads each place of a page holds what the last of these `n` that reaches it put there (`LastBefore`), where a load reaches a place with a vector of its header or with its payload, through any context that shares the page |

`ExactlyOnce` is not inductive. `ControlInv` strengthens it by four parts:
`PlaceInv` relates the place in `loop()` to `mailbox_state` and to the stores of a
completion still to be made; `SharedInv` says that a BUSY or a doorbell the firmware
can see belongs to a request somebody waits for, but for the doorbell a completion is
about to clear; `WorkInv` that a transfer or a completion in progress belongs to the
current request, or is the rest of one a reset has forgotten, with nothing left to
transfer; `OnceInv` that a request already dispatched is in transfer or being
completed, so that the poll in mbIDLE cannot find it again. Each was checked by TLC as an
invariant before it was proved.

In `Bus` the state alone says nothing about what happens next; the list `work` of
primitive calls does. `IInv` is therefore about the whole of it: its steps are primitives
(`Primitives`), each access in it is covered by the `state` before it (`Covered`), and
running it to the end leaves state and context as wanted (`StateDue`, `ContextDue`),
the doorbell heard (`ListeningDue`) and each entry of the MMU as asked (`EntriesDue`).
One lemma per operation shows its list to be of this kind whatever the state it starts in,
one per primitive that taking the first step keeps it. `Latched`, that AREG holds what was
latched last when only snoops came between, is what `page` breaks.

In `MemoryConfig` `Filled(st, A)` says of the slots `A` allocated so far (`Given`) that two of
them have one page exactly where they are one piece of memory, that pages were given from 0
on without a gap, and that the shared pieces with a page are those of `A`; or that the
pages did not suffice. Each of the three nested loops keeps it for the slots it adds.

In `Vdu` `DisplayInv` says more than `DisplayShowsBuffer`, which is silent during a scroll.
`Shows(s)` is about every state: each pixel is that of `Pic`, the text moved up by
`scrollPixel` lines, or the cursor's in its cell, or the pointer's; and in a scroll no cursor is
drawn but in the row below the last, where it has no pixels. When the last line has been
moved, that is the picture of the rotated buffer. `Pic` needs that a scanline and the one
H below it have neighbouring rows and the same line in their cells (`Cells`), which is what
is used of division. Each routine of `vdu.cpp` has a lemma that it keeps `Sane` and `Shows`, and
under which condition; a character finds the pointer, the cursor and the scroll out of the
way (`Calm`), so that the commands keep the simpler `Clean`. That a scroll is over when
`vduPutc` has waited for it is proved from `scrollPixel`, which grows by one in each step.
Clear screen restores `Shows` whatever was drawn before, and that is why `cmdCLS` may
reset `smudged`.

The recursive functions in these modules (the length and the walk of a path, the keys of a
report, the three loops of the allocation, the steps of a scroll that is waited for, the
characters that wait, the bytes of a slice) are over natural numbers, so what they keep is
proved by induction over a set of numbers, with the library's well-founded induction for
sets. No module declares a RECURSIVE operator.

Only model-checked:

- liveness - `RequestServed`, `ReadServed`, `ReadyShown`, `FsDelivered`, `BreakDelivered`,
  `RepeatStops`, `ScrollEnds` - because no prover here handles ENABLED and weak fairness of
  these actions.

## What is not modelled

- `debug_neox.cpp`, `disasm6502.cpp`, `indicator.cpp`, fonts and palettes: output and
  tables, on which no other part's state depends. Of `gdu.cpp`, the registers and the
  figures they describe.
- In `Vdu`, colours, the cursor's blinking (a change of the palette), `vduMouseEnable` and
  `alterCursor`, which nothing calls, the wrapping of text, which no mode has, and the
  text that Enter copies.
- In `UsbKeyboard`, the tables of the layouts and the descriptors that tell a keyboard from
  a mouse; two reports between two turns of the task cannot happen, as the next is
  asked for by the task.
- In `FsExec`, STATUS, which changes nothing, and the contents of files.
- In `Startup`, the text of both files: identifiers, numbers and the codes and lines of
  errors; a wrong line is one step that ends the parser.
- `fatfs_local/`, the USB stack and the Arduino core: used, not part of the code;
  modelled as external where the firmware depends on them.
- In `UsbStorage`, the wait of a file that is closed inside the removal callback for a
  last block: the removal is one step, of which only the effect on the write flag is
  kept.
- In `Mailbox`, a 6502 that submits in an order other than `mailbox.h` expects, and
  buffers of different contexts (a `console.read` that waits while the context is
  switched lands in the context current at its end).
- In `Bus`, `singleCycle6502(0)`, which leaves the 6502 in `sREAD`.
- The handshake of the command slot (`cmd.cpp`), of which `Mailbox` has the lost trigger;
  the monitor's line editor and `fsbulk`, which writes the mailbox block as if it were the
  6502; the composition of all tasks in one turn of `loop()`.

## Plan

Done, in this order: `BoundedQueue` and `Fifo`; `RequestReply` and `Mailbox`;
`IrqSlot`; `Bus`; the proofs of the first three; `UsbStorage` and the proof about its
slots; `Vdu`; `FsExec` with paths and current directories, and its proof;
`MemoryConfig` and `Startup`; `UsbKeyboard`; the proofs of `Bus`, of the refinement and the
queues of `Mailbox`, of the mounts and handles of `UsbStorage`, of the rest of `FsExec`, of
`UsbKeyboard`, of `Startup` and of `Vdu`.

Next: the slot of `cmd.cpp` with its shared trigger, composed with `Mailbox`; contexts in
the mailbox's buffers, and `fsbulk` as a second client.

With `Vdu` every safety property of every run is proved. Proofs worth having next are those
of what these modules add.
