# A specification of STM32_MUSIC_Player

TLA+ modules of the firmware in `src/`: a music player for an STM32F407 that
reads WAV files from an SD card, plays them through DMA and the DAC, is
operated from a command line on a UART, and offers the card to a computer as a
USB disk.  TLC checks the modules on small instances, TLAPS proves the safety
properties of all ten components that are modelled for every value of the
constants.

The hard parts of this firmware are not in its algorithms.  They are double
buffers shared by a task and a DMA stream, flags that interrupts set and loops
wait for, one driver with three callers and no lock, protocol state kept in
static variables from one callback to the next, and a file system, a heap and
a queue that several of them use at once.  That is what is modelled.

* `PROJECT.json` lists the components, runs, hazards and theorems, and maps
  every definition to the lines it stands for.
* Check a run: `tlc -config SdSole.cfg SdTransfer`.  Check the proofs:
  `tlapm SdTransferProofs.tla`.

## 1. The system

### Components

| Component (source) | State it keeps | Operations | Module |
|---|---|---|---|
| Music player (`board_dev/board_dac_sound.c`) | two halves of `music_buffer`, `current_dma_flag`, the queue `dma_working_handle`, one `FIL`, DMA1 stream 6, TIM6 | `Music_Player` (a task per `play`), `DMA1_Stream6_IRQHandler` | `DacPlayer`, `PlaybackStream` |
| Memory of plays (`heap_5.c`, `xTaskCreate`, `vTaskDelete`, the idle task) | the free list, stacks, control blocks, leaked queues, the static file name | allocate, free, create, delete, clean up | `Heap5`, `PlayHeap` |
| Serial output (`mcu_dev/mcu_uart.c`, `FreeRTOS_CLI/serial.c`) | `USART3_TX_DMA_IS_BUSY`, DMA1 stream 3, two double buffers with their indices, `xTxMutex` | `vSerialPutString`, `xSerialPutChar`, `_putchar`, `mcu_uart_send_buffer_dma`, `DMA1_Stream3_IRQHandler` | `SerialTx` |
| Command line (`FreeRTOS_CLI/*.c`, reception of `mcu_uart.c`, order of `app/main.c`) | the receiver's DMA buffer, `xRxedChars`, two lines, the cursors of the interpreter and of the commands | `USART3_IRQHandler`, the console task, `FreeRTOS_CLIProcessCommand`, five commands | `CliConsole` |
| FatFs and its glue (`ff.c`, `diskio.c`, `board_fatfs_interface.c`) | `FatFs[0]`, `Fsid`, the window, `current_dir`, `fp`, `fno`, `res` | mount, remount, unmount, `f_opendir`, `f_readdir`, `f_open`, `f_read` | `FatVolume` |
| SD card transfers (`board_dev/stm324xg_eval_sdio_sd.c`, `diskio.c`) | `TransferError`, `TransferEnd`, `DMAEndOfTransfer`, `StopCondition`; SDIO, DMA2 stream 3, the card | read and write of one or more blocks, the two waits, the status poll, `SD_ProcessIRQSrc`, `SD_ProcessDMAIRQ` | `SdTransfer` |
| SD card initialisation (same file, called by `main`) | card type, RCA, registers, bus width on both sides | the dialogue of `SD_Init` | `SdInit` |
| USB disk (`CherryUSB/class/msc/usbd_msc.c`) | stage, command, status, block counters, `block_buffer`, two bulk endpoints | the bulk callbacks, class reset, bus reset, clear halt | `MscBot` |
| USB device core and controller (`usbd_core.c`, `usb_dc_dwc2.c`) | endpoint 0, its FIFOs and interrupt bits, address, configuration | the interrupt handler, the standard and class requests | `UsbControl` |
| FreeRTOS queue (`queue.c`, `tasks.c`) | the ring, the lock counts, event, ready, delayed and pending lists, the tick | send, receive, send from an interrupt, block, time out, suspend and resume | `KernelQueue`, `FifoQueue` |
| LED, SPI flash and its file systems, legacy drivers, vendor library | | | not modelled (section 8) |

### How they interact

* The console task runs a command and `play` makes it create a player task;
  `ls` mounts the card again in the console task, under a player that reads.
* The player, `ls` and the USB interrupt all end in the SD driver.  The
  interrupt preempts the tasks and runs a whole transfer, with its busy waits,
  to the end; the host behind it may change what FatFs has in its window.
* Console, echo and every `printf_` end in one DMA stream of USART3.  The
  console takes a mutex, the player's `printf_` does not.
* Interrupts talk to tasks through a queue of one token (player), a queue of
  characters (console) or plain flags (SD driver, serial output).
* Every play takes a stack and a queue from the heap, and leaves the queue.

### What is hard, and what makes a component correct

| Component | Hard behaviour | Correct when |
|---|---|---|
| Music player | a task fills one half while the DMA plays the other; state left over from the play before; `ls` in the middle | no half is written while it is played; one permit to start a transfer exists; the sound is the file, in order; every play ends |
| Memory of plays | overlapping plays, creations that fail half way, an idle task that cleans up late | blocks cover the region once, only queues leak, memory of the dead comes back |
| Serial output | test-and-set of the busy flag in two instructions; buffers written while they are sent, by the echo of every key | no register of a running stream is set; flag exact; nothing repeated or reordered, and nothing lost but by an echo; every send ends |
| Command line | cursors in static variables between the calls for one line; bursts, full queue, full line; keys before the queue exists | keys are read once and in order; a line is answered with its own strings to the last one |
| FatFs | two tasks on one volume object and one window, a host that writes under them, failing disk calls, damaged FATs | a play reads its file and nothing else; a list is the directory of now; no sector outside the volume is read; calls end |
| SD transfers | end of data, end of DMA and errors in any order around two loops; a flag nobody resets; early returns whose error is dropped; three callers | success means the right sector arrived intact, but for two faults that are never reported; an error means there was one; nothing moves after the call; every call ends |
| SD initialisation | kinds of cards that answer differently, answers lost or damaged, flags left up | success is true in every respect, a healthy card works, both sides use the same lines, it ends |
| USB disk | two counters of one command, moved at different callbacks; resets and cancelled commands in every state; a card that fails under the callbacks, addresses at the end of 32 bits | host and device agree on the phase; a status accounts for every block; no block is skipped or overwritten; the disk can always be used again |
| USB control transfers | bus resets between the blocks of the handler, the next SETUP already in the FIFO, empty packets | an answer is the request's own, every request is handled once, every transfer ends |
| Queue of the kernel | an interrupt between the test and the place in the list; overflow of the tick | a bounded FIFO; no wake-up lost; time-outs neither early nor late |

The hazards are listed one by one, with their lines, in `PROJECT.json`.

## 2. Plan

| Order | Module | Builds on | State |
|---|---|---|---|
| 1 | `PlaybackStream`: what a listener is promised | | done |
| 2 | `DacPlayer`: the player, refines `PlaybackStream` | 1 | checked, proved |
| 3 | `SerialTx`: everything sent on the UART | | checked, proved |
| 4 | `SdTransfer`: the driver and its callers | | checked, proved |
| 5 | `MscBot`: the USB disk and its host | | checked, proved |
| 6 | `CliConsole`: the command line | | checked, proved |
| 7 | `Heap5`, `PlayHeap`: plays against the heap | 2 | checked, proved |
| 8 | `FifoQueue`, `KernelQueue`: the queue everyone uses, refines `FifoQueue` | | checked, proved |
| 9 | `SdInit`: the dialogue of `SD_Init` | | checked, proved |
| 10 | `UsbControl`: endpoint 0 | | checked, proved |
| 11 | `FatVolume`: FatFs under two tasks and a host | 4 | checked, proved |
| 12 | `BlockDevice`: what a driver promises (a call takes effect at once, or reports an error), implemented by `SdTransfer` for one client | 4 | open |
| 13 | `disk_status` (CMD13 before each `f_read`) as a caller, removal of the card | 4 | open |

Parameters are CONSTANTS with named assumptions as weak as the code allows,
there is one action per step between two points where an interrupt or another
task can be noticed, and no operator is RECURSIVE.  Invariants that belong
together are conjuncts with names of their own, and the runs check their
conjunction.

## 3. The modules and the code

Names of variables are those of the source where the source has one.  In most
modules `pc` says where a task is, in steps small enough to show every
interleaving that matters: reads and writes of shared state are separate
actions, private computation belongs to the step that follows it.

**`DacPlayer`**.  A play command (`Play`) starts a task that creates its queue,
opens the file, reads the header, sets up timer and DMA, puts the first token
in the queue (`Prime`), and then loops: `ReadBlock` and `FillBlock` (the
`f_read` into the half that `current_dma_flag` names, which may fail or be
short), `ScaleBlock` (the volume loop; 0 samples end the play), `AwaitToken`
(`xQueueReceive`, no timeout), `StartDma`.  `Sample` is one request of TIM6,
`TransferComplete` the interrupt, `Remount` the `ls` of another task.  A
sample is its number in the file, a half holds a run of them, so a wrong
half, a lost block or an old block shows as a wrong number.  `Players` with
several members are plays that overlap, which nothing in the code prevents.

**`PlaybackStream`**.  The abstract specification: the sound of a play is the
file's samples in order without a gap, and a later play replaces an earlier
one for good.  `DacPlayer` implements it by `HeardInOrder` (an `INSTANCE` with
the header as the part never played).

**`Heap5`, `PlayHeap`**.  `Heap5` is the allocator as operators on a record:
first fit, splitting, joining with the neighbours, the free count.  `PlayHeap`
is what a `play` does with it: the console writes the name and creates a task
in the steps of `xTaskCreate`, the task takes its queue, opens the name, ends,
and the idle task frees stack and control block.  A creation that fails gives
back what it took; a queue that is missing ends in the assertion (`halted`).

**`SerialTx`**.  A sender is one of three callers (`job`): the chunks of
`vSerialPutString` and the character of `xSerialPutChar` under the mutex, the
line of `_putchar` with or without it.  `Consoles` do as the console does: they
take the mutex for every key, echo it, and then write strings and lines of
`printf_` (`ls`) or nothing; `Writers` call `vOutputString`, and `Printers` call
`printf_` without the mutex, as the player does.  All hand a buffer to
`mcu_uart_send_buffer_dma`, which is split into `TestBusy`, `ClaimBusy`,
`SetAddress`, `SetCount`, `EnableStream`.  `TransferEnd` is the hardware,
`TxInterrupt` the handler.  The content of a buffer is the number of the
message in it; `wire` is what reached the line, `spoiled` what was overwritten
on its way, and by which message.

**`CliConsole`**.  `Arrive` puts a burst in the receiver's buffer, `Receive` is
the interrupt handler, the other actions are the console task: one per kind of
key, one per call of `FreeRTOS_CLIProcessCommand` (with the command it calls),
one for the string written, one for the end of the line.  A word stands for
its characters and the space before it; keys have numbers.  `EnterKernel`,
`StartScheduler` and `CreateQueue` are the stages of `main` that matter to
the interrupt.

**`FatVolume`**.  A content of the card is the FAT, the entries in each cluster
and the geometry; `MCFatVolume` has eleven, among them a directory whose
clusters are a ring, chains that break off or leave the volume, a FAT that is
too small and a card with a partition.  The model has at most one partition and
refuses the card at once when that one is no good; `find_volume` goes on to the
other three entries of the partition table.  A step is an access to the card and the
work up to the next: `MountVolume`, `CheckFs`, `ReadBpb` (mount), `OpenFind`,
`OpenNext` (`f_open`), `ReaddirStart`, `ReaddirEntry`, `ReaddirNext`,
`ReadStart`, `ReadCluster`, `ReadSector`.  `Window` is `move_window`, with the
content it was filled from, so that a stale one shows.  `at` is the place of
the two programs (`Music_Player`, `fatfs_ls`), `Swap` the host.  The reference
(`Lists`, `Files`) is computed from the content alone, by chains of clusters,
not by the code's walk.

**`SdTransfer`**.  A call picks a kind and a sector and goes through the steps
of `SD_ReadBlock` (or its three siblings), the wait with its two loops, the
stop command and the poll, one step for every shared variable, command or
register.  The card, the data path, the FIFO and the DMA are actions of their
own; `dataIrq` and `dmaIrq` are pending interrupts.  `DataError` is a failure
whose interrupt is enabled; `Underrun` is the one of a write that is not: the
data path stops and nobody is told.  `fault` remembers what
really went wrong in a call, so that a result can be compared with it.  The
USB callbacks are `Hosts`: they preempt the tasks and run to their end.

**`SdInit`**.  The driver's commands in their order (`Driver`) against a card
that is a state machine of its own (`CardStep`): five kinds of card, locked or
not, with one line or four, after power-on or after a restart of the processor
alone.  Commands and answers may be lost, damaged or late; flags of the SDIO
stay up until the driver clears them.

**`MscBot`**.  The device's step is a callback (`BulkOut`, `BulkIn` by the
stage, with everything they call); the host's are those of the bulk-only
transport: a command, blocks of data, a status, clearing a halt, a class reset,
a bus reset, and cancelling at any time.  Requests are records; a block is its
number.  The sector callbacks are atomic here, because the interrupt they run
in is not interrupted by the host's next transfer; they return 0 whether or not
the card did what it was asked, so `done` of a call (`calls`) is chosen freely.
Addresses and sums have the width of the code's (`Word` stands for 2^32).

**`UsbControl`**.  The interrupt handler of `usb_dc_dwc2.c` block by block
(`EnterHandler` reads the global status once; `PopRx`, `ServeOut`,
`ServeSetup`, `ServeIn`, `FillFifo`, `ServeReset` work through it) with the
callbacks of `usbd_core.c` inside, while the host goes on between any two of
them.  A packet is the request it answers, an offset and a length.

**`KernelQueue`, `FifoQueue`**.  One step is a critical section, or what a task
does with the scheduler suspended between two of them.  `SuspendAll` to
`Recheck` are the blocking part of `xQueueGenericSend` and `xQueueReceive`; an
interrupt sends between any two steps; `Tick` moves the delayed lists.
`ImplementsFifo` maps the ring and its pointers to the bounded buffer of
`FifoQueue`.

Two things common to all: a task executes no instruction between the moment
an interrupt is pending and its handler (the guards `~tc`, `~rxIrq`,
`dataIrq = "none"`), and tasks of one priority are switched between any two
steps.

## 4. The runs

| Run | What it shows |
|---|---|
| `player_sole` | plays that do not overlap, with card errors and remounts: no race on the buffer and one permit, at most the last block unheard, the stream in order, every play ends |
| `play_heap` | six play commands on a heap of two players and a few queues: memory accounted for, plays one at a time fit, a play opens its own name or a later one, the dead are freed |
| `uart_strings` | the console, which echoes every key before it answers, and a task that calls `vOutputString`: flag, registers, line buffer and messages agree, every send ends; an echo is the only writer that reaches a buffer being sent, or what it reaches, and whatever is missing on the line was spoiled that way |
| `cli_console` | every sequence of six keys and bursts: keys in order, answers complete and of their own line, `randint` finds its parameter, every line ends |
| `fat_volume` | eleven contents, a play and an ls that alternate, a host that exchanges the files, a fault: the play reads its file, a list is fresh, only the volume is read, both end |
| `sd_sole` | one caller at a time, lost commands, failed data phases, writes that run dry, flags left over: success is true unless a command was lost or a write ran dry, an error is true always, the next call finds all clean, calls end unless a command was lost |
| `sd_shared` (violation) | the USB interrupt reads in the middle of a task's read: the task is told that its data arrived |
| `sd_init` | every card, up to two disturbances: success is true, a healthy card works, driver and card stay in step, it ends |
| `msc_host` | a host with resets and cancelled commands, a card that fails blocks, commands at the end of the 32 bits: phases agree, a status comes when each block has met its own sector or the card has failed that block, only sectors of the card are asked for unless the sum wrapped, the buffer is left alone, the next command is taken unless a class reset cut a transfer, a bus reset cures that too |
| `usb_control` | every order of control requests, bus resets at any moment: answers and outcomes are the request's own, nothing is left for the next transfer or session, every transfer ends |
| `kernel_queue` | a sender, two receivers, an interrupt that sends, a tick that overflows: a bounded FIFO, no lost wake-up, lists and locks agree, time-outs neither early nor late |
| `kernel_live` | under fair time slices calls with a time-out return and who waits for an item is woken |

`sd_shared` is a finding: the program does what the run shows and a comment
says otherwise.  Six more configurations state what a comment says, in one
invariant each, and TLC refutes them; they are kept beside the runs and have
their counterexamples at once (`tlc -config SerialTxEcho.cfg SerialTx`).

| Configuration | Claim, and what refutes it |
|---|---|
| `SerialTxEcho.cfg` (`SerialTx`) | `NoTxRace`: the two halves avoid a data race (`serial.c:67`, `serial.c:75`).  The echo of a key (`serial.c:99`) goes into the first half at once, even while that half is being sent |
| `SerialTxPlayer.cfg` (`SerialTx`) | `ExclusiveTx`: the mutex ensures exclusive access to the transmitter (`UARTCommandConsole.c:140`).  The player's `printf_` takes none, and both set the stream up at once |
| `SdUnderrun.cfg` (`SdTransfer`) | `WriteIsWhole`: after the wait all data is transferred (`stm324xg_eval_sdio_sd.c:1578`).  The write functions (lines 1374, 1498) enable the interrupt of the receive overrun and never that of the transmit underrun, whose branch at line 1899 cannot be reached: a write whose stream is late stops half way and reports success |
| `SdHigh.cfg` (`SdTransfer`) | `DataArrived`, where the sector is the "Start sector in LBA" (`diskio.c:75`).  `sector * 512` is multiplied before it is widened: from sector 2^23 on another sector is read, with success |
| `MscLost.cfg` (`MCMscBot`) | `PassedIsMoved`: a failed callback is reported and the host will retry (`usbd_msc.c:841`).  The callbacks drop every result of the driver and return 0 (`msc_ram_template.c:106-135`): the status says passed for a block that was never moved |
| `MscWrap.cfg` (`MCMscBot`) | `CardIsKept`: an address out of range is refused (`usbd_msc.c:487`).  The check adds in 32 bits: a command that begins at the last address and wraps is accepted |

These flaws are in the models of the passing runs and of the proofs as well, but
for the second caller of `sd_shared`, the high sectors and the player's
`printf_`.  `OnlyEchoRaces`, `WireInOrder`, `DataArrived`, `StatusAccounts` and
`HostServed` say exactly what is left of each claim with the flaw present: what
races and what is lost is the echo's doing, a success hides no fault but the two
that are not reported, a status is untrue only of a block the card has failed,
and only a command that wraps leaves the card.

Other things met while modelling can be seen by changing a
constant of a cfg, or are what a property leaves out:

* A second `play` during a play leaves a task waiting for ever, because
  `dma_working_handle` is replaced: two `Players` in `DacPlayerSole.cfg`
  violate `EveryPlayEnds`.
* With a member of `Printers` in `SerialTxStrings.cfg` (the player) the two
  set-ups of `SerialTxPlayer.cfg` go on to violate `NoLostSetup`: a message is lost.
* A lost command of a single-block read: `disk_read` reports success and
  nothing was read (`DataArrived` leaves that out by `fault`).
* A key before the console runs meets a queue that does not exist, and
  `configASSERT( pxQueue )` stops the system: `EarlyKeys = TRUE`.
* Every play leaks its queue: with the real sizes (64 KB of heap, 16 KB of
  stack, 96 bytes of queue) some 470 plays exhaust it and `halted` follows.
* The end of a file is cut off: `task_del` stops TIM6 right after the last
  transfer is started.  `TailLossBounded` says how much can be lost: one block.
* A play ends early, without a message, when an `ls` mounts the card again or
  CMD13 gets no answer once (`hurt`); the end of a play unmounts the card
  under an `ls`; and a play that starts rewinds the directory of an `ls`, with
  which it shares `current_dir` and `res` (`rewound`).
* `fatfs_ls` never compares the length of its list with the 500 bytes of the
  buffer.
* A class reset leaves the endpoints as they are: armed for a block, or not
  armed at all.  `TakesCommands` says exactly when the next command is not
  taken (`cut`).
* A rejected command halts the endpoints and sends no status: the host has to
  reset.
* A card that is powered up exactly at the last trial of `SD_Init` is refused,
  comments speak of MMC cards that the function returns an error for, and a
  data flag that comes while the driver is kept away is cleared unseen.
* `start_read` cuts the length of an OUT transfer in `in_ep` and not in
  `out_ep`; `RequestsAssumption` keeps OUT data to one packet.
* A line of 50 characters has no terminator; what reads it, or repeats it,
  runs past the array (`system = "undefined"`).
* `play`, and `ls` on an empty card, leave the output of the command before in
  the buffer, which is printed again (`LeavesOutput`).
* The file name of a play is in a static array that the next play overwrites.
* CR LF runs a line twice.

## 5. Bounds, fairness, deadlock

Bounds are CONSTANTS named in the modules.

* `DacPlayer`: 7 samples in blocks of 2 give a header, two full blocks, a short
  one, and the 0 of the end: every way a read can come out.  `MaxPlays = 3`:
  a play that inherits what a play that inherited left behind.
* `PlayHeap`: 31 free units hold two plays of 13 and a queue of 3, so that the
  third creation fails at every point of `xTaskCreate`; `MaxPlays = 6` is
  enough to run out by leaks alone.  Memory is counted in alignment units.
* `SerialTx`: `LineLen = 2` (64) and `MaxSends = 4`: both halves of both double
  buffers are used again, after an echo and before one.  `IndexBound` limits an index that runs away.
* `CliConsole`: sizes counted in words, 4 each instead of 50, 25 and 25;
  `MaxStrings` is one more than the longest answer has;
  `MaxKeys = 6` reaches a full line, a full line repeated, a full queue, a
  dropped burst, a command run after every other command, and two empty lines
  in a row.
* `FatVolume`: clusters of one and of four sectors, two entries in a sector,
  blocks of two sectors (`Btr`), `MaxDir = 8`: chains, sectors and clusters
  are crossed by directories and files, and a ring meets its limit.  One play,
  one ls, one exchange and one fault of each behaviour, in every order.
* `SdTransfer` has no counter: the state space is finite and complete for its
  constants.  Two sectors tell the right block from a wrong one.  `SectorSize`
  2 and `AddressSpace` 4 stand for 512 and 2^32;
  `SdHigh.cfg` has a third sector, the first beyond.
* `SdInit`: three trials for 65535, so that a card may be ready before, at and
  after the last; two disturbed commands, anywhere; two cards, one with blocks
  of 512 bytes and one with blocks of 1024.
* `MscBot`: a card of two sectors, blocks of two bytes, a command block of one,
  addresses of 0 to 7 (`Word = 8`), and requests that are inside, at the end,
  beyond the end, empty, or wrap to the beginning, with answers shorter and
  longer than the host asked for.  Every block may fail.
* `UsbControl`: packets of two bytes, answers shorter than, equal to and longer
  than a packet and than what was asked for.
* `KernelQueue`: the tick counts modulo 4 (3 in `kernel_live`), the overflows
  modulo 2, and `Patient` says that no task in a call is kept from the processor
  for a whole turn of the tick count, so that two overflows cannot be taken for
  none: in the code 2^32
  ticks are 49 days.  A queue of two (one in `kernel_live`).

Fairness is weak fairness of what the hardware and the scheduler do: a task
that can run does (time slicing among equal priorities), a pending interrupt
is taken, a running timer or stream makes progress.  Strong fairness stands
where the code waits for what comes again and again: a card that is there
answers some poll (`SdTransfer`: without it `while (SD_GetStatus() !=
SD_TRANSFER_OK)` has no bound at all), a line of `printf_` has an end
(`SerialTx`), files end and the processor is idle at times (`PlayHeap`), and a
task gets its time slice although others interrupt its readiness
(`KernelQueue`).  The host of `MscBot` gives up a command without an answer
and resets the bus when nothing else helps, as hosts do.  Users and hosts need
not do anything else: no fairness on `Play`, `Arrive`, `Call`, `Choose`,
`Swap`, `SendSetup` or `BusReset`.

`CHECK_DEADLOCK FALSE` stands where a behaviour ends because its bound is
reached (`MaxPlays`, `MaxSends`, `MaxKeys`, `MaxLists`); the other runs are
checked for deadlock.

## 6. What is proved

Eight modules of proofs, every obligation of which TLAPS checks.  Each follows
the same plan: an inductive invariant in named parts, one lemma per action,
and the theorems at the end as consequences.  No invariant of section 4 is
inductive as it stands; what follows says what had to be added and why.

**`PlayProofs`** has the two halves of a play in two parts: the player, and the
file system it reads its blocks from.

Part 1, `DacPlayer`, for any file length, block size, number of plays and
with or without card errors, under `SoleOwner` (plays do not overlap; section 4
says what happens otherwise).  `TypeOK` is not inductive: that a transfer
stays in its half needs to know what the half holds (`TransferInv`), which
needs where the file position stands when a block is read (`FileInv`), which
needs that one permit exists (`PermitInv`), that the task never owns the half
being played (`HalfInv`), and that timer and stream run only inside a play
(`ClockInv`, `OwnerInv`).  Their conjunction `IInv` is inductive.  From it:
`TypeCorrect`, `BufferSafety`, `PermitSafety` and the three together,
`DoubleBufferSafe`; `StreamRefinement` (every step of the player is a step or a
stutter of `PlaybackStream`) and `TailLoss`.

Part 2, `FatVolume`, for any contents of the card and any sizes of clusters,
sectors, entries and directories, whatever fails and whatever the host
exchanges, without a hypothesis but the module's two assumptions on its
constants (`Formatted`).
`VolumeInv` has the types, the place of the two programs (one of them inside
FatFs at a time, `ProgramInv`), the limits (`GeometryInv`: those FatFs works
with are those of the card, because a host does not format it) and where a
directory object can stand (`DirInv`: in a cluster of the volume, at the sector
of its offset).  That the FAT is checked for its room before the volume becomes
valid keeps every access in bounds: `SectorsOfVolume`, in any chain a FAT can
hold.  `FreshInv` is the argument against stale data: `f_mount` forgets the
volume, so once a program has begun, limits and window were read from a content
that its card has had since.  A program that the host left alone therefore sees
the card as it is.  `SearchInv` says that `f_open` has passed entries of other
names only, `ObjectInv` and `ProgressInv` that the file object is that of the
first entry with the name, at the cluster of its offset, and that the units
read are those before it; `PlayInv` carries this from call to call until a
failure is noticed: `TakenOfFile`.  `WalkInv` and `ListingInv` do the same for
the entries that `ls` has shown: `ListOfDirectory`.  The reference walks the
chain of clusters by a recursive function.  Two lemmas give its recursive
equation (`ClusterNext` for chains, `DirUpToNext` for directories): from two
functions that differ a smallest place where they do is taken, since the
induction theorems of the library cannot be used.

**`SerialTxProofs`**, for any tasks and line length.  `TypeCorrect` needs no
hypothesis.  Under `Guarded` (all senders hold the mutex) one sender at a time
is between the test of the flag and the start of the stream (`MutexInv`), so
the flag is up exactly from the claim to the interrupt (`StreamInv`): `FlagExact`
and `SetupAccepted`.  Keys are echoed at any time.  The index of a double buffer
names the half that no chunk or line is being sent from, which leaves the echo
as the one writer that can meet the stream, or be met by a chunk, and only in
the first cache half: `DoubleBuffersSafe`.  What a buffer holds is the latest
message of the task that owns it unless an echo was written over it, and then
`spoiled` has the loss; a stream at rest has delivered the rest: `PartsAgree`
(nothing lost but by an echo, the index of `printf_` in its buffer) and `InOrder`.
The hypothesis leaves out `Printers`, the player's `printf_` without the mutex,
which `SerialTxPlayer.cfg` shows to break exclusion.

**`SdTransferProofs`**, for any sectors whose byte address has 32 bits
(`SectorsFit`) and one client at a time (`SoleClient`), whatever fails.
`CardInv` says what state the card is in at each step, `PathInv` what the data
path, FIFO and stream may still be doing, `DataInv` what the flags mean: which
of them may be left over from an earlier call and which prove that this call's
data arrived.  From them: `DataCorrect`, `AlwaysReady`, `BufferReleased`, and
`NextIsUnharmed`, the last two with the types.  `ErrorsAreTrue` needs the
converse as well: what each flag that can end a call with an error says about
this call and no other.  `Unreported` has what success may hide: a lost command,
and for a write an underrun (`DryInv`: a read has none).  Both happen in the model
that is proved about, and all but that one conclusion is proved with them.
`TypeCorrect` holds for any number of overlapping
clients.  `NoAlias` is the lemma on the 32-bit address.

**`SdInitProofs`**, for any number of trials, any registers and any number of
disturbed commands, without a hypothesis.  `Talk` says which command is on the
line and which flags can be up, `Knows` what the driver has learnt by the
command it is at, `Data` who may touch the data path, `Card` the width of the
card's lines and what it will say of an illegal command; together with the
arithmetic of `SD_GetCardInfo` (`SizeIsRight`) they give `SuccessTold`, and
`InStep`.  `Health` runs the dialogue in parallel for a good card that
nothing disturbs: `HealthyWorks`.

**`MscBotProofs`**, for any card, block and buffer sizes and any set of
requests, without a hypothesis: the host may reset and cancel at any time.
The card may fail any block, and requests may begin at any 32-bit address.
The invariant relates the stage of the device to the phase of the host, the
two counters of a command to the blocks on their way and to the calls of the
sector callbacks, and the buffer to the block that the host reads.
`StatusTold` (when a status comes each block of the command has met its own
sector, once, or the card has failed it), `HostIsServed` (with the range of the
sectors: those of the card unless the sum of the request wraps) and
`BufferLeftAlone`.

**`UsbControlProofs`**, for any packet length and any well-formed requests,
without a hypothesis.  `TransferIsOwn` is far from inductive: the handler works
on a copy of the interrupt status while the host goes on and may reset the bus.
`Situation` therefore lists the stages the device can be in for each phase of
the host, also when a reset has come that it has not noticed; `Snapshot` says
which bits of the copy still mean what they meant, `Agreed` relates address
and configuration of both sides, `Counts` the handlings of a request.  A part
of the work is on answers cut into packets: multiples of the packet length
and where the last, perhaps empty, packet stands.  `Invariant`, `OwnTransfer`,
`CleanStart`.

**`CliConsoleProofs`**, for any sizes.  `LinesAreApart` holds without a
hypothesis: the cursors left in static variables are reset at the end of every
answer, so a cursor is that of the line being answered or none.  `KeysOrdered`
assumes `~EarlyKeys`: a key before the queue exists ends in the assertion,
which drops the burst without a note in `dropped`.

**`KernelProofs`** has the two parts of the kernel that every play uses.

Part 1, `KernelQueue`, for any length of the queue, any tasks, and any width
of the tick, without a hypothesis.  `RingInv` relates the two pointers and the
count to the items, also across their wrap; with it every step is a step or a
stutter of `FifoQueue`: `QueueIsFifo`.  `HolderInv` and `LockInv` say who has suspended
the scheduler and what was counted meanwhile: `LockHeld`.  `TimeInv` relates
the clock of the kernel, with its overflows, to the time a call has waited:
`FailsNotEarly`.  `ListInv` says where a task is: in an event list exactly when
its call waits and nobody has woken it, in one list at most, on the pending
list only while the scheduler is suspended.  `NoLostWakeup` looks only at
moments when tasks may be switched; `WakeInv` extends it to all others: while
the queue is locked the wake-ups still owed are those the lock has counted
(`WakeAll`), and what a task found in its test holds, but for those, until it is
in the list (`TestHolds`).  The steps count the tasks that are awake: one that
takes an item uses up one of them, one that is woken makes up for the item that
woke it.  So `WakeupsKept`.  `LateInv` says that the ticks since a waiting call
looked at the clock and the ticks until its wake time add up to what was left of
its time, that those counted by hand, since then and pended are all it has
waited, that the cached earliest time is never behind a wake time of the current
list, and that the list of the next round holds only times already passed in
this one: with it the lists can be switched, and `KernelListsAgree`.

Part 2, `PlayHeap` on `Heap5`, for any size of the region and of what is taken
from it, any tasks and any number of plays, without a hypothesis but the
module's assumptions on its sizes.  It rests on lemmas about the allocator: what
the two concatenations of the code's list operations are (`Splice`, `CutOut`),
that the blocks in front of an address are the first of an ordered list
(`InFrontIs`), and from these what the insertion with its two joins (`InsertIs`),
`pvPortMalloc` (`MallocIs`) and `vPortFree` (`FreeIs`) do to the set of free
units, each keeping `Sound`: the list in order with no two neighbours left
unjoined, every unit in exactly one block, and a free count that is true.
`MemoryAccounted` needs to know besides who may free what: `OneOwner` says that
the blocks given away are exactly those of the boot, the leaked queues, the
creation in progress and the tasks, each held once, and `Lives` which of a
stack and a control block a task has at each point between its creation and the
idle task's last step.  So `MemoryOfPlays`.  `NameInv` orders the
commands of the tasks by the one in the static array: `NamesOfPlays`, of every
step.  `AloneNeverRefused` is about fragmentation.  `Shape` says, for plays that
do not overlap, where everything is: stack and control block at the front of
the free units, as the first fit finds them (`FirstRun`), the queues behind them
one after the other, and the free units exactly the rest.  That the two places
are free again and joined after each play (`RunIsBlock`) is what makes the next
play fit: `AloneFindsMemory`.  `Malloc` takes the least of a set of places; that
a set of numbers has a least one is the lemma `LeastOne`, for the same reason as
above.

Only model-checked: the liveness properties (`EveryPlayEnds`,
`EverySendEnds`, `EveryCallEnds`, `EveryCommandEnds`, `EveryLineEnds`,
`DeadAreFreed`, `CallsGoOn`, `InitEnds`, `CommandsEnd`, `TransfersEnd`).
Liveness under fairness is out of reach of this prover.  Every other property of
the passing runs is stated by a theorem.

## 7. Assumptions about the outside

* RXACT and TXACT of the SDIO are on from the arming of the data path; its data
  timer is shorter than the driver's loops of 2^32 turns; the FIFO drains
  before the card answers another command.
* A card executes a command only in the states the SD protocol allows, and
  finishes programming.
* A host keeps the rules of the bulk-only transport and of control transfers,
  waits longer for an answer than a transfer takes, and changes files but does
  not format the card while the player is attached.
* An interrupt is taken before the next instruction of a task; handlers are not
  interrupted by tasks.  The USB interrupt does not preempt the handlers of
  the SD driver.
* Characters arrive in bursts with a pause that the UART notices; no character
  arrives while the handler has its DMA switched off.
* The calls of two tasks to FatFs do not overlap.  The code does not ensure it
  (equal priorities, `FF_FS_REENTRANT 0`); FatFs promises nothing otherwise.
* A disk call of `FatVolume` fails or delivers; the lost command of section 4
  is `SdTransfer`'s.
* What `xSemaphoreTake` and the USB controller's registers do is what their
  documentation says.

## 8. Not modelled, and why

* SD: erase and high speed, which nobody calls; the polling mode, which is not
  compiled in; removal of the card; `disk_status` as a caller of the driver
  (planned).
* FatFs: writing, FAT12/16 and exFAT, sub-directories, long names byte by byte
  (an entry of the model is a group of entries of the directory), formatting.
  Nothing in this program calls them but for the bytes of names.
* Kernel: priorities, mutex inheritance, receiving from an interrupt, timers,
  event groups, stream buffers; calls that wait for good do not keep
  `xTimeOut`, which nobody reads then.
* USB: the bytes of descriptors, OUT data of more than one packet, answers of
  no bytes, a SETUP that overtakes another, a host that gives up a control
  transfer without a reset, suspend, high speed and DMA, which this build
  leaves out.
* littlefs, spiffs, sfud, the SPI port, `mcu_dac.c`, `wujique_log.c`, the LED
  and `master_task_main`: set-up without state, or code that `main` never
  starts.  They, the vendor's register headers and drivers, the CJK tables of
  `ffunicode.c` and the sound in `music_data.c` are most of the lines of the
  repository.
* Texts, numbers and formatting; the sense data and short answers of the USB
  disk.
