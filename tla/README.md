# A formal model of the programs in xblog

The repository is a web site: some 1500 articles, a theme, and, below
`static/`, the programs the articles are about. The programs are what has
behaviour, and of those the Linux drivers in `static/coding` are the ones in
which interrupts, threads, timers and devices meet. This directory models them in
TLA+, checks the models with TLC and proves theorems about them with TLAPS.

    tlc -config xnet_pipe.cfg MCXNetDev.tla       one run
    tlc -config coding.cfg MCCoding.tla           the small programs
    tlapm XNetDevProofs.tla                       a proof module (about a minute)

## 1. Inventory

| component | state it keeps | operations | hard behaviour |
|---|---|---|---|
| `xnetdev.c`, DM9000 Ethernet driver | `tx_pkt_cnt`, `queue_pkt_len`, `device_wait_reset`; the chip's registers, its transmit and receive memory | probe, open, stop, xmit, interrupt (transmit half, receive half) | the handler preempts xmit between any two instructions; one index port shared by both; edge-triggered line; two-packet pipeline; no lock that xmit takes |
| `mytimer.txt`, delayed read | one `timer`, one `flag`, one wait queue | read, timer callback, init, exit | concurrent readers on one timer; signals; a callback between two statements of read |
| `xkeydev.c`, keys | `key_value`, `press_key`, six irqs | interrupt, read, poll, open, close | a press between two statements of read; two readers; a failing `request_irq` |
| `mutex.c`, two kernel threads | two semaphores, a mutex | test1, test2, init, exit | order of start, hand-over, unload while a thread sleeps |
| `mytasklet.c` | `mycount`, a tasklet, an irq | interrupt, tasklet, init, exit | an interrupt between `tasklet_kill` and `free_irq` |
| `mydeamon.c` | processes, `test.log` | double fork, the logging loop | forks in a loop, writes to one file |
| `get_rss.c` | processes, one file per feed | main loop, `get_rss` | children that stay in the loop, a file truncated while another reads it, crashes |
| `spix.c`, `spix.h` | the SPI bus's control lines, what is registered | open, close, write, read, load, unload | any number of callers in `send_byte`, no lock; open resets the bus |
| `xaddev.c` | the converter's registers, the node | open, read, load, unload | two readers of one converter; a node that is there before its registers are mapped |
| `led_proc.c` | the output port, two /proc entries | write, read, load, unload | a file that can be found while it is half made; partly failed loading |
| `cat_syscall.c` | one entry of the system call table, `counts` | the wrapper, load, unload | callers inside the wrapper while it is removed; racing counts |
| `bmp.c` | positions in two files and a buffer | the copying loop | padding of rows, size of the buffer |
| `tools/sudoku/js/Sudo.js` | `layout`, `solving`, `answer`, `answerPosition`, `resetData`, `editIndex`, `gameState`, a timer | generate (backtracking), start, pause, reset, show answer, choose a number | a search that must end in a full, valid board; button sequences that leave two copies of the board different; timers |
| `tools/sudoku/js/sudoku.js` | `sudoku`, `a`, `answer`, `table`, `difficulty`, a timer | create (recursive search), onInput, levels, start, reset, show answer, game over | a search that falls through into trying numbers where a given one stands; entries kept in two places; a test that only adds up |
| `.github/workflows/ihugo.yml` | runs and the deployed site | push, cancel, deploy | a run cancelled by a newer one |
| `sniffnet.c`, `hello.c`, `mydmesg.c`, `ledx.c`, the drivers' test programs | none that outlives a call | | |

How they interact: they do not interact with one another. Each driver interacts with the
kernel that calls it (system calls, the network stack, interrupts, timers) and
with its device; the two Sudoku programs with the page's events and timers. So
each component's model is closed by a model of its surroundings: chip,
interrupt controller, network stack, user.

What makes each of them correct:

* **xnetdev**: the count of packets covers what the chip holds; a packet
  accepted is sent once, in order, with its own length; the stack's queue is
  stopped exactly when there is no room; no interrupt is lost; a write goes to
  the register it was meant for; a received frame is read or accounted for by
  a pending event; only whole good frames go up, and their bytes fit the buffer; a
  device that must be reset is reset; the handler never runs without the driver's data.
* **mytimer**: a read returns no sooner than its delay and returns at last (the program keeps
  neither promise, section 4).
* **xkeydev**: a press that is stored is announced and not wiped unread, a waiting reader takes it,
  no later read gets it again; a failed open does not deafen the device for good.
* **mutex**: test2 prints before test1, and both end.
* **mytasklet, xaddev, spix, led_proc**: nothing runs or stays registered after
  unload; a value was converted after it was asked for; the bus is released;
  the lamps show what was written.
* **mydeamon**: one daemon, without a terminal, whose children vanish.
* **get_rss**: a feed's URL survives its processes and their deaths; the program ends
  unless a server keeps it waiting.
* **cat_syscall**: the table is restored, and a call through the wrapper returns.
* **bmp**: every row is read from its place and stored in the buffer.
* **Sudoku**: the generator fills a valid board and ends; what is judged is
  what is shown; at most one timer runs.

`PROJECT.json` lists the hazards behind these, each at its line.

## 2. The Ethernet driver

### Modules

| module | what it is |
|---|---|
| `Dm9000` | the chip as the driver uses it: registers, transmit memory, receive ring, interrupt pin. Operators only; hardware, so external to the repository |
| `XNetDev` | the driver, the processor that runs it and the chip's own steps; the properties |
| `TxPipe` | abstract specification: a pipe for at most two packets |
| `XNetLoad` | loading, probing and unloading the driver; `MCCoding` checks it |
| `MCXNetDev` | the frames TLC uses |
| `XNetDevProofs` | theorems and their proofs; those of `XNetLoad` are in `DriverProofs` |

### State

`chip` is the chip, `latch` the edge latched at the interrupt controller
(`xnetdev.c` 91-94 set the line up as falling-edge triggered), `wire` what was
sent. The process, whatever kernel context runs
open, stop or xmit, has a label `pc`, and `sel` says that it has written the
index port and not yet the data port; `tmp` is the count it has read and `skb`
its packet. The handler has its label `hpc` and its locals `int_status`
(`hstat`) and `reg_save` (`hsave`). `tx_pkt_cnt`, `queue_pkt_len` and
`device_wait_reset` are the fields of `struct dm9000x`; `awake` is the state of
the stack's queue, `irqOn` whether the irq is requested. `delivered` is a
history of the frames given to `netif_rx`, `lag` is explained below.

### Actions

* **Process.** `iowt` is two instructions, an index write and a data write, so
  each of the process's port writes is a pair of steps, `Select` and `Write`;
  the table `PortWrites` lists them in program order. In open: reset, clear
  NSR, clear ISR, receiver on, interrupts on. In xmit: mask, fill the SRAM,
  length, transmit request, unmask. In stop: mask, receiver off. `Branch`,
  `Reload`, `CountFirst` and `CountSecond` are the reads and writes of
  `tx_pkt_cnt`: the field is not volatile, so the compiler may use the value
  tested at line 365 for the increment or read it again, and both are allowed.
* **Handler.** One label per port access that the chip could come between:
  enter and save the index, mask, read ISR, acknowledge, transmit half,
  receive half (one step per round of its loop), unmask and restore the index.
  The process does not run inside the handler, which is exact on the
  uniprocessor S3C2410 the driver is for; `spin_lock_irq` in the handler is
  nothing there.
* **Chip.** `TxComplete` sends the packet at the head of the SRAM with the
  programmed length, `RxArrive` receives a frame if there is room.

Init is the state after probe; a latched edge from earlier is allowed.

* **The module** (`XNetLoad`). Loading allocates the device, may be refused before or after
  the probe, and the probe finds a DM9000, no memory, or another chip, for which
  it returns 0 all the same (107) and leaves `dev->open` and its like null. Then the
  stack brings the interface up and down, sends, and the handler uses `dev->priv`.
  `ldSeen` records that memory was short, that the chip was another, and that the
  kernel has followed a null pointer. This is a model of its own because nothing it
  keeps changes while open, stop, xmit and the handler work.

Data is abstracted. A register byte is the set of bits the driver uses. A
packet is named by its length, so one sent with another's length can be told
apart. A frame is its length, its error flag and its first byte. After the
driver has left a frame's body in the chip the read pointer is in the middle of
it (`skewed`) and the next first byte may be anything.

### Interrupt latency

xmit takes no lock. It relies on line 354, "Disable all interrupt", which
masks the chip. Whether that excludes the handler depends on what the machine
may do between an edge and the entry of the handler. `Latency` is the number of
steps the process may still take once an interrupt is latched. 0 is a machine
that takes interrupts at once; 1 is the real one: the data write that masks
the chip is on its way when the edge comes in. No property and no theorem assumes a value of it:
the safety properties are proved for every latency, and all are checked at 1 or 2 (`xnet_reset`, whose
counterexample every latency has, at 0).

At 1 and above the handler does run inside xmit, and leaves with the chip unmasked, so that completions
can be handled between any of its lines from then on. xmit bears all of them but
those that are counted off between its test of the count (365) and its store of
`queue_pkt_len` (376): there the decrement is lost or the second packet is sent with an earlier
length. The history `raced` records such a completion, from the time open clears the
count. The properties about counts, queue and packets hold until then (`xnet_pipe`), and `xnet_stranded`
shows what may happen after it. Neither half of the stretch can be left
out of `raced`: without the labels `"queue"` (376) TLC finds `ImplementsPipe` violated, without `"second"` (375)
`CountTracksSram`, already at latency 1.

### Properties and runs

| run | bounds | shows |
|---|---|---|
| `xnet_latency` | 3 packets, five kinds of frame, ring of 2, latency 1 | `TypeOK`; `NoLostIrq`; `AddressRestored`; `TxCountCovers`; `NoStrandedFrame`; `DeliveredIntact` |
| `xnet_pipe` | 3 packets, ring of 1, latency 2; 225,279 states | `CountTracksSram`; `QueueTracksPipeline`; `StrandedOnlyByRace`; `ImplementsPipe`; `AcceptedIsSent` |
| `xnet_stranded` | 2 packets, latency 1 | `NoStrandedTx` is violated |
| `xnet_reset` | no packets, five kinds of frame | `ResetServed` is violated |
| `coding` (section 4) | none | `LoadSound` |

`DeliveredIntact` says of a frame handed up also that what lines 248-257 write lies
in the buffer they allocate (`Fits`): the loop copies the checksum too, and in whole words, up to
five bytes more than `skb_put` announced. TLC sees the lengths at the limits, the theorem covers
every length.

*Bounds.* `MaxPkts` bounds the packets offered; the pipeline holds two, so
three fill it, drain it and use it again while it drains.
A latency of 2 lets an
edge find the process before both of two accesses, and the handler unmask xmit for the rest of its call, so that
a completion meets every line of it.
`RingSize` bounds the frames waiting in the chip; one frame makes
the loop's "one more" and "none left" rounds, two also a frame behind one that
is left in the chip. The frames have the lengths 63, 64, 1536 and 1537, the
two sides of both tests at lines 237 and 239. Opening and stopping are not bounded.

*Fairness* (`LiveSpec`). A call under way goes on although interrupts keep coming (strong
fairness of the process's steps inside a call: the processor returns from an
interrupt to the code it interrupted, and some instruction of it then runs),
the handler goes on once entered (weak), the
transmitter finishes (weak). Nothing says that xmit, open or stop
is ever called. `FloodEnds` assumes that the receive loop at lines 225-271 is
left again: it has no budget, and under a flood of frames that never ends
the handler would never return, whatever the rest of the driver does.

### What was found

* **A packet can be stranded** (`xnet_stranded`). A receive edge is latched
  while xmit executes its mask write. The handler runs inside xmit and leaves
  with IMR = 0x83 (line 301), so xmit continues with interrupts on. The
  completion of the first packet is then served between the read and the write
  of `tx_pkt_cnt` at line 375; its decrement is lost. The count is 2, one packet
  is in the chip, nobody requests its transmission and every later xmit
  returns 1. The count never runs below what the chip holds
  (`TxCountCovers`, proved), so the error is always in the direction of a stall.
  One step later, between 375 and 376, the completion sends the second packet with the
  length of an earlier one. No other completion does harm (`StrandedOnlyByRace` and the other
  safety properties of `xnet_pipe`, proved for every latency).
* **A device waiting for its reset waits for ever** (`xnet_reset`). Nothing
  clears `device_wait_reset`, not even the reset in `do_init_dm9000x`. After one
  frame longer than 1536 bytes, or one first byte other than 0 and 1, nothing is
  received until the module is loaded again.

## 3. The two Sudoku programs

### Modules

| module | what it is |
|---|---|
| `SudoGenerate` | `Sudo.js`: `generate`, the backtracking search that fills a board |
| `SudoPuzzle` | `Sudo.js`: `checkUnique` and `regenerate`, which turn a board into a puzzle |
| `SudoGame` | `Sudo.js`: the page, with its buttons, number panel, clock and judgement |
| `SudokuBoard` | `sudoku.js`: the board and the tests of it, `check` and `sudokuOK` |
| `SudokuSearch` | `sudoku.js`: `createSudoku`, the blocks filled at random and `tryit`; extends `SudokuBoard` |
| `SudokuPage` | `sudoku.js`: the page from its load on; extends `SudokuBoard` |
| `FourByFour` | boards of 4 by 4, orders and sets of squares for TLC |
| `MCSudoBoards` | both programs' making of boards, for TLC |
| `MCSudoPages` | both pages, for TLC |
| `MCSudoPuzzle`, `MCSudoGame` | `SudoPuzzle` and `SudoGame` alone, for TLC |
| `SudoBoardsProofs` | theorems about `SudoGenerate` and `SudoPuzzle`, and their proofs |
| `SudoGameProofs`, `SudokuProofs` | theorems about the first page, and about all of `sudoku.js` |

In `Sudo.js` the parts meet in `initLayout`: it runs the search, empties cells, repairs the
puzzle and shows it. `SudoGame` takes any board and any puzzle from it, which is
more than the other two hand out, so what it shows holds for theirs. `SudoPuzzle` takes any
full board without a clash (`FullBoard`, named in `MCSudoBoards`), and `FinishedIsFull` proves that what `generate`
finishes is one. In `sudoku.js` they meet in `createGame`, which repeats the search until it succeeds and digs holes;
`SudokuPage` takes any valid full board, and `SearchAnswers` proves
that what the search hands over is one.

### State and actions

* **SudoGenerate.** One step is one round of the loop at line 111: `Back` the
  two branches that step back (118-141), `Place` the third (142-156).
  `answer[c]` is the set of a cell's candidates and `used[c]` those tried. In
  the code the list is shuffled and `answerPosition[c]` counts the tried ones;
  since the order is random either way, the next entry may be drawn when it is
  wanted. A list is computed when the cell has none tried
  (line 112) and kept otherwise. The code steps between rows at column 8; the
  model at `Size - 1`, which is 8 on the page.
* **SudoPuzzle.** Init is any board of `PzBoards` and any way of emptying cells (234-255) that `Blanks` contains; then one round
  of `regenerate`'s loop per step, in the order of `checkUnique`'s loops, with
  the corner to be given away chosen at random (`Give`) or nothing to do (`Skip`).
* **SudoGame.** One action per event: `Start`, `Pause` and `Continue` (two
  branches of one handler), `Reset`, `ShowAnswer`, `ClickCell`, `LeavePanel`,
  `Choose` with the judgement of the board (`Judge`), `Tick`. JavaScript runs a
  handler to its end, so a handler is one step. `running` is the set of the
  browser's live intervals, whether or not the program still has their handle;
  `shown` and `editable` are the page. `praised` is a history.
  The choice of level decides how many cells are emptied; the model allows
  every set, also the two extremes.
* **SudokuSearch.** The stack of `tryit`'s calls is one per square in row order, so a
  cursor `srAt` and the loop counter of each call, `srK`, stand for it; `srBack` says
  that the innermost call has just got `false`. `TryGiven` is lines 144-149 (a filled square is
  left as it is first), `TryNumber` the next round of the loop whose number fits,
  `GiveUp` the end of the loop, `Succeed` line 135, `CreateAgain` the next call of
  `createSudoku`. If the squares after a given one cannot be completed the code falls through
  into the loop and tries other numbers there, and would then overwrite the given one
  and empty the square; that this never happens is a property (`SearchSound`), not an assumption.
  The square is emptied (158) in the step in which the loop goes on.
* **SudokuPage.** `startGame`, `SetLevel`, `onInput` (`Accept`, `Refuse`, and `Again` when the
  player has won and wants another game), `resetGame`, `showAnswer`, `timer`. `sudoku` is the
  program's board and `table` what the page shows, `inputs` the squares with a field.
  `timeouts` are the browser's waiting timeouts. `Holes` bounds what the digging may choose; how many
  squares of a row may be empty at a level is the code's.

### Properties and runs

| run | bounds | shows |
|---|---|---|
| `sudo_boards` | 4 by 4. `generate`: every shuffle. `SudoPuzzle`: two boards, every set of cells of a 3 by 3 corner emptied. `SudokuSearch`: 36 fillings of the two random blocks, 12 orders of trying | `TypeOK`; `ValidSoFar`; `ListsAreCurrent`; `PuzzleSound`; `SearchSound`; `FailsRightly`; `SearchesEnd` |
| `sudo_unique` | two boards, the eight cells of the right half emptied or some of them | `UniqueSolution` is violated |
| `sudo_game` | `Sudo.js`: 2 cells, 2 digits, 3 handles, 1 second. `sudoku.js`: two boards, five or six empty squares, two levels, 3 handles, 1 second | `TypeOK`; `ClockSound`; `ShownHasSource`; `BoardKept`; `WonIsSolved`; `PageShowsBoard`; `OneTimeout` |
| `sudo_reset` | `Sudo.js`'s page | `PraisedIsShown` is violated |
| `sudo_stale_cell` | `Sudo.js`'s page | `Completable` is violated |

As in section 4, one program moves per behaviour and the others stand.

*Bounds.* A board of 4 by 4 is the smallest with boxes; its searches run into
dead ends and step back over rows. Of `sudoku.js`'s 576 fillings of two blocks, those are taken
whose blocks begin with 1, which are the 576 up to exchanging rows and columns inside a band;
some of them no board continues, so that the search fails too, and
`FailsRightly` compares its answers with `Finished`, here all 288 boards of that size. An empty rectangle takes four
cells, the other cells of the corner belong to rectangles that share cells with it.
`Sudo.js`'s page needs two cells to tell a finished board
from an unfinished one and a given cell from the player's. `sudoku.js`'s needs a row with
two or three empty squares, so that a number can be accepted that leads nowhere. Three handles
are enough for two running and one in the program's variable. The handles are
interchangeable and the run uses that symmetry (it has no temporal property).

*Fairness.* A search that has been called runs (weak fairness of `generate`'s round
and of `tryit`'s step): a function of JavaScript is not interrupted. `CreateAgain` has none:
that some filling of the blocks succeeds in the end is chance. The pages have none: nothing says
that the player presses a button.

*Stopping.* The searches and `regenerate` end, so `sudo_boards` and `sudo_unique` do not check for
deadlock; the pages never stop, and their runs do.

### What was found

* **A reset screen can be praised** (`sudo_reset`). `Sudo.js`'s `reset` clears the screen but not
  `solving`, by which the player is judged. After a reset, filling
  the one cell that was missing before completes `solving`, and a nearly empty
  screen is "完全正确".
* **A game that cannot be completed** (`sudo_stale_cell`). The number panel and
  `editIndex` outlive their game: the panel is hidden only when a pointer that
  was over it leaves it. A digit then chosen in the new game overwrites a given cell,
  which is not editable.
* **Puzzles with two solutions** (`sudo_unique`). `checkUnique` finds swaps of two
  digits in a rectangle, and `PuzzleSound`, which is proved for every size, says that these are removed; longer
  cycles are not found. `checkAllAnswer` accepts only the solution
  the puzzle was made from.
* Seen while modelling, with no text of the repository to hold against it: in `sudoku.js` a
  field whose entry is refused is emptied on the page while the number accepted there before stays in
  `sudoku` (`PageShowsBoard` says exactly that much), so the player can win with a blank
  on the screen; its `resetGame` (384-388, 重置数据) draws `sudoku`, which holds the entries that were
  accepted, so that after a reset they are still there, no longer in fields, and cannot be
  changed; the minutes of its clock are not taken modulo 60 (line 348).

## 4. The small programs of static/coding

Eleven programs, each with a module of its own, and the loading of the Ethernet driver. No two of them share state or
call one another, so `MCCoding` checks them in one run by letting one
program, chosen at the start, move while the others stand: every behaviour of
every program occurs, and the product of the programs, which would show nothing
more, is not built. A liveness property of one program is stated for the behaviours that move it
(`ProgramsEnd`), and means what it would mean in a run of that program. `timer_early` and `timer_lost` are runs of `MyTimer` alone.

In every module a label per process or per module phase says between which two
lines the program is; one action is one line, or several lines that nothing can
come between to any effect.

| module | program | what the state and the actions are |
|---|---|---|
| `XKeyDev` | `xkeydev.c` | `press_key` and `key_value` with the code's names; per line the number of registered handlers and whether it is disabled. read is `ReadEnter`, `ReadWake` or `ReadSignal`, `ReadClear` (108), `ReadCopy` (109), `ReadZero` (111), and `KeyInterrupt` may come between any two. `KeyOpenFails` is the loop of lines 68-81 with a failing request; open and close run one at a time under the kernel's big lock of that time |
| `SemPair` | `mutex.c` | two semaphores, the mutex, a label per thread; each thread's five lines are five actions |
| `MyTasklet` | `mytasklet.c` | the tasklet's SCHED bit and whether it runs; unload in two steps, `LetKill` and `LetKilled` (63), `LetFreeIrq` (64), interrupts in between |
| `MyTimer` | `mytimer.txt` | `flag`, the ticks left on the one timer, a label per reader: `TmArm` (51-57), `TmWake` or `TmSignal` (62), `TmClear` (65), `TmDelete` (66), `TmReturn` (68, whose `strlen(res)` of an undeclared name is read as `sendbuf`'s); `TmLoad` with its three outcomes, `TmUnload` |
| `GetRss` | `get_rss.c` | the first line of each file on the disk; a label, a file and the line it read per process. `Fetch` is all up to the answer (106-162), `Receive` the loop that reads it (164-180), `Rewrite` (181) empties the file, `WriteUrl` is the moment the line reaches the disk, `Dies` a death at any point, `RssStart` the next run |
| `MyDaemon` | `mydeamon.c` | a label and a session per process; each fork may fail |
| `Spix` | `spix.c`, `spix.h` | four bus signals; `send_byte` is nine actions, one per register access; open is three, `SpOpen` (chip deselected), `SpReset` (controller reset) and `SpReady`, between which another's byte may come; the two registrations of load and unload with the failures of lines 157-164 |
| `XAdDev` | `xaddev.c` | the converter's busy state and end flag; load in two steps, `AdRegister` and `AdMap`; read is `AdRead` (55), `AdStart` (57), `AdPoll` (58-60), `AdTake` (61). `AdConvert` is the converter's part |
| `LedProc` | `led_proc.c` | the port, the entries and which of the file's fields are set; load in six steps, two of which may fail; per process whether it has the file open, whether that counts as a use of the module (`ledHeld`), and the two steps of write, `LedCopy` (49-50) and `LedWrite` (61-65), and of read; unload is `LedRemove`, `LedIoExit`, `LedFree` |
| `CatSyscall` | `cat_syscall.c` | the table's entry, `old`, `counts`, a label per caller; `counts++` is a read and a write |
| `Bmp` | `bmp.c` | the loop variables and the positions in the two files and in the buffer |

### Abstractions

* A key is its line's number. In `XKeyDev` `keySeen` is a history: the stored key is new, has been copied to a
  process, or came while a process that had copied had still to zero it. `keySpoilt` says that since no file was open
  a close or failed open has disabled the lines of files that stay open.
* `MyTimer`: `tmSlept`, `tmSignalled` and `tmStale` are histories of each reader's last wait. Linking the pending timer into the kernel's list a second time
  (line 51) corrupts the list; `tmBroken` ends the behaviour there. So does unloading with the
  timer pending or a read under way. When `cdev_alloc` fails, `ret` is still the 0 of the line before
  (79) and the module is loaded without a device (`"hollow"`); unloading it follows a null pointer.
* `GetRss`: a process forks at most once at each file, so it is named by the set
  of files its ancestors and itself were forked for. The copy of the directory
  stream that a child gets is as far as its parent's, which is exact for
  a directory that is read in one piece. The network's answers are the choices
  of `Fetch`; that a server goes on sending, or closes, is a choice of `Receive`, and nothing says that it does. A line without `http://` is a null pointer that is followed.
* `MyTasklet`: from 10 on the value of `mycount` makes no difference. Once the
  module has gone with its tasklet queued the behaviour is not followed further.
* `Spix`: the read-modify-write of `spix_con` in send_byte is one step, because nothing the
  model keeps depends on the value read.
* `XAdDev`: that the converter's end flag falls with the write that starts it is assumed (`AdConvert`): the driver
  polls at once (58) and takes it for granted. The other bits of the register nobody changes. A process that reads before the registers are mapped faults and keeps
  its file open.
* `LedProc`: the field `stat` is shared by reads and writes and no property speaks of it. A file opened before it has its owner
  (78-89) does not count, and the module may go from under it; who then uses it faults. When the file cannot be made, `led_dir` points to a directory that was
  freed; unloading passes it to the kernel, which finds nothing or kills
  the process.
* `CatSyscall`: line 69 reads `ld = ...`; the missing letter is supplied, since no
  compiler takes it otherwise. A caller that returns to a wrapper that has been
  unloaded is `astray`. The module is loaded again only when nobody is in it.
  The search through the kernel's code is its outcome. When the table was not found,
  `mysys_exit` writes through a null pointer and is killed (`catOops`).
* `Bmp`: the name in line 25 has an odd first letter and is read as `outfile`. The input is as
  long as its header says. The program writes rows without
  their padding, so an output whose width is no multiple of four is not the
  bitmap its header announces; no text of the repository says otherwise.

### Properties, bounds and fairness

| property | bound in `coding.cfg` | why it is enough |
|---|---|---|
| `KeyAccounted`, `OpenHears`; `KeyTaken` (in `ProgramsEnd`) | 2 files, 2 lines | two readers woken by one press; an open that fails on the second line while another file is open |
| `HandedOver`; `BothEnd` (in `ProgramsEnd`) | none | the program has two threads |
| `GoneIsQuiet` | none | |
| `EarlyOnlyIfStale` | 2 readers, delay of 2 ticks | one comes in between the other's callback and its lines 65 and 66; a tick before the last one lets a signal come first |
| `RssSound`; `RssEnds` (in `ProgramsEnd`) | 2 files, 2 runs | the second file has two processes; the second run meets what the first left |
| `DaemonSound` | 4 processes | the daemon and three children at a time |
| `SpixSound`; `ByteEnds` (in `ProgramsEnd`) | 2 callers | a byte under way and another caller that opens or sends |
| `AdSound` | 2 readers | one starts the converter while the other waits |
| `LedSound` | 2 processes, 14 characters | two writes at a time, one of them through a file that does not count; both sides of each of the six limits of lines 53-58 |
| `WrapperSound` | 2 callers, 3 calls | racing counts, and a call after the race |
| `BmpSound` | 5 by 3 pixels, 32 as the machine's word | every remainder of a width; products beyond the word |
| `LoadSound` | none | |

`NotEarly` (run `timer_early`) and `SleeperReturns` (run `timer_lost`) are violated, both with two readers and a
delay of 2. What is left of the first is `EarlyOnlyIfStale`, for any number of readers: a read that no signal has ended
returns early only if an earlier callback's flag was still up when it set its timer.
`CodingTypeOK` joins the twelve type invariants; `RssSound` joins `UrlKept` and `FirstFileWhole`, `LedSound`
`OpsHaveData`, `LedsAreLeft` and `LampsShowDigit`.

*Fairness.* Weak fairness of each thread (a kernel thread that can run, runs), of each
reader of the keys inside a call, of each process of the feed fetcher but for its loop that reads the answer (`Receive`),
of each caller inside `send_byte`. Nothing says that anybody presses a key, opens a
device, starts a program, that a server answers to the end or that the SPI chip ever finishes; signals and
deaths may come or not. `RssEnds` does not need that a process survives, and excepts the processes that
wait for a server in that loop, which may be for ever. `TmFairSpec`, for `timer_lost` alone, is as generous as it can be: time
passes, and a reader that can go on again and again does (strong fairness), so what is lost is not lost for want of running.

*Stopping.* The threads, the daemon, the bitmap program and the feed fetcher come to
their ends, so `coding.cfg` does not check for deadlock.

### What was found

* **A read that does not wait** (`timer_early`). The callback raises `flag` and the
  first reader is on its way to line 65. A second reader sets the timer, finds
  `flag` raised at line 62 and goes on at once, although the header says that a
  read happens only after a time. Moreover it clears `flag` and deletes the
  timer.
* **A read that never returns** (`timer_lost`). Each reader that goes on clears the one flag and deletes
  the one timer. In the trace a second reader sets the timer while the flag is up for the first;
  the first clears the flag and deletes that timer, and the second, which looks at the flag only
  now, sleeps for good. Or the first is the victim: it has been woken and not run yet, the second finds the flag up,
  clears it and returns, and the first finds it down and goes back to sleep.
  Only a signal, or the timer of a later reader, ends such a wait.
* What the properties allow is part of the result. `GoneIsQuiet` leaves open exactly an interrupt
  between `tasklet_kill` and `free_irq`; `OnlyUnloadHurts` unloading under a call;
  `RssSound` a death between emptying a file and writing its line; `AloneSelected`
  says nothing for a caller that is disturbed; `OpenHears` nothing of files that stay open when
  another is closed or fails to open (91, 76): their lines are disabled; `LoadSound` a machine without a DM9000 or
  without memory. A load of `xnetdev.c` that is refused after `alloc_etherdev` leaves that memory
  allocated.
* Seen while modelling, with no text of the repository to hold against it. In `xkeydev.c` not every press is
  handed out once: one that comes between lines 109 and 111 of a read is wiped and never read, a release or the next
  press overwrites one that is not read yet, and two readers woken by one press may copy the
  same key; `KeyAccounted` says which of these can happen when. In `get_rss.c` the request asks the server to keep
  the connection and the reads of line 166 have no time limit, so a silent server keeps a process for ever.
  In `led_proc.c` a read takes the port's value through `stat[0]` (32-33), where a
  write (49) can put its own byte in between; and a write through a file opened before line 89
  may come after the unload has set the port (`LedsAreLeft` excepts exactly that).

## 5. What is proved

### XNetDevProofs

`XNetDevProofs` proves, for every set of frames, ring size, number of packets
and latency (the assumptions are those named in `Dm9000` and `XNetDev`: a
frame has a length, a flag and a first byte that is not 0; the other
parameters are natural numbers):

| theorem | property |
|---|---|
| `Invariance` | `Spec => []IInv` |
| `TypeCorrect` | `TypeOK` |
| `InterruptsKept` | `NoLostIrq` |
| `AddressKept` | `AddressRestored` |
| `TxCountSound` | `TxCountCovers` |
| `FramesServed` | `NoStrandedFrame` |
| `FramesIntact` | `DeliveredIntact` |

The argument is the inductive invariant `IInv`, a conjunction of five parts
that are shown preserved one after the other (`TypeStep`, `IrqStep`,
`AddrStep`, `TxStep`, `RxStep`), each with one case per action.

* `NoLostIrq` is inductive with the type: the chip's state changes only through
  `ChipBecomes`, which latches an edge whenever the pin goes up.
* `AddressRestored` says nothing while the handler runs, so `AddrInv` adds that
  the handler then holds the process's index in `reg_save`.
* `TxCountCovers` is not inductive: the stale write of the count must be
  known never to be too low. `TxInv` says that while a packet is in flight or
  sent and unseen the count is exact, and that it is too high only when it was
  written from a stale `tmp`; and it follows the count through xmit.
* That a frame's bytes fit (`Fits`) is arithmetic on its length (`CopyFits`): of an even and of an
  odd length, both below 1537.
* `NoStrandedFrame` and `DeliveredIntact` need that the read pointer is off a
  frame's start only while a reset is waited for, and that nothing comes in
  while open resets the chip (`RxInv`).

On the transmit side, also at every latency:

| theorem | property |
|---|---|
| `PipeInvariance` | `Spec => [](IInv /\ PipeInv)` |
| `CountExact` | `CountTracksSram` |
| `QueueSound` | `QueueTracksPipeline` |
| `NothingStranded` | `StrandedOnlyByRace` |
| `PipeImplemented` | `ImplementsPipe` |

The properties speak of moments between calls, so the invariant must say what holds within them, with the handler
coming in anywhere. `PipeInv` is `SentInv`, which holds always, and, until a completion has raced
(`raced`), four parts:

* `ExactInv`: the count, and the packet that is written and not yet counted, are exactly what the chip holds or has
  sent unseen; the value read into `tmp` is still the count when it is written back.
* `MovingInv`: `NoStrandedTx` at every label. A packet written into an empty chip may stand alone until
  its request, one written behind another may not, because that one's completion sends it.
* `QueueInv`: while xmit works the queue is awake only if the handler has woken it, and if the handler has emptied
  the chip it has. Line 381 is two steps, the test of the count and the waking: a completion between them
  leaves the queue awake with room, whichever comes last.
* `LengthInv`: the length registers and `queue_pkt_len` are those of the packets in the chip's memory.

What the mask is for is thereby said: it is needed in one stretch only, in which it does not help.

The refinement takes the chip's memory for the pipe's contents. Every step of the driver and of the
chip is shown to be a step of `TxPipe` or to leave it as it is: the write into the memory is
its `Accept`, for which the pipe must have room (`TxInv`), a completion
its `Transmit`, of the first packet with that packet's own length (`LengthInv`), and the
chip's reset in open its `Reset`. After a race a packet may leave with another length, and the pipe says no more
than that it leaves, once and in its turn.

Only model-checked: that an accepted packet is sent at last, which is liveness under strong fairness.

### SudoBoardsProofs

For every size that is the square of a natural number above 0
(`SizeAssumption`), so also for the page's 9, far out of TLC's reach:

| theorem | property |
|---|---|
| `SearchInvariance` | `Spec => []IInv` |
| `BoardValid` | `ValidSoFar` |
| `ListsKept` | `ListsAreCurrent` |
| `SudoTypeCorrect` | `TypeOK` |
| `FinishedIsFull` | a finished board is a `FullBoard` |
| `PuzzleInvariance` | `BdSpec => []PuzzleInv` |
| `NoSwapLeft` | `PuzzleSound` |

`ValidSoFar` is not inductive: that a candidate may be placed
depends on its list being right, which was computed earlier, when the board
ahead was the same. `IInv` therefore joins three parts: the type; `SearchInv`, which says that
the cells before the cursor hold one of their tried candidates and the cells
behind it have none tried; and `ListsAreCurrent`, which says that a list with tried
entries is what the cells ahead of it allow. The cursor's cell is behind every
cell it depends on, so a list is valid until the search has stepped back past
its cell, and then it is dropped. Related cells before the cursor then differ,
because each holds a candidate from a list that excludes the digits ahead of
it. Termination with a full board (`Completes`) is model-checked only: it is
liveness, and for size 9 it also needs that a valid board exists.

`PuzzleSound` is proved for every set of full boards and every way of emptying them (`PzBoardsAssumption`:
there is one, and each is full and without a clash). `NoSwap` speaks of all rectangles whose digits could be
swapped, `regenerate` goes only through those that `checkUnique` lists. The invariant
(`PuzzleInv`) says that no rectangle it has come to is empty; cells are only filled from then on.
What remains is that the list is complete (`SwapsAreListed`): a rectangle whose swap leaves rows and columns right has
its two digits at opposite corners. For every column of a full board holds every digit (`ColumnHolds`,
from the pigeonhole `EveryDigit`); the digit that the swap brings into a column stands in it already, and would be
there twice unless it is the one that the swap takes out.

### SudoGameProofs

For every set of cells, digits, boards and interval handles (`BoardsAssumption`,
`MaxTimeAssumption`, `NoneAssumption`): `GameTypeCorrect` (`TypeOK`), `ClockKept`
(`ClockSound`, which joins `OneClock` and `PausedStands`) and `ScreenSourced` (`ShownHasSource`).
`IInv` is the three together. That a paused clock stands needs that there is one clock,
since pausing clears the stored handle only, and `ShownHasSource` needs that an open panel has a cell.

### SudokuProofs

For every size of the blocks, so also for the page's 3, every filling and order of trying, every set
of valid boards and of holes (the assumptions are those named in the three modules):

| theorem | property |
|---|---|
| `SearchStaysSound` | `SearchSound` |
| `EntriesSound` | `BoardKept` |
| `PageSound` | `PageShowsBoard` |
| `OneClockOnPage` | `OneTimeout` |
| `AddingUpIsEnough` | `WonIsSolved` |
| `SearchAnswers` | a board that is reported is full and without a clash |
| `FailsOnlyIfNone` | a search fails only if no board at all continues its blocks |
| `FailureIsRight` | `FailsRightly` |

`SearchSound` is nearly inductive; what `SrInv` adds is that each random block holds every number, and that
a call for a given square has placed no number, so that the step back over it empties nothing. Its heart is `NothingFitsGiven`: the block of a
given square is full, so every number is refused there, and the loop into which the code falls
through does nothing. `FilledSound` shows that the random blocks share no row, column or block.
For the page, the board and the page are one invariant (`SheetInv`) and the clock another
(`ClockInv`); the first needs that a number which is in a field is no number of the puzzle.

That a failure is right needs to know what has been tried. `AheadInv` says: each valid board
that continues the given blocks and has not been reached comes later in the order of the search,
that is, the squares filled agree with it up to some square, at which its number is still to be tried. The order is
lexicographic, by the order in which the loop takes the numbers (`Orders`). If the loop of the first
square ends there is no later board, so there was none. The theorem speaks of all boards; `FailsRightly`
of the set `Finished`, which TLC can enumerate (`FinishedAssumption`: its members are valid).

`WonIsSolved` is a fact about sums. Folds defines a sum by recursion over subsets, and the induction theorems
of the library take operators, which the provers cannot instantiate. So the induction is done by
smallest counterexamples (`SubsetInduction`, `NumberInduction`, from the well-foundedness of the two orders): the
recursion has a solution and one only (`TallyExists`, `TallyUnique`), the sum
does not depend on the order (`SumAnyOrder`), and numbers up to n without a repetition add up to no more than 1 to n
do, and to as much only if they are all there (`SumOfNumbers`). A row with an empty square has one place too few for
them (`OneTooFew`).

Only model-checked: that the searches end (`SearchesEnd`).

### The small programs

| module | theorem | property | assumptions |
|---|---|---|---|
| `XKeyDevProofs` | `KeysAccounted` | `KeyAccounted` | `KeyLinesAssumption`: lines are natural numbers above 0, files finitely many |
| | `FilesHear` | `OpenHears` | the same |
| | `HandlersFreed` | `NoHandlerLeft` | the same |
| `DriverProofs` | `TaskletGone` | `GoneIsQuiet` | none |
| | `AdValuesFresh` | `AdSound` | none |
| | `LedsShow` | `LedSound` | `LedCharsAssumption`: bytes |
| | `BusInOrder` | `SpixSound` | none |
| | `TurnHandedOver` | `HandedOver` | none |
| | `LoadNeverFaults` | `LoadSound` | none |
| | `EarlyReadIsStale` | `EarlyOnlyIfStale` | `TmDelayAssumption`: a delay above 0 |
| `ProgramProofs` | `OneDaemonOnly` | `DaemonSound` | `DaePidsAssumption`: a process at least |
| | `WrapperTransparent` | `WrapperSound` | `CatAssumption`: finitely many callers |
| | `PixelsInPlace` | `BmpSound` | `BmpAssumption`: natural numbers |
| | `FeedsSound` | `RssSound` | `RssFilesAssumption`: a natural number of files and of runs |
| `CodingProofs` | `TypesKept` | `CodingTypeOK` | those above |
| | `ProgramsSafe` | all of these properties together | those above |

* `DriverProofs`, the threads: `HandedOver` speaks of a history; the invariant expresses the
  semaphores' counts and the history by the threads' labels.
* `XKeyDevProofs`: `KeyAccounted` is inductive with the type.
  For `OpenHears` the number of handlers on a line must be that of the
  open files as long as none has been spoilt, and never more (`NoHandlerLeft`): only then does the first open after all
  files were closed find lines without handlers, and request_irq enable them.
* `ProgramProofs`, the feeds: `RssSound` needs that a process about to write has the URL in its
  hand (`LineInv`), and that naming processes by sets of files never gives one name to
  two of them (`NameInv`), so that a fork does not overwrite a writer.
* `DriverProofs`: the tasklet's invariant follows the SCHED bit through the unload;
  the converter's says that its end flag is fresh for every reader while it is up;
  the lamps' conversion is proved for all 256 characters; the bus's names for
  every signal that is on a caller that will turn it off, and counts the
  open files in the module's use count; the Ethernet driver's says that the entry points and
  the data behind them come and go together (`LdInv`).
* `DriverProofs`, the timer: in a wait that began with the flag down and that no signal has ended (`WaitInv`), whatever
  timer is pending, the reader's own or a later one, goes off no sooner than its delay is over, and the flag is up
  only after that.
* `ProgramProofs`: of the daemon, one process only is ever on the way to the loop.
  Of the wrapper, the counter and the callers between the read and the write of
  `counts++` never add up to more than the calls made. Of the bitmap, positions are products of
  row and width, bounded row by row.

* `CodingProofs`: the composed module lets one program move and the others stand, so it implies each program's
  specification (the lemma `ProgramsApart`), and each program's theorems carry over. Some types are not inductive alone: SPI's count
  of polls stays above 0 because of the label, the wrapper's counter below the bound because of the calls made.

Only model-checked: liveness (`ProgramsEnd`).

### How the proofs and the runs go together

Every invariant of a passing run is the subject of a theorem, and the refinement too. What the runs alone show is that something
happens at last (`AcceptedIsSent`, `SearchesEnd`, `ProgramsEnd`): the prover handles neither fairness nor
ENABLED. The properties of the runs that expect a violation are false and have no proof.

Each strengthened invariant was given to TLC as an invariant of its run before it was proved. `PipeInv`: a ring of
two, three packets and the frames at the limits at latency 1, 6,822,052 states, and four packets with plain frames at
latency 2, 773,491. `PuzzleInv`: the bounds of `sudo_boards`. `WaitInv`: those of `coding`.

The assumptions on constants are the named ones of each module. They say that sizes and
numbers are natural, sets that are counted finite, and boards that are handed over full; TLC evaluates each for
the values of its run. None speaks of behaviour, and no theorem has a
hypothesis beyond them.

## 6. What is not modelled

* `xnetdev.c`: the PHY and the chip's configuration registers, the
  time stamps, the bytes of a frame, the truncation of a length to 16 bits (376; Ethernet's are at most 1514), the failing `request_irq` of open (which
  changes nothing).
* `mytimer.txt`: reads of a module that has been unloaded with the timer pending: the kernel's
  behaviour is undefined there, and no text of the program promises any.
* `xkeydev.c`: poll, which reads `press_key` and changes nothing; `mytasklet.c`: the
  time stamp it prints; `spix.c`: suspend and resume, which print; `bmp.c`: the colours.
* `Sudo.js`: the marking of wrong and conflicting cells,
  the formatting of the time, the tips that vanish after two seconds, and sizes
  at which column 8 is not the last.
* `sudoku.js`: the marking of the squares in the row, column and block of the one that is edited, and the
  formatting of the time.
* `sniffnet.c`, `hello.c`, `mydmesg.c`, `ledx.c` and the drivers' test programs:
  one pass of printing, reading a log, blinking or calling; the drivers' models
  take calls in any order.
* The deployment workflow: what runs and what is cancelled is decided by the
  hosting service, of which the repository holds the configuration only.
* Third-party scripts.

## 7. Plan

1. `raced` is one completion in one stretch of xmit. It takes a receive edge to bring it about: xmit is entered with one
   packet in the chip at most, whose completion leaves nothing else that could interrupt again. TLC finds no race
   with no frames, four packets and latencies 1 and 2; a theorem would need what holds of the latch while only packets move.
2. A lower bound on what a reader of `mytimer` that is lost needs to be woken: which later reads do it.
3. The theorems about the parts of `MCSudoBoards` and `MCSudoPages` put together, as `CodingProofs` does for the small programs.
