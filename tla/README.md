# Verification of the bare-metal and driver programs for the S3C2440

The repository teaches a Samsung S3C2440 board (JZ2440) step by step.  Each directory of
`src/code/` is one stage of the same bare-metal program; a later stage contains the earlier
ones.  This project models stage 023,

    B = src/code/023_spi_020/001_framework_019_003/

the last one with every driver, and names its files relative to B.  Stages 019 to 022 and 024
hold the same code for the parts modelled here and differ in what `main` calls: the NAND menu
is run by `main` of stage 019, the interrupt and I2C code by 022 and 023.  The NOR driver is taken
from `src/code/020_lcd_017/001_nand_nor_boot/`, the stage whose `main` runs it beside the key
interrupts.  Two more parts come from the first edition of the course,

    F = src/data/bin/老版本第1期源码和文档/

its Linux key drivers (`驱动源码和测试文件/sixth_drv/sixth_drv.c`, `驱动源码和测试文件/buttons/s3c24xx_buttons.c`)
and its real-time clock example (`裸机源码/i2c/`).

Contents: [inventory](#inventory), [plan](#plan), [modules](#modules),
[runs](#runs-bounds-and-fairness), [proofs](#proofs), [disagreements](#disagreements-found),
[limits](#what-is-only-model-checked-and-what-is-left-out), [not modelled](#not-modelled).

## Inventory

| part | code | state | operations | talks to | status |
|---|---|---|---|---|---|
| interrupt path and keys | `interrupt.c` | `irq_array`; SRCPND, INTMSK, INTPND, EINTPEND, EINTMASK; LED pins | `register_irq`, `handle_irq_c`, `key_eint_init`, `key_eint_irq` | keys and devices (hardware events); handlers (callbacks); `main` (preempted) | modelled |
| I2C master | `i2c/s3c2440_i2c_controller.c` | `p_cur_msg` with its count and error; IICDS, IICSTAT, IICCON | `master_xfer`, `do_master_tx`, `do_master_rx`, `i2c_interrupt_func` | the interrupt path (IRQ 27), the slave | modelled |
| EEPROM driver and menu | `i2c/at24cxx.c`, `i2c/i2c_test.c` | the caller's buffer, the chip's cells and write cycle | `at24cxx_write`, `at24cxx_read` | I2C master (call) | modelled |
| NAND driver | `nand_flash.c` | locals of one operation; the chip's array, register, ready line, select | `nand_read`, `nand_erase`, `nand_write` | the chip (commands, polling) | modelled except `nand_chip_id` and the menu's printing |
| start-up | `start.S`, `init.c` | the word at address 0, SDRAM, CPU mode | `reset`, `isBootFromNorFlash`, `copy2sdram`, `clean_bss` | NAND driver (call) | modelled; clocks, SDRAM timing and the exception demonstrations left out |
| NOR driver | stage 020, `nor_flash.c` | the chip's command state, array and toggle bit; locals of one operation | scan, erase, write, `wait_ready` | the chip (commands, polling); key interrupts (their vector is in the chip) | modelled |
| Linux key drivers | F, `sixth_drv.c`, `s3c24xx_buttons.c` | `ev_press`, `key_val`, `press_cnt`, semaphore, wait queues, owners of the interrupt lines | open, read, release, `buttons_irq`, `buttons_interrupt` | the kernel; each other (over the four lines) | modelled except `fasync`; poll only reads `ev_press` |
| RTC example | F, `裸机源码/i2c/{main,m41t11,i2c}.c` | the transfer record `g_tS3C24xx_I2C`, the buffer, the chip's registers and pointer | `m41t11_set_datetime`, `m41t11_get_datetime`, `i2c_write`, `i2c_read`, `I2CIntHandle` | the controller and the chip | modelled |

Everything else is listed under [not modelled](#not-modelled) with its reason.

### What is hard, part by part, and what makes it correct

*Interrupt path.*  Handlers do not nest, so code never interleaves with code except that a
handler preempts `main`.  Hardware interleaves with everything: a key edge can fall between
any two register accesses of the handler.  Three request registers (EINTPEND, SRCPND, INTPND)
must be cleared in the right order; each write clears whatever arrived before it, seen or not.
`main` registers handlers with interrupts already on.  Correct means: no dispatch through an
empty table entry; no acknowledged request dispatched again; no edge lost; the CPU comes back
to user mode.

*I2C.*  One transfer is spread over a starting function, one interrupt per byte, and a polling
loop that watches a counter the handler changes in the middle of its work.  The slave may
refuse the address.  A call has several messages and the second depends on the first.  Correct
means: messages arrive whole and in order; the return value tells whether they did; the bus is
stopped when the call returns, or a later interrupt would work on a message whose stack frame
is gone.

*EEPROM.*  The chip ignores its address during the write cycle that follows each byte.  The
driver neither waits nor retries.  Correct means: a write that is refused has written what came
before and nothing else, a read asks the chip for the cells the caller named, both around the
end of the chip too, and a write comes back with an answer.

*NAND.*  Page, column and count advance together across pages; commands, addresses and data
must respect the ready line; erases take whole blocks.  Correct means: a read is a copy, an
erase or a write changes its range only, the busy chip is left alone.

*Start-up.*  The same code runs from NOR or NAND and finds out which by writing over its own
reset vector.  The reset button can fall anywhere, and SDRAM keeps what it held.  Correct
means: user mode is entered with the program in SDRAM and BSS cleared, from every reset.

*NOR.*  Nothing but the toggling of one bit between two reads says that the chip is busy, and
the word being written has a bit of its own in that place.  A command for a busy chip is
ignored without a sign.  The chip that is put into its other modes is the one the interrupt
vectors are fetched from, with the key interrupts on.  Correct means: every command is heard,
a string lands whole, an erase takes its sector alone, and `wait_ready` comes to an end.

*Linux key drivers.*  A reader tests the flag, goes to sleep, copies the value and clears the
flag in separate steps, and the handlers, which interrupt each other, set value and flag in
between.  Several processes read, open and close, with and without O_NONBLOCK.  The two
drivers want the same four lines, one from the first to the last and the other from the last
to the first, and one of them does not look whether it got them.  Correct
means: no reader sleeps on a waiting event, a press is not lost, the value is the present one, the
device is open once at a time.

*RTC.*  The count that the program polls goes below zero in the handler and once more for the
byte that is not acknowledged; the chip keeps the data line if it is acknowledged once too
often.  Dates go through BCD bytes and a two-digit year.  Correct means: the date read is the
date set, only days that exist are accepted, and a transfer that is over for the program is
over on the bus.

`PROJECT.json` lists the hazards at their lines with the properties that cover them.

## Plan

Done, in this order, each before what depends on it:

1. `Interrupts` with its promise `KeyLeds`: the one concurrent core all drivers share.
2. `I2cMaster` with its promise `I2cXfer`, then `At24cxx` on top of it.
3. `NandFlash`, then `Boot` on top of it.
4. `KeyLines`, `ButtonDriver`, `PressDriver` and their composition `KeyDrivers`.
5. `NorFlash` with its chip and the vectors in it.
6. `Rtc`.
7. Proofs: the safety properties of all of them, for every value of the constants.
8. Proofs of the refinements' safety halves (`ImplementsXfer`, `ImplementsKeyLeds`, `ImplementsMaster`) and, for each
   part that polls, that it is never stuck and runs out of steps.

Open, should the project go on: the `fasync` list of `sixth_drv`; the page-table, drawing and number-conversion functions, which are
pure and have no interaction; the touch-screen driver, once the program lets it run.
Proofs that could follow: a measure for the interrupt handler (what `InterruptsSettle` needs), which has to count the edges still
to come, and one for the readers of `sixth_drv` (`WaitingEventIsTaken`).

A run is kept for each distinct question; a run that shows a disagreement gives way when a new
component needs one (the disagreement then stays in this file).

## Modules

| module | what it is |
|---|---|
| `KeyLeds` | promise: four keys, three LEDs, an edge is due until shown |
| `Interrupts` | interrupt controller, `do_irq`, `handle_irq_c`, `register_irq`, key handler |
| `I2cXfer` | promise: deliver messages in order and whole, or refuse |
| `I2cMaster` | master driver, its handler, controller and slave |
| `At24cxx` | EXTENDS `I2cMaster`: the EEPROM driver and chip |
| `NandFlash` | NAND driver and chip |
| `Boot` | EXTENDS `NandFlash`: start-up, reset button, the running program |
| `KeyLines` | the key interrupt lines of the Linux kernel: who owns one, what is pending |
| `ButtonDriver` | EXTENDS `KeyLines`: `sixth_drv.c` |
| `PressDriver` | EXTENDS `KeyLines`: `s3c24xx_buttons.c` |
| `KeyDrivers` | both drivers in one kernel |
| `NorFlash` | NOR driver, menu and chip, the vectors in it, the key interrupt |
| `Rtc` | menu, M41T11 driver, transfer and handler, controller and chip |
| `*_proof` | theorems and proofs about the module named |
| `MC*` | constants and initial states for TLC |

Definitions whose comment begins with "Mutant:" are plausible bugs of the code; no
specification uses them.  Each property is tested by putting one in the place of the
definition it imitates and seeing TLC report the property violated.

### Interrupts

State: the five registers as sets of bits, key and LED levels, `irq_array`, the position of
`main` (`mpc`, `reg`) and of the handler (`ipc`) with its locals (`bit`, `val`, `pins`).
Steps of `main`: `ConfigurePins`, `ConfigureTrigger` and `UnmaskEints` are the statements of
`key_eint_init`; `StoreHandler` and `UnmaskIrq` the two of `register_irq`, once per element of
`Registrations` (0, 2, 5 from `key_eint_init`, 10 from `timer_init`).  Steps of the handler, one
for each access that can observe or destroy an arrival: `TakeIrq`, `Dispatch`, `ReadEintpend`,
`ReadGpfdat`, `ReadGpgdat`, `SetLeds`, `AckEint`, `TimerIrq`, `AckSrcpnd`, `AckIntpnd`.  The hardware:
`Arbitrate`, `KeyEdge`, `DeviceRequest`.  A handler starts only from user mode because `do_irq`
does not re-enable interrupts; `main` moves only in user mode.

`due` and `late` are history: the keys whose level no LED write has shown since their last
edge, and those whose last edge fell between pin read and acknowledge.

### I2cMaster and At24cxx

The controller holds the clock from the moment it raises IRQ 27 until the handler writes
IICCON, and the handler runs with interrupts off, so one run of `i2c_interrupt_func` is one
step (`IsrNoAck`, `IsrTxNext`, `IsrTxStop`, `IsrRxFirst`, `IsrRxLater`: its paths).  The polling loop
is `PollEnd`, and it interleaves with all of them.  `wire` is what the slave has seen since
START, `delivered` the messages that ended in a STOP.  `rxbuf` has a cell before the buffer,
because the code writes there.  `WriteNext` is `Next` without the receiving steps, which a program
that only writes never takes (`WritesNeverReceive` proves it).

`I2cMaster` is the driver as the function pointers of `i2c_controller.h` expose it.  As
committed the registry in between does not select it (see below), so these calls are what the
program makes once that is repaired.

`ret` needs a word.  `s3c2440_master_xfer` is declared `void` (`s3c2440_i2c_controller.c:226`), returns `err` and `0`
all the same (`:238`, `:240`), and is called through a pointer to a function that returns `int`
(`i2c_controller.h:17`).  C leaves that result open; the build does not.  The Makefile compiles with
`arm-linux-gcc -march=armv4 -c` and no `-O`, so nothing after the last call of `do_master_tx` or
`do_master_rx` touches the register their value came back in, and `i2c_transfer` hands that on: -1 or 0, as `err`
says.  `ret` is that build.  The bus and chip properties (`BusFreeUnlessWaiting`,
`ReadSeesItsCells`) do not look at `ret`, and a refusal in `I2cXfer` is taken from `err`; what the loop of
`at24cxx_write` does after a refused byte, hence `OnlyPrefixWritten` past the first refusal, does depend on it, and
would not hold of a build that returned 0 there.

`At24cxx` adds the two driver functions and the menu's inputs and makes the slave an EEPROM:
`ChipAddressed` answers unless a write cycle runs, `ChipStopped` begins one or takes the address of a
read, `ChipSends` gives the cell at the chip's address counter (`pointer`).  `SentByte` is what the code sends for
every byte of the string, `data[1]`; `Written(n)` is the chip after `n` bytes as the code sends them, so the
properties are about which cells are written and when, and the wrong byte stays in the list of defects.  The lengths
of reads are any integers (`ReadLens`), since the menu checks none: 0 reads nothing, for -1 the polling loop is over
before the address byte is out, and for any other negative length it never ends.

### NandFlash and Boot

An operation is a sequence of command and wait: `Issue*` sends command and address,
`Chip*` is the chip's work, `TakePage`, `EraseDone` and `WriteDone` follow `wait_ready`.  `TakePage`
moves all bytes of one page in one step; the chip cannot interfere with them once it is
ready.  `Divisor` is the 2018 of the code where 2048 is meant, `Stride` is the size of the `int`
`nand_write` steps its buffer by.

`Boot` takes the driver's own actions for `copy2sdram` from NAND (`StartRead`, `ReadStep`) and adds
the probes of address 0, the copy from NOR, the clearing of the BSS, and `Run`, which leaves
any memory contents behind for the `Reset` that may follow.

### KeyLines, ButtonDriver, PressDriver, KeyDrivers

`KeyLines` is what the kernel keeps of the lines: `Take` and `Free` are `request_irq` and `free_irq` (a
line has one owner; freeing another's line only warns), `Edge` makes a line pending for
its owner.

`ButtonDriver` follows each process by its place in the driver.  Open takes the
semaphore (`OpenNonblock` with `down_trylock`, `Open` and `Down` without) and asks for each line in a step of
its own (`Request`), whatever comes of it; release frees each (`FreeLine`) and ends in `Up`.
A read is `Read`, `Wait`, `Copy` and `Clear`: the test of the flag and going to sleep, the
copy of `key_val` to the reader and the reset of `ev_press`, each of which handlers may come
between.  `Signal` is a signal that ends the sleep, whose result the code does not look at.
Handlers nest: `EnterIrq` reads the pin and stacks the handler on `running`, `LeaveIrq` stores
`key_val`, sets the flag and wakes the sleepers.  `unread` and `event` are history: the lines with
an edge whose level no handler has read, and whether an event has come that no reader has
taken.

`PressDriver` has the same shape with the difference that its open gives the lines back when
one is refused (`CRequestFails`, `CRollback`), that its handler counts (`CountIrq`), and that its read
clears the flag first and the counts after the copy (`CReset`, `CCopy`, `CZero`).  Its table of lines runs
against that of `sixth_drv` (`CLine`): EINT19, 11, 2, 0 here and EINT0, 2, 11, 19 there, so that one
driver can be on its way up while the other is on its way down.  `CCopy` hands over the first `n` counts, for
any `n`: the reader may have asked for fewer bytes, and `copy_to_user` may fault; `CZero` clears them all the same.
`fresh` and `given` are history: the lines with presses no reader was given, and how many counts a reader that is about
to clear them got.  In `ButtonDriver` too a `Copy` may fault; it is then `"faulted"` and `Clear` goes on as the code
does.

`KeyDrivers` interleaves the two over the one set of lines.  The board's kernel is built without
CONFIG_PREEMPT (`src/data/system/linux-2.6.22.6_jz2440_v2v3.patch:144`), so the switch between two processes
inside a driver that the model allows anywhere happens only where one sleeps; interrupts do
come anywhere.  What holds with the more liberal switch holds with the other.

### NorFlash

A command is a list of write cycles (`Cycles`) that `Cycle` gives one at a time; `Decoded` is the
chip's command decoder, `Dat` what a read returns in each of its modes.  `ReadPre`, `PollAgain` and
`Ready` are `wait_ready`: two reads of the same word whose bit 6 are compared, with `ChipReady` free to
fall between them.  `Scan*` walk the CFI table.  A word is programmed by clearing bits (`BitAnd`); one
that would have to be set leaves the chip `"stuck"`, busy for good, which is why the liveness
property excepts it.  `KeyIrq` is the fetch of the vector and of `irq_addr` through the chip: if it answers
anything but their contents, the program is `"lost"`.  Only the words in `Words` are followed.

### Rtc

`Enter`, `SetAccepted`, `SetRejected` and `Get` are the menu and the driver functions up to the
transfer, `Status` and `Encode` the check of the date and its BCD registers; `SetReturns`, `GetReads`, `GetReturns`
follow the polling loop (`TransferDone`: the count is -1).  `Isr*` are the paths of `I2CIntHandle`, one
step each for the reason given for I2C.  `ByteSent` and `ByteReceived` move a byte between controller
and chip, with the acknowledge the code has set; a chip that is acknowledged keeps driving
the line.  `Tick` is the running clock.

## Runs, bounds and fairness

| run | question | bounds | distinct states |
|---|---|---|---|
| `interrupts_safety` | types; no empty dispatch; direct keys lose an edge only in one window; everything settles | 3 edges, 1 device request | 2.2 M |
| `interrupts_slow` | with slow keys, is it the device of `KeyLeds`, liveness included | 4 edges, 1 request | 66 k |
| `i2c_write` | bus free, `I2cXfer` implemented, liveness included | messages of 0 to 3 bytes, two per call | 608 |
| `at24_write` | exactly the first k cells written, reads see the cells asked for, writes return | 3 cells, writes of 1 to 2 bytes, reads of -2, -1, 0 and 2, any start | 0.3 M |
| `nand` | copy, exact erase, write in range, busy chip left alone | 4 pages of 3+1 bytes, 2 blocks | 0.7 M |
| `boot` | types, image, vectors, completion | 2 pages, a program of 2 words, 1 reset | 1.1 M |
| `key_drivers` | exclusive open, all lines or none, no missed wake-up, no stale value, lost presses only in one window, waiting events taken | 2 lines, 3 edges, 2 processes on one driver and 1 on the other | 1.8 M |
| `nor` | commands heard, string stored, erase exact, scan right, operations end | the board's chip; the vectors and two words on each side of a sector boundary; 3 addresses, 3 strings | 0.3 M |
| `rtc` | transfers over on the bus, dates read as set, only days accepted, every call returns | 9 dates, 2 power-on contents, 2 seconds values | 0.6 M |

and three that must be violated, see [disagreements](#disagreements-found): `interrupts_s5`,
`i2c_read_data`, `nor_vector`.

The bounds are chosen for the cases, not for size.  Losing an edge takes two edges of one key;
the third lets another key interfere.  Three cells make a two-byte write run over the last one,
and the length of 2 lets the first byte keep the second out.  Reads of up to four bytes over
three-byte pages start in mid-page and cross its end; erases of 3, 6 and 12
are refused, one block and two.  The program of `boot` crosses a page too, its `_end` is not at
a word, and a byte lies beyond what `clean_bss` clears.  Bytes have two values where copying is the
question, and one of them is the erased one.  Two lines let handlers nest and let one open get a line
while the other driver gets the next; two processes race for the semaphore and for one
event, and a third, of the other driver, for the lines.  The NOR addresses are the last bytes
and the last word of one sector and the first of the next, one of them odd; the strings have
zero, an even and an odd number of characters, and one word beyond the boundary is not
erased, so that programming it gets stuck.  The dates are leap days that exist and do not, the
ends of the century, years before and after it, and times and months just out of range.

No symmetry is used.  Deadlock is checked for `i2c_write`, `nand`, `boot` and `rtc`.  It is off where the
system may stop: for `interrupts_*` and `key_drivers` when the edges are spent and nobody is in
a driver, for `nor` because a program that fetched a wrong vector does nothing more, and for
`at24_write` because no call is made on a bus that a read left running (what the controller does
then is not in the code), and because a read of length -2 polls for ever.

Fairness: weak fairness of `main`'s steps, of the handlers', of the controller's or chip's, and for
`key_drivers` of the handlers and of each process that is inside a read.
The CPU executes its next instruction, the arbiter is combinational, the chip finishes what it
was told: the code polls each without a time-out and so relies on it.  No fairness is assumed
of keys, devices, the slave's acknowledge, the reset button, signals, or of what users type.  Only the
runs with a temporal property use it (`interrupts_safety`, `interrupts_slow`, `i2c_write`, `at24_write`, `boot`,
`key_drivers`, `nor`, `rtc`).  `i2c_write` uses `FairWriteSpec`, the specification over `WriteNext`; `at24_write` uses
`FairAt24Spec`, which leaves the chip free never to end a write cycle.

`MCInterrupts` starts with dark LEDs to keep the first run small (the handler only overwrites
them); `interrupts_slow` starts from any.  `MCNandFlash` starts from chips whose odd pages hold
any pattern, and `MCBoot` from four programs; the proofs need neither.

## Proofs

Checked by `tlapm` with its SMT, Zenon and LS4 backends, for every value of the constants that
the named assumptions allow.  Besides those of the modules three assumptions stand in the theorems that
use them, and the constants of a passing run satisfy each: `AllWrites` (every message of a call writes; run
`i2c_write`), `TransferCalls` (a call may be what `at24cxx.c` builds; `at24_write`) and `VectorsApart` (no
address given to the NOR menu touches the vectors; `nor`).  No theorem rests on an unproved statement.  Every invariant and
every action property that a passing run checks is proved; what follows names for each module
the invariant that is inductive, which the interesting properties are not by themselves.

*Interrupts_proof.*  `TypeCorrect`, `DispatchSafe`, `AcknowledgeFromSource`, `LostEdgesAreLate`, `PendingEintRequests`, for any set of
irqs, any order of registration and any number of edges.  `IInv` adds three parts:
`TableInv` (an unmasked irq has its handler, and INTPND holds unmasked irqs only), `ServiceInv` (one
request at a time, `bit` is the one, and INTPND keeps it until it is acknowledged) and `EdgeInv` (after its pin read the handler of S2 or S3
holds the present level unless an edge came since).  `NoEmptyDispatch` follows because `register_irq`
stores before it unmasks; the lost edges follow from what `pins` still knows at `SetLeds`.
`ImplementsKeyLeds` is about `SlowSpec`: every step is a step of `KeyLeds` or invisible.  It needs `EintLineHigh`
(an unmasked EINTPEND bit always has its request in SRCPND, also after the handler cleared it, since the line is a
level) and `SlowInv`: an edge that the LEDs do not show yet is the only one, is still latched, and no handler of
another key is about to clear it.  Both were checked by TLC on the run `interrupts_slow` before they were proved.

*I2cMaster_proof.*  `WriteTypes`, under `AllWrites`, proves `WriteInv`: in each state of the bus the
count determines what the slave has seen (`wire` is the prefix of `buf` of that length).  From
it follow `BusFree` and `ImplementsXfer`: every step is a step of `I2cXfer` or invisible.
This is the argument that a counter incremented before the work is done is safe to poll: it reaches
`len` in the handler run that sends STOP and in no other.  `WritesNeverReceive` shows that
`WriteNext` leaves out nothing such a program does.  `WriteCallsEnd` measures what is left of a message
(`MsgLeft`).  Without `AllWrites`, for calls that mix writes and reads in any order, `MixedInv` holds; it
gives `InOrder`, and `ReadsSaveNothing` says that no read of any call ever stores a byte.

*At24cxx_proof.*  `At24Inductive` proves `AInv` for the driver with reads and writes in any
order: `CallInv` (a message is on the bus only for a call under way), `BusInv` (what count and `wire` say of
it), `CellInv` (the chip holds the bytes before `k`, and byte `k` from the STOP of its message on),
`PointerInv` (in a read the address counter is at the cell of the next byte) and `ReceivedInv` (what was sent so
far).  From it `WritesArePrefixes` and `ReadsSeeTheirCells`, for any chip size and lengths.
`ImplementsMaster` shows the three together to be a behaviour of
`I2cMaster`, under `TransferCalls`: the driver starts no transfer while one runs, and the chip is a slave.  So what is
proved there carries over, and gives `ReadsAreAddressed` and `ReadsReturnNothing`.

*NandFlash_proof.*  `NandInductive` proves the types, `Handshake` (the chip is busy only while the
driver waits, with the driver's command, and a finished read has its page in the register) and `Position`
(`page * PageSize + col = addr + i` while bytes are missing).  `NandReadCopies` is the copy over page
boundaries for every request whose page the driver computes right; `NandBusyAlone` the
handshake as an action property.  `NandErasesExactly` rests on `EraseInv` (the rows of the blocks
done, and no others, are erased) and on a few lemmas of arithmetic that take `BlockPages` to
divide `Pages`; `NandWritesInRange` on `WriteInv` (what is in the page register or already
in the array differs from before only in the range).  `NandOperationsEnd` measures what is left of an operation (`OpLeft`).

*Boot_proof* uses the step lemmas of `NandFlash_proof` for the copy from NAND.  `BInv` joins `BootTypeOK`, `VectorsIntact`,
`ProbeInv` (the probes know what they overwrote), `DriverInv` (the driver's request is the
one start-up made) and `CopyInv` (the part of SDRAM before the present offset is the program's).  From it
`VectorsRestored`, `BootLoadsImage` and `BootStaysInImage`, for any number of resets; `BootReachesUser` adds the
measure `BootLeft`, which uses that of the NAND driver.

*KeyDrivers_proof.*  The types; then one small inductive invariant for each question: `FlagInv` and
`ClearingInv` (flag, event and the place of readers: `FlagCorrect`, `NoMissedWakeUp`), `LockInv`
(the holder of the semaphore: `ExclusiveOpen`), `LevelInv` (the stack of handlers and the lines with an edge
not read: `LevelCorrect`, and `NestingBounded` by counting lines), `CountInv` (what a reader between copy and clearing has left fresh:
`PressesAnnounced`, `PressesCounted`), `HoldInv` (which lines each open or close of the counting driver has in its hands: `AllLinesOrNone`).
`OpensAndClosesEnd` says who holds `button_lock` (the open file, or one process in open or close) and that the steps left of every
open and close (`LockLeft`, `PressLeft`) only get fewer.  All hold for any number of lines, edges and processes.

*NorFlash_proof.*  `StepInv` (which cycle of which command the chip has decoded so far) gives
`MenuCorrect` and `EraseCorrect`; `PollInv` (what `pre` says of the toggle bit) gives `CommandsReachChip`: two equal
bits never come from a busy chip; `LoopInv` and `DataInv` (the words before the present one are stored and
the others are as before) give `WriteCorrect`, for strings of any length.  `ScanInv` (after each region
the scan is at that region's address and has listed the sectors before it) gives `ScanCorrect`
for any CFI table that describes the chip, which is what `CfiAssumption` says with the help of
`RegionStart`, the address at which each region begins.  `VectorsKept` makes exact what the run `nor_vector` shows: if
no address touches the vectors they stay, and a key interrupt misses them only while the chip is in another mode than
array, never at the menu.  `NorOperationsBounded` has the measure `NorLeft`, of which the reads of a busy chip take nothing.

*Rtc_proof.*  `BusInv` (its parts `SendInv` and `ReceiveInv`: what the count says of pointer, buffer and line)
and `DateInv` (the registers hold the last date set, up to its century), with the lemmas `BcdRoundTrip` and `DateRoundTrip`, give
`TransferOver`, `DateStored`, `DateReadBack`, and `CenturyDropped`: from 2100 on a date reads back a hundred years early.
`DatesChecked` is about the check alone.  `RtcOperationsEnd` measures what is left of a set or a get (`RtcLeft`).

Proved properties that no run of their own checks: `PendingIsRequested`
(`AcknowledgeFromSource`), `EintLineHigh` (`PendingEintRequests`), `EarlierMessagesDelivered` (`InOrder`),
`ReadIsAddressed` (`ReadsAreAddressed`), `MenuFindsArray` (`MenuCorrect`),
`SetThenGet` (`DateStored`), `KeptUpToCentury` (`CenturyDropped`), `WritesWithinImage` (`BootStaysInImage`), and the
measures of the next paragraph.

*That things end.*  Liveness under fairness and ENABLED are out of the prover's reach.  What is proved instead, for
every value of the constants, is what a termination argument needs from the code: (1) until the operation is over some
step of the program, its handler or the chip has all its guards true, as a state predicate that spells those guards out
(`CallCanStep`, `OpCanStep`, `BootCanStep`, `NorCanStep`, `RtcCanStep`); (2) every such step lessens a natural number. So no polling
loop waits for something that will not come.  What fairness adds, that the step that can be taken is taken, stays with
TLC: `RefinesXfer` for `WriteCallsEnd`, `BootCompletes` for `BootReachesUser`, `NorOperationsEnd` for `NorOperationsBounded`, `ComesBack` for
`RtcOperationsEnd`.  `NandOperationsEnd` and `OpensAndClosesEnd` have no liveness run; in the latter part (1) is that somebody
is in open or close, whose actions ask only for their place and for no handler in progress.

## Disagreements found

Shown by a run that TLC must report violated:

| run | the code | says otherwise |
|---|---|---|
| `interrupts_s5` | S4 and S5 pending together: both bits cleared, only S4 shown | `interrupt.c:74` |
| `i2c_read_data` | received bytes are never stored; the address byte lands at `buf[-1]` | `s3c2440_i2c_controller.c:116` |
| `nor_vector` | a key pressed while the NOR chip answers with identity, CFI table or status fetches no vector | stage 020, `start.S:12` |

Defects without a run, met while reading and kept in the model where it has the part:

- `interrupt.c:118`: an edge of S2 or S3 between the handler's pin read and the SRCPND write is
  cleared unseen and its LED stays wrong, where `interrupt.c:46` has the LED follow the key
  (modelled: `AckSrcpnd`; `DirectEdgeLostOnlyInWindow` says that it happens there only).
- `interrupt.c:105`: the handler of EINT0 or EINT2 writes back the whole EINTPEND value it read,
  so it also clears EINT11 and EINT19; their handler then finds nothing (modelled: `AckEint`).
- `s3c2440_i2c_controller.c:113`, second effect: the STOP of line 137 is reached only by a read of no
  bytes; a read returns with the controller still receiving (modelled: `IsrRxLater`).
- `s3c2440_i2c_controller.c:226`: `master_xfer` is `void` and returns values, see [I2cMaster](#i2cmaster-and-at24cxx).
- `at24cxx.c:16`: every cell gets `data[1]`, so a write that returns 0 has stored one byte of the
  string, over and over (modelled: `SentByte`).
- `i2c_test.c:50`: the length of a read is not checked; a negative one but -1 hangs the program, -1 returns
  with the bus running, and one above 100 is more than the caller's array (modelled: `ReadLens`; the array
  is not overrun only because nothing is stored).
- `nand_flash.c:87`: the page is computed with 2018, the column with 2048, against
  `code/019_nand_flash_016/README.md:115` (modelled: `Divisor`; `ReadIsCopy` is about the requests for which the page comes out right).
- `nand_flash.c:194`: a write that reaches the end of a page runs into the spare bytes, against
  `README.md:123` there (modelled; `WriteStaysInRange` is about the data bytes).
- `nand_flash.c:170`: the buffer is stepped by `int`, so every fourth character is written and
  then what follows the string (modelled: `Sent`).
- `nand_flash.c:158`: an erase of length 0 passes the test and wraps to nearly 4 GB; `:239`: the read
  command prints the memory at the address and not the buffer.
- `init.c:153`: `clean_bss` clears one word past `_end` (modelled: `ClearWord`;
  `WritesWithinImage` allows that word and no other).
- Stage 020, `nor_flash.c:42`: programming a 1 over a 0 never ends (modelled: `"stuck"`).  An
  erase of sector 0 removes the vectors (modelled: `KeyIrq`), and an odd address is rounded down.
- `sixth_drv.c:127`: the result of `wait_event_interruptible` is ignored, so a signal makes a read return an old
  key (modelled: `Signal`); `:145`: `ev_press` outlives close, so the next to open reads an old
  event (modelled); `:106`: the results of `request_irq` are ignored, so a `sixth_drv` that is open may have
  lost some or all of its lines to the other driver and hears nothing of them (modelled: `Request`); `:131`: so is the
  result of `copy_to_user`, and the event is gone (modelled: `Copy`); release
  does not take the file off the `fasync` list (not modelled).
- `s3c24xx_buttons.c:114`: a press between the copy and the clearing of the counts is lost, and a read of
  fewer than 16 bytes, or one whose copy faults, clears the counts it did not give (modelled: `CCopy`, `CZero`;
  `PressLostOnlyInWindow` says that presses are lost in these two ways only).
- RTC, `i2c.c:134`: a read of 8 bytes stores 9, one past the caller's structure (modelled: `Store`, `Frame`).
- RTC, `m41t11.c:58`: years before 2000 pass the test although line 59 calls the values unsigned, and 1999 reads
  back as 2165; years from 2100 to 2255 are accepted and read back a hundred years earlier (`CenturyDropped`); the week day
  is not checked; the caller's `tm_year` is changed (modelled: `Status`, `Encode`).  `i2c.c` never
  looks at an acknowledge.
- `i2c_controller.c:17`, `:29`: the registry stores the first word of the structure and selects
  the first empty slot, so `i2c_init` calls through a null controller.
- `timer.c:56`: registered functions are named and not called.
- `touchscreen.c:3`, `:4`, `:212`: both interrupt bits are 10, so sub-interrupt 9 stays masked, and an
  unclosed comment swallows the return to automatic measuring.
- `mmu.c:66` (stage 024): the loop that maps SDRAM runs zero times.
- `spi/oled.c`: `OLEDInit` is defined twice and `SPISendByte` nowhere; stage 023 does not link.

## What is only model-checked, and what is left out

Only TLC: that under fairness steps which can be taken are taken, hence `InterruptsSettle` and `WaitingEventIsTaken` as
a whole, and of `RefinesKeyLeds`, `RefinesXfer`, `BootCompletes`, `NorOperationsEnd` and `ComesBack` the liveness half
(their safety halves are proved, see [proofs](#proofs)).  `BusFreeUnlessWaiting` and `I2cXfer` are stated for
calls that only write: they do not hold of a read, which leaves the controller receiving.

Left out of the modelled parts: register set-up that nothing later depends on (clocks, memory
timing, NAND timing, IICCON prescaler), printing, menus' parsing of input (their results are
the inputs enumerated), `nand_chip_id`, the arbiter's priorities (any pending request may win, which
allows more than the hardware does), the contents of SRAM beyond the word at address 0, the
caches, and the SIGIO list of `sixth_drv`.  The NOR, NAND and EEPROM menus read their string with `gets` into `str[100]`
(stage 020, `nor_flash.c:156`; `nand_flash.c:282`; `i2c_test.c:19`), and `get_int` reads its line the same way: inputs are taken to fit.  ECC is not used by the code.  The chips (NAND, NOR, EEPROM, RTC, interrupt
and I2C controllers) and the kernel's lines, semaphore and wait queues are modelled from how the code uses
them and are marked external in `PROJECT.json`.

## Not modelled

The repository has 1.4 million lines, nearly all of them vendored: u-boot, BusyBox, yaffs
utilities, kernel patches and PC tools kept for reading.  The course's own code is a few
thousand lines, most of them copies of one another from stage to stage.  The modules therefore map a small share of all lines
and most of the course's own lines that have state and interaction.  Part by part:

| part | why not |
|---|---|
| I2C registry (`i2c/i2c_controller.c`) | as committed `i2c_init` calls through a null pointer; no behaviour follows it |
| software timer and LED (`timer.c`, `led.c`) | `timer_irq` calls no registered function: the registry has no effect to state a property of; its interrupt is irq 10 of `Interrupts` |
| touch screen (`adc_touchscreen/touchscreen.c`) and calibration | never gets its pen interrupt and never its timer callback, so the mode changes that would be worth checking do not happen; calibration is floating-point arithmetic on its samples |
| polled ADC, LCD set-up and registries, drawing and text, serial console and printing | straight-line code or loops that store pixels and characters; no state that a later operation depends on |
| SPI and OLED | stage 023 does not link with them |
| exceptions, arithmetic library | demonstrations that print; routines of libgcc |
| MMU (stage 024) | maps no SDRAM and faults when switched on; what is left are four constant descriptors |
| instruction cache stage, earlier stages | the same program, or parts of it |
| other Linux drivers of F | `first_drv`, `second_drv` and `myleds` store or read pins; `third_drv`, `forth_drv` and `fifth_drv` are `sixth_drv` without its semaphore, statement by statement |
| other bare-metal examples of F | stand-alone examples that the later programs replace |
| vendored sources and tools | third-party code kept for reading |
