# A TLA+ model of rls_mini_drivers

The repository holds the Linux side of a small radar: a test program that
streams samples to a signal processor in programmable logic and dumps what
comes back, a library and a driver for the registers of that processor, a
driver for a second register block, and a driver for the reset line.  The
modules here model that code, TLC checks them on small instances, and TLAPS
proves the central properties for all sizes.

Paths below are relative to `src/`; `cpp`, `hpp` and `main` stand for
`dma_channel.cpp`, `dma_channel.hpp` and `ip_comm_test.cpp`, all in
`ip_comm_test/src/`.

## 1. Inventory

| Part | State it keeps | Operations | What makes it correct |
| - | - | - | - |
| Receive channel (`dma_channel`, thread 0) | ring of buffers shared with the DMA driver, `buffer_id`, `counter`, `in_progress_count`, dump file | `init`, `set_save_to_file`, `begin`, `run`, `wait_for_transfer`, `save_buf_to_file`, `end` | every packet is dumped once, in order; buffers are handed out only when owned; the ring is kept full; a finished channel leaves nothing with the engine |
| Transmit channels (`dma_channel`, 1..8) and the loop of `main()` | buffers, counters, position in the file | read a window, `start_transfer` on all, `wait_for_transfer` on all | channels stay in step; frames are whole and in order; no buffer is written under a transfer |
| Program (`main()`) | number of transfers each way, `exiting` | start, loop, wait for the thread, clean up, SIGINT | what was sent and what is expected fit; the program ends |
| Descriptors | numbers kept in `fd`, `ch.fd`, `FILE *`s | open and close in two threads | a stale number is never used on someone else's file |
| File reader (`misc.cpp`) | position in the file | skip, read, pad | windows tile the file |
| `axi_dsp` library, `regs.h`, `misc.h` | registers, descriptor | setters, getters, `kill`, `apply`, `init`, `deinit` | getters give back what was set, no setting or field reaches another; `apply` takes effect |
| `rls_mini_pl`, `axi_multiplier` drivers | resources of the device, file positions | `probe`, `remove`, `llseek`, `read`, `write` | all failures of `probe` are undone; accesses stay within the registers |
| `axi_multiplier` library and its test | registers, descriptor | setters, getters, reset | an alarm of the test is never false, its silence means that the registers are set |
| `pl_reset` driver and `reset_pl()` | level of the GPIO | `probe`, `remove`, `reset_store` | the line ends up released; no store outlives the driver |

They interact as follows.  `main()` configures the processor with `axi_dsp`,
which goes through the `rls_mini_pl` driver; starts the thread of the receive
channel; and transmits.  Receive and transmit side share no variable: they are
coupled by the processor, which answers what was transmitted, and by `main()`,
which computes both numbers of transfers and waits for the thread.  Program and
DMA engine share the buffers, handed over by the ioctls `START_XFER` and
`FINISH_XFER`.  `pl_reset` is used by processes of its own.

Hard to test are the interleaving of engine, processor and thread on one ring;
failing waits, which the transmit loop ignores; the end of the program when
answers are missing; descriptors closed twice; several processes on one
register or one reset line; and the unwinding of `probe`.  `PROJECT.json` lists
these hazards by line, with the properties about each.

## 2. Modules

| Module | Models | Uses |
| - | - | - |
| `PacketSink` | abstract: what the receive channel promises | |
| `RxChannel`, `MCRxChannel` | the receive channel, its thread, the engine; inputs of its run | `PacketSink`, by refinement |
| `RxChannelProofs` | theorems about `RxChannel` | |
| `TxStream` | loop of `main()` and the transmit channels | |
| `TxStreamProofs` | theorems about `TxStream` | |
| `Measurement` | abstract: what a run of the program promises | |
| `IpCommTest` | the whole program | extends `TxStream`, instantiates `RxChannel`, implements `Measurement` |
| `IpCommTestProofs` | theorems about the program and its parts | extends `TxStreamProofs`, instantiates `RxChannelProofs` |
| `SampleFile` | the reader of the input file | |
| `SampleFileProofs` | theorems about `SampleFile` | |
| `Descriptors` | the descriptors of the program | |
| `DescriptorsProofs` | theorems about `Descriptors` | |
| `AxiDsp`, `MCAxiDsp` | the register library; inputs of its runs | |
| `AxiDspProofs` | theorems about `AxiDsp` | |
| `RegDriver` | both register drivers, with clients | |
| `AxiMultiplier`, `MCAxiMultiplier` | library and test program of `axi_multiplier`; programs of its run | extends `RegDriver` |
| `RegDriverProofs` | theorems about `RegDriver` and `AxiMultiplier` | |
| `PlReset` | the reset driver, with clients | |
| `PlResetProofs` | theorems about `PlReset` | |

### RxChannel

`pc` says where the owner of the object is: `main()` up to `ready`, then the
thread in `begin`, `wait` (in `wait_for_transfer`), `save` (FINISH_XFER has
returned, the packet is not counted yet), `next` (back in `run`), `end`, `done`.
A packet is the number of its emission; `dump` is the sequence of packets
printed.  `owner`, `data` and `order` are the side of driver and engine:
buffers queued with START_XFER are filled in that order.  This, and that
FINISH_XFER blocks until the buffer is filled or reports a fault, is what
`dma_channel` relies on; the driver itself is a submodule that is not in the
repository.  One step of the thread is one call that touches what others can
see.  `BeginCrash` is the null pointer that `begin` writes through when `init`
failed and `main()` did not look.

`num_transfers` is whatever int `set_num_transfers` gets: 0 stands for no
number, in which case every buffer is handed out once; a negative one, which an
unsigned number beyond 2^31 becomes, ends the channel behind its first transfer
(`LimitOf`).

### TxStream

A buffer is a row of samples, and the content of a sample is the number of the
file window it is from, so that "the right data" is a matter of numbers; which
sample of the window it is its place tells.  The reader writes the buffers
sample by sample (`WriteSample`) and each channel's engine fetches the one that
is its turn sample by sample (`Fetch`, `Send`), each sample as it is at that
moment.  After a failed wait, which `main()` ignores, the next window is written
under an engine that is still at work, so that buffers torn between windows are
sent.  The processor combines one buffer of each line into a frame.

One sample is one step for all channels, and so are its real and imaginary
part: an engine sees its own channel only, so that the order in which the
channels of a sample are written, or that padding goes channel by channel, makes
no difference to it, and a property that relates channels (`InStep`,
`FramesInOrder`) is about buffers that were written before they are started.
What lines of the file a window consists of is opened up in `SampleFile`; a file
that cannot be opened leaves the buffers as they are.  `main()` ignores the
results of `init`, of the reader and of the waits, so that the loop goes on with
channels that failed, up to the null pointer that a missing channel has for its
buffers (`ReadCrash`, `WaitCrash`).

### IpCommTest

`NumRx` is the computation of `num_rx_transfer` in `uint32_t`; `Rx` is
`RxChannel` with that number.  The processor owes one answer for every
`Decimation` packets it was sent.  A caught SIGINT sets `exiting`; a second one
kills.  `stage` is where the process is; a null pointer in either thread ends it.

`Measurement` says what all this is for, without channels, buffers or threads:
the windows ordered are sent, and the answers to them recorded, each behind the
windows that it answers; the run finishes when both are complete, or earlier if
something may fail, or breaks off.  A window is sent when all channels have sent
theirs (`WholeWindows`); an answer is recorded when it is counted.

### SampleFile

The file is a sequence of what `fgets` returns, complete or short.  A sample is
identified by its line and by the groups of digits it is made of.

### Descriptors

`held` are the numbers that variables keep, stale ones included; `table` is the
table of the kernel, which gives out the lowest free number.  Only here do the
two threads of the program share something in the process.

### AxiDsp

A register is the set of its bits, and keeps those that `regs.h` gives it
(`Implemented`): three of a test point, whatever is written.  A setting is a
tuple of integers.  `Setter` and `Getter` say which bits of which register each
setting occupies, as the setter and the getter see it: they differ where the
code differs.  Values may be wider than their field, or negative.
`axi_dsp_apply()` is two steps, since it reads the register and writes it by
two calls, and `axi_dsp_kill()` is its two writes.  `pending` and `due` record
what the processor has not taken over.  A process may be killed at any moment
(`Crash`), between the two steps of either, too: what it had set stays in the
registers for the next apply, by whoever.

### RegDriver

One step is one acquisition or release in `probe` and `remove`, or one file
operation.  Each client does what the libraries do, `lseek` and then an access
whatever `lseek` returned, and may also use `pread`/`pwrite`; an access may fail
with its buffer or its length (`Fault`).  `after` is the register behind the one
a client accessed last, which is what the next access hits if `lseek` fails.
What registers hold is left to `AxiDsp`.

`open()` gets to the driver from `cdev_add()` to `cdev_del()`, in the midst of
`probe` and `remove`, too, and whether or not there is a node.  What an open file
leads to is freed with `mem`: `freed` are the clients it is gone for, `orphaned`
those whose file was open when `cdev_del()` ran for something else than
unloading the module, which open files prevent and which makes `open()` fail
(`going`).  An access that uses freed data (`Astray`) is undefined; in the
model it returns, fails or ends the process, and hits no register.

### AxiMultiplier

A program is a sequence of the library's calls; `Test` is the one of
`test_axi_multiplier.c`.  A call is `Seek` and then `Put` or `Take`, both on the
file operations of `RegDriver`, so that what a call for a register that does not
exist accesses is what that driver does with it.  Registers keep as many bits as
`regs.h` gives them, and multipliers go through `int16_t` and back (`Kept`,
`Seen`).  A failing access closes the file, behind which each call of the
program works on nothing (`CallLost`) and getters return an uninitialized
variable, which may or may not be what the test expects.

### PlReset

`place` is where `probe` or `remove` is: `priv`, the GPIO and the file are
acquired one after the other, each with its failure (`AllocatePriv`, `GetGpio`,
`CreateFile`), and `remove` takes the file away, waits, and leaves the rest to
the kernel, which gives back the GPIO and then `priv` (`Remove`, `Drained`,
`Release`).  `attribute` and `opened` number the bindings, since a file that
was opened is not the one of a later binding.  A store is entering
`reset_store()`, driving the line low, and driving it high behind the sleep, and
all of it interleaves with the steps of `probe` and `remove`.  Three things are
assumed of the kernel, as environment: a store enters only through a file that
was not removed, `device_remove_file()` waits for those that have entered, and
device-managed resources are released last first.  That stores use only what
is held is then a matter of the order in which the driver does things.

## 3. What is checked

Every run is complete: TLC visits all states of the instance.  For each
property of a passing run there is a mutant of the model (named `Mutant: ...`
in the modules) that breaks it: a bug one could plausibly make in that code.
The type invariants of `RegDriver` and `PlReset` and `ApplyInv` of `AxiDsp` are
proved (section 5) and in no run.

| Run | Shows | Bounds, and why they are enough |
| - | - | - |
| `rx_ring` | the inductive invariant (with the types), ring and dump properties, refinement of `PacketSink`, with faults at any time | 3 buffers, 8 packets; a negative number of transfers, none, fewer than buffers, as many, and 7: the ring wraps twice, packets are left over |
| `ip_live` | without faults frames are whole and in file order, no buffer is written under a transfer, `main()`, the thread and the hardware never all wait for each other and none of them spins (`MovesOn`), and the program ends with everything sent and dumped; both parts behave as their modules say | 3 transmit channels with 2 buffers of 2 samples each, so that a channel may be ahead of one and behind another and several windows come from one reading; 2, 4 or 5 windows of 2 packets, 3 packets an answer, so that remainders are left |
| `ip_fault` | counters account for every transfer, at no place of a buffer an older window goes out behind a newer one, torn buffers included, the whole behaves as `Measurement` says, so that nothing is recorded that was not sent, and the program ends, in spite of failing waits, missing answers, missing devices, stuck hardware and a missing file | 0 to 2 windows, 1 buffer for each of 2 channels, 1 being what the application has; 2 samples in a buffer, so that engine and reader may each be ahead of the other in it |
| `file_tile` | windows tile the complete lines | all files of up to 6 lines, 4 windows of 2 samples: beyond the end |
| `fd_table` | no close hits a foreign file; devices stay open | 3 transmit channels, 3 windows |
| `axi_settings` | getters give back what was set, field by field where the value fits its field, whatever else was set in between; `axi_dsp_apply()` takes effect, although processes are killed | 2 processes (the theorem covers any number), a device that may fail to open; two settings of one kind and one of three fields, at their limits, with a negative part, a source and a channel one bit too wide beside fields that fit |
| `reg_device` | nothing leaks; only a file that was open at `cdev_del()` of an unbinding or of a failed probe outlives the data it leads to; accesses in bounds; calls hit their register, and those for no register the one behind the last | 2 clients, 3 registers, offsets beyond, between and beyond 32 bits; the driver may also be unbound under open files |
| `mult_test` | the test of the multiplier alarms only where another process interfered, and its silence means that the registers are set; overlapping resets leave the multiplier running; every program ends | 2 multipliers instead of 8, two tests at once: the least `int16_t`, a channel of more than 3 bits, resets, calls behind the last register |
| `reset_many` | the line ends up right; stores use only what is held, whatever step `probe` or `remove` is at, and end in time, with success | 3 writers, 2 calls of `probe`, each of which may fail anywhere |

`MCAxiDsp` also has TLC evaluate what depends on no state (`ValuesGivenBack`):
the conversions of the inputs of the run are exact in every field that the value
fits, and so are those of all settings at the limits of their fields and beyond
them, and of all angles, which come back modulo a turn.

In three places a comment or a document promises what the code does not do, in
a way that a user can see; TLC is expected to find a violation:

| Run | Says | Does |
| - | - | - |
| `ip_exit` | `ip_comm_test/README.md:27`: Ctrl+C ends the program | nothing reads `exiting` (`main:54`) |
| `axi_gate` | `regs.h:1665`: a range gate of 8 bits, which `main:77` prints | mask of 5 (`regs.h:1684`) |
| `reset_race` | `pl_reset.c:23-25`: asserted while it sleeps | another store may deassert it |

Other differences are part of the models, and of no run, either because nobody
calls the function or because it cannot be told which side is meant:

- `ip_comm_test/README.md:27` has one entry in the dump for each receive buffer;
  there is one for each transfer (`RxChannel`).
- `misc.cpp:27` has lines of `ch0_re ch0_im ...`; the code takes the imaginary
  part first and the last channel first (`Sample` of `SampleFile`).
- Getters read the parts of complex numbers as unsigned (`axi_dsp.cpp:50`,
  `axi_dsp.h:30`), the rank and the levels from the output source
  (`axi_dsp.cpp:233, 242`), and do not scale the compensation reference back
  (`axi_dsp.cpp:256`, `regs.h:1774`): `Getter`, `Number` and `Unit` of `AxiDsp`,
  left out by `Fits`.
- An angle of 180 degrees or more overflows the `int32_t` in `deg_to_fix()`
  (`misc.h:20`): `FromDegrees`.
- `main:39` lets four arguments pass, as many as in the example of
  `ip_comm_test/README.md:11`, but the name of the input file is `argv[5]` and
  the one of the dump `argv[6]`.
- The fallback to a read-only device (`axi_dsp.cpp:101`) lasts to the first
  write, which closes it: `Write` and `Lose`.

Deadlock is not checked where the program ends (the run's `.cfg` says so);
`RegDriver`, `AxiMultiplier`, `AxiDsp` and `PlReset` never stop and are checked
for deadlock.

## 4. Fairness

- `main()` and the receive thread are scheduled, so that a step they can take is
  taken: weak fairness of `Process` and `Receive`.
- `FINISH_XFER` returns: with the buffer, or with a fault, in instances that have
  faults.  This is the timeout of the driver, the reason why
  `PROXY_TIMEOUT` exists (`dma-proxy.h:38`).
- `Ends` in `ip_fault` needs no more.  The hardware may be stuck for good.
- `Ends` in `ip_live`, where nothing fails, also assumes that engines and
  processor go on.
- A store of `PlReset` goes on after `msleep(10)`.
- Each program of `AxiMultiplier` runs on: none of its calls waits for anything.

## 5. What is proved

`RxChannelProofs`, for every number of buffers and packets, every flush period
and whatever int `set_num_transfers` gets, from `RxAssumption` alone:

- `RingInvariance`: `RxInv` is an invariant, and inductive.  The properties are
  not: that a dump is in order does not say which buffer holds the next packet.
  `RxInv` says that the outstanding transfers lie in the ring in order from
  `buffer_id` on (or from the next one, while `buffer_id`'s own packet is being
  handled): first the filled buffers, with the next packets in their order, then
  the queued ones, in the order of the engine's queue, and that all other
  buffers belong to the application (`Ring`), with the counters that go with
  it (`Accounts`, `Beginning`, `Running`).  Since `Slot` maps positions to
  buffers one to one (`SlotBijective`), a step that changes one buffer leaves
  the others alone; there is one lemma for each action that moves the ring.
- `TypeCorrect`, `DumpCorrect`, `RingKeptFull`, `StopIsClean` follow from it,
  `HandsOutOwned` is the property of the steps of START_XFER.
- `Refinement`: the channel implements `PacketSink`: initial states map to
  initial states, each step to a step or a stutter.
- `FewLost`: a kill loses fewer than `FlushPeriod` packets of the dump.  It needs
  a second invariant, about the last multiple of the period.

`TxStreamProofs`, for every number of channels, buffers and windows, from
`TxAssumption`:

- `TransfersAccounted`, whatever fails.  `LoopInv` adds that the inner loops
  start at the last channel, without which `Started` would not count what it
  says.
- `WindowsAscend`: with one buffer for each channel, and whatever fails, no sample
  goes out behind one from a newer window at its place in the buffer, although
  the buffer may be written while it is sent.  Place by place, what was sent on a
  channel is no newer than what the engine has fetched of the buffer it is at,
  that no newer than what the buffer holds, and that is older than `cnt`, the next
  reading, or is the reading under way (`BackInv`).  The theorem assumes one buffer, as the application has, because
  with several a failed wait shifts the channel against the file for good.
- `SteadyInvariance`, where nothing fails (`NoFaults`; a channel may be missing):
  all channels are in pass `i` of the loop.  A channel that was started in this
  pass and not yet waited for (`Busy`) has exactly the buffer of the pass queued
  or sent (`Queued`, `Gone`); on any other the application owns every buffer
  (`Resting`).  The buffers hold the windows between the last two readings, and
  `i` is among them from the reading on (`Position`); that it is found in buffer
  `i % TxBufferCount`, and that reading is due exactly when all have been sent,
  takes some arithmetic (`PlaceOfPass`, `DueWhenSpent`).  What was sent on a
  channel is window 0, 1, 2, ... (`InOrder`).
- `ChannelsInStep`, `FramesOrdered` and `BuffersSafe` follow from it.  None of
  them is inductive: frames say nothing about the buffers that are still queued.

`IpCommTestProofs`: every step of the program is a step or a stutter of each of
its parts (`Composition`).  What needs an argument is the second cleanup of the
receive channel: `main()` gets there behind the thread, which has unmapped
the channel already (`JoinInv`).  So the theorems about `TxStream` hold in the
program (`ProgramAccounts`, `ProgramAscends`, `ProgramInOrder`,
`ProgramBuffersSafe`).  `Receives` does the same for `RxChannel`: the
theorems of `RxChannelProofs` are cited through an instance of it, whose
assumptions the program's constants meet (`ChannelAssumed`), and hold of the
channel in the program (`ProgramCollects`).

What the program as a whole promises needs the two sides together:

- `IpInvariance`: `IpInv` joins `ProgressInv`, `RxInv` and what couples them.
  `ProgressInv` (`ProgressInvariance` of `TxStreamProofs`) is about the
  transmit side whatever fails: what was started, what the engines hold and what
  the processor got add up, channel by channel, and the loop is no further than
  they are.  `Joining` says that `main()` leaves its wait only behind the end of
  the thread; `Answers` that the processor has answered no more than what it was
  sent pays for.
- `ProgramTyped` (and `TransmitTyped` for the transmit side) follow.
- `ProgramLosesNothing`: without failures a program that has ended has sent
  every window and recorded every answer.  This assumes `NumbersFit`: the products
  that `main()` computes stay in `uint32_t`, and the number of answers in an
  `int`.  Beyond that the claim is false, since both wrap.  `ip_live` is an
  instance; so is the application as long as it sends fewer than 2^29
  windows, of four packets each.
- `Measures`: the program implements `Measurement`, whatever fails and wraps, and
  for every number of windows.  The windows that all channels have sent are a
  minimum over the channels, which exists since numbers are well-founded; a step
  of one channel moves it by one at most, and the invariant bounds each of the
  numbers that the abstract steps compare.

Why the program ends is a matter of liveness, but only fairness is left of it
once `MovesOn` is known, which takes no fairness:

- `NeverSpins`, whatever fails: `Place` is how far `main()`, the thread, the
  process, the processor and the engines are, each counted in steps, and
  `Last` how far they can get, which the number of windows bounds
  (`WithinReach`).  Every step takes one of them, or what a channel has sent,
  further, and none back (`Onward`).  So there is no endless run.  `NumbersFit`
  is needed: where `num_rx_transfer` wraps to 0 although answers are due, the
  thread collects every buffer once and then turns in `run()` for good, with
  nothing in progress to wait for (`NeverIdle`).
- `ProgramMovesOn`: before the end somebody can go on (`NeverStuck`, the
  guards of the actions).  While `main()` waits, the channel it is at has its
  buffer queued or sent, which is `SteadyInv` (`LoopWait`).  When `main()` is
  done and everything is combined, the processor owes another answer exactly
  as long as the thread waits for one, which is the arithmetic of
  `num_rx_transfer` once more, and the ring has a buffer for it (`ThreadWait`).
  This is so if nothing fails and each argument makes for an answer at all
  (`NothingFails`): four windows or fewer make for none where 20 packets are
  decimated to one, but the thread waits until the driver gives up.  Where waits time
  out on both sides (`WaitsTimeOut`, as in `ip_fault`) anything may be missing.
- Both rest on `LiveInv`: a channel counts at most one transfer in each pass, and
  the thread turns back to its loop only with something left to collect.

`SampleFileProofs`, for any number of channels and any file, of any length:

- `ReaderInvariance`: `ReaderInv` says that the lines skipped and read by a call
  are, in number, the complete lines of the file behind the reader's place
  (`Reading`), and that what was read is in its place in the buffers.  A line
  adds one to the number of complete lines or none (`CountStep`), so that the
  line read as number `n` is the one that has `n` complete lines before it.
- `ReaderTiles` follows: every window is a stretch of the complete lines, each
  call beginning where the last one ended, with zeros behind the end of the
  file; and the groups of digits of one line go to all channels, each once
  (`GroupsCovered`).
- `ReaderTyped`: no sample is written behind a buffer.

`DescriptorsProofs`, for any number of channels and windows:

- `DescInvariance`: `DescInv` says what each number that is kept, stale ones
  included, may stand for.  The point is the number that `axi_dsp` keeps behind
  a failed access: the next `open()` gets it, so that the receive channel and
  `axi_dsp` hold the same one, and both close it.  That is safe since
  `axi_dsp` is not used again before the receive channel has closed its own
  file, and of all others only the input file can have the number, which is open
  no longer than it is read (`AxiDspNumber`, `RxNumber`, `FileNumber`).
  Which number an `open()` gets matters, and that it gets one at all: the table
  has more places than files are ever open at once, and by the pigeonhole
  principle there is a lowest free number (`LowestFree`).
- `ClosesOwn`, `DevicesStayOpen` and `DescTyped` follow.

`RegDriverProofs`, for any number of clients, any offsets they ask for and any
number of registers that `RegAssumption` allows:

- `Leakless` and `Served`: where `probe` or `remove` is determines what is held
  (`Holding`): the resources up to the next one to acquire or to release.
- `FilesServed`: an open file leads to live data unless it was open when
  `cdev_del()` ran for an unbinding or a failed probe.  `FatesInv` says that
  while any other file is open the cdev is held, and that no file is open while
  the module is being unloaded; the data is acquired before the cdev and released
  behind it.
- `Bounded`, `Lands` and `RegTyped`: positions stay on the registers or right
  behind them, and between `lseek()` and the access the position is that of the
  register asked for or, if `lseek()` was refused, the one behind the last
  access (`AccessInv`).  This needs `Word > MaxOffset + 4`: a
  position must survive being cut to 32 bits, the one behind the last register
  too, or it would be taken for register 0.

`PlResetProofs`, for any number of writers and calls of `probe`:

- `ResetInvariance`: what is held, and whether there is a file, follows from the
  step `probe` or `remove` is at, and stores are inside only while there is a
  file or `remove` waits for them.
- `EndsReleased`, `StoresUseHeld` (from the assumptions about the kernel above),
  and `GuardNeverFails`: the test of `reset_store()` for null pointers never
  fails, so that no store returns `-EINVAL`.

`AxiDspProofs`, for any number of processes and any inputs that
`InputsAssumption` allows:

- `ApplyInvariance`: while something set before an apply has not been taken over,
  the apply in progress is about to write a value that differs from the
  register's.  It rests on the fact that no setter reaches the apply register
  (`SetterElsewhere`) or sets bits that do not exist (`EncodeBounded`).
- `ApplyEffective`: hence `axi_dsp_apply()` takes effect although it is not
  atomic: when two processes toggle to the same value, the first write has
  taken over what the second was to take over.
- `SettingsSeparate`: a getter that reads the register of its own setting, which
  all but two do, returns what it makes of what that register keeps of a word
  its setter writes for the value given last, whatever else any process sets,
  applies or kills in between, and whatever the values: those that do not fit
  included.  No two settings share a register (`AddressesApart`), no other write
  reaches one, and setter and getter agree on the register (`GetterAddress`).
- `ValuesRoundTrip`: so values come back in every field that they fit, the two
  getters aside, of which `Fits` says nothing.  The theorem assumes
  `ConversionsExact`, that is, that encoding a value, keeping the bits that the
  register has, and decoding gives back the fields that fit: registers are sets
  of bits and words sums of powers of two, so that this is recursion over data,
  which is out of reach of the prover; TLC evaluates it (section 3).
- `DspTyped`: no register holds a bit that it does not have.

The second part of `RegDriverProofs` is about `AxiMultiplier`, for any number of programs and
multipliers.  Programs are clients as `RegDriver` has them
(`ProgramsAreClients`), so that all theorems above hold of them.  What can be said of a test depends on what the programs
call: a program that sets the kill register and leaves it so stops the
multiplier, and no library prevents it.  The theorems assume `Disciplined`: who
stops the multiplier sets it running with the next call; what is checked was set
before, with calls that do not fail; and of calls for registers that do not exist
no two follow each other.  `TestsDisciplined` proves this of any number of tests,
with whatever arguments, and resets; the programs of `mult_test`, which also
call for a channel that does not exist, satisfy it, too.

- `FilesInv`: a file is open exactly while all calls so far have succeeded, which
  the program alone determines (`Sound`), and the position follows from the call
  before (`Target`).  Hence each call has one of two effects (`Effect`).
- `LeftRunning`: while the multiplier is stopped some program is about to set it
  running (`KillInv`): not necessarily the one that stopped it, which is why
  resets may overlap.
- `AlarmsTrue`: what a program has set stays until someone else writes the
  register (`WrittenInv`), and a value that fits is read back (`SeenKept`).
- `SilenceTells`: behind a check without an alarm the register holds the lower 16
  bits of what is expected, until someone writes it (`SilentInv`); the check, not
  the setter, is what shows it.
- `MultTyped`: a register never holds more than its field of 1, 3 or 16 bits can,
  and the version never changes (`KeptBounded`).

Only model-checked: the exactness of conversions, which is recursion over data,
and liveness under fairness (`Ends`, `ProgramsEnd`, `EveryStoreReleases`).  Neither
induction over data nor ENABLED is within reach of the prover; that the guards
in `NeverStuck` are those of the actions is read off the modules.

## 6. What is not modelled

- The content of packets and their printing (`print_hdr`, `print_work`), and so
  the size of a `TP_WORK` record (`cpp:165`).
- `single_transfer_one_buf()` and `single_transfer_all_bufs()`, which nothing
  calls; the helpers of `misc.cpp` for dates, stdin and bit strings.
- The dma-proxy driver and PIP, which are not in the repository, beyond what the
  code relies on.
- Parsing of the command line beyond the number of transfers, the directory for
  the dump, the keyboard listener.
- What an access to freed data does (`Astray` of `RegDriver`), and so
  `axi_multiplier` while its driver is unbound under open files.
- Rounding: `AxiDsp` takes values that are exact in their format.
- Build files and prebuilt kernel modules.

## 7. Plan

Done in this order: `RxChannel` with `PacketSink` and its proofs, `TxStream`,
`IpCommTest`, `PlReset`, `RegDriver`, `AxiDsp` with its proofs, `Descriptors`,
`SampleFile`; then any number of transfers for `RxChannel`, missing devices for
`TxStream`, `Measurement`, crashes for `AxiDsp`, `AxiMultiplier`, and the proofs
of `TxStream`, `IpCommTest`, `RegDriver` and `PlReset`; then those of the whole
program with the refinement of `Measurement`, of `Descriptors`, of the round
trips of `AxiDsp`, and of `AxiMultiplier`; then those of `SampleFile` and of
`MovesOn`.  Left are models: an instance of `IpCommTest` beyond the wrap of
`num_rx_transfer`; the sizes of `TP_WORK` records.
