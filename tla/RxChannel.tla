----------------------------- MODULE RxChannel ------------------------------
(***************************************************************************)
(* The receive channel of ip_comm_test: a dma_channel object run as a      *)
(* PIThread.  begin() hands the buffers of the channel to the dma-proxy    *)
(* driver, run() is called again and again to collect the next buffer,     *)
(* dump it and hand it back, end() releases the channel.                   *)
(*                                                                         *)
(* The thread, the signal processor and the DMA engine interleave freely.  *)
(* The engine and the driver (the axidma_proxy submodule, which is not in  *)
(* the repository) are modelled from how dma_channel uses them:            *)
(*   START_XFER(b)   queues buffer b behind those already queued;          *)
(*   the engine      puts the next packet into the buffer at the head;     *)
(*   FINISH_XFER(b)  blocks until b is filled and reports PROXY_NO_ERROR,  *)
(*                   or gives up and reports another status.               *)
(* A packet is the number of its emission by the signal processor.         *)
(***************************************************************************)
EXTENDS Integers, Sequences

CONSTANTS
  BufferCount,      \* ch.buffer_count, RX_BUFFER_COUNT in the application
  Numbers,          \* what set_num_transfers() may be called with
  MaxPackets,       \* bound: packets the signal processor emits at most
  FlushPeriod,      \* fflush the dump every FlushPeriod records, 10 in code
  FaultStatuses     \* failures FINISH_XFER may report in this instance

ASSUME RxAssumption ==
  /\ BufferCount \in Nat \ {0}
  /\ Numbers \subseteq Int
  /\ MaxPackets \in Nat
  /\ FlushPeriod \in Nat \ {0}
  /\ FaultStatuses \subseteq {"PROXY_BUSY", "PROXY_TIMEOUT", "PROXY_ERROR"}

VARIABLES
  \* the dma_channel object
  pc,                 \* where the owner of the object is
  buffer_id,          \* ch.buffer_id
  counter,            \* ch.counter: transfers collected
  in_progress_count,  \* ch.in_progress_count: transfers handed out
  num_transfers,      \* num_transfers, an int: 0 when none was set
  buf_ptr,            \* whether ch.buf_ptr points to the mapped buffers
  dump_file,          \* whether dump_file is an open file
  \* the dump file
  dump,               \* packets printed to the file
  flushed,            \* how many of them fflush has surely written
  \* the dma-proxy driver, the DMA engine and the signal processor
  owner,              \* owner[b]: "app", "dma" (queued) or "done" (filled)
  data,               \* data[b]: packet buffer b holds, 0 for none
  order,              \* buffers queued in the engine, first to fill first
  offered,            \* packets emitted by the signal processor
  arrived             \* packets moved to memory by the DMA engine

thread == <<pc, buffer_id, counter, in_progress_count, num_transfers, buf_ptr,
            dump_file>>
file   == <<dump, flushed>>
engine == <<owner, data, order, arrived>>
vars   == <<thread, file, engine, offered>>

Buffers == 0 .. BufferCount - 1

Locations ==
  {"new", "inited", "ready", "begin", "wait", "save", "next", "end", "done",
   "crashed"}

-----------------------------------------------------------------------------
(* The external part.                                                      *)

\* The signal processor emits its next packet.
Offer ==
  /\ offered < MaxPackets
  /\ offered' = offered + 1
  /\ UNCHANGED <<thread, file, engine>>

\* The DMA engine moves the oldest waiting packet to the buffer queued first.
Deliver ==
  /\ arrived < offered
  /\ order # <<>>
  /\ arrived' = arrived + 1
  /\ owner' = [owner EXCEPT ![Head(order)] = "done"]
  /\ data' = [data EXCEPT ![Head(order)] = arrived + 1]
  /\ order' = Tail(order)
  /\ UNCHANGED <<thread, file, offered>>

\* ioctl(START_XFER): buffer b is queued behind the others.
StartXfer(b) ==
  /\ owner' = [owner EXCEPT ![b] = "dma"]
  /\ order' = Append(order, b)
  /\ UNCHANGED <<data, arrived>>

\* ioctl(FINISH_XFER) returns with PROXY_NO_ERROR: buffer b is filled.
FinishXfer(b) ==
  /\ owner[b] = "done"
  /\ owner' = [owner EXCEPT ![b] = "app"]
  /\ UNCHANGED <<data, order, arrived>>

-----------------------------------------------------------------------------
(* The life of the object up to the start of its thread.                   *)

Init ==
  /\ pc = "new"
  /\ buffer_id = 0
  /\ counter = 0
  /\ in_progress_count = 0
  /\ num_transfers = 0
  /\ buf_ptr = FALSE
  /\ dump_file = FALSE
  /\ dump = <<>>
  /\ flushed = 0
  /\ owner = [b \in Buffers |-> "app"]
  /\ data = [b \in Buffers |-> 0]
  /\ order = <<>>
  /\ offered = 0
  /\ arrived = 0

\* init(): open and mmap may fail; main does not look at the result.  The
\* loop that stores the lengths leaves buffer_id behind the last buffer.
InitChannel ==
  /\ pc = "new"
  /\ \/ buf_ptr' = TRUE /\ buffer_id' = BufferCount
     \/ UNCHANGED <<buf_ptr, buffer_id>>
  /\ pc' = "inited"
  /\ UNCHANGED <<counter, in_progress_count, num_transfers, dump_file, file,
                 engine, offered>>

\* set_save_to_file() and set_num_transfers(): fopen may fail.
SetSaveToFile ==
  /\ pc = "inited"
  /\ dump_file' \in BOOLEAN
  /\ num_transfers' \in Numbers
  /\ pc' = "ready"
  /\ UNCHANGED <<buffer_id, counter, in_progress_count, buf_ptr, file, engine,
                 offered>>

\* PIThread::start(): the new thread enters begin(), whose loop starts at 0.
Start ==
  /\ pc = "ready"
  /\ pc' = "begin"
  /\ buffer_id' = 0
  /\ UNCHANGED <<counter, in_progress_count, num_transfers, buf_ptr, dump_file,
                 file, engine, offered>>


-----------------------------------------------------------------------------
(* The thread: begin(), then run() until stop(), then end().               *)

\* Mutant: the loops pass the wrong buffer.
HandOutNext(b) ==
  /\ StartXfer((b + 1) % BufferCount)
  /\ in_progress_count' = in_progress_count + 1

\* start_transfer_for_buf().
HandOut(b) ==
  /\ StartXfer(b)
  /\ in_progress_count' = in_progress_count + 1

\* Mutant: 0 is taken for a number of transfers.
BegunEnoughUnset == in_progress_count' >= num_transfers

\* The break in begin().
BegunEnough == num_transfers # 0 /\ in_progress_count' >= num_transfers

\* run(): all transfers are collected.
Collected == num_transfers # 0 /\ counter >= num_transfers

\* Mutant: off by one.
TransfersLeftOneMore ==
  num_transfers # 0 /\ counter + in_progress_count <= num_transfers

\* run(): some transfer is not handed out yet.
TransfersLeft ==
  num_transfers # 0 /\ counter + in_progress_count < num_transfers

\* Mutant: the walk stays where it is.
NextBufferStuck == buffer_id

\* run(): the next buffer of the ring.
NextBuffer == (buffer_id + 1) % BufferCount

\* One turn of the loop in begin(): a break, or the end of the loop, resets
\* buffer_id for run().
BeginBuffer ==
  /\ pc = "begin"
  /\ buf_ptr
  /\ HandOut(buffer_id)
  /\ \/ /\ buffer_id = BufferCount - 1 \/ BegunEnough
        /\ buffer_id' = 0
        /\ pc' = "wait"
     \/ /\ ~(buffer_id = BufferCount - 1 \/ BegunEnough)
        /\ buffer_id' = buffer_id + 1
        /\ pc' = "begin"
  /\ UNCHANGED <<counter, num_transfers, buf_ptr, dump_file, file, offered>>

\* main starts the thread of a channel whose init() failed: begin() writes
\* through the null pointer.
BeginCrash ==
  /\ pc = "begin"
  /\ ~buf_ptr
  /\ pc' = "crashed"
  /\ UNCHANGED <<buffer_id, counter, in_progress_count, num_transfers, buf_ptr,
                 dump_file, file, engine, offered>>

\* wait_for_transfer() with nothing in progress returns 0 at once.
WaitIdle ==
  /\ pc = "wait"
  /\ in_progress_count = 0
  /\ pc' = "next"
  /\ UNCHANGED <<buffer_id, counter, in_progress_count, num_transfers, buf_ptr,
                 dump_file, file, engine, offered>>

FinishOk ==
  /\ pc = "wait"
  /\ in_progress_count > 0
  /\ FinishXfer(buffer_id)
  /\ pc' = "save"
  /\ UNCHANGED <<buffer_id, counter, in_progress_count, num_transfers, buf_ptr,
                 dump_file, file, offered>>

\* Mutant: a failed transfer is counted.
FinishFaultCounted(status) ==
  /\ pc = "wait"
  /\ in_progress_count > 0
  /\ status # "PROXY_NO_ERROR"
  /\ pc' = "end"
  /\ counter' = counter + 1
  /\ in_progress_count' = in_progress_count - 1
  /\ UNCHANGED <<buffer_id, num_transfers, buf_ptr, dump_file, file, engine,
                 offered>>

\* Mutant: run() ignores the status and tries again.
FinishFaultIgnored(status) ==
  /\ pc = "wait"
  /\ in_progress_count > 0
  /\ status # "PROXY_NO_ERROR"
  /\ UNCHANGED vars

\* Any other status: wait_for_transfer() returns it and run() stops the
\* thread; the counters stay as they are.
FinishFault(status) ==
  /\ pc = "wait"
  /\ in_progress_count > 0
  /\ status # "PROXY_NO_ERROR"
  /\ pc' = "end"
  /\ UNCHANGED <<buffer_id, counter, in_progress_count, num_transfers, buf_ptr,
                 dump_file, file, engine, offered>>

Count ==
  /\ counter' = counter + 1
  /\ in_progress_count' = in_progress_count - 1

\* Mutant: off by one.
FlushDueLate == counter % (FlushPeriod + 1) = 0

FlushDue == counter % FlushPeriod = 0

\* The second half of wait_for_transfer(): dump the packet, then count it.
\* The flush looks at the counter before it is incremented.
Save ==
  /\ pc = "save"
  /\ dump' = IF dump_file THEN Append(dump, data[buffer_id]) ELSE dump
  /\ flushed' = IF dump_file /\ FlushDue THEN Len(dump') ELSE flushed
  /\ Count
  /\ pc' = "next"
  /\ UNCHANGED <<buffer_id, num_transfers, buf_ptr, dump_file, engine,
                 offered>>

\* run() after wait_for_transfer() returned 0 and all transfers are collected.
StopCollected ==
  /\ pc = "next"
  /\ Collected
  /\ pc' = "end"
  /\ UNCHANGED <<buffer_id, counter, in_progress_count, num_transfers, buf_ptr,
                 dump_file, file, engine, offered>>

\* run() otherwise: hand the buffer out again if a transfer is still missing,
\* and go on with the next buffer of the ring.
Advance ==
  /\ pc = "next"
  /\ ~Collected
  /\ \/ TransfersLeft /\ HandOut(buffer_id)
     \/ ~TransfersLeft /\ UNCHANGED <<engine, in_progress_count>>
  /\ buffer_id' = NextBuffer
  /\ pc' = "wait"
  /\ UNCHANGED <<counter, num_transfers, buf_ptr, dump_file, file, offered>>

\* end(): cleanup() unmaps the buffers and closes the device.
End ==
  /\ pc = "end"
  /\ buf_ptr' = FALSE
  /\ pc' = "done"
  /\ UNCHANGED <<buffer_id, counter, in_progress_count, num_transfers,
                 dump_file, file, engine, offered>>

-----------------------------------------------------------------------------

Finish == FinishOk \/ \E s \in FaultStatuses : FinishFault(s)

Setup == InitChannel \/ SetSaveToFile \/ Start

Thread ==
  \/ BeginBuffer \/ BeginCrash
  \/ WaitIdle \/ Finish \/ Save
  \/ StopCollected \/ Advance \/ End

Next == Offer \/ Deliver \/ Setup \/ Thread

Spec == Init /\ [][Next]_vars

-----------------------------------------------------------------------------
(* Properties.                                                             *)

TypeOK ==
  /\ pc \in Locations
  /\ buffer_id \in 0 .. BufferCount
  /\ counter \in Nat
  /\ in_progress_count \in 0 .. BufferCount
  /\ num_transfers \in Numbers \union {0}
  /\ buf_ptr \in BOOLEAN
  /\ dump_file \in BOOLEAN
  /\ dump \in Seq(Nat)
  /\ flushed \in Nat
  /\ owner \in [Buffers -> {"app", "dma", "done"}]
  /\ data \in [Buffers -> Nat]
  /\ order \in Seq(Buffers)
  /\ offered \in 0 .. MaxPackets
  /\ arrived \in Nat

\* How many packets the channel takes: without a number begin() hands out every
\* buffer once and run() never hands one out again; a negative number, which an
\* unsigned one beyond 2^31 becomes, ends begin() and run() after the first.
LimitOf(n) == IF n = 0 THEN BufferCount ELSE IF n < 0 THEN 1 ELSE n

Limit == LimitOf(num_transfers)

\* The dump holds every packet collected so far exactly once, in the order of
\* emission: the ring is walked by begin(), run() and the engine in step, and
\* no buffer is overwritten between FINISH_XFER and fprintf.
DumpInOrder ==
  dump = IF dump_file THEN [i \in 1 .. counter |-> i] ELSE <<>>

\* While run() waits, the engine has as many buffers as the ring or the number
\* of missing transfers allows, and never one transfer too many: begin() and
\* run() together hand out exactly Limit transfers.
RingFull ==
  /\ counter + in_progress_count <= Limit
  /\ pc = "wait" => \/ in_progress_count = BufferCount
                    \/ counter + in_progress_count = Limit

\* A channel that collected all its transfers has every buffer back when
\* cleanup() unmaps them: the engine can no longer write to one.
CleanStop ==
  pc \in {"end", "done"} /\ counter = Limit
    => in_progress_count = 0 /\ \A b \in Buffers : owner[b] = "app"

\* If the program is killed at any moment, fewer than FlushPeriod packets of
\* the dump are lost in the stdio buffer (save_buf_to_file()).
LossBounded == Len(dump) < flushed + FlushPeriod

\* A buffer is handed out only while the application owns it: START_XFER never
\* queues a buffer that is queued already or holds a packet not yet dumped.
StartsOnlyOwned ==
  [][\A b \in Buffers : order' = Append(order, b) => owner[b] = "app"]_vars

\* The channel implements the abstract sink.
Status ==
  CASE pc \in {"new", "inited"} -> "idle"
    [] pc \in {"ready", "begin", "wait", "save", "next"} -> "collecting"
    [] pc \in {"end", "done"} /\ counter = Limit -> "complete"
    [] OTHER -> "faulted"

Sink == INSTANCE PacketSink
          WITH Limits <- {LimitOf(n) : n \in Numbers \union {0}},
               status <- Status, limit <- Limit, logging <- dump_file,
               taken <- counter, file <- dump

SinkSpec == Sink!Spec

-----------------------------------------------------------------------------
(* The inductive invariant: what buffer each outstanding transfer uses.    *)

\* FINISH_XFER has returned the packet of buffer_id but it is not counted yet.
Uncounted   == IF pc = "save" THEN 1 ELSE 0
Outstanding == in_progress_count - Uncounted
Taken       == counter + Uncounted

\* Packets that wait in filled buffers.
Landed == arrived - Taken

\* The buffer of the i-th outstanding transfer, counted from 0: the ring is
\* walked from buffer_id on, or from the buffer behind it when its own packet
\* was taken.
Base == IF pc \in {"wait", "save", "next", "end", "done"} THEN buffer_id ELSE 0

Wrap(s) == IF s < BufferCount THEN s ELSE s - BufferCount

Behind == IF pc \in {"save", "next"} THEN 1 ELSE 0

Slot(i) == Wrap(Base + Behind + i)

Accounts ==
  /\ Base \in Buffers
  /\ Taken <= arrived /\ arrived <= offered
  /\ Outstanding \in 0 .. BufferCount - Behind
  /\ Landed \in 0 .. Outstanding
  /\ Len(order) = Outstanding - Landed
  /\ counter + in_progress_count <= Limit

\* begin() hands out buffers 0, 1, ...; before it nothing is handed out.
Beginning ==
  /\ pc \in {"new", "inited", "ready"} => in_progress_count = 0
  /\ pc \in {"new", "inited", "ready", "begin"} => counter = 0
  /\ pc = "begin" => /\ buffer_id = in_progress_count
                     /\ buffer_id \in Buffers
                     /\ in_progress_count < Limit

\* Behind begin() the ring is kept as full as it can be.
Running ==
  /\ pc = "next" => counter > 0
  /\ pc \in {"wait", "save", "next"} =>
       \/ counter + in_progress_count = Limit
       \/ /\ num_transfers > 0
          /\ in_progress_count = BufferCount - (IF pc = "next" THEN 1 ELSE 0)

\* The outstanding transfers lie in ring order: first those that hold the next
\* packets, then those queued in the engine, in the order of its queue.  The
\* other buffers belong to the application.
Ring ==
  \A i \in Buffers :
    /\ i < Landed => /\ owner[Slot(i)] = "done"
                     /\ data[Slot(i)] = Taken + i + 1
    /\ i >= Landed /\ i < Outstanding => /\ owner[Slot(i)] = "dma"
                                         /\ order[i - Landed + 1] = Slot(i)
    /\ i >= Outstanding => owner[Slot(i)] = "app"

\* The packet being dumped is the next one.
Saving == pc = "save" => data[buffer_id] = counter + 1

RxInv ==
  /\ TypeOK
  /\ Accounts
  /\ Beginning
  /\ Running
  /\ Ring
  /\ Saving
  /\ DumpInOrder

=============================================================================
