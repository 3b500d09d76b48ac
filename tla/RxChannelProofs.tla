-------------------------- MODULE RxChannelProofs ---------------------------
(***************************************************************************)
(* Theorems about RxChannel for every number of buffers and transfers,     *)
(* every bound on the packets and every set of faults.                     *)
(***************************************************************************)
EXTENDS RxChannel, TLAPS

\* The small parts of begin(), run() and wait_for_transfer() are expanded
\* wherever an action that uses them is.
USE RxAssumption
    DEF LimitOf, BegunEnough, Collected, TransfersLeft, NextBuffer, Count,
        FlushDue

-----------------------------------------------------------------------------
(* Arithmetic of the ring.                                                 *)

\* The step of buffer_id in run() stays in the ring.
LEMMA NextInRing ==
  ASSUME NEW b \in Buffers
  PROVE  (b + 1) % BufferCount = Wrap(b + 1)
<1>1. CASE b + 1 = BufferCount
  BY <1>1 DEF Buffers, Wrap
<1>2. CASE b + 1 # BufferCount
  BY <1>2 DEF Buffers, Wrap
<1>. QED BY <1>1, <1>2

\* From any start the next BufferCount slots are all the buffers, each once.
LEMMA WrapBijective ==
  ASSUME NEW f \in 0 .. BufferCount
  PROVE  /\ \A i \in Buffers : Wrap(f + i) \in Buffers
         /\ \A i, j \in Buffers : Wrap(f + i) = Wrap(f + j) => i = j
         /\ \A b \in Buffers : \E i \in Buffers : b = Wrap(f + i)
<1>1. \A i \in Buffers : Wrap(f + i) \in Buffers
  BY DEF Buffers, Wrap
<1>2. \A i, j \in Buffers : Wrap(f + i) = Wrap(f + j) => i = j
  BY DEF Buffers, Wrap
<1>3. ASSUME NEW b \in Buffers
      PROVE  \E i \in Buffers : b = Wrap(f + i)
  <2>. DEFINE i == IF f <= b THEN b - f ELSE b - f + BufferCount
  <2>1. i \in Buffers /\ b = Wrap(f + i)
    BY DEF Buffers, Wrap
  <2>. QED BY <2>1
<1>. QED BY <1>1, <1>2, <1>3

\* Walking on from the buffer behind b is walking on from b + 1 in the ring.
LEMMA WrapWrap ==
  ASSUME NEW b \in Buffers, NEW i \in Buffers
  PROVE  Wrap(Wrap(b + 1) + i) = Wrap(b + 1 + i)
BY DEF Buffers, Wrap

\* Whatever set_num_transfers() is given, there is a limit.
LEMMA LimitPositive ==
  ASSUME NEW n \in Numbers \union {0}
  PROVE  n \in Int /\ LimitOf(n) \in Nat \ {0}
OBVIOUS

LEMMA AppendNext ==
  ASSUME NEW n \in Nat
  PROVE  Append([i \in 1 .. n |-> i], n + 1) = [i \in 1 .. n + 1 |-> i]
OBVIOUS

-----------------------------------------------------------------------------
(* The inductive invariant.                                                *)

LEMMA InitInv == Init => RxInv
<1>. SUFFICES ASSUME Init PROVE RxInv
  OBVIOUS
<1>. USE DEF Init, Outstanding, Taken, Landed, Uncounted, Behind, Base
<1>1. TypeOK
  BY DEF TypeOK, Locations, Buffers
<1>2. Accounts
  BY DEF Accounts, Buffers, Limit
<1>3. Beginning /\ Running /\ Saving
  BY DEF Beginning, Running, Saving
<1>4. Ring
  <2>1. \A i \in Buffers : Slot(i) \in Buffers
    BY DEF Slot, Wrap, Buffers
  <2>2. Landed = 0 /\ Outstanding = 0
    OBVIOUS
  <2>3. \A b \in Buffers : owner[b] = "app"
    OBVIOUS
  <2>. QED BY <2>1, <2>2, <2>3 DEF Ring, Buffers
<1>5. DumpInOrder
  BY DEF DumpInOrder
<1>. QED BY <1>1, <1>2, <1>3, <1>4, <1>5 DEF RxInv

\* Type correctness is inductive but for the bounds that Accounts gives.
LEMMA TypeStep == RxInv /\ [Next]_vars => TypeOK'
<1>. SUFFICES ASSUME RxInv, [Next]_vars PROVE TypeOK'
  OBVIOUS
<1>. USE DEF RxInv, TypeOK, Locations, thread, file, engine
<1>1. CASE Offer
  BY <1>1 DEF Offer
<1>2. CASE Deliver
  <2>1. Head(order) \in Buffers /\ Tail(order) \in Seq(Buffers)
    BY <1>2 DEF Deliver
  <2>. QED BY <1>2, <2>1 DEF Deliver
<1>3. CASE Setup
  <2>1. CASE InitChannel
    <3>1. buf_ptr' \in BOOLEAN
      BY <2>1, Zenon DEF InitChannel
    <3>2. buffer_id' \in 0 .. BufferCount
      BY <2>1 DEF InitChannel
    <3>. QED BY <2>1, <3>1, <3>2 DEF InitChannel
  <2>2. CASE SetSaveToFile
    BY <2>2 DEF SetSaveToFile
  <2>3. CASE Start
    BY <2>3 DEF Start
  <2>. QED BY <1>3, <2>1, <2>2, <2>3 DEF Setup
<1>4. CASE BeginBuffer
  <2>1. buffer_id \in Buffers /\ in_progress_count + 1 \in 0 .. BufferCount
    BY <1>4 DEF BeginBuffer, Beginning, Buffers
  <2>2. /\ owner' \in [Buffers -> {"app", "dma", "done"}]
        /\ order' \in Seq(Buffers)
        /\ data' = data /\ arrived' = arrived
        /\ in_progress_count' = in_progress_count + 1
    BY <1>4, <2>1 DEF BeginBuffer, HandOut, StartXfer
  <2>3. buffer_id' \in 0 .. BufferCount
    BY <1>4, <2>1 DEF BeginBuffer, Buffers
  <2>. QED BY <1>4, <2>1, <2>2, <2>3 DEF BeginBuffer
<1>5. CASE BeginCrash \/ WaitIdle \/ StopCollected \/ End
  BY <1>5 DEF BeginCrash, WaitIdle, StopCollected, End
<1>6. CASE Finish
  BY <1>6 DEF Finish, FinishOk, FinishFault, FinishXfer
<1>7. CASE Save
  <2>1. in_progress_count - 1 \in 0 .. BufferCount
    BY <1>7 DEF Save, Accounts, Outstanding, Uncounted
  <2>2. dump' \in Seq(Nat) /\ Len(dump') \in Nat
    BY <1>7, buffer_id \in Buffers DEF Save, Accounts, Base
  <2>. QED BY <1>7, <2>1, <2>2 DEF Save
<1>8. CASE Advance
  <2>1. buffer_id \in Buffers
    BY <1>8 DEF Advance, Accounts, Base
  <2>2. buffer_id' \in 0 .. BufferCount
    BY <1>8, <2>1, NextInRing DEF Advance, Buffers, Wrap
  <2>3. /\ owner' \in [Buffers -> {"app", "dma", "done"}]
        /\ order' \in Seq(Buffers)
        /\ data' = data /\ arrived' = arrived
    <3>1. CASE HandOut(buffer_id)
      BY <2>1, <3>1 DEF HandOut, StartXfer
    <3>2. CASE UNCHANGED <<engine, in_progress_count>>
      BY <3>2
    <3>. QED BY <1>8, <3>1, <3>2 DEF Advance
  <2>4. in_progress_count' \in 0 .. BufferCount
    BY <1>8, <2>1
       DEF Advance, HandOut, Accounts, Outstanding, Behind, Uncounted
  <2>. QED BY <1>8, <2>2, <2>3, <2>4 DEF Advance
<1>9. CASE UNCHANGED vars
  BY <1>9 DEF vars
<1>. QED
  BY <1>1, <1>2, <1>3, <1>4, <1>5, <1>6, <1>7, <1>8, <1>9 DEF Next, Thread


\* What a step must preserve besides the types.
RingInv == Accounts /\ Beginning /\ Running /\ Ring /\ Saving /\ DumpInOrder

\* Every buffer is some slot, and the slots are buffers.
LEMMA SlotBijective ==
  ASSUME Accounts
  PROVE  /\ \A i \in Buffers : Slot(i) \in Buffers
         /\ \A i, j \in Buffers : Slot(i) = Slot(j) => i = j
         /\ \A b \in Buffers : \E i \in Buffers : b = Slot(i)
<1>1. Base + Behind \in 0 .. BufferCount
  BY DEF Accounts, Behind, Buffers
<1>. QED BY <1>1, WrapBijective DEF Slot

\* With nothing outstanding the application owns every buffer.
LEMMA NothingOut ==
  ASSUME Accounts, Ring, Outstanding = 0
  PROVE  \A b \in Buffers : owner[b] = "app"
BY SlotBijective DEF Ring, Buffers

\* Steps that leave the ring alone.
LEMMA QuietStep ==
  ASSUME RxInv, TypeOK',
         \/ Offer
         \/ Setup
         \/ BeginCrash
         \/ \E s \in FaultStatuses : FinishFault(s)
         \/ End
         \/ UNCHANGED vars
  PROVE  RingInv'
<1>. USE DEF RxInv, thread, file, engine
<1>1. /\ UNCHANGED <<counter, in_progress_count, owner, data, order, arrived,
                     dump>>
      /\ offered <= offered' /\ offered' \in Nat
      /\ \/ num_transfers' = num_transfers
         \/ counter = 0 /\ in_progress_count = 0
      /\ pc # "save" => pc' # "save"
      /\ pc = "save" => UNCHANGED <<pc, buffer_id>>
      /\ Base' = Base /\ Behind' = Behind
  <2>1. CASE Offer
    BY <2>1 DEF Offer, TypeOK, Base, Behind
  <2>2. CASE Setup
    BY <2>2 DEF Setup, InitChannel, SetSaveToFile, Start, TypeOK, Base, Behind,
                Beginning
  <2>3. CASE BeginCrash \/ End \/ UNCHANGED vars
    BY <2>3 DEF BeginCrash, End, vars, TypeOK, Base, Behind
  <2>4. CASE \E s \in FaultStatuses : FinishFault(s)
    BY <2>4 DEF FinishFault, TypeOK, Base, Behind
  <2>. QED BY <2>1, <2>2, <2>3, <2>4
<1>2. Outstanding' = Outstanding /\ Taken' = Taken /\ Landed' = Landed
  BY <1>1 DEF Outstanding, Taken, Landed, Uncounted
<1>3. Accounts'
  BY <1>1, <1>2 DEF Accounts, TypeOK, Taken, Uncounted, Limit
<1>4. Ring'
  BY <1>1, <1>2 DEF Ring, Slot
<1>5. Saving'
  BY <1>1 DEF Saving
<1>6. Beginning' /\ Running' /\ (dump_file' = dump_file \/ pc = "inited")
  <2>. Limit' \in Nat \ {0}
    BY LimitPositive DEF Limit, TypeOK
  <2>1. CASE Offer
    BY <2>1 DEF Offer, Beginning, Running, Limit
  <2>2. CASE InitChannel \/ SetSaveToFile \/ Start
    BY <2>2 DEF InitChannel, SetSaveToFile, Start, Beginning, Running, Buffers
  <2>3. CASE BeginCrash \/ End \/ UNCHANGED vars
    BY <2>3 DEF BeginCrash, End, vars, Beginning, Running, Limit
  <2>4. CASE \E s \in FaultStatuses : FinishFault(s)
    BY <2>4 DEF FinishFault, Beginning, Running
  <2>. QED BY <2>1, <2>2, <2>3, <2>4 DEF Setup
<1>7. DumpInOrder'
  BY <1>1, <1>6 DEF DumpInOrder, Beginning
<1>. QED BY <1>3, <1>4, <1>5, <1>6, <1>7 DEF RingInv


\* The engine fills the buffer at the head of its queue: slot Landed.
LEMMA DeliverStep ==
  ASSUME RxInv, TypeOK', Deliver
  PROVE  RingInv'
<1>. USE DEF RxInv, thread, file
<1>1. /\ UNCHANGED <<pc, buffer_id, counter, in_progress_count, num_transfers,
                     dump_file, dump, offered>>
      /\ Base' = Base /\ Behind' = Behind
      /\ Outstanding' = Outstanding /\ Taken' = Taken
      /\ arrived' = arrived + 1
      /\ Landed' = Landed + 1
  BY DEF Deliver, Base, Behind, Outstanding, Taken, Landed, Uncounted, TypeOK
<1>2. /\ Landed \in Nat /\ Outstanding \in Nat
      /\ Landed < Outstanding /\ Outstanding <= BufferCount
      /\ Len(order) = Outstanding - Landed
      /\ order \in Seq(Buffers)
  <2>1. Len(order) # 0
    BY DEF Deliver, TypeOK
  <2>. QED BY <2>1 DEF Accounts, TypeOK, Behind, Uncounted, Buffers
<1>3. /\ Len(Tail(order)) = Len(order) - 1
      /\ \A k \in 1 .. Len(order) - 1 : Tail(order)[k] = order[k + 1]
      /\ Head(order) = order[1]
  BY <1>2
<1>4. Landed \in Buffers /\ Head(order) = Slot(Landed)
  BY <1>2, <1>3 DEF Ring, Buffers
<1>5. /\ owner' = [owner EXCEPT ![Slot(Landed)] = "done"]
      /\ data' = [data EXCEPT ![Slot(Landed)] = Taken + Landed + 1]
      /\ order' = Tail(order)
  <2>1. arrived + 1 = Taken + Landed + 1
    BY DEF Landed, Taken, Uncounted, TypeOK
  <2>. QED BY <1>4, <2>1 DEF Deliver
<1>6. Accounts'
  <2>1. Taken \in Nat /\ Taken <= arrived + 1 /\ arrived + 1 <= offered
    BY DEF Deliver, Accounts, Taken, Uncounted, TypeOK
  <2>2. Len(order') = Outstanding - (Landed + 1)
    BY <1>2, <1>3, <1>5
  <2>3. Landed + 1 \in 0 .. Outstanding
    BY <1>2
  <2>. QED BY <1>1, <2>1, <2>2, <2>3 DEF Accounts, Limit
<1>7. Ring'
  <2>. SUFFICES ASSUME NEW i \in Buffers
                PROVE  /\ i < Landed + 1 => /\ owner'[Slot(i)] = "done"
                                            /\ data'[Slot(i)] = Taken + i + 1
                       /\ i >= Landed + 1 /\ i < Outstanding =>
                            /\ owner'[Slot(i)] = "dma"
                            /\ order'[i - (Landed + 1) + 1] = Slot(i)
                       /\ i >= Outstanding => owner'[Slot(i)] = "app"
    BY <1>1 DEF Ring, Slot
  <2>1. Slot(i) \in Buffers /\ (Slot(i) = Slot(Landed) => i = Landed)
    BY <1>4, SlotBijective
  <2>2. CASE i = Landed
    BY <1>2, <1>5, <2>1, <2>2 DEF TypeOK
  <2>3. CASE i # Landed
    <3>1. owner'[Slot(i)] = owner[Slot(i)] /\ data'[Slot(i)] = data[Slot(i)]
      BY <1>5, <2>1, <2>3 DEF TypeOK
    <3>2. i > Landed /\ i < Outstanding =>
            order'[i - (Landed + 1) + 1] = order[i - Landed + 1]
      <4>. SUFFICES ASSUME i > Landed, i < Outstanding
                    PROVE  order'[i - (Landed + 1) + 1] = order[i - Landed + 1]
        OBVIOUS
      <4>1. /\ i - Landed \in 1 .. Len(order) - 1
            /\ i - (Landed + 1) + 1 = i - Landed
        BY <1>2 DEF Buffers
      <4>2. Tail(order)[i - Landed] = order[i - Landed + 1]
        BY <1>3, <4>1
      <4>. QED BY <1>5, <4>1, <4>2
    <3>. QED BY <1>2, <2>3, <3>1, <3>2 DEF Ring, Buffers
  <2>. QED BY <2>2, <2>3
<1>8. Saving'
  <2>. SUFFICES ASSUME pc = "save" PROVE data'[buffer_id] = counter + 1
    BY <1>1 DEF Saving
  <2>. DEFINE last == BufferCount - 1
  <2>1. buffer_id \in Buffers /\ last \in Buffers /\ Slot(last) = buffer_id
    BY DEF Accounts, Base, Behind, Slot, Wrap, Buffers
  <2>2. last # Landed
    BY <1>2 DEF Accounts, Behind
  <2>3. Slot(last) # Slot(Landed)
    BY <1>4, <2>1, <2>2, SlotBijective
  <2>. QED BY <1>5, <2>1, <2>3 DEF Saving, TypeOK
<1>9. Beginning' /\ Running' /\ DumpInOrder'
  BY <1>1 DEF Beginning, Running, DumpInOrder, Limit
<1>. QED BY <1>6, <1>7, <1>8, <1>9 DEF RingInv

\* Handing out slot Outstanding, whatever becomes of the rest of the step.
LEMMA HandOutRing ==
  ASSUME RxInv, TypeOK', HandOut(Slot(Outstanding)),
         Outstanding \in Buffers,
         pc # "save", pc' # "save", counter' = counter,
         \A i \in Buffers : Wrap(Base' + Behind' + i) = Slot(i)
  PROVE  /\ Outstanding' = Outstanding + 1
         /\ Landed' = Landed /\ Taken' = Taken
         /\ Len(order') = Outstanding + 1 - Landed
         /\ Ring'
<1>. USE DEF RxInv
<1>1. /\ Outstanding' = Outstanding + 1
      /\ Landed' = Landed /\ Taken' = Taken
  BY DEF HandOut, StartXfer, Outstanding, Landed, Taken, Uncounted, TypeOK
<1>2. /\ Landed \in 0 .. Outstanding
      /\ Len(order) = Outstanding - Landed
      /\ order \in Seq(Buffers)
      /\ \A i \in Buffers : Slot(i) \in Buffers
      /\ \A i, j \in Buffers : Slot(i) = Slot(j) => i = j
  BY SlotBijective DEF Accounts, TypeOK
<1>3. /\ order' = Append(order, Slot(Outstanding))
      /\ owner' = [owner EXCEPT ![Slot(Outstanding)] = "dma"]
      /\ data' = data
  BY DEF HandOut, StartXfer
<1>4. /\ Len(order') = Len(order) + 1
      /\ \A k \in 1 .. Len(order) : order'[k] = order[k]
      /\ order'[Len(order) + 1] = Slot(Outstanding)
  BY <1>2, <1>3
<1>5. Ring'
  <2>. SUFFICES ASSUME NEW i \in Buffers
                PROVE  /\ i < Landed => /\ owner'[Slot(i)] = "done"
                                        /\ data'[Slot(i)] = Taken + i + 1
                       /\ i >= Landed /\ i < Outstanding + 1 =>
                            /\ owner'[Slot(i)] = "dma"
                            /\ order'[i - Landed + 1] = Slot(i)
                       /\ i >= Outstanding + 1 => owner'[Slot(i)] = "app"
    BY <1>1 DEF Ring, Slot
  <2>1. CASE i = Outstanding
    <3>1. owner'[Slot(i)] = "dma"
      BY <1>2, <1>3, <2>1 DEF TypeOK
    <3>2. order'[i - Landed + 1] = Slot(i)
      BY <1>2, <1>4, <2>1 DEF Buffers
    <3>. QED BY <1>2, <2>1, <3>1, <3>2 DEF Buffers
  <2>2. CASE i # Outstanding
    <3>1. owner'[Slot(i)] = owner[Slot(i)]
      BY <1>2, <1>3, <2>2 DEF TypeOK
    <3>2. i >= Landed /\ i < Outstanding =>
            order'[i - Landed + 1] = order[i - Landed + 1]
      <4>. SUFFICES ASSUME i >= Landed, i < Outstanding
                    PROVE  order'[i - Landed + 1] = order[i - Landed + 1]
        OBVIOUS
      <4>1. i - Landed + 1 \in 1 .. Len(order)
        BY <1>2 DEF Buffers
      <4>. QED BY <1>4, <4>1
    <3>3. /\ i >= Landed /\ i < Outstanding + 1 => i < Outstanding
          /\ i >= Outstanding + 1 => i >= Outstanding
      BY <2>2 DEF Accounts, Buffers
    <3>. QED BY <1>3, <3>1, <3>2, <3>3 DEF Ring
  <2>. QED BY <2>1, <2>2
<1>6. Len(order') = Outstanding + 1 - Landed
  BY <1>2, <1>4 DEF Buffers
<1>. QED BY <1>1, <1>5, <1>6


\* begin() hands out buffer in_progress_count, which is slot Outstanding.
LEMMA BeginStep ==
  ASSUME RxInv, TypeOK', BeginBuffer
  PROVE  RingInv'
<1>. USE DEF RxInv
<1>1. /\ pc = "begin" /\ pc' \in {"begin", "wait"}
      /\ counter = 0 /\ counter' = 0
      /\ Base = 0 /\ Behind = 0 /\ Base' = 0 /\ Behind' = 0
      /\ buffer_id = in_progress_count /\ buffer_id \in Buffers
      /\ Outstanding = in_progress_count
      /\ in_progress_count' = in_progress_count + 1
      /\ in_progress_count < Limit
      /\ UNCHANGED <<arrived, num_transfers, dump, dump_file, offered>>
  BY DEF BeginBuffer, HandOut, StartXfer, Beginning, Base, Behind, Uncounted,
         Outstanding, TypeOK, file
<1>2. /\ Outstanding \in Buffers /\ Slot(Outstanding) = buffer_id
      /\ \A i \in Buffers : Wrap(Base' + Behind' + i) = Slot(i)
  BY <1>1 DEF Slot, Wrap, Buffers
<1>3. HandOut(Slot(Outstanding))
  BY <1>2 DEF BeginBuffer
<1>4. /\ Outstanding' = Outstanding + 1
      /\ Landed' = Landed /\ Taken' = Taken
      /\ Len(order') = Outstanding + 1 - Landed
      /\ Ring'
  BY <1>1, <1>2, <1>3, HandOutRing
<1>5. Accounts'
  <2>1. Limit' = Limit /\ Limit \in Nat
    BY <1>1, LimitPositive DEF Limit, TypeOK
  <2>. QED BY <1>1, <1>4, <2>1 DEF Accounts, Buffers
<1>6. Beginning' /\ Running'
  <2>1. CASE pc' = "begin"
    BY <1>1, <2>1 DEF BeginBuffer, Beginning, Running, Limit, Buffers, TypeOK
  <2>2. CASE pc' = "wait"
    BY <1>1, <2>2 DEF BeginBuffer, Beginning, Running, Limit, Buffers, TypeOK
  <2>. QED BY <1>1, <2>1, <2>2
<1>7. Saving' /\ DumpInOrder'
  BY <1>1 DEF Saving, DumpInOrder
<1>. QED BY <1>4, <1>5, <1>6, <1>7 DEF RingInv

\* Nothing in progress: every buffer is the application's, before and after.
LEMMA IdleStep ==
  ASSUME RxInv, TypeOK', WaitIdle \/ StopCollected
  PROVE  RingInv'
<1>. USE DEF RxInv
<1>1. /\ UNCHANGED <<buffer_id, counter, in_progress_count, num_transfers,
                     owner, data, order, arrived, offered, dump, dump_file>>
      /\ pc \in {"wait", "next"} /\ pc' \in {"next", "end"}
      /\ pc # "save" /\ pc' # "save"
      /\ in_progress_count = 0
      /\ pc' = "next" => pc = "wait"
  BY DEF WaitIdle, StopCollected, file, engine, Accounts, Running, Limit,
     TypeOK
<1>2. /\ Base' = Base /\ Base \in Buffers /\ (Behind' = 0 \/ Behind' = 1)
      /\ Outstanding = 0 /\ Outstanding' = 0
      /\ Taken' = Taken /\ Landed' = Landed /\ Landed = 0
  <2>1. Base' = Base /\ Base \in Buffers /\ (Behind' = 0 \/ Behind' = 1)
    BY <1>1 DEF Base, Behind, Accounts
  <2>2. /\ Outstanding = 0 /\ Outstanding' = 0
        /\ Taken' = Taken /\ Landed' = Landed
    <3>1. Uncounted = 0 /\ Uncounted' = 0
      BY <1>1 DEF Uncounted
    <3>2. Outstanding = 0 /\ Outstanding' = 0 /\ Taken' = Taken
      BY <1>1, <3>1 DEF Outstanding, Taken
    <3>. QED BY <1>1, <3>2 DEF Landed
  <2>3. Landed = 0
    BY <2>2 DEF Accounts
  <2>. QED BY <2>1, <2>2, <2>3
<1>3. Accounts'
  <2>1. Outstanding' \in 0 .. BufferCount - Behind'
    BY <1>2
  <2>. QED BY <1>1, <1>2, <2>1 DEF Accounts, Limit
<1>4. Ring'
  <2>1. \A b \in Buffers : owner'[b] = "app"
    BY <1>1, <1>2, NothingOut
  <2>2. Base' + Behind' \in 0 .. BufferCount
    BY <1>2 DEF Buffers
  <2>3. \A i \in Buffers : Wrap(Base' + Behind' + i) \in Buffers
    BY <2>2, WrapBijective
  <2>. QED BY <1>2, <2>1, <2>3 DEF Ring, Slot, Buffers
<1>5. Beginning' /\ Running' /\ Saving' /\ DumpInOrder'
  BY <1>1 DEF Beginning, Running, Saving, DumpInOrder, Limit, TypeOK
<1>. QED BY <1>3, <1>4, <1>5 DEF RingInv


\* FINISH_XFER takes slot 0; the walk restarts behind it, so that slot i + 1
\* becomes slot i and the taken buffer becomes the last slot.
LEMMA FinishStep ==
  ASSUME RxInv, TypeOK', FinishOk
  PROVE  RingInv'
<1>. USE DEF RxInv
<1>. DEFINE last == BufferCount - 1
<1>1. /\ UNCHANGED <<buffer_id, counter, in_progress_count, num_transfers,
                     data, order, arrived, offered, dump, dump_file>>
      /\ pc = "wait" /\ pc' = "save"
      /\ owner[buffer_id] = "done"
      /\ owner' = [owner EXCEPT ![buffer_id] = "app"]
      /\ buffer_id \in Buffers
  BY DEF FinishOk, FinishXfer, file, Accounts, Base
<1>2. /\ Base = buffer_id /\ Base' = buffer_id /\ Behind = 0 /\ Behind' = 1
      /\ Outstanding = in_progress_count
      /\ Outstanding' = Outstanding - 1
      /\ Taken = counter /\ Taken' = Taken + 1 /\ Landed' = Landed - 1
  BY <1>1 DEF Base, Behind, Uncounted, Outstanding, Taken, Landed, TypeOK
<1>3. 0 \in Buffers /\ last \in Buffers /\ Slot(0) = buffer_id
  BY <1>1, <1>2 DEF Slot, Wrap, Buffers
<1>4. /\ Landed \in Nat /\ Outstanding \in Nat /\ Taken \in Nat
      /\ 0 < Landed /\ Landed <= Outstanding /\ Outstanding <= BufferCount
      /\ data[buffer_id] = counter + 1
  <2>1. /\ Landed \in Nat /\ Outstanding \in Nat /\ Taken \in Nat
        /\ Landed <= Outstanding /\ Outstanding <= BufferCount
    BY <1>2 DEF Accounts, TypeOK
  <2>2. 0 < Outstanding
    BY <1>2 DEF FinishOk, TypeOK
  <2>3. Landed # 0
    BY <1>1, <1>3, <2>2 DEF Ring
  <2>4. data[Slot(0)] = Taken + 0 + 1
    BY <1>3, <2>1, <2>3 DEF Ring
  <2>. QED BY <1>2, <1>3, <2>1, <2>3, <2>4
<1>5. Accounts'
  <2>1. Taken + 1 <= arrived
    BY <1>4 DEF Landed, TypeOK
  <2>2. Outstanding - 1 \in 0 .. BufferCount - 1
    BY <1>4
  <2>3. /\ Landed - 1 \in 0 .. Outstanding - 1
        /\ Outstanding - Landed = Outstanding - 1 - (Landed - 1)
    BY <1>4
  <2>. QED BY <1>1, <1>2, <2>1, <2>2, <2>3 DEF Accounts, Limit
<1>6. \A i \in Buffers :
        /\ i # last => /\ i + 1 \in Buffers
                       /\ Wrap(Base' + Behind' + i) = Slot(i + 1)
        /\ i = last => Wrap(Base' + Behind' + i) = buffer_id
  BY <1>1, <1>2 DEF Slot, Wrap, Buffers
<1>7. Ring'
  <2>. SUFFICES ASSUME NEW i \in Buffers
                PROVE  LET w == Wrap(Base' + Behind' + i)
                       IN  /\ i < Landed - 1 => /\ owner'[w] = "done"
                                                /\ data[w] = Taken + 1 + i + 1
                           /\ i >= Landed - 1 /\ i < Outstanding - 1 =>
                                /\ owner'[w] = "dma"
                                /\ order[i - (Landed - 1) + 1] = w
                           /\ i >= Outstanding - 1 => owner'[w] = "app"
    BY <1>1, <1>2 DEF Ring, Slot
  <2>1. CASE i = last
    <3>1. i >= Landed - 1 /\ i >= Outstanding - 1
      BY <1>4, <2>1
    <3>2. Landed - 1 \in Int /\ Outstanding - 1 \in Int
      BY <1>4
    <3>3. owner'[buffer_id] = "app"
      BY <1>1 DEF TypeOK
    <3>. QED BY <1>6, <2>1, <3>1, <3>2, <3>3 DEF Buffers
  <2>2. CASE i # last
    <3>1. i + 1 \in Buffers /\ Wrap(Base' + Behind' + i) = Slot(i + 1)
      BY <1>6, <2>2
    <3>2. Slot(i + 1) # buffer_id /\ Slot(i + 1) \in Buffers
      BY <1>3, <3>1, SlotBijective DEF Buffers
    <3>3. owner'[Slot(i + 1)] = owner[Slot(i + 1)]
      BY <1>1, <3>2 DEF TypeOK
    <3>4. /\ i < Landed - 1 => i + 1 < Landed
          /\ i >= Landed - 1 /\ i < Outstanding - 1 =>
               i + 1 >= Landed /\ i + 1 < Outstanding
          /\ i >= Outstanding - 1 => i + 1 >= Outstanding
          /\ Taken + (i + 1) + 1 = Taken + 1 + i + 1
          /\ (i + 1) - Landed + 1 = i - (Landed - 1) + 1
      BY <1>4 DEF Buffers
    <3>. QED BY <3>1, <3>3, <3>4 DEF Ring
  <2>. QED BY <2>1, <2>2
<1>8. Beginning' /\ Running' /\ Saving' /\ DumpInOrder'
  BY <1>1, <1>4 DEF Beginning, Running, Saving, DumpInOrder, Limit
<1>. QED BY <1>5, <1>7, <1>8 DEF RingInv

\* The packet is printed and counted; the ring stays as it is.
LEMMA SaveStep ==
  ASSUME RxInv, TypeOK', Save
  PROVE  RingInv'
<1>. USE DEF RxInv
<1>1. /\ UNCHANGED <<buffer_id, num_transfers, owner, data, order, arrived,
                     offered, dump_file>>
      /\ pc = "save" /\ pc' = "next"
      /\ counter' = counter + 1
      /\ in_progress_count' = in_progress_count - 1
      /\ dump' = IF dump_file THEN Append(dump, data[buffer_id]) ELSE dump
  BY DEF Save, engine
<1>2. /\ Base' = Base /\ Behind' = Behind /\ Behind = 1
      /\ Outstanding' = Outstanding /\ Taken' = Taken /\ Landed' = Landed
  BY <1>1 DEF Base, Behind, Uncounted, Outstanding, Taken, Landed, TypeOK
<1>3. Accounts'
  BY <1>1, <1>2 DEF Accounts, Limit, TypeOK
<1>4. Ring'
  BY <1>1, <1>2 DEF Ring, Slot
<1>5. Beginning' /\ Running' /\ Saving'
  BY <1>1 DEF Beginning, Running, Saving, Limit, TypeOK
<1>6. DumpInOrder'
  <2>1. CASE dump_file
    <3>1. dump' = Append([i \in 1 .. counter |-> i], counter + 1)
      BY <1>1, <2>1 DEF Saving, DumpInOrder
    <3>2. Append([i \in 1 .. counter |-> i], counter + 1)
            = [i \in 1 .. counter + 1 |-> i]
      BY AppendNext DEF TypeOK
    <3>. QED BY <1>1, <2>1, <3>1, <3>2 DEF DumpInOrder
  <2>2. CASE ~dump_file
    BY <1>1, <2>2 DEF DumpInOrder
  <2>. QED BY <2>1, <2>2
<1>. QED BY <1>3, <1>4, <1>5, <1>6 DEF RingInv


\* run() goes on with the next buffer.  If it hands the buffer just dumped out
\* again, that buffer is slot Outstanding: the ring was full but for it.
LEMMA AdvanceStep ==
  ASSUME RxInv, TypeOK', Advance
  PROVE  RingInv'
<1>. USE DEF RxInv
<1>1. /\ UNCHANGED <<counter, num_transfers, offered, arrived, dump,
                     dump_file>>
      /\ pc = "next" /\ pc' = "wait"
      /\ buffer_id \in Buffers /\ buffer_id' = Wrap(buffer_id + 1)
      /\ num_transfers = 0 \/ counter < num_transfers
  <2>1. buffer_id \in Buffers
    BY DEF Advance, Accounts, Base
  <2>2. num_transfers = 0 \/ counter < num_transfers
    BY DEF Advance, TypeOK
  <2>. QED BY <2>1, <2>2, NextInRing DEF Advance, HandOut, StartXfer, file,
                                         engine
<1>2. /\ Base = buffer_id /\ Base' = Wrap(buffer_id + 1) /\ Base' \in Buffers
      /\ Behind = 1 /\ Behind' = 0
      /\ \A i \in Buffers : Wrap(Base' + Behind' + i) = Slot(i)
  <2>1. /\ Base = buffer_id /\ Base' = Wrap(buffer_id + 1)
        /\ Behind = 1 /\ Behind' = 0
    BY <1>1 DEF Base, Behind
  <2>2. Base' \in Buffers
    BY <1>1, <2>1 DEF Wrap, Buffers
  <2>3. \A i \in Buffers : Base' + Behind' + i = Wrap(buffer_id + 1) + i
    BY <2>1, <2>2 DEF Buffers
  <2>4. \A i \in Buffers : Slot(i) = Wrap(buffer_id + 1 + i)
    BY <2>1 DEF Slot
  <2>. QED BY <1>1, <2>1, <2>2, <2>3, <2>4, WrapWrap
<1>3. Outstanding = in_progress_count
  BY <1>1 DEF Outstanding, Uncounted, TypeOK
<1>4. Beginning' /\ Saving' /\ DumpInOrder'
  BY <1>1 DEF Beginning, Saving, DumpInOrder
<1>. num_transfers \in Int
  BY LimitPositive DEF TypeOK
<1>5. CASE TransfersLeft /\ HandOut(buffer_id)
  <2>1. num_transfers > 0 /\ in_progress_count = BufferCount - 1
    BY <1>1, <1>5 DEF Running, Limit, TypeOK
  <2>2. Outstanding \in Buffers /\ Slot(Outstanding) = buffer_id
    BY <1>1, <1>2, <1>3, <2>1 DEF Slot, Wrap, Buffers
  <2>3. /\ Outstanding' = Outstanding + 1
        /\ Landed' = Landed /\ Taken' = Taken
        /\ Len(order') = Outstanding + 1 - Landed
        /\ Ring'
    BY <1>1, <1>2, <1>5, <2>2, HandOutRing
  <2>4. in_progress_count' = BufferCount
    BY <1>5, <2>1 DEF HandOut
  <2>5. Accounts'
    <3>1. Limit' = num_transfers /\ Limit = num_transfers
      BY <1>1, <2>1 DEF Limit
    <3>2. counter + in_progress_count + 1 <= num_transfers
      BY <1>5 DEF TypeOK
    <3>. QED BY <1>1, <1>2, <1>3, <2>1, <2>3, <2>4, <3>1, <3>2
             DEF Accounts, TypeOK
  <2>6. Running'
    BY <1>1, <2>1, <2>4 DEF Running
  <2>. QED BY <1>4, <2>3, <2>5, <2>6 DEF RingInv
<1>6. CASE ~TransfersLeft /\ UNCHANGED <<engine, in_progress_count>>
  <2>1. /\ Outstanding' = Outstanding /\ Taken' = Taken /\ Landed' = Landed
        /\ UNCHANGED <<owner, data, order, in_progress_count>>
    BY <1>1, <1>6 DEF Outstanding, Taken, Landed, Uncounted, TypeOK, engine
  <2>2. Accounts'
    BY <1>1, <1>2, <2>1 DEF Accounts, Limit
  <2>3. Ring'
    BY <1>2, <2>1 DEF Ring, Slot
  <2>4. Running'
    BY <1>1, <1>6, <2>1 DEF Running, Accounts, Limit, TypeOK
  <2>. QED BY <1>4, <2>2, <2>3, <2>4 DEF RingInv
<1>. QED BY <1>5, <1>6 DEF Advance

\* A transfer in progress is one below the limit.
LEMMA InProgressBelow ==
  ASSUME RxInv, in_progress_count > 0
  PROVE  counter # Limit
<1>1. Limit \in Nat
  BY LimitPositive DEF RxInv, TypeOK, Limit
<1>. QED BY <1>1 DEF RxInv, Accounts, TypeOK

\* run() stops at the limit, not beyond.
LEMMA CollectedAll ==
  ASSUME RxInv, pc = "next", Collected
  PROVE  counter = Limit
<1>1. num_transfers \in Int /\ counter \in Nat /\ in_progress_count \in Nat
  BY LimitPositive DEF RxInv, TypeOK
<1>2. counter + in_progress_count <= Limit /\ counter > 0
  BY DEF RxInv, Accounts, Running
<1>. QED BY <1>1, <1>2 DEF Limit

LEMMA Inductive == RxInv /\ [Next]_vars => RxInv'
<1>. SUFFICES ASSUME RxInv, [Next]_vars PROVE RxInv'
  OBVIOUS
<1>1. TypeOK'
  BY TypeStep
<1>2. RingInv'
  BY <1>1, QuietStep, DeliverStep, BeginStep, IdleStep, FinishStep, SaveStep,
     AdvanceStep
  DEF Next, Thread, Finish
<1>. QED BY <1>1, <1>2 DEF RxInv, RingInv

-----------------------------------------------------------------------------
(* The theorems.                                                           *)

\* The ring invariant holds in every reachable state: dma_channel.hpp:55-78
\* and dma_channel.cpp:138-177 keep buffer_id, the counters and the queue of
\* the engine in step.
THEOREM RingInvariance == Spec => []RxInv
<1>. QED BY InitInv, Inductive, PTL DEF Spec

\* Every variable keeps its type, the counters their bounds.
THEOREM TypeCorrect == Spec => []TypeOK
<1>1. RxInv => TypeOK
  BY DEF RxInv
<1>. QED BY <1>1, RingInvariance, PTL

\* The dump is exactly the packets collected, in order, whatever fails.
THEOREM DumpCorrect == Spec => []DumpInOrder
<1>1. RxInv => DumpInOrder
  BY DEF RxInv
<1>. QED BY <1>1, RingInvariance, PTL

\* begin() and run() hand out Limit transfers, never more, and keep the ring
\* full meanwhile.
THEOREM RingKeptFull == Spec => []RingFull
<1>1. RxInv => RingFull
  BY DEF RxInv, RingFull, Accounts, Running, TypeOK, Limit
<1>. QED BY <1>1, RingInvariance, PTL

\* A channel that collected everything unmaps no buffer the engine still owns.
THEOREM StopIsClean == Spec => []CleanStop
<1>1. RxInv => CleanStop
  <2>. SUFFICES ASSUME RxInv, pc \in {"end", "done"}, counter = Limit
                PROVE  /\ in_progress_count = 0
                       /\ \A b \in Buffers : owner[b] = "app"
    BY DEF CleanStop
  <2>1. in_progress_count = 0
    BY DEF RxInv, Accounts, TypeOK, Limit
  <2>2. Outstanding = 0
    <3>1. Uncounted = 0
      BY DEF Uncounted
    <3>. QED BY <2>1, <3>1 DEF Outstanding
  <2>. QED BY <2>1, <2>2, NothingOut DEF RxInv
<1>. QED BY <1>1, RingInvariance, PTL


\* START_XFER never gets a buffer that is queued or not yet dumped.
THEOREM HandsOutOwned == Spec => StartsOnlyOwned
<1>. DEFINE Owned ==
       \A b \in Buffers : order' = Append(order, b) => owner[b] = "app"
<1>1. ASSUME RxInv, RxInv', [Next]_vars PROVE Owned
  <2>. SUFFICES ASSUME NEW b \in Buffers, order' = Append(order, b)
                PROVE  owner[b] = "app"
    OBVIOUS
  <2>1. order \in Seq(Buffers) /\ order' # order
    BY <1>1 DEF RxInv, TypeOK
  <2>2. ~Deliver
    <3>. SUFFICES ASSUME Deliver PROVE FALSE
      OBVIOUS
    <3>1. Len(order') = Len(order) - 1
      BY <2>1 DEF Deliver
    <3>. QED BY <2>1, <3>1
  <2>3. HandOut(buffer_id) /\ (BeginBuffer \/ Advance)
    BY <1>1, <2>1, <2>2
    DEF Next, Thread, Finish, Setup, vars, file, engine, Offer, InitChannel,
        SetSaveToFile, Start, BeginBuffer, BeginCrash, WaitIdle, FinishOk,
        FinishXfer, FinishFault, Save, StopCollected, Advance, End
  <2>4. buffer_id \in Buffers
    BY <1>1, <2>3 DEF BeginBuffer, Advance, RxInv, Beginning, Accounts, Base
  <2>5. b = buffer_id
    <3>1. order' = Append(order, buffer_id)
      BY <2>3 DEF HandOut, StartXfer
    <3>2. /\ order'[Len(order) + 1] = b
          /\ Append(order, buffer_id)[Len(order) + 1] = buffer_id
      BY <2>1, <2>4
    <3>. QED BY <3>1, <3>2
  <2>6. Outstanding \in Buffers /\ Slot(Outstanding) = buffer_id
    <3>1. Uncounted = 0 /\ Outstanding = in_progress_count
      <4>1. pc # "save"
        BY <2>3 DEF BeginBuffer, Advance
      <4>2. in_progress_count \in Int
        BY <1>1 DEF RxInv, TypeOK
      <4>. QED BY <4>1, <4>2 DEF Uncounted, Outstanding
    <3>2. CASE BeginBuffer
      BY <1>1, <3>1, <3>2
      DEF BeginBuffer, RxInv, Beginning, Slot, Base, Behind, Uncounted, Wrap,
          Buffers, TypeOK
    <3>3. CASE Advance
      <4>1. in_progress_count = BufferCount - 1
        BY <1>1, <2>1, <3>3
        DEF Advance, RxInv, Running, Limit, TypeOK, engine
      <4>2. Base = buffer_id /\ Behind = 1
        BY <3>3 DEF Advance, Base, Behind
      <4>. QED BY <2>4, <3>1, <4>1, <4>2 DEF Slot, Wrap, Buffers
    <3>. QED BY <2>3, <3>2, <3>3
  <2>7. Outstanding >= Outstanding
    BY <2>6 DEF Buffers
  <2>. QED BY <1>1, <2>5, <2>6, <2>7 DEF RxInv, Ring
<1>2. [][Owned]_vars <=> StartsOnlyOwned
  BY DEF StartsOnlyOwned
<1>. QED BY <1>1, <1>2, RingInvariance, PTL DEF Spec

\* The channel implements the abstract sink: InitChannel, Start, the ring and
\* the engine are stutters, SetSaveToFile opens the sink, Save receives.
THEOREM Refinement == Spec => SinkSpec
<1>. USE DEF Sink!vars, Status, Limit
<1>1. Init => Sink!Init
  BY DEF Init, Sink!Init
<1>2. ASSUME RxInv, RxInv', [Next]_vars PROVE [Sink!Next]_(Sink!vars)
  <2>. USE <1>2 DEF file
  <2>1. CASE Offer \/ Deliver \/ UNCHANGED vars
    BY <2>1 DEF Offer, Deliver, vars, thread
  <2>2. CASE InitChannel
    BY <2>2 DEF InitChannel
  <2>3. CASE SetSaveToFile
    BY <1>2, <2>3 DEF SetSaveToFile, Sink!Next, Sink!Open, RxInv, TypeOK
  <2>4. CASE Start
    BY <2>4 DEF Start
  <2>5. CASE BeginBuffer \/ WaitIdle \/ FinishOk
    BY <2>5 DEF BeginBuffer, WaitIdle, FinishOk
  <2>6. CASE BeginCrash
    BY <2>6 DEF BeginCrash, Sink!Next, Sink!Fault
  <2>7. CASE \E s \in FaultStatuses : FinishFault(s)
    <3>1. counter # Limit
      BY <1>2, <2>7, InProgressBelow DEF FinishFault
    <3>. QED BY <2>7, <3>1 DEF FinishFault, Sink!Next, Sink!Fault
  <2>8. CASE Save
    <3>1. counter < Limit
      <4>1. Uncounted = 1
        BY <2>8 DEF Save, Uncounted
      <4>2. Outstanding >= 0 /\ counter + in_progress_count <= Limit
        BY <1>2 DEF RxInv, Accounts
      <4>3. in_progress_count - 1 >= 0
        BY <4>1, <4>2 DEF Outstanding
      <4>. QED BY <1>2, <4>2, <4>3 DEF RxInv, TypeOK, Limit
    <3>2. dump' = IF dump_file THEN Append(dump, counter + 1) ELSE dump
      BY <2>8 DEF Save, RxInv, Saving
    <3>. QED BY <2>8, <3>1, <3>2 DEF Save, Sink!Next, Sink!Receive
  <2>9. CASE StopCollected
    <3>1. counter = Limit
      BY <1>2, <2>9, CollectedAll DEF StopCollected
    <3>. QED BY <2>9, <3>1 DEF StopCollected, Sink!Next, Sink!Complete
  <2>10. CASE Advance
    BY <2>10 DEF Advance
  <2>11. CASE End
    BY <2>11 DEF End
  <2>. QED
    BY <2>1, <2>2, <2>3, <2>4, <2>5, <2>6, <2>7, <2>8, <2>9, <2>10, <2>11
    DEF Next, Thread, Setup, Finish
<1>. QED BY <1>1, <1>2, RingInvariance, PTL DEF Spec, SinkSpec, Sink!Spec


-----------------------------------------------------------------------------
(* The flush of the dump: arithmetic of counter % FlushPeriod.             *)

\* Multiples of n are at least n apart.
LEMMA Times ==
  ASSUME NEW n \in Nat \ {0}, NEW p \in Int, NEW q \in Int, p < q
  PROVE  n * p + n <= n * q
<1>1. q - p - 1 \in Nat
  OBVIOUS
<1>2. n * (q - p - 1) >= 0
  BY <1>1
<1>3. n * (q - p - 1) = n * q - n * p - n
  OBVIOUS
<1>4. n * p \in Int /\ n * q \in Int
  OBVIOUS
<1>. QED BY <1>2, <1>3, <1>4

\* Quotient and remainder.
LEMMA DivMod ==
  ASSUME NEW a \in Nat, NEW n \in Nat \ {0}
  PROVE  a = n * (a \div n) + (a % n) /\ a % n \in 0 .. n - 1
         /\ a \div n \in Int
OBVIOUS

\* A remainder grows by one until it wraps to 0.
LEMMA ModStep ==
  ASSUME NEW a \in Nat, NEW n \in Nat \ {0}, (a + 1) % n # 0
  PROVE  (a + 1) % n = (a % n) + 1
<1>. DEFINE p == a \div n
            q == (a + 1) \div n
            r == a % n
            s == (a + 1) % n
<1>1. a = n * p + r /\ r \in 0 .. n - 1 /\ p \in Int
  BY DivMod
<1>2. a + 1 = n * q + s /\ s \in 0 .. n - 1 /\ q \in Int
  <2>1. a + 1 \in Nat
    OBVIOUS
  <2>. QED BY <2>1, DivMod
<1>. HIDE DEF p, q, r, s
<1>3. n * p \in Int /\ n * q \in Int
  BY <1>1, <1>2
<1>4. ~(p < q)
  <2>. SUFFICES ASSUME p < q PROVE FALSE
    OBVIOUS
  <2>1. n * p + n <= n * q
    BY <1>1, <1>2, Times
  <2>2. s = 0
    BY <1>1, <1>2, <1>3, <2>1
  <2>. QED BY <2>2 DEF s
<1>5. ~(q < p)
  <2>. SUFFICES ASSUME q < p PROVE FALSE
    OBVIOUS
  <2>1. n * q + n <= n * p
    BY <1>1, <1>2, Times
  <2>. QED BY <1>1, <1>2, <1>3, <2>1
<1>6. p = q
  BY <1>1, <1>2, <1>4, <1>5
<1>7. s = r + 1
  BY <1>1, <1>2, <1>3, <1>6
<1>. QED BY <1>7 DEF r, s

\* What is surely on disk: everything up to the last counter value that was a
\* multiple of FlushPeriod when its packet was printed.
FlushInv ==
  /\ ~dump_file \/ counter = 0 => flushed = 0
  /\ dump_file /\ counter > 0 =>
       flushed = counter - ((counter - 1) % FlushPeriod)

LEMMA FlushStep == RxInv /\ FlushInv /\ [Next]_vars => FlushInv'
<1>. SUFFICES ASSUME RxInv, FlushInv, [Next]_vars PROVE FlushInv'
  OBVIOUS
<1>1. CASE Save /\ dump_file
  <2>1. /\ counter \in Nat /\ counter' = counter + 1 /\ dump_file'
        /\ Len(dump') = counter + 1
    BY <1>1 DEF Save, RxInv, TypeOK, DumpInOrder
  <2>2. CASE counter % FlushPeriod = 0
    BY <1>1, <2>1, <2>2 DEF Save, FlushInv
  <2>3. CASE counter % FlushPeriod # 0
    <3>1. flushed' = flushed /\ counter > 0
      BY <1>1, <2>1, <2>3 DEF Save
    <3>2. counter - 1 \in Nat /\ (counter - 1) + 1 = counter
      BY <2>1, <3>1
    <3>3. counter % FlushPeriod = ((counter - 1) % FlushPeriod) + 1
      BY <2>3, <3>2, ModStep
    <3>4. (counter - 1) % FlushPeriod \in Int
      BY <3>2, DivMod
    <3>. QED BY <1>1, <2>1, <3>1, <3>3, <3>4 DEF FlushInv
  <2>. QED BY <2>2, <2>3
<1>2. CASE Save /\ ~dump_file
  BY <1>2 DEF Save, FlushInv
<1>3. CASE SetSaveToFile
  BY <1>3 DEF SetSaveToFile, FlushInv, RxInv, Beginning, file
<1>4. CASE UNCHANGED <<counter, flushed, dump_file>>
  BY <1>4 DEF FlushInv
<1>. QED
  BY <1>1, <1>2, <1>3, <1>4
  DEF Next, Thread, Finish, Setup, vars, thread, file, Offer, Deliver,
      InitChannel, Start, BeginBuffer, BeginCrash, WaitIdle, FinishOk,
      FinishFault, StopCollected, Advance, End

\* A kill at any moment loses fewer than FlushPeriod packets of the dump.
THEOREM FewLost == Spec => []LossBounded
<1>1. Init => FlushInv
  BY DEF Init, FlushInv
<1>2. RxInv /\ FlushInv => LossBounded
  <2>. SUFFICES ASSUME RxInv, FlushInv
                PROVE  Len(dump) < flushed + FlushPeriod
    BY DEF LossBounded
  <2>1. CASE dump_file /\ counter > 0
    <3>1. Len(dump) = counter /\ counter - 1 \in Nat
      BY <2>1 DEF RxInv, TypeOK, DumpInOrder
    <3>2. (counter - 1) % FlushPeriod \in 0 .. FlushPeriod - 1
      BY <3>1, DivMod
    <3>. QED BY <2>1, <3>1, <3>2 DEF FlushInv
  <2>2. CASE ~dump_file \/ counter = 0
    <3>1. Len(dump) = 0
      BY <2>2 DEF RxInv, DumpInOrder
    <3>. QED BY <2>2, <3>1 DEF FlushInv
  <2>. QED BY <2>1, <2>2 DEF RxInv, TypeOK
<1>. QED BY <1>1, <1>2, FlushStep, RingInvariance, PTL DEF Spec

=============================================================================
