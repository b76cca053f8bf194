-------------------------------- MODULE Comm --------------------------------
(***************************************************************************)
(* The serial link of the firmware (user_main/comm.c over driver/uart.c):  *)
(* the transmit ring, the comm task with its event queue, and the UART0    *)
(* interrupt handler.                                                      *)
(*                                                                         *)
(* Contexts.  Main is the thread that runs user_init and, once user_init   *)
(* has returned, comm_task.  Tasks are the other contexts that call        *)
(* comm_send (the WLAN and lwIP tasks, timer callbacks, scan_done).  The   *)
(* UART interrupt preempts all of them and is one atomic step.  A region   *)
(* between ets_intr_lock and ets_intr_unlock is one atomic step; between   *)
(* two steps of a context every other context may run.                     *)
(*                                                                         *)
(* A frame is one COBS-encoded message: only its length, its priority and  *)
(* its place in the order of acceptance are kept.  What the bytes are is   *)
(* the subject of CobsEncoder and Receiver.                                *)
(***************************************************************************)
EXTENDS Integers, Sequences, FiniteSets

CONSTANTS
  Tasks,       \* contexts other than Main that call comm_send
  RingSize,    \* TX_RING_BUFFER_SIZE (32)
  IndexMod,    \* number of values of the uint16_t ring indices (65536)
  FifoSize,    \* usable places of the UART TX FIFO (126)
  RxFifoSize,  \* places of the UART RX FIFO
  RxTrig,      \* UartDev.rcv_buff.TrigLvl: RX FIFO level that interrupts
  RxChunk,     \* size of do_rx's buffer (64)
  LowFree, MediumFree, HighFree, \* free slots a priority needs (15, 10, 1)
  QueueLen,    \* length of comm_queue (3)
  FrameLens,   \* lengths of encoded frames
  TaskPrios,   \* priorities the other contexts send at
  MaxPush,     \* bound: messages offered to comm_send
  MaxRx,       \* bound: bytes the host sends
  TxLevel,     \* TXFIFO_EMPTY is a level (TRUE) or an edge (FALSE)
  BootRx,      \* may the host send before user_init has returned?
  IntEnaRace   \* may the interrupt hit inside the read-modify-write of
               \* UART_INT_ENA that the comm task does with interrupts on?

Main == "main"
Contexts == Tasks \cup {Main}
Prios == {"low", "medium", "high"}

ASSUME SenderAssumption == Main \notin Tasks /\ IsFiniteSet(Tasks)

ASSUME RingAssumption == RingSize \in Nat \ {0}

(* Both are powers of two in the code. *)
ASSUME IndexAssumption ==
  /\ IndexMod \in Nat /\ IndexMod > RingSize
  /\ \E k \in 1..IndexMod : IndexMod = k * RingSize

ASSUME UartAssumption ==
  /\ FifoSize \in Nat \ {0}
  /\ RxFifoSize \in Nat /\ RxTrig \in 1..RxFifoSize /\ RxChunk \in Nat \ {0}
  /\ TxLevel \in BOOLEAN /\ IntEnaRace \in BOOLEAN /\ BootRx \in BOOLEAN

ASSUME PrioAssumption ==
  /\ LowFree \in 1..RingSize /\ MediumFree \in 1..LowFree
  /\ HighFree \in 1..MediumFree /\ TaskPrios \subseteq Prios

ASSUME LoadAssumption ==
  /\ QueueLen \in Nat \ {0} /\ FrameLens \subseteq Nat \ {0}
  /\ MaxPush \in Nat /\ MaxRx \in Nat

VARIABLES
  bufs,            \* ring slots: bufs[] with buf_lens[]
  buf_read_i, buf_write_i, \* volatile uint16_t ring indices
  task_pending,    \* a DO_TX has been posted and not yet dispatched
  dropped_packets, \* statistics counter
  idx_in_buf,      \* bytes of the oldest frame already in the TX FIFO
  comm_queue,      \* the comm task's event queue
  task,            \* the comm task: pc, fifo_free_n, register copy
  ctx,             \* per context: its progress through transmitter_push
  boot,            \* progress of user_init / comm_init
  txfifo, rxfifo,  \* bytes in the two UART FIFOs
  int_ena,         \* UART_INT_ENA: RXFIFO_FULL and TXFIFO_EMPTY bits
  tx_latch,        \* latched TXFIFO_EMPTY when it is an edge
  offered, accepted, sent, \* history: pushes begun, frames queued, frames done
  wire,            \* history: last byte handed to the TX FIFO
  allocated,       \* history: encoded buffers not yet freed
  drops,           \* history: how often the drop label was reached
  rx_left          \* bytes the host may still send

ring == <<bufs, buf_read_i, buf_write_i, idx_in_buf>>
hist == <<offered, accepted, sent, wire, allocated, drops>>
uart == <<txfifo, rxfifo, int_ena, tx_latch, rx_left>>
wakeup == <<task_pending, comm_queue>>
senders == <<ctx, dropped_packets>>
vars == <<ring, wakeup, senders, task, boot, uart, hist>>

(* A slot whose buffer has been freed, or that was never filled. *)
NoFrame == [seq |-> 0, len |-> 0, prio |-> "high"]
Frames == [seq : Nat, len : FrameLens, prio : Prios]
IdlePush == [pc |-> "idle", reg |-> 0, len |-> 0, prio |-> "high"]
IdleTask == [pc |-> "idle", free |-> 0, reg |-> [rx |-> FALSE, tx |-> FALSE]]

Min2(a, b) == IF a < b THEN a ELSE b
Slot(i) == i % RingSize                     \* i & TX_RING_BUFFER_MASK

(***************************************************************************)
(* A definition named X_Mistake is X with that plausible mistake in it; no *)
(* specification uses it.  It is put in the place of X to see that the     *)
(* properties notice the mistake.                                          *)
(***************************************************************************)

Init ==
  /\ bufs = [i \in 0..(RingSize - 1) |-> NoFrame]
  /\ buf_read_i = 0 /\ buf_write_i = 0 /\ idx_in_buf = 0
  /\ task_pending = FALSE /\ dropped_packets = 0
  /\ comm_queue = <<>> /\ task = IdleTask
  /\ ctx = [c \in Contexts |-> IdlePush]
  /\ boot = "reset"
  /\ txfifo = 0 /\ rxfifo = 0 /\ tx_latch = FALSE
  /\ int_ena = [rx |-> FALSE, tx |-> FALSE]
  /\ offered = 0 /\ accepted = 0 /\ sent = 0 /\ allocated = 0 /\ drops = 0
  /\ wire = [seq |-> 0, pos |-> 0, len |-> 0]
  /\ rx_left = MaxRx

-----------------------------------------------------------------------------
(***************************************************************************)
(* system_os_post to the comm task.  Before system_os_task has registered  *)
(* the task, and when the queue is full, the event is lost; no caller      *)
(* looks at the result.                                                    *)
(***************************************************************************)
Registered == boot \notin {"reset", "uart"}

Post(q, e) == IF Registered /\ Len(q) < QueueLen THEN Append(q, e) ELSE q

(***************************************************************************)
(* transmitter_push, one context at a time through its steps:              *)
(*   idle -> precheck -> encode -> enqueue -> wake -> post -> idle         *)
(*                  \-----------------\--> drop -> count -> idle           *)
(* The index buf_write_i is read a step before buf_read_i: both are        *)
(* volatile and the precheck holds no lock.                                *)
(***************************************************************************)
At(c, pc) == ctx[c].pc = pc
Goto(c, pc) == ctx' = [ctx EXCEPT ![c].pc = pc, ![c].reg = 0]
Return(c) == ctx' = [ctx EXCEPT ![c] = IdlePush]

PushStart(c, prio, len) ==
  /\ offered < MaxPush
  /\ At(c, "idle")
  /\ offered' = offered + 1
  /\ ctx' = [ctx EXCEPT ![c] = [pc |-> "precheck", reg |-> buf_write_i,
                                len |-> len, prio |-> prio]]
  /\ UNCHANGED <<ring, wakeup, dropped_packets, task, uart, accepted, sent,
                 wire, allocated, drops>>

(* buf_free is a size_t: a difference above RingSize wraps to a huge value,
   a negative one (the write index wrapped and the read index did not) makes
   it larger than RingSize. *)
BufFree(used) == IF used > RingSize THEN IndexMod ELSE RingSize - used

SlotsNeeded_SameForAll(prio) == HighFree

SlotsNeeded(prio) == CASE prio = "low"    -> LowFree
                       [] prio = "medium" -> MediumFree
                       [] prio = "high"   -> HighFree

(* Classes of system_get_free_heap_size(): below 2000, 10000, 20000, above. *)
HeapLevels == 0..3
HeapNeeded(prio) == CASE prio = "low" -> 3 [] prio = "medium" -> 2
                      [] prio = "high" -> 1

Precheck(c) ==
  /\ At(c, "precheck")
  /\ \E heap_free \in HeapLevels :
       LET used == ctx[c].reg - buf_read_i
           p    == ctx[c].prio
           drop == \/ used = RingSize
                   \/ heap_free < HeapNeeded(p)
                   \/ BufFree(used) < SlotsNeeded(p)
       IN  Goto(c, IF drop THEN "drop" ELSE "encode")
  /\ UNCHANGED <<ring, wakeup, dropped_packets, task, boot, uart, hist>>

(* os_malloc and cobs_encode.  A failed allocation returns without counting. *)
Encode(c) ==
  /\ At(c, "encode")
  /\ \/ Return(c) /\ UNCHANGED allocated
     \/ Goto(c, "enqueue") /\ allocated' = allocated + 1
  /\ UNCHANGED <<ring, wakeup, dropped_packets, task, boot, uart, offered,
                 accepted, sent, wire, drops>>

(* The locked region: full test in int arithmetic, then either the buffer is
   freed, or it is stored and the write index advances. *)
RingFull_OffByOne == buf_write_i - buf_read_i > RingSize

RingFull == buf_write_i - buf_read_i = RingSize

EnqueueFull_Leak(c) ==
  /\ At(c, "enqueue") /\ RingFull
  /\ Goto(c, "drop")
  /\ UNCHANGED <<ring, wakeup, dropped_packets, task, boot, uart, hist>>

EnqueueFull(c) ==
  /\ At(c, "enqueue") /\ RingFull
  /\ allocated' = allocated - 1
  /\ Goto(c, "drop")
  /\ UNCHANGED <<ring, wakeup, dropped_packets, task, boot, uart, offered,
                 accepted, sent, wire, drops>>

WriteSlot_AfterIncrement == Slot(buf_write_i + 1)

WriteSlot == Slot(buf_write_i)

EnqueueStore(c) ==
  /\ At(c, "enqueue") /\ ~RingFull
  /\ bufs' = [bufs EXCEPT ![WriteSlot] =
                [seq |-> accepted + 1, len |-> ctx[c].len, prio |-> ctx[c].prio]]
  /\ buf_write_i' = (buf_write_i + 1) % IndexMod
  /\ accepted' = accepted + 1
  /\ Goto(c, "wake")
  /\ UNCHANGED <<buf_read_i, idx_in_buf, wakeup, dropped_packets, task,
                 boot, uart, offered, sent, wire, allocated, drops>>

(* transmitter_wake_task: the test without the lock, then the locked one. *)
Wake(c) ==
  /\ At(c, "wake")
  /\ IF task_pending THEN Return(c) ELSE Goto(c, "post")
  /\ UNCHANGED <<ring, wakeup, dropped_packets, task, boot, uart, hist>>

WakeLocked(c) ==
  /\ At(c, "post")
  /\ task_pending' = TRUE
  /\ comm_queue' = IF task_pending THEN comm_queue
                   ELSE Post(comm_queue, "DO_TX")
  /\ Return(c)
  /\ UNCHANGED <<ring, dropped_packets, task, boot, uart, hist>>

(* t->dropped_packets += 1 outside any lock: a load and a store. *)
DropLoad(c) ==
  /\ At(c, "drop")
  /\ ctx' = [ctx EXCEPT ![c].pc = "count", ![c].reg = dropped_packets]
  /\ drops' = drops + 1
  /\ UNCHANGED <<ring, wakeup, dropped_packets, task, boot, uart, offered,
                 accepted, sent, wire, allocated>>

DropStore_Resets(c) ==
  /\ At(c, "count")
  /\ dropped_packets' = 0
  /\ Return(c)
  /\ UNCHANGED <<ring, wakeup, task, boot, uart, hist>>

DropStore(c) ==
  /\ At(c, "count")
  /\ dropped_packets' = ctx[c].reg + 1
  /\ Return(c)
  /\ UNCHANGED <<ring, wakeup, task, boot, uart, hist>>

PushStep(c) == \/ Precheck(c) \/ Encode(c) \/ EnqueueFull(c) \/ EnqueueStore(c)
               \/ Wake(c) \/ WakeLocked(c) \/ DropLoad(c) \/ DropStore(c)

(* A context other than Main sends a packet or a log message at any time
   once init_wlan has registered the receivers. *)
TaskSend(c) ==
  /\ boot = "running"
  /\ \E prio \in TaskPrios, len \in FrameLens : PushStart(c, prio, len)
  /\ UNCHANGED boot

-----------------------------------------------------------------------------
(***************************************************************************)
(* comm_task.                                                              *)
(***************************************************************************)
TaskAt(pc) == task.pc = pc /\ At(Main, "idle")
TaskGoto(pc) == task' = [IdleTask EXCEPT !.pc = pc]

Dispatch ==
  /\ boot = "running" /\ TaskAt("idle")
  /\ comm_queue # <<>>
  /\ comm_queue' = Tail(comm_queue)
  /\ TaskGoto(IF Head(comm_queue) = "DO_TX" THEN "tx_start" ELSE "rx_loop")
  /\ UNCHANGED <<ring, task_pending, senders, boot, uart, hist>>

(* transmitter_send, its steps. *)
SendClearPending_Forgets ==
  /\ TaskAt("tx_start")
  /\ TaskGoto("tx_fifo")
  /\ UNCHANGED <<ring, wakeup, senders, boot, uart, hist>>

SendClearPending ==
  /\ TaskAt("tx_start")
  /\ task_pending' = FALSE
  /\ TaskGoto("tx_fifo")
  /\ UNCHANGED <<ring, comm_queue, senders, boot, uart, hist>>

FifoFree_OffByOne == FifoSize + 1 - txfifo

FifoFree == FifoSize - txfifo

SendReadFifo ==
  /\ TaskAt("tx_fifo")
  /\ IF FifoFree = 0 THEN TaskGoto("ena_tx")
     ELSE task' = [task EXCEPT !.pc = "tx_loop", !.free = FifoFree]
  /\ UNCHANGED <<ring, wakeup, senders, boot, uart, hist>>

(* One turn of the while loop: as many bytes of the oldest frame as fit;
   either the FIFO is full before the frame ends (the loop breaks), or the
   frame is done, its buffer is freed and the read index advances. *)
Oldest == bufs[Slot(buf_read_i)]
Turn == Min2(Oldest.len - idx_in_buf, task.free)

SendPart ==
  /\ TaskAt("tx_loop") /\ task.free > 0 /\ buf_read_i # buf_write_i
  /\ idx_in_buf + Turn # Oldest.len
  /\ txfifo' = txfifo + Turn
  /\ idx_in_buf' = idx_in_buf + Turn
  /\ wire' = [seq |-> Oldest.seq, pos |-> idx_in_buf + Turn, len |-> Oldest.len]
  /\ task' = [task EXCEPT !.free = @ - Turn, !.pc = "tx_end"]
  /\ UNCHANGED <<bufs, buf_read_i, buf_write_i, wakeup, senders, boot,
                 rxfifo, int_ena, tx_latch, rx_left, offered, accepted,
                 sent, allocated, drops>>

SendRest ==
  /\ TaskAt("tx_loop") /\ task.free > 0 /\ buf_read_i # buf_write_i
  /\ idx_in_buf + Turn = Oldest.len
  /\ txfifo' = txfifo + Turn
  /\ idx_in_buf' = 0
  /\ wire' = [seq |-> Oldest.seq, pos |-> Oldest.len, len |-> Oldest.len]
  /\ task' = [task EXCEPT !.free = @ - Turn]
  /\ bufs' = [bufs EXCEPT ![Slot(buf_read_i)] = NoFrame]
  /\ buf_read_i' = (buf_read_i + 1) % IndexMod
  /\ sent' = sent + 1
  /\ allocated' = allocated - 1
  /\ UNCHANGED <<buf_write_i, wakeup, senders, boot, rxfifo, int_ena,
                 tx_latch, rx_left, offered, accepted, drops>>

SendLoopExit ==
  /\ TaskAt("tx_loop")
  /\ task.free = 0 \/ buf_read_i = buf_write_i
  /\ task' = [task EXCEPT !.pc = "tx_end"]
  /\ UNCHANGED <<ring, wakeup, senders, boot, uart, hist>>

SendEndPc_NoEnable == "idle"

SendEndPc == IF task.free = 0 /\ buf_read_i # buf_write_i THEN "ena_tx" ELSE "idle"

SendEnd ==
  /\ TaskAt("tx_end")
  /\ TaskGoto(SendEndPc)
  /\ UNCHANGED <<ring, wakeup, senders, boot, uart, hist>>

(* do_rx: read a chunk, feed the decoder, which may call packet_from_host;
   leave when the FIFO is seen empty. *)
RxRead ==
  /\ TaskAt("rx_loop") /\ rxfifo > 0
  /\ rxfifo' = rxfifo - Min2(rxfifo, RxChunk)
  /\ TaskGoto("rx_handler")
  /\ UNCHANGED <<ring, wakeup, senders, boot, txfifo, int_ena, tx_latch,
                 rx_left, hist>>

(* packet_from_host answers with comm_send_ctl, always at high priority. *)
HandlerSend ==
  /\ task.pc = "rx_handler"
  /\ \E len \in FrameLens : PushStart(Main, "high", len)
  /\ UNCHANGED boot

HandlerReturn ==
  /\ TaskAt("rx_handler")
  /\ TaskGoto("rx_loop")
  /\ UNCHANGED <<ring, wakeup, senders, boot, uart, hist>>

RxEmpty ==
  /\ TaskAt("rx_loop") /\ rxfifo = 0
  /\ TaskGoto("ena_rx")
  /\ UNCHANGED <<ring, wakeup, senders, boot, uart, hist>>

(* uart0_tx_intr_enable / uart0_rx_intr_enable: SET_PERI_REG_MASK reads
   UART_INT_ENA and writes it back, with interrupts enabled. *)
IntEnaRead ==
  /\ task.pc \in {"ena_tx", "ena_rx"}
  /\ task' = [task EXCEPT !.reg = int_ena,
                          !.pc = IF @ = "ena_tx" THEN "set_tx" ELSE "set_rx"]
  /\ UNCHANGED <<ring, wakeup, senders, boot, uart, hist>>

IntEnaSet_TxForBoth == [task.reg EXCEPT !.tx = TRUE]

IntEnaSet == IF task.pc = "set_tx" THEN [task.reg EXCEPT !.tx = TRUE]
             ELSE [task.reg EXCEPT !.rx = TRUE]

IntEnaWrite_ClearsFirst ==
  /\ task.pc \in {"set_tx", "set_rx"}
  /\ int_ena' = IntEnaSet
  /\ tx_latch' = FALSE
  /\ task' = IdleTask
  /\ UNCHANGED <<ring, wakeup, senders, boot, txfifo, rxfifo, rx_left, hist>>

IntEnaWrite ==
  /\ task.pc \in {"set_tx", "set_rx"}
  /\ int_ena' = IntEnaSet
  /\ task' = IdleTask
  /\ UNCHANGED <<ring, wakeup, senders, boot, txfifo, rxfifo, tx_latch,
                 rx_left, hist>>

-----------------------------------------------------------------------------
(***************************************************************************)
(* uart0_rx_intr_handler: one atomic step for everything UART_INT_ST says. *)
(***************************************************************************)
TxEmptyRaw == IF TxLevel THEN txfifo = 0 ELSE tx_latch
RxStatus == int_ena.rx /\ rxfifo >= RxTrig
TxStatus == int_ena.tx /\ TxEmptyRaw

IntEnaMasked_TxOnly == [int_ena EXCEPT !.tx = @ /\ ~TxStatus]

IntEnaMasked == [rx |-> int_ena.rx /\ ~RxStatus, tx |-> int_ena.tx /\ ~TxStatus]

Interrupt ==
  /\ boot # "reset"
  /\ task.pc \in {"set_tx", "set_rx"} => IntEnaRace
  /\ RxStatus \/ TxStatus
  /\ int_ena' = IntEnaMasked
  /\ tx_latch' = (tx_latch /\ ~TxStatus)
  /\ LET q == IF RxStatus THEN Post(comm_queue, "DO_RX") ELSE comm_queue
     IN  comm_queue' = IF TxStatus /\ ~task_pending THEN Post(q, "DO_TX") ELSE q
  /\ task_pending' = (task_pending \/ TxStatus)
  /\ UNCHANGED <<ring, senders, task, boot, txfifo, rxfifo, rx_left, hist>>

(***************************************************************************)
(* The UART itself: it shifts a byte out, a byte arrives.  A byte that     *)
(* arrives when the RX FIFO is full is lost and changes nothing here.      *)
(***************************************************************************)
UartTxByte ==
  /\ txfifo > 0
  /\ txfifo' = txfifo - 1
  /\ tx_latch' = (tx_latch \/ (~TxLevel /\ txfifo = 1))
  /\ UNCHANGED <<ring, wakeup, senders, task, boot, rxfifo, int_ena,
                 rx_left, hist>>

UartRxByte ==
  /\ boot = "running" \/ (BootRx /\ boot # "reset")
  /\ rx_left > 0 /\ rxfifo < RxFifoSize
  /\ rxfifo' = rxfifo + 1
  /\ rx_left' = rx_left - 1
  /\ UNCHANGED <<ring, wakeup, senders, task, boot, txfifo, int_ena,
                 tx_latch, hist>>

-----------------------------------------------------------------------------
(***************************************************************************)
(* user_init and comm_init.  uart_config empties both FIFOs, clears every  *)
(* latched interrupt and enables RXFIFO_FULL; it runs before and after the *)
(* comm task is registered.                                                *)
(***************************************************************************)
UartConfig ==
  /\ txfifo' = 0 /\ rxfifo' = 0 /\ tx_latch' = FALSE
  /\ int_ena' = [int_ena EXCEPT !.rx = TRUE]

BootUart ==
  /\ \/ boot = "reset" /\ boot' = "uart"          \* user_init: uart_init
     \/ boot = "task"  /\ boot' = "uart_again"    \* comm_init: uart_init
  /\ UartConfig
  /\ UNCHANGED <<ring, wakeup, senders, task, rx_left, hist>>

(* decoder_init, transmitter_init, system_os_task. *)
BootCommTask ==
  /\ boot = "uart" /\ boot' = "task"
  /\ buf_read_i' = 0 /\ buf_write_i' = 0 /\ idx_in_buf' = 0
  /\ task_pending' = FALSE /\ dropped_packets' = 0
  /\ UNCHANGED <<bufs, comm_queue, ctx, task, uart, hist>>

(* uart_tx_one_char(UART0, COBS_BYTE_EOF) once there is room. *)
BootEof ==
  /\ boot = "uart_again" /\ boot' = "eof"
  /\ txfifo < FifoSize
  /\ txfifo' = txfifo + 1
  /\ UNCHANGED <<ring, wakeup, senders, task, rxfifo, int_ena, tx_latch,
                 rx_left, hist>>

BootRxEnable ==
  /\ boot = "eof" /\ boot' = "boot_msg"
  /\ int_ena' = [int_ena EXCEPT !.rx = TRUE]
  /\ UNCHANGED <<ring, wakeup, senders, task, txfifo, rxfifo, tx_latch,
                 rx_left, hist>>

(* comm_send_ctl(MSG_BOOT), then the COMM_INFO lines. *)
BootSend ==
  /\ boot \in {"boot_msg", "logs"} /\ boot' = "logs"
  /\ \E len \in FrameLens : PushStart(Main, "high", len)

BootDone ==
  /\ boot = "logs" /\ At(Main, "idle") /\ boot' = "running"
  /\ UNCHANGED <<ring, wakeup, senders, task, uart, hist>>

-----------------------------------------------------------------------------
BootStep == BootUart \/ BootCommTask \/ BootEof \/ BootRxEnable \/ BootSend
            \/ BootDone
TaskStep == \/ Dispatch \/ SendClearPending \/ SendReadFifo \/ SendPart
            \/ SendRest \/ SendLoopExit \/ SendEnd \/ RxRead \/ HandlerReturn \/ RxEmpty
            \/ IntEnaRead \/ IntEnaWrite

Next ==
  \/ BootStep \/ TaskStep \/ HandlerSend
  \/ \E c \in Contexts : PushStep(c)
  \/ \E c \in Tasks : TaskSend(c)
  \/ Interrupt \/ UartTxByte \/ UartRxByte

Spec == Init /\ [][Next]_vars

(* Once started a context runs to the end of what it does, the interrupt is
   taken when it is pending, and the UART shifts bytes out.  Nobody is
   obliged to send. *)
Fairness ==
  /\ WF_vars(BootStep) /\ WF_vars(TaskStep)
  /\ \A c \in Contexts : WF_vars(PushStep(c))
  /\ WF_vars(Interrupt) /\ WF_vars(UartTxByte)

FairSpec == Spec /\ Fairness

-----------------------------------------------------------------------------
PushPcs == {"idle", "precheck", "encode", "enqueue", "wake", "post", "drop",
            "count"}
TaskPcs == {"idle", "tx_start", "tx_fifo", "tx_loop", "tx_end", "ena_tx",
            "set_tx", "rx_loop", "rx_handler", "ena_rx", "set_rx"}
BootPcs == {"reset", "uart", "task", "uart_again", "eof", "boot_msg", "logs",
            "running"}
IntBits == [rx : BOOLEAN, tx : BOOLEAN]

RingType ==
  /\ bufs \in [0..(RingSize - 1) -> Frames \cup {NoFrame}]
  /\ buf_read_i \in 0..(IndexMod - 1) /\ buf_write_i \in 0..(IndexMod - 1)
  /\ idx_in_buf \in Nat

QueueType ==
  comm_queue \in Seq({"DO_RX", "DO_TX"}) /\ Len(comm_queue) <= QueueLen

CtxType ==
  /\ ctx \in [Contexts -> [pc : PushPcs, reg : Nat, len : FrameLens \cup {0},
                           prio : Prios]]
  /\ dropped_packets \in Nat

TaskType ==
  /\ task \in [pc : TaskPcs, free : 0..FifoSize, reg : IntBits]
  /\ boot \in BootPcs

FifoType == txfifo \in 0..FifoSize /\ rxfifo \in 0..RxFifoSize /\ rx_left \in 0..MaxRx

FlagType == int_ena \in IntBits /\ tx_latch \in BOOLEAN /\ task_pending \in BOOLEAN

HistType ==
  /\ offered \in 0..MaxPush /\ accepted \in Nat /\ sent \in Nat
  /\ wire \in [seq : Nat, pos : Nat, len : Nat]
  /\ allocated \in Int /\ drops \in Nat

(* Type invariant.  That fifo_free_n and the FIFO counts stay in their ranges
   says that transmitter_send never hands the UART more bytes than it has
   room for, and that its unsigned subtractions never go below zero. *)
TypeOK == /\ RingType /\ QueueType /\ CtxType /\ TaskType /\ FifoType
          /\ FlagType /\ HistType

(* transmitter_push never overwrites a frame that transmitter_send has not
   finished: the frames queued and not finished fit in the ring. *)
RingNeverOverrun == accepted - sent <= RingSize

(* Frames leave in the order they were accepted, whole, none twice and none
   skipped: what a turn of transmitter_send hands to the FIFO continues the
   frame on the wire, or starts the next one after the last byte of it. *)
WireInOrder ==
  [][ \/ /\ wire'.seq = wire.seq /\ wire'.len = wire.len
         /\ wire.pos < wire'.pos /\ wire'.pos <= wire.len
      \/ /\ wire.pos = wire.len
         /\ wire'.seq = wire.seq + 1
         /\ 0 < wire'.pos /\ wire'.pos <= wire'.len ]_wire

(* The transmitter implements the bounded FIFO of FrameQueue: the frames from
   the read index to the write index are the queue, oldest first. *)
RingContents == [k \in 1..(accepted - sent) |-> bufs[Slot(buf_read_i + k - 1)]]

FQ == INSTANCE FrameQueue WITH
        Capacity <- RingSize, Payloads <- [len : FrameLens, prio : Prios],
        queue <- RingContents, progress <- idx_in_buf, delivered <- sent

ImplementsFrameQueue == FQ!Spec

(* Every encoded buffer is owned by a ring slot or by a context about to
   queue it, so transmitter_push and transmitter_send neither leak a buffer
   nor free one twice. *)
HeapBalanced ==
  allocated = accepted - sent + Cardinality({c \in Contexts : At(c, "enqueue")})

(* The comment at transmitter_wake_task: task_pending says that a DO_TX is in
   the queue and not dispatched yet. *)
PendingMeansQueued ==
  task_pending => \/ TaskAt("tx_start")
                  \/ \E i \in DOMAIN comm_queue : comm_queue[i] = "DO_TX"

(* No lost wake-up: while a frame waits in the ring, transmitter_send will
   look at the ring again, or the TX interrupt is on, or a context that
   queued a frame has not finished transmitter_wake_task. *)
NoStrandedFrame ==
  buf_read_i # buf_write_i =>
    \/ task_pending \/ int_ena.tx
    \/ task.pc \in {"tx_start", "tx_fifo", "tx_loop", "ena_tx", "set_tx"}
    \/ task.pc = "tx_end" /\ task.free = 0
    \/ \E c \in Contexts : ctx[c].pc \in {"wake", "post"}

(* The slots a priority must leave free are left free, up to one frame per
   context that passed the unlocked precheck at the same time. *)
Waiting(S) == Cardinality({k \in (sent + 1)..accepted : bufs[Slot(k - 1)].prio \in S})
PriorityReserve ==
  /\ Waiting({"low"}) <= RingSize - LowFree + Cardinality(Tasks)
  /\ Waiting({"low", "medium"}) <= RingSize - MediumFree + Cardinality(Tasks)

(* dropped_packets is updated by a load and a store that no lock protects, so
   it may miss drops; still comm_get_stats never reports more packets than
   were dropped, and never reports none once a drop has been counted. *)
DropCounter ==
  /\ dropped_packets <= drops
  /\ drops > 0 /\ (\A c \in Contexts : ~At(c, "count")) => dropped_packets > 0

(* The comment at comm_queue: one place is needed for DO_RX. *)
OneRxEvent ==
  Cardinality({i \in DOMAIN comm_queue : comm_queue[i] = "DO_RX"}) <= 1

(* Every accepted frame gets to the wire. *)
AcceptedReachesWire == \A n \in 1..MaxPush : accepted >= n ~> sent >= n

(* Bytes from the host do not stay in the RX FIFO once the firmware runs. *)
RxDrained == (boot = "running" /\ rxfifo > 0) ~> rxfifo = 0

(* What transmitter_push takes it gives back or counts: buffers, the slots of
   the reserve, and dropped packets. *)
PushAccounts == HeapBalanced /\ PriorityReserve /\ DropCounter

(* The three places of comm_queue are enough, although nobody looks whether
   system_os_post has worked: no DO_TX that task_pending stands for is lost,
   and no second DO_RX takes its place. *)
EventQueueSuffices == PendingMeansQueued /\ OneRxEvent

(* Both directions of the link get through. *)
BothDirections == AcceptedReachesWire /\ RxDrained
=============================================================================
