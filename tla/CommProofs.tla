----------------------------- MODULE CommProofs -----------------------------
(***************************************************************************)
(* Proofs about the transmitter of Comm for every value of its constants:  *)
(* the ring is not overrun and strands no frame; it is the bounded first-  *)
(* in first-out queue of FrameQueue; every buffer, slot and drop is        *)
(* accounted for; and the event queue is long enough.                      *)
(*                                                                         *)
(* The ring invariants hold as long as the uint16_t write index has not    *)
(* wrapped round, which NoWrap says: fewer messages are offered than the   *)
(* index has values.  (After a wrap they fail; the run comm_index_wrap     *)
(* shows it.)                                                              *)
(***************************************************************************)
EXTENDS Comm, FiniteSetTheorems, SequenceTheorems, TLAPS

USE DEF wakeup, senders

NoWrap == MaxPush < IndexMod

-----------------------------------------------------------------------------
(* Before the comm task is registered nothing is sent; before
   user_init returns the comm task has not run. *)
BootInv ==
  /\ boot \in {"reset", "uart"} => /\ accepted = 0 /\ sent = 0 /\ idx_in_buf = 0
                                  /\ \A c \in Contexts : ctx[c].pc = "idle"
  /\ boot # "running" => task = IdleTask

(* Contexts that began transmitter_push and may still queue their frame. *)
InFlight == {c \in Contexts : ctx[c].pc \in {"precheck", "encode", "enqueue"}}

PushInv ==
  /\ accepted + Cardinality(InFlight) <= offered
  /\ \A c \in Contexts : ctx[c].pc # "idle" => ctx[c].len \in FrameLens

(* The two indices count the frames finished and queued, the slots between
   them hold those frames in order, and idx_in_buf is inside the oldest. *)
RingInv ==
  /\ buf_read_i = sent /\ buf_write_i = accepted
  /\ sent <= accepted /\ accepted - sent <= RingSize
  /\ \A k \in sent..(accepted - 1) :
       bufs[Slot(k)] \in Frames /\ bufs[Slot(k)].seq = k + 1
  /\ sent < accepted => idx_in_buf < bufs[Slot(sent)].len
  /\ sent = accepted => idx_in_buf = 0

(* The room transmitter_send counts on is there. *)
FifoInv == task.pc \in {"tx_loop", "tx_end"} => task.free + txfifo <= FifoSize

(* The last byte handed over is the last one of frame number sent, or byte
   idx_in_buf of the oldest frame in the ring. *)
WireInv ==
  /\ idx_in_buf = 0 => wire.seq = sent /\ wire.pos = wire.len
  /\ idx_in_buf > 0 => wire = [seq |-> sent + 1, pos |-> idx_in_buf,
                               len |-> bufs[Slot(sent)].len]

IInv == TypeOK /\ BootInv /\ PushInv /\ RingInv /\ FifoInv /\ WireInv

-----------------------------------------------------------------------------
(* Arithmetic of the ring slots. *)

(* No multiple of RingSize lies strictly between zero and RingSize. *)
LEMMA NoMultiple ==
  ASSUME NEW d \in Int, 0 < RingSize * d, RingSize * d < RingSize
  PROVE  FALSE
<1>1. CASE d <= 0
  BY <1>1, RingAssumption
<1>2. CASE d >= 1
  BY <1>2, RingAssumption
<1> QED
  BY <1>1, <1>2

(* i & TX_RING_BUFFER_MASK is a place of the ring. *)
LEMMA SlotInRange ==
  ASSUME NEW i \in Nat
  PROVE  Slot(i) \in 0..(RingSize - 1)
BY RingAssumption DEF Slot

(* Indices less than RingSize apart use different slots. *)
LEMMA SlotDistinct ==
  ASSUME NEW a \in Nat, NEW b \in Nat, a < b, b - a < RingSize
  PROVE  Slot(a) # Slot(b)
<1> DEFINE p == a \div RingSize
           q == b \div RingSize
<1>1. p \in Int /\ q \in Int
  BY RingAssumption
<1>2. a = RingSize * p + Slot(a)
  BY RingAssumption DEF Slot
<1>3. b = RingSize * q + Slot(b)
  BY RingAssumption DEF Slot
<1>4. Slot(a) \in Nat /\ Slot(b) \in Nat
  BY SlotInRange, RingAssumption
<1> HIDE DEF p, q
<1>5. SUFFICES ASSUME Slot(a) = Slot(b) PROVE FALSE
  OBVIOUS
<1>6. RingSize * (q - p) = RingSize * q - RingSize * p
  BY <1>1, RingAssumption
<1>7. b - a = RingSize * q - RingSize * p
  BY <1>1, <1>2, <1>3, <1>4, <1>5, RingAssumption
<1>8. 0 < RingSize * (q - p) /\ RingSize * (q - p) < RingSize
  BY <1>6, <1>7, RingAssumption
<1>9. q - p \in Int
  BY <1>1
<1> QED
  BY <1>8, <1>9, NoMultiple

-----------------------------------------------------------------------------
(* Encoded frames are not empty. *)
LEMMA LenPositive ==
  ASSUME NEW n \in FrameLens
  PROVE  n \in Nat /\ n > 0
BY LoadAssumption

(* The uint16_t increment does not wrap below IndexMod. *)
LEMMA NoWrapStep ==
  ASSUME NEW i \in Nat, i < IndexMod
  PROVE  i % IndexMod = i
BY IndexAssumption

(* Sets of contexts are finite, and change their size by one. *)
LEMMA InFlightFinite == IsFiniteSet(InFlight) /\ Cardinality(InFlight) \in Nat
<1>1. IsFiniteSet(Contexts)
  BY SenderAssumption, FS_AddElement DEF Contexts
<1>2. IsFiniteSet(InFlight)
  BY <1>1, FS_Subset DEF InFlight
<1> QED
  BY <1>2, FS_CardinalityType

(* A context enters the set of those that may still queue a frame. *)
LEMMA InFlightAdd ==
  ASSUME NEW c, c \notin InFlight, InFlight' = InFlight \cup {c}
  PROVE  Cardinality(InFlight') = Cardinality(InFlight) + 1
BY InFlightFinite, FS_AddElement

(* A context leaves it. *)
LEMMA InFlightRemove ==
  ASSUME NEW c \in InFlight, InFlight' = InFlight \ {c}
  PROVE  /\ Cardinality(InFlight') = Cardinality(InFlight) - 1
         /\ Cardinality(InFlight') \in Nat
BY InFlightFinite, FS_RemoveElement, FS_CardinalityType

-----------------------------------------------------------------------------
(* The invariant holds initially. *)
LEMMA InitInv == Init => IInv
<1> SUFFICES ASSUME Init PROVE IInv
  OBVIOUS
<1> USE DEF Init
<1>1. TypeOK
  <2>1. RingType
    BY RingAssumption, IndexAssumption DEF RingType
  <2>2. QueueType
    BY LoadAssumption DEF QueueType
  <2>3. CtxType
    BY DEF CtxType, IdlePush, PushPcs, Prios
  <2>4. TaskType
    BY UartAssumption DEF TaskType, IdleTask, TaskPcs, IntBits, BootPcs
  <2>5. FifoType
    BY UartAssumption, LoadAssumption DEF FifoType
  <2>6. FlagType
    BY DEF FlagType, IntBits
  <2>7. HistType
    BY LoadAssumption DEF HistType
  <2> QED
    BY <2>1, <2>2, <2>3, <2>4, <2>5, <2>6, <2>7 DEF TypeOK
<1>2. BootInv
  BY DEF BootInv, IdlePush
<1>3. PushInv
  <2>1. InFlight = {}
    BY DEF InFlight, IdlePush
  <2> QED
    BY <2>1, FS_EmptySet DEF PushInv, IdlePush
<1>4. RingInv
  BY RingAssumption DEF RingInv
<1>5. FifoInv /\ WireInv
  BY DEF FifoInv, WireInv, IdleTask
<1> QED
  BY <1>1, <1>2, <1>3, <1>4, <1>5 DEF IInv

(* A step of none of the sending contexts leaves PushInv alone. *)
LEMMA PushUnchanged ==
  ASSUME PushInv, UNCHANGED <<ctx, offered, accepted>>
  PROVE  PushInv'
BY DEF PushInv, InFlight

(* Neither does a step that leaves the ring alone disturb its invariants. *)
LEMMA RingUnchanged ==
  ASSUME RingInv, WireInv, UNCHANGED <<ring, accepted, sent, wire>>
  PROVE  RingInv' /\ WireInv'
BY DEF RingInv, WireInv, ring

-----------------------------------------------------------------------------
(* comm_send begins: one more context may queue a frame. *)
LEMMA PushStartInv ==
  ASSUME IInv, NEW c \in Contexts, NEW prio \in Prios, NEW len \in FrameLens,
         PushStart(c, prio, len), boot \notin {"reset", "uart"},
         boot' = boot \/ (boot \in {"boot_msg", "logs"} /\ boot' = "logs")
  PROVE  IInv'
<1> USE DEF IInv, TypeOK
<1>1. CtxType' /\ HistType'
  <2>1. buf_write_i \in Nat
    BY IndexAssumption DEF RingType
  <2> QED
    BY <2>1, LoadAssumption DEF PushStart, CtxType, HistType, PushPcs
<1>2. PushInv'
  <2>1. c \notin InFlight
    BY DEF PushStart, At, InFlight
  <2>2. InFlight' = InFlight \cup {c}
    BY DEF PushStart, InFlight, CtxType
  <2>3. Cardinality(InFlight') = Cardinality(InFlight) + 1
    BY <2>1, <2>2, InFlightAdd
  <2>4. accepted' + Cardinality(InFlight') <= offered'
    BY <2>3, InFlightFinite DEF PushStart, PushInv, HistType
  <2>5. \A d \in Contexts : ctx'[d].pc # "idle" => ctx'[d].len \in FrameLens
    BY DEF PushStart, PushInv, CtxType
  <2> QED
    BY <2>4, <2>5 DEF PushInv
<1>3. RingInv' /\ WireInv'
  BY RingUnchanged DEF PushStart
<1>4. RingType' /\ QueueType' /\ FifoType' /\ FlagType'
  BY DEF PushStart, RingType, QueueType, FifoType, FlagType, ring, uart
<1>5. TaskType' /\ BootInv' /\ FifoInv'
  BY DEF PushStart, TaskType, BootPcs, BootInv, FifoInv, ring, uart
<1> QED
  BY <1>1, <1>2, <1>3, <1>4, <1>5

(* Every step of user_init preserves the invariant. *)
LEMMA BootStepInv ==
  ASSUME IInv, BootStep
  PROVE  IInv'
<1> USE DEF IInv, TypeOK
<1>1. CASE BootUart
  <2>1. FifoType'
    BY <1>1, UartAssumption DEF BootUart, UartConfig, FifoType
  <2>5. FlagType'
    BY <1>1 DEF BootUart, UartConfig, FlagType, IntBits
  <2>2. TaskType' /\ BootInv' /\ FifoInv'
    BY <1>1 DEF BootUart, TaskType, BootInv, FifoInv, BootPcs, IdleTask, ring, hist
  <2>3. RingType' /\ QueueType' /\ CtxType' /\ HistType'
    BY <1>1 DEF BootUart, RingType, QueueType, CtxType, HistType, ring, hist
  <2>4. RingInv' /\ WireInv' /\ PushInv'
    BY <1>1, RingUnchanged, PushUnchanged DEF BootUart, hist
  <2> QED
    BY <2>1, <2>2, <2>3, <2>4, <2>5
<1>2. CASE BootCommTask
  <2>1. RingType'
    BY <1>2, RingAssumption, IndexAssumption DEF BootCommTask, RingType
  <2>2. RingInv' /\ WireInv'
    BY <1>2, RingAssumption DEF BootCommTask, RingInv, WireInv, BootInv, hist
  <2>3. FlagType'
    BY <1>2 DEF BootCommTask, FlagType, uart
  <2>4. QueueType' /\ CtxType' /\ FifoType' /\ HistType'
    BY <1>2 DEF BootCommTask, QueueType, CtxType, FifoType, HistType, uart, hist
  <2>5. TaskType' /\ BootInv' /\ FifoInv'
    BY <1>2 DEF BootCommTask, TaskType, BootInv, FifoInv, BootPcs, uart
  <2>6. PushInv'
    BY <1>2, PushUnchanged DEF BootCommTask, hist
  <2> QED
    BY <2>1, <2>2, <2>3, <2>4, <2>5, <2>6
<1>3. CASE BootEof
  <2>1. FifoType' /\ FifoInv'
    BY <1>3, UartAssumption DEF BootEof, FifoType, FifoInv, BootInv, IdleTask
  <2>2. TaskType' /\ BootInv' /\ FlagType'
    BY <1>3 DEF BootEof, TaskType, BootInv, BootPcs, FlagType, ring, hist
  <2>3. RingType' /\ QueueType' /\ CtxType' /\ HistType'
    BY <1>3 DEF BootEof, RingType, QueueType, CtxType, HistType, ring, hist
  <2>4. RingInv' /\ WireInv' /\ PushInv'
    BY <1>3, RingUnchanged, PushUnchanged DEF BootEof, hist
  <2> QED
    BY <2>1, <2>2, <2>3, <2>4
<1>4. CASE BootRxEnable
  <2>1. FlagType'
    BY <1>4 DEF BootRxEnable, FlagType, IntBits
  <2>2. TaskType' /\ BootInv' /\ FifoInv' /\ FifoType'
    BY <1>4 DEF BootRxEnable, TaskType, BootInv, BootPcs, FifoInv, FifoType, ring,
                hist
  <2>3. RingType' /\ QueueType' /\ CtxType' /\ HistType'
    BY <1>4 DEF BootRxEnable, RingType, QueueType, CtxType, HistType, ring, hist
  <2>4. RingInv' /\ WireInv' /\ PushInv'
    BY <1>4, RingUnchanged, PushUnchanged DEF BootRxEnable, hist
  <2> QED
    BY <2>1, <2>2, <2>3, <2>4
<1>5. CASE BootDone
  <2>1. TaskType' /\ BootInv' /\ FifoInv'
    BY <1>5 DEF BootDone, TaskType, BootInv, BootPcs, FifoInv, uart
  <2>2. RingType' /\ QueueType' /\ CtxType' /\ HistType' /\ FifoType' /\ FlagType'
    BY <1>5 DEF BootDone, RingType, QueueType, CtxType, HistType, FifoType,
                FlagType, ring, hist, uart
  <2>3. RingInv' /\ WireInv' /\ PushInv'
    BY <1>5, RingUnchanged, PushUnchanged DEF BootDone, hist
  <2> QED
    BY <2>1, <2>2, <2>3
<1>6. CASE BootSend
  <2>1. PICK len \in FrameLens : PushStart(Main, "high", len)
    BY <1>6 DEF BootSend
  <2>2. /\ boot \in {"boot_msg", "logs"} /\ boot' = "logs"
        /\ boot \notin {"reset", "uart"}
    BY <1>6 DEF BootSend
  <2> QED
    BY <2>1, <2>2, PushStartInv DEF Contexts, Prios
<1> QED
  BY <1>1, <1>2, <1>3, <1>4, <1>5, <1>6 DEF BootStep

(* Goto and Return change the program counter of one context only, and keep
   the length of the frame it carries. *)
LEMMA GotoType ==
  ASSUME CtxType, NEW c \in Contexts, NEW pc \in PushPcs, Goto(c, pc)
  PROVE  /\ ctx' \in [Contexts -> [pc : PushPcs, reg : Nat,
                                  len : FrameLens \cup {0}, prio : Prios]]
         /\ ctx'[c].pc = pc /\ ctx'[c].len = ctx[c].len
         /\ \A d \in Contexts \ {c} : ctx'[d] = ctx[d]
BY DEF CtxType, Goto

LEMMA ReturnType ==
  ASSUME CtxType, NEW c \in Contexts, Return(c)
  PROVE  /\ ctx' \in [Contexts -> [pc : PushPcs, reg : Nat,
                                  len : FrameLens \cup {0}, prio : Prios]]
         /\ ctx'[c].pc = "idle"
         /\ \A d \in Contexts \ {c} : ctx'[d] = ctx[d]
BY DEF CtxType, Return, IdlePush, PushPcs, Prios

(* A step of transmitter_push that queues nothing: the set of contexts that
   may still queue a frame does not grow. *)
LEMMA PushInvStep ==
  ASSUME TypeOK, PushInv, NEW c \in Contexts, ~At(c, "idle"),
         \A d \in Contexts \ {c} : ctx'[d] = ctx[d],
         \/ ctx'[c].pc = "idle"
         \/ /\ ctx'[c].len = ctx[c].len
            /\ ctx'[c].pc \in {"precheck", "encode", "enqueue"} => c \in InFlight,
         UNCHANGED <<offered, accepted>>
  PROVE  PushInv'
<1>1. InFlight' = InFlight \/ (c \in InFlight /\ InFlight' = InFlight \ {c})
  BY DEF InFlight
<1>2. /\ Cardinality(InFlight') \in Nat
      /\ Cardinality(InFlight') <= Cardinality(InFlight)
  <2>1. CASE InFlight' = InFlight
    BY <2>1, InFlightFinite
  <2>2. CASE c \in InFlight /\ InFlight' = InFlight \ {c}
    <3>1. /\ Cardinality(InFlight') = Cardinality(InFlight) - 1
          /\ Cardinality(InFlight') \in Nat
      BY <2>2, InFlightRemove
    <3> QED
      BY <3>1, InFlightFinite
  <2> QED
    BY <1>1, <2>1, <2>2
<1>4. accepted' + Cardinality(InFlight') <= offered'
  BY <1>2, InFlightFinite DEF PushInv, TypeOK, HistType
<1>5. \A d \in Contexts : ctx'[d].pc # "idle" => ctx'[d].len \in FrameLens
  BY DEF PushInv, At
<1> QED
  BY <1>4, <1>5 DEF PushInv

LEMMA GotoStep ==
  ASSUME TypeOK, PushInv, NEW c \in Contexts, ~At(c, "idle"),
         NEW pc \in PushPcs, Goto(c, pc),
         pc \in {"precheck", "encode", "enqueue"} => c \in InFlight,
         UNCHANGED <<dropped_packets, offered, accepted>>
  PROVE  CtxType' /\ PushInv'
<1>1. CtxType
  BY DEF TypeOK
<1>2. /\ ctx' \in [Contexts -> [pc : PushPcs, reg : Nat,
                               len : FrameLens \cup {0}, prio : Prios]]
      /\ ctx'[c].pc = pc /\ ctx'[c].len = ctx[c].len
      /\ \A d \in Contexts \ {c} : ctx'[d] = ctx[d]
  BY <1>1, GotoType
<1>3. PushInv'
  BY <1>2, PushInvStep
<1> QED
  BY <1>1, <1>2, <1>3 DEF CtxType

LEMMA ReturnStep ==
  ASSUME TypeOK, PushInv, NEW c \in Contexts, ~At(c, "idle"), Return(c),
         dropped_packets' \in Nat, UNCHANGED <<offered, accepted>>
  PROVE  CtxType' /\ PushInv'
<1>1. CtxType
  BY DEF TypeOK
<1>2. /\ ctx' \in [Contexts -> [pc : PushPcs, reg : Nat,
                               len : FrameLens \cup {0}, prio : Prios]]
      /\ ctx'[c].pc = "idle"
      /\ \A d \in Contexts \ {c} : ctx'[d] = ctx[d]
  BY <1>1, ReturnType
<1>3. PushInv'
  BY <1>2, PushInvStep
<1> QED
  BY <1>2, <1>3 DEF CtxType

(* A step of a sending context that leaves the ring, the comm task and the
   FIFOs alone. *)
LEMMA SenderQuiet ==
  ASSUME IInv, CtxType', QueueType', FlagType', HistType', PushInv',
         UNCHANGED <<ring, task, boot, txfifo, rxfifo, rx_left, accepted, sent, wire>>,
         boot \notin {"reset", "uart"}
  PROVE  IInv'
<1>1. RingInv' /\ WireInv'
  BY RingUnchanged DEF IInv
<1>2. RingType' /\ TaskType' /\ FifoType' /\ BootInv' /\ FifoInv'
  BY DEF IInv, TypeOK, RingType, TaskType, FifoType, BootInv, FifoInv, ring
<1> QED
  BY <1>1, <1>2 DEF IInv, TypeOK

(* Posting keeps the queue within its length. *)
LEMMA PostType ==
  ASSUME QueueType, NEW e \in {"DO_RX", "DO_TX"}
  PROVE  /\ Post(comm_queue, e) \in Seq({"DO_RX", "DO_TX"})
         /\ Len(Post(comm_queue, e)) <= QueueLen
BY LoadAssumption DEF QueueType, Post

(* The locked region of transmitter_push stores the frame after the others. *)
LEMMA EnqueueStoreInv ==
  ASSUME NoWrap, IInv, NEW c \in Contexts, EnqueueStore(c)
  PROVE  IInv'
<1>0. boot \notin {"reset", "uart"}
  BY DEF EnqueueStore, At, IInv, BootInv
<1> DEFINE f == [seq |-> accepted + 1, len |-> ctx[c].len, prio |-> ctx[c].prio]
<1>1. c \in InFlight /\ ctx[c].pc = "enqueue"
  BY DEF EnqueueStore, At, InFlight
<1>2. ctx' \in [Contexts -> [pc : PushPcs, reg : Nat, len : FrameLens \cup {0},
                            prio : Prios]]
      /\ ctx'[c].pc = "wake" /\ ctx'[c].len = ctx[c].len
      /\ \A d \in Contexts \ {c} : ctx'[d] = ctx[d]
  BY GotoType DEF EnqueueStore, IInv, TypeOK, PushPcs
<1>3. InFlight' = InFlight \ {c}
  BY <1>2 DEF InFlight
<1>4. /\ Cardinality(InFlight') = Cardinality(InFlight) - 1
      /\ Cardinality(InFlight') \in Nat
  BY <1>1, <1>3, InFlightRemove
<1>5. accepted < offered /\ accepted + 1 < IndexMod
  BY <1>4, InFlightFinite, IndexAssumption, LoadAssumption
  DEF IInv, TypeOK, HistType, PushInv, NoWrap
<1>6. PushInv'
  <2>1. accepted' + Cardinality(InFlight') <= offered'
    BY <1>4, InFlightFinite DEF EnqueueStore, IInv, TypeOK, HistType, PushInv
  <2>2. \A d \in Contexts : ctx'[d].pc # "idle" => ctx'[d].len \in FrameLens
    BY <1>1, <1>2 DEF IInv, PushInv
  <2> QED
    BY <2>1, <2>2 DEF PushInv
<1>7. f \in Frames
  BY <1>1 DEF IInv, TypeOK, HistType, CtxType, PushInv, Frames
<1>8. buf_write_i' = accepted + 1 /\ accepted' = accepted + 1
  BY <1>5, NoWrapStep DEF EnqueueStore, IInv, TypeOK, HistType, RingInv
<1>9. Slot(accepted) \in 0..(RingSize - 1)
  BY SlotInRange DEF IInv, TypeOK, HistType
<1>10. bufs' = [bufs EXCEPT ![Slot(accepted)] = f]
  BY DEF EnqueueStore, WriteSlot, IInv, RingInv
<1>11. accepted - sent < RingSize
  BY RingAssumption DEF EnqueueStore, RingFull, IInv, TypeOK, HistType, RingInv
<1> HIDE DEF f
<1>12. RingType'
  <2>1. bufs' \in [0..(RingSize - 1) -> Frames \cup {NoFrame}]
    BY <1>7, <1>9, <1>10 DEF IInv, TypeOK, RingType
  <2>2. buf_write_i' \in 0..(IndexMod - 1)
    BY <1>5, <1>8, IndexAssumption DEF IInv, TypeOK, HistType
  <2>3. buf_read_i' \in 0..(IndexMod - 1) /\ idx_in_buf' \in Nat
    BY DEF EnqueueStore, IInv, TypeOK, RingType
  <2> QED
    BY <2>1, <2>2, <2>3 DEF RingType
<1>13. bufs'[Slot(accepted)] = f
  BY <1>9, <1>10 DEF IInv, TypeOK, RingType
<1>14. \A k \in sent..(accepted - 1) : bufs'[Slot(k)] = bufs[Slot(k)]
  <2> TAKE k \in sent..(accepted - 1)
  <2>1. k \in Nat /\ k < accepted /\ accepted - k < RingSize
    BY <1>11, RingAssumption DEF IInv, TypeOK, HistType
  <2>2. Slot(k) # Slot(accepted) /\ Slot(k) \in 0..(RingSize - 1)
    BY <2>1, SlotDistinct, SlotInRange DEF IInv, TypeOK, HistType
  <2> QED
    BY <1>10, <2>2 DEF IInv, TypeOK, RingType
<1>15. f.seq = accepted + 1 /\ f.len \in FrameLens
  BY <1>7 DEF f, Frames
<1>16. RingInv'
  <2>1. \A k \in sent'..(accepted' - 1) :
          bufs'[Slot(k)] \in Frames /\ bufs'[Slot(k)].seq = k + 1
    BY <1>7, <1>8, <1>13, <1>14, <1>15
    DEF EnqueueStore, IInv, RingInv, TypeOK, HistType
  <2>2. idx_in_buf' < bufs'[Slot(sent')].len
    <3>1. CASE sent < accepted
      BY <1>14, <3>1 DEF EnqueueStore, IInv, RingInv, TypeOK, HistType
    <3>2. CASE sent = accepted
      <4>1. idx_in_buf' = 0 /\ sent' = sent
        BY <3>2 DEF EnqueueStore, IInv, RingInv
      <4>2. f.len > 0
        BY <1>15, LenPositive
      <4> QED
        BY <1>13, <3>2, <4>1, <4>2
    <3> QED
      BY <3>1, <3>2 DEF IInv, RingInv, TypeOK, HistType
  <2> QED
    BY <1>8, <1>11, <2>1, <2>2, RingAssumption
    DEF EnqueueStore, IInv, RingInv, TypeOK, HistType
<1>17. WireInv'
  <2>1. CASE idx_in_buf = 0
    BY <2>1 DEF EnqueueStore, IInv, WireInv
  <2>2. CASE idx_in_buf > 0
    <3>1. sent < accepted
      BY <2>2 DEF IInv, RingInv, TypeOK, HistType
    <3>2. bufs'[Slot(sent)] = bufs[Slot(sent)]
      BY <1>14, <3>1 DEF IInv, TypeOK, HistType
    <3> QED
      BY <2>2, <3>2 DEF EnqueueStore, IInv, WireInv
  <2> QED
    BY <2>1, <2>2 DEF IInv, TypeOK, RingType
<1>18. CtxType' /\ HistType' /\ QueueType' /\ TaskType' /\ FifoType'
  BY <1>2 DEF EnqueueStore, IInv, TypeOK, CtxType, HistType, QueueType, TaskType,
              FifoType, uart
<1>19. FlagType'
  BY DEF EnqueueStore, IInv, TypeOK, FlagType, uart
<1>20. BootInv' /\ FifoInv'
  BY <1>0 DEF EnqueueStore, IInv, BootInv, FifoInv, uart
<1> QED
  BY <1>6, <1>12, <1>16, <1>17, <1>18, <1>19, <1>20 DEF IInv, TypeOK

(* Every step of transmitter_push preserves the invariant. *)
LEMMA PushStepInv ==
  ASSUME NoWrap, IInv, NEW c \in Contexts, PushStep(c)
  PROVE  IInv'
<1>0. /\ TypeOK /\ PushInv /\ HistType /\ QueueType /\ FlagType
      /\ CtxType /\ dropped_packets \in Nat
  BY DEF IInv, TypeOK, CtxType
<1>1. boot \notin {"reset", "uart"} /\ ~At(c, "idle")
  BY DEF PushStep, Precheck, Encode, EnqueueFull, EnqueueStore, Wake, WakeLocked,
         DropLoad, DropStore, At, IInv, BootInv
<1>2. CASE Precheck(c)
  <2>1. PICK pc \in {"drop", "encode"} : Goto(c, pc)
    BY <1>2 DEF Precheck
  <2>2. CtxType' /\ PushInv'
    BY <1>0, <1>1, <1>2, <2>1, GotoStep DEF Precheck, PushPcs, InFlight, At, hist
  <2>3. QueueType' /\ HistType' /\ FlagType'
    BY <1>0, <1>2 DEF Precheck, QueueType, HistType, FlagType, hist, uart
  <2> QED
    BY <1>1, <1>2, <2>2, <2>3, SenderQuiet DEF Precheck, uart, hist
<1>3. CASE Encode(c)
  <2>1. CtxType' /\ PushInv'
    <3>1. CASE Return(c)
      BY <1>0, <1>1, <1>3, <3>1, ReturnStep DEF Encode
    <3>2. CASE Goto(c, "enqueue")
      BY <1>0, <1>1, <1>3, <3>2, GotoStep DEF Encode, PushPcs, InFlight, At
    <3> QED
      BY <1>3, <3>1, <3>2 DEF Encode
  <2>2. QueueType' /\ FlagType'
    BY <1>0, <1>3 DEF Encode, QueueType, FlagType, uart
  <2>3. HistType'
    BY <1>0, <1>3 DEF Encode, HistType
  <2> QED
    BY <1>1, <1>3, <2>1, <2>2, <2>3, SenderQuiet DEF Encode, uart
<1>4. CASE EnqueueFull(c)
  <2>1. CtxType' /\ PushInv'
    BY <1>0, <1>1, <1>4, GotoStep DEF EnqueueFull, PushPcs
  <2>2. QueueType' /\ FlagType'
    BY <1>0, <1>4 DEF EnqueueFull, QueueType, FlagType, uart
  <2>3. HistType'
    BY <1>0, <1>4 DEF EnqueueFull, HistType
  <2> QED
    BY <1>1, <1>4, <2>1, <2>2, <2>3, SenderQuiet DEF EnqueueFull, uart
<1>5. CASE EnqueueStore(c)
  BY <1>5, EnqueueStoreInv
<1>6. CASE Wake(c)
  <2>1. CtxType' /\ PushInv'
    <3>1. CASE Return(c)
      BY <1>0, <1>1, <1>6, <3>1, ReturnStep DEF Wake, hist
    <3>2. CASE Goto(c, "post")
      BY <1>0, <1>1, <1>6, <3>2, GotoStep DEF Wake, PushPcs, hist
    <3> QED
      BY <1>6, <3>1, <3>2 DEF Wake
  <2>2. QueueType' /\ HistType' /\ FlagType'
    BY <1>0, <1>6 DEF Wake, QueueType, HistType, FlagType, hist, uart
  <2> QED
    BY <1>1, <1>6, <2>1, <2>2, SenderQuiet DEF Wake, uart, hist
<1>7. CASE WakeLocked(c)
  <2>1. CtxType' /\ PushInv'
    BY <1>0, <1>1, <1>7, ReturnStep DEF WakeLocked, hist
  <2>2. QueueType'
    BY <1>0, <1>7, PostType DEF WakeLocked, QueueType
  <2>3. FlagType'
    BY <1>0, <1>7 DEF WakeLocked, FlagType, uart
  <2>4. HistType'
    BY <1>0, <1>7 DEF WakeLocked, HistType, hist
  <2> QED
    BY <1>1, <1>7, <2>1, <2>2, <2>3, <2>4, SenderQuiet DEF WakeLocked, uart, hist
<1>8. CASE DropLoad(c)
  <2>1. /\ ctx' \in [Contexts -> [pc : PushPcs, reg : Nat,
                                 len : FrameLens \cup {0}, prio : Prios]]
        /\ ctx'[c].pc = "count" /\ ctx'[c].len = ctx[c].len
        /\ \A d \in Contexts \ {c} : ctx'[d] = ctx[d]
    BY <1>0, <1>8 DEF DropLoad, CtxType, PushPcs
  <2>2. CtxType'
    BY <1>0, <1>8, <2>1 DEF DropLoad, CtxType
  <2>5. PushInv'
    BY <1>0, <1>1, <1>8, <2>1, PushInvStep DEF DropLoad
  <2>3. QueueType' /\ FlagType'
    BY <1>0, <1>8 DEF DropLoad, QueueType, FlagType, uart
  <2>4. HistType'
    BY <1>0, <1>8 DEF DropLoad, HistType
  <2> QED
    BY <1>1, <1>8, <2>2, <2>3, <2>4, <2>5, SenderQuiet DEF DropLoad, uart
<1>9. CASE DropStore(c)
  <2>1. ctx[c].reg \in Nat
    BY <1>0 DEF CtxType
  <2>2. CtxType' /\ PushInv'
    BY <1>0, <1>1, <1>9, <2>1, ReturnStep DEF DropStore, hist
  <2>3. QueueType' /\ HistType' /\ FlagType'
    BY <1>0, <1>9 DEF DropStore, QueueType, HistType, FlagType, hist, uart
  <2> QED
    BY <1>1, <1>9, <2>2, <2>3, SenderQuiet DEF DropStore, uart, hist
<1> QED
  BY <1>2, <1>3, <1>4, <1>5, <1>6, <1>7, <1>8, <1>9 DEF PushStep

-----------------------------------------------------------------------------
(* A step of the comm task that leaves the ring alone. *)
LEMMA TaskQuiet ==
  ASSUME IInv, boot = "running", TaskType', QueueType', FlagType', FifoType',
         FifoInv', UNCHANGED <<ring, ctx, dropped_packets, boot, hist>>
  PROVE  IInv'
<1>1. RingInv' /\ WireInv' /\ PushInv'
  BY RingUnchanged, PushUnchanged DEF IInv, hist
<1>2. RingType' /\ CtxType' /\ HistType' /\ BootInv'
  BY DEF IInv, TypeOK, RingType, CtxType, HistType, BootInv, ring, hist
<1> QED
  BY <1>1, <1>2 DEF IInv, TypeOK

(* TaskGoto forgets the locals of the function that ends. *)
LEMMA TaskGotoType ==
  ASSUME TaskType, UNCHANGED boot, NEW pc \in TaskPcs, TaskGoto(pc)
  PROVE  TaskType' /\ task'.pc = pc
<1>1. task' = [pc |-> pc, free |-> 0, reg |-> [rx |-> FALSE, tx |-> FALSE]]
  BY DEF TaskGoto, IdleTask
<1>2. [rx |-> FALSE, tx |-> FALSE] \in IntBits
  BY DEF IntBits
<1>3. 0 \in 0..FifoSize
  BY UartAssumption
<1> QED
  BY <1>1, <1>2, <1>3 DEF TaskType

(* A turn of the loop of transmitter_send: the bytes fit in the FIFO and in
   the oldest frame, and the frame is not finished only if the FIFO is full. *)
LEMMA TurnBounds ==
  ASSUME IInv, TaskAt("tx_loop"), task.free > 0, buf_read_i # buf_write_i
  PROVE  /\ sent < accepted /\ Oldest = bufs[Slot(sent)] /\ Oldest \in Frames
         /\ Oldest.seq = sent + 1 /\ Oldest.len \in Nat
         /\ Turn \in 1..task.free /\ task.free + txfifo <= FifoSize
         /\ idx_in_buf + Turn <= Oldest.len
         /\ idx_in_buf + Turn # Oldest.len => Turn = task.free
<1>1. sent < accepted /\ sent \in Nat /\ accepted \in Nat
  BY DEF IInv, TypeOK, HistType, RingInv
<1>2. /\ Oldest = bufs[Slot(sent)] /\ Oldest \in Frames /\ Oldest.seq = sent + 1
      /\ idx_in_buf < Oldest.len
  BY <1>1 DEF IInv, RingInv, Oldest
<1>3. Oldest.len \in Nat
  BY <1>2, LenPositive DEF Frames
<1>4. idx_in_buf \in Nat /\ task.free \in Nat /\ task.free + txfifo <= FifoSize
  BY UartAssumption DEF IInv, TypeOK, RingType, TaskType, FifoInv, TaskAt
<1> QED
  BY <1>1, <1>2, <1>3, <1>4 DEF Turn, Min2

(* The loop stops inside the oldest frame. *)
LEMMA SendPartInv ==
  ASSUME IInv, SendPart
  PROVE  IInv'
<1>1. /\ TaskAt("tx_loop") /\ task.free > 0 /\ buf_read_i # buf_write_i
      /\ idx_in_buf + Turn # Oldest.len
  BY DEF SendPart
<1>2. /\ sent < accepted /\ Oldest = bufs[Slot(sent)] /\ Oldest \in Frames
      /\ Oldest.seq = sent + 1 /\ Oldest.len \in Nat
      /\ Turn \in 1..task.free /\ task.free + txfifo <= FifoSize
      /\ idx_in_buf + Turn <= Oldest.len
  BY <1>1, TurnBounds
<1>3. task.free \in 0..FifoSize /\ txfifo \in 0..FifoSize /\ idx_in_buf \in Nat
  BY DEF IInv, TypeOK, TaskType, FifoType, RingType
<1>4. FifoType'
  BY <1>2, <1>3, UartAssumption DEF SendPart, IInv, TypeOK, FifoType
<1>5. TaskType' /\ task'.free = task.free - Turn
  <2>1. task.free - Turn \in 0..FifoSize
    BY <1>2, <1>3, UartAssumption
  <2>2. task' = [task EXCEPT !.free = task.free - Turn, !.pc = "tx_end"]
    BY DEF SendPart
  <2>3. TaskType /\ boot' = boot
    BY DEF SendPart, IInv, TypeOK
  <2> HIDE DEF Turn
  <2> QED
    BY <2>1, <2>2, <2>3 DEF TaskType, TaskPcs
<1>6. FifoInv'
  <2>1. txfifo' = txfifo + Turn
    BY DEF SendPart
  <2>2. task'.free + txfifo' <= FifoSize
    BY <1>2, <1>3, <1>5, <2>1, UartAssumption
  <2> QED
    BY <2>2 DEF FifoInv
<1>7. idx_in_buf' \in Nat /\ idx_in_buf' > 0 /\ idx_in_buf' < Oldest.len
  BY <1>1, <1>2, <1>3, UartAssumption DEF SendPart
<1>8. RingType'
  BY <1>7 DEF SendPart, IInv, TypeOK, RingType
<1>9. RingInv'
  BY <1>2, <1>7 DEF SendPart, IInv, RingInv
<1>10. WireInv' /\ wire' \in [seq : Nat, pos : Nat, len : Nat]
  BY <1>2, <1>7 DEF SendPart, WireInv, IInv, TypeOK, HistType
<1>11. HistType' /\ CtxType' /\ QueueType'
  BY <1>10 DEF SendPart, IInv, TypeOK, HistType, CtxType, QueueType
<1>12. FlagType'
  BY DEF SendPart, IInv, TypeOK, FlagType
<1>13. PushInv'
  BY PushUnchanged DEF SendPart, IInv
<1>14. BootInv'
  BY <1>1 DEF SendPart, IInv, BootInv, TaskAt, IdleTask
<1> QED
  BY <1>4, <1>5, <1>6, <1>8, <1>9, <1>10, <1>11, <1>12, <1>13, <1>14
  DEF IInv, TypeOK

(* The oldest frame is finished: the next one is the oldest now. *)
LEMMA SendRestInv ==
  ASSUME IInv, NoWrap, SendRest
  PROVE  IInv'
<1>1. /\ TaskAt("tx_loop") /\ task.free > 0 /\ buf_read_i # buf_write_i
  BY DEF SendRest
<1>2. /\ sent < accepted /\ Oldest = bufs[Slot(sent)] /\ Oldest \in Frames
      /\ Oldest.seq = sent + 1 /\ Oldest.len \in Nat
      /\ Turn \in 1..task.free /\ task.free + txfifo <= FifoSize
  BY <1>1, TurnBounds
<1>3. task.free \in 0..FifoSize /\ txfifo \in 0..FifoSize /\ idx_in_buf \in Nat
  BY DEF IInv, TypeOK, TaskType, FifoType, RingType
<1>4. FifoType'
  BY <1>2, <1>3, UartAssumption DEF SendRest, IInv, TypeOK, FifoType
<1>5. TaskType' /\ task'.free = task.free - Turn
  <2>1. task.free - Turn \in 0..FifoSize
    BY <1>2, <1>3, UartAssumption
  <2>2. task' = [task EXCEPT !.free = task.free - Turn]
    BY DEF SendRest
  <2>3. TaskType /\ boot' = boot
    BY DEF SendRest, IInv, TypeOK
  <2> QED
    BY <2>1, <2>2, <2>3 DEF TaskType
<1>6. FifoInv'
  <2>1. txfifo' = txfifo + Turn
    BY DEF SendRest
  <2>2. task'.free + txfifo' <= FifoSize
    BY <1>2, <1>3, <1>5, <2>1, UartAssumption
  <2> QED
    BY <2>2 DEF FifoInv
<1>7. sent \in Nat /\ accepted \in Nat /\ accepted < IndexMod /\ accepted - sent <= RingSize
  <2>1. accepted <= MaxPush
    BY InFlightFinite, LoadAssumption DEF IInv, PushInv, TypeOK, HistType
  <2> QED
    BY <2>1, LoadAssumption, IndexAssumption DEF NoWrap, IInv, TypeOK, HistType, RingInv
<1>8. buf_read_i' = sent + 1 /\ sent' = sent + 1
  BY <1>2, <1>7, NoWrapStep, IndexAssumption DEF SendRest, IInv, RingInv
<1>9. Slot(sent) \in 0..(RingSize - 1)
  BY <1>7, SlotInRange
<1>10. bufs' = [bufs EXCEPT ![Slot(sent)] = NoFrame]
  BY DEF SendRest, IInv, RingInv
<1>11. RingType'
  <2>1. bufs' \in [0..(RingSize - 1) -> Frames \cup {NoFrame}]
    BY <1>9, <1>10 DEF IInv, TypeOK, RingType
  <2>2. buf_read_i' \in 0..(IndexMod - 1)
    BY <1>2, <1>7, <1>8, IndexAssumption
  <2>3. buf_write_i' \in 0..(IndexMod - 1) /\ idx_in_buf' \in Nat
    BY DEF SendRest, IInv, TypeOK, RingType
  <2> QED
    BY <2>1, <2>2, <2>3 DEF RingType
<1>12. \A k \in (sent + 1)..(accepted - 1) : bufs'[Slot(k)] = bufs[Slot(k)]
  <2> TAKE k \in (sent + 1)..(accepted - 1)
  <2>1. k \in Nat /\ sent < k /\ k - sent < RingSize
    BY <1>7, RingAssumption
  <2>2. Slot(sent) # Slot(k) /\ Slot(k) \in 0..(RingSize - 1)
    BY <1>7, <2>1, SlotDistinct, SlotInRange
  <2> QED
    BY <1>10, <2>2 DEF IInv, TypeOK, RingType
<1>13. idx_in_buf' = 0 /\ accepted' = accepted /\ buf_write_i' = buf_write_i
  BY DEF SendRest
<1>14. RingInv'
  <2>1. \A k \in sent'..(accepted' - 1) :
          bufs'[Slot(k)] \in Frames /\ bufs'[Slot(k)].seq = k + 1
    BY <1>7, <1>8, <1>12, <1>13 DEF IInv, RingInv
  <2>2. sent' < accepted' => idx_in_buf' < bufs'[Slot(sent')].len
    <3> HAVE sent' < accepted'
    <3>1. bufs'[Slot(sent')] \in Frames
      BY <1>7, <1>8, <1>13, <2>1
    <3>2. bufs'[Slot(sent')].len \in FrameLens
      BY <3>1 DEF Frames
    <3> QED
      BY <1>13, <3>2, LenPositive
  <2> QED
    BY <1>2, <1>7, <1>8, <1>13, <2>1, <2>2, RingAssumption DEF IInv, RingInv
<1>15. WireInv' /\ wire' \in [seq : Nat, pos : Nat, len : Nat]
  BY <1>2, <1>7, <1>8, <1>13 DEF SendRest, WireInv
<1>16. HistType' /\ CtxType' /\ QueueType'
  BY <1>7, <1>8, <1>15, SMTT(30)
  DEF SendRest, IInv, TypeOK, HistType, CtxType, QueueType
<1>17. FlagType'
  BY DEF SendRest, IInv, TypeOK, FlagType
<1>18. PushInv'
  BY PushUnchanged DEF SendRest, IInv
<1>19. BootInv'
  BY <1>1 DEF SendRest, IInv, BootInv, TaskAt, IdleTask
<1> QED
  BY <1>4, <1>5, <1>6, <1>11, <1>14, <1>15, <1>16, <1>17, <1>18, <1>19
  DEF IInv, TypeOK

(* Every step of the comm task preserves the invariant. *)
LEMMA TaskStepInv ==
  ASSUME NoWrap, IInv, TaskStep
  PROVE  IInv'
<1>0. /\ TaskType /\ QueueType /\ FlagType /\ FifoType /\ FifoInv
  BY DEF IInv, TypeOK
<1>1. boot = "running"
  BY DEF TaskStep, Dispatch, SendClearPending, SendReadFifo, SendPart, SendRest,
         SendLoopExit, SendEnd, RxRead, HandlerReturn, RxEmpty, IntEnaRead,
         IntEnaWrite, TaskAt, IInv, BootInv, IdleTask
<1>2. CASE Dispatch
  <2>1. QueueType'
    BY <1>0, <1>2, LoadAssumption DEF Dispatch, QueueType
  <2>2. PICK pc \in {"tx_start", "rx_loop"} : TaskGoto(pc)
    BY <1>2 DEF Dispatch
  <2>3. TaskType' /\ task'.pc = pc
    BY <1>0, <1>2, <2>2, TaskGotoType DEF Dispatch, TaskPcs
  <2>4. FifoType' /\ FlagType' /\ FifoInv'
    BY <1>0, <1>2, <2>3 DEF Dispatch, FifoType, FlagType, FifoInv, uart
  <2> QED
    BY <1>1, <1>2, <2>1, <2>3, <2>4, TaskQuiet DEF Dispatch
<1>3. CASE SendClearPending
  <2>1. TaskType' /\ task'.pc = "tx_fifo"
    BY <1>0, <1>3, TaskGotoType DEF SendClearPending, TaskPcs
  <2>2. FlagType'
    BY <1>0, <1>3 DEF SendClearPending, FlagType, uart
  <2>3. FifoType' /\ QueueType' /\ FifoInv'
    BY <1>0, <1>3, <2>1 DEF SendClearPending, FifoType, QueueType, FifoInv, uart
  <2> QED
    BY <1>1, <1>3, <2>1, <2>2, <2>3, TaskQuiet DEF SendClearPending
<1>4. CASE SendReadFifo
  <2>1. TaskType' /\ FifoInv'
    <3>1. CASE TaskGoto("ena_tx")
      BY <1>0, <1>4, <3>1, TaskGotoType DEF SendReadFifo, TaskPcs, FifoInv
    <3>2. CASE task' = [task EXCEPT !.pc = "tx_loop", !.free = FifoFree]
      <4>1. FifoFree \in 0..FifoSize /\ FifoFree + txfifo = FifoSize
        BY <1>0, UartAssumption DEF FifoFree, FifoType
      <4>2. boot' = boot /\ txfifo' = txfifo
        BY <1>4 DEF SendReadFifo, uart
      <4>3. TaskType' /\ task'.free = FifoFree
        BY <1>0, <3>2, <4>1, <4>2 DEF TaskType, TaskPcs
      <4>4. task'.free + txfifo' <= FifoSize
        BY <4>1, <4>2, <4>3, UartAssumption
      <4> QED
        BY <4>3, <4>4 DEF FifoInv
    <3> QED
      BY <1>4, <3>1, <3>2 DEF SendReadFifo
  <2>2. FifoType' /\ FlagType' /\ QueueType'
    BY <1>0, <1>4 DEF SendReadFifo, FifoType, FlagType, QueueType, uart
  <2> QED
    BY <1>1, <1>4, <2>1, <2>2, TaskQuiet DEF SendReadFifo
<1>5. CASE SendPart
  BY <1>5, SendPartInv
<1>6. CASE SendRest
  BY <1>6, SendRestInv
<1>7. CASE SendLoopExit
  <2>1. TaskType' /\ FifoInv'
    BY <1>0, <1>7 DEF SendLoopExit, TaskType, TaskPcs, FifoInv, TaskAt, uart
  <2>2. FifoType' /\ FlagType' /\ QueueType'
    BY <1>0, <1>7 DEF SendLoopExit, FifoType, FlagType, QueueType, uart
  <2> QED
    BY <1>1, <1>7, <2>1, <2>2, TaskQuiet DEF SendLoopExit
<1>8. CASE SendEnd
  <2>1. PICK pc \in {"ena_tx", "idle"} : TaskGoto(pc)
    BY <1>8 DEF SendEnd, SendEndPc
  <2>2. TaskType' /\ task'.pc = pc
    BY <1>0, <1>8, <2>1, TaskGotoType DEF SendEnd, TaskPcs
  <2>3. FifoType' /\ FlagType' /\ QueueType' /\ FifoInv'
    BY <1>0, <1>8, <2>2 DEF SendEnd, FifoType, FlagType, QueueType, FifoInv, uart
  <2> QED
    BY <1>1, <1>8, <2>2, <2>3, TaskQuiet DEF SendEnd
<1>9. CASE RxRead
  <2>1. TaskType' /\ task'.pc = "rx_handler"
    BY <1>0, <1>9, TaskGotoType DEF RxRead, TaskPcs
  <2>2. FifoType'
    BY <1>0, <1>9, UartAssumption DEF RxRead, FifoType, Min2
  <2>3. FlagType' /\ QueueType' /\ FifoInv'
    BY <1>0, <1>9, <2>1 DEF RxRead, FlagType, QueueType, FifoInv
  <2> QED
    BY <1>1, <1>9, <2>1, <2>2, <2>3, TaskQuiet DEF RxRead
<1>10. CASE HandlerReturn
  <2>1. TaskType' /\ task'.pc = "rx_loop"
    BY <1>0, <1>10, TaskGotoType DEF HandlerReturn, TaskPcs
  <2>2. FifoType' /\ FlagType' /\ QueueType' /\ FifoInv'
    BY <1>0, <1>10, <2>1
    DEF HandlerReturn, FifoType, FlagType, QueueType, FifoInv, uart
  <2> QED
    BY <1>1, <1>10, <2>1, <2>2, TaskQuiet DEF HandlerReturn
<1>11. CASE RxEmpty
  <2>1. TaskType' /\ task'.pc = "ena_rx"
    BY <1>0, <1>11, TaskGotoType DEF RxEmpty, TaskPcs
  <2>2. FifoType' /\ FlagType' /\ QueueType' /\ FifoInv'
    BY <1>0, <1>11, <2>1 DEF RxEmpty, FifoType, FlagType, QueueType, FifoInv, uart
  <2> QED
    BY <1>1, <1>11, <2>1, <2>2, TaskQuiet DEF RxEmpty
<1>12. CASE IntEnaRead
  <2>1. TaskType' /\ task'.pc \in {"set_tx", "set_rx"}
    BY <1>0, <1>12 DEF IntEnaRead, TaskType, TaskPcs, FlagType
  <2>2. FifoType' /\ FlagType' /\ QueueType' /\ FifoInv'
    BY <1>0, <1>12, <2>1
    DEF IntEnaRead, FifoType, FlagType, QueueType, FifoInv, uart
  <2> QED
    BY <1>1, <1>12, <2>1, <2>2, TaskQuiet DEF IntEnaRead
<1>13. CASE IntEnaWrite
  <2>1. task.reg \in IntBits
    BY <1>0 DEF TaskType
  <2>2. FlagType'
    BY <1>0, <1>13, <2>1 DEF IntEnaWrite, IntEnaSet, FlagType, IntBits
  <2>3. TaskType' /\ task'.pc = "idle"
    BY <1>0, <1>13, TaskGotoType DEF IntEnaWrite, TaskGoto, IdleTask, TaskPcs
  <2>4. FifoType' /\ QueueType' /\ FifoInv'
    BY <1>0, <1>13, <2>3 DEF IntEnaWrite, FifoType, QueueType, FifoInv
  <2> QED
    BY <1>1, <1>13, <2>2, <2>3, <2>4, TaskQuiet DEF IntEnaWrite
<1> QED
  BY <1>2, <1>3, <1>4, <1>5, <1>6, <1>7, <1>8, <1>9, <1>10, <1>11, <1>12, <1>13
  DEF TaskStep

-----------------------------------------------------------------------------
(* A step of the UART or of its interrupt handler: no context moves. *)
LEMMA UartQuiet ==
  ASSUME IInv, QueueType', FlagType', FifoType', FifoInv',
         UNCHANGED <<ring, task, ctx, dropped_packets, boot, hist>>
  PROVE  IInv'
<1>1. RingInv' /\ WireInv' /\ PushInv'
  BY RingUnchanged, PushUnchanged DEF IInv, hist
<1>2. RingType' /\ CtxType' /\ HistType' /\ BootInv' /\ TaskType'
  BY DEF IInv, TypeOK, RingType, CtxType, HistType, BootInv, TaskType, ring, hist
<1> QED
  BY <1>1, <1>2 DEF IInv, TypeOK

LEMMA UartStepInv ==
  ASSUME IInv, Interrupt \/ UartTxByte \/ UartRxByte
  PROVE  IInv'
<1>0. QueueType /\ FlagType /\ FifoType /\ FifoInv
  BY DEF IInv, TypeOK
<1>1. CASE Interrupt
  <2>1. QueueType'
    <3> DEFINE q == IF RxStatus THEN Post(comm_queue, "DO_RX") ELSE comm_queue
    <3>1. q \in Seq({"DO_RX", "DO_TX"}) /\ Len(q) <= QueueLen
      BY <1>0, PostType DEF QueueType
    <3>2. comm_queue' = q \/ comm_queue' = Post(q, "DO_TX")
      BY <1>1 DEF Interrupt
    <3> HIDE DEF q
    <3> QED
      BY <3>1, <3>2, LoadAssumption DEF QueueType, Post
  <2>2. FlagType'
    <3>1. IntEnaMasked \in IntBits
      BY DEF IntEnaMasked, IntBits
    <3>2. (tx_latch /\ ~TxStatus) \in BOOLEAN /\ (task_pending \/ TxStatus) \in BOOLEAN
      OBVIOUS
    <3> QED
      BY <1>1, <3>1, <3>2 DEF Interrupt, FlagType
  <2>3. FifoType' /\ FifoInv'
    BY <1>0, <1>1 DEF Interrupt, FifoType, FifoInv
  <2> QED
    BY <1>1, <2>1, <2>2, <2>3, UartQuiet DEF Interrupt
<1>2. CASE UartTxByte
  <2>1. FifoType'
    BY <1>0, <1>2, UartAssumption DEF UartTxByte, FifoType
  <2>2. FifoInv'
    <3>1. txfifo' = txfifo - 1 /\ task' = task /\ task.free \in Nat /\ txfifo \in Nat
      BY <1>0, <1>2, UartAssumption DEF UartTxByte, FifoType, IInv, TypeOK, TaskType
    <3> QED
      BY <1>0, <3>1, UartAssumption DEF FifoInv
  <2>3. FlagType'
    BY <1>0, <1>2 DEF UartTxByte, FlagType
  <2>4. QueueType'
    BY <1>0, <1>2 DEF UartTxByte, QueueType
  <2> QED
    BY <1>2, <2>1, <2>2, <2>3, <2>4, UartQuiet DEF UartTxByte
<1>3. CASE UartRxByte
  <2>1. FifoType'
    BY <1>0, <1>3, UartAssumption, LoadAssumption DEF UartRxByte, FifoType
  <2>2. QueueType' /\ FlagType' /\ FifoInv'
    BY <1>0, <1>3 DEF UartRxByte, QueueType, FlagType, FifoInv
  <2> QED
    BY <1>3, <2>1, <2>2, UartQuiet DEF UartRxByte
<1> QED
  BY <1>1, <1>2, <1>3

(* Every step preserves the invariant. *)
LEMMA NextInv ==
  ASSUME NoWrap, IInv, [Next]_vars
  PROVE  IInv'
<1>1. CASE BootStep
  BY <1>1, BootStepInv
<1>2. CASE TaskStep
  BY <1>2, TaskStepInv
<1>3. CASE HandlerSend
  <2>1. PICK len \in FrameLens : PushStart(Main, "high", len)
    BY <1>3 DEF HandlerSend
  <2>2. boot = "running" /\ boot' = boot
    BY <1>3 DEF HandlerSend, IInv, BootInv, IdleTask
  <2> QED
    BY <2>1, <2>2, PushStartInv DEF Contexts, Prios
<1>4. CASE \E c \in Contexts : PushStep(c)
  BY <1>4, PushStepInv
<1>5. CASE \E c \in Tasks : TaskSend(c)
  <2>1. PICK c \in Tasks, prio \in Prios, len \in FrameLens :
          PushStart(c, prio, len) /\ boot = "running" /\ boot' = boot
    BY <1>5, PrioAssumption DEF TaskSend
  <2> QED
    BY <2>1, PushStartInv DEF Contexts
<1>6. CASE Interrupt \/ UartTxByte \/ UartRxByte
  BY <1>6, UartStepInv
<1>7. CASE UNCHANGED vars
  <2>1. RingInv' /\ WireInv' /\ PushInv'
    BY <1>7, RingUnchanged, PushUnchanged DEF IInv, vars, hist
  <2>2. TypeOK' /\ BootInv' /\ FifoInv'
    BY <1>7 DEF IInv, vars, ring, hist, uart, TypeOK, RingType, QueueType, CtxType,
                TaskType, FifoType, FlagType, HistType, BootInv, FifoInv
  <2> QED
    BY <2>1, <2>2 DEF IInv
<1> QED
  BY <1>1, <1>2, <1>3, <1>4, <1>5, <1>6, <1>7 DEF Next

(* The inductive invariant holds in every reachable state. *)
THEOREM Invariance ==
  ASSUME NoWrap
  PROVE  Spec => []IInv
<1>1. Init => IInv
  BY InitInv
<1>2. IInv /\ [Next]_vars => IInv'
  BY NextInv
<1> QED
  BY <1>1, <1>2, PTL DEF Spec

(* TypeOK, for every ring size, FIFO size, queue length, set of senders and
   set of frame lengths: transmitter_send never writes past the room it read,
   and the indices stay within their width. *)
THEOREM TypeCorrect ==
  ASSUME NoWrap
  PROVE  Spec => []TypeOK
<1>1. IInv => TypeOK
  BY DEF IInv
<1> QED
  BY <1>1, Invariance, PTL

(* The ring of comm.c is never overrun before the write index wraps, however
   the senders, the comm task and the interrupt interleave. *)
THEOREM NoOverrun ==
  ASSUME NoWrap
  PROVE  Spec => []RingNeverOverrun
<1>1. IInv => RingNeverOverrun
  BY DEF IInv, RingInv, RingNeverOverrun
<1> QED
  BY <1>1, Invariance, PTL

-----------------------------------------------------------------------------
(* Only the two turns of transmitter_send hand bytes over. *)
LEMMA WireUnchanged ==
  ASSUME [Next]_vars, ~SendPart, ~SendRest
  PROVE  wire' = wire
<1>1. CASE BootStep
  BY <1>1 DEF BootStep, BootUart, BootCommTask, BootEof, BootRxEnable, BootSend,
              BootDone, PushStart, hist
<1>2. CASE TaskStep
  BY <1>2 DEF TaskStep, Dispatch, SendClearPending, SendReadFifo, SendLoopExit,
              SendEnd, RxRead, HandlerReturn, RxEmpty, IntEnaRead, IntEnaWrite, hist
<1>3. CASE HandlerSend
  BY <1>3 DEF HandlerSend, PushStart
<1>4. CASE \E c \in Contexts : PushStep(c)
  BY <1>4 DEF PushStep, Precheck, Encode, EnqueueFull, EnqueueStore, Wake,
              WakeLocked, DropLoad, DropStore, hist
<1>5. CASE \E c \in Tasks : TaskSend(c)
  BY <1>5 DEF TaskSend, PushStart
<1>6. CASE Interrupt \/ UartTxByte \/ UartRxByte
  BY <1>6 DEF Interrupt, UartTxByte, UartRxByte, hist
<1>7. CASE UNCHANGED vars
  BY <1>7 DEF vars, hist
<1> QED
  BY <1>1, <1>2, <1>3, <1>4, <1>5, <1>6, <1>7 DEF Next

(* Frames leave in the order of acceptance, whole, none twice and none
   skipped, as long as the write index has not wrapped. *)
THEOREM InOrder ==
  ASSUME NoWrap
  PROVE  Spec => WireInOrder
<1> DEFINE A ==
      \/ /\ wire'.seq = wire.seq /\ wire'.len = wire.len
         /\ wire.pos < wire'.pos /\ wire'.pos <= wire.len
      \/ /\ wire.pos = wire.len
         /\ wire'.seq = wire.seq + 1
         /\ 0 < wire'.pos /\ wire'.pos <= wire'.len
<1>1. IInv /\ [Next]_vars => [A]_wire
  <2> SUFFICES ASSUME IInv, SendPart \/ SendRest PROVE A
    BY WireUnchanged
  <2>1. /\ TaskAt("tx_loop") /\ task.free > 0 /\ buf_read_i # buf_write_i
    BY DEF SendPart, SendRest
  <2>2. /\ Oldest = bufs[Slot(sent)] /\ Oldest.seq = sent + 1 /\ Oldest.len \in Nat
        /\ Turn \in 1..task.free /\ idx_in_buf + Turn <= Oldest.len
        /\ idx_in_buf \in Nat /\ task.free \in Nat
    BY <2>1, TurnBounds, UartAssumption DEF IInv, TypeOK, RingType, TaskType
  <2>3. wire' = [seq |-> sent + 1, pos |-> idx_in_buf + Turn, len |-> Oldest.len]
    BY <2>2 DEF SendPart, SendRest
  <2>4. CASE idx_in_buf = 0
    BY <2>2, <2>3, <2>4 DEF IInv, WireInv
  <2>5. CASE idx_in_buf > 0
    BY <2>2, <2>3, <2>5 DEF IInv, WireInv
  <2> QED
    BY <2>2, <2>4, <2>5
<1> QED
  BY <1>1, Invariance, PTL DEF Spec, WireInOrder

-----------------------------------------------------------------------------
(* While uart0_*_intr_enable is between its read and its write, the copy of
   UART_INT_ENA it holds has the TX bit if the register has it. *)
CopyInv == task.pc \in {"set_tx", "set_rx"} /\ int_ena.tx => task.reg.tx

(* No wake-up is lost, whatever the interleaving: while a frame waits in the
   ring, transmitter_send will look again. *)
THEOREM NoLostWakeUp ==
  ASSUME NoWrap
  PROVE  Spec => []NoStrandedFrame
<1> DEFINE J == NoStrandedFrame /\ CopyInv
<1>1. Init => J
  BY DEF Init, NoStrandedFrame, CopyInv, IdleTask
<1>2. IInv /\ J /\ [Next]_vars => J'
  <2> SUFFICES ASSUME IInv, J, [Next]_vars PROVE J'
    OBVIOUS
  <2>0. TypeOK /\ BootInv /\ RingInv
    BY DEF IInv
  <2>1. CASE BootStep
    <3>1. task = IdleTask /\ task' = task
      BY <2>0, <2>1 DEF BootStep, BootUart, BootCommTask, BootEof, BootRxEnable,
                        BootSend, BootDone, PushStart, BootInv
    <3>2. CASE BootCommTask
      BY <3>1, <3>2 DEF BootCommTask, NoStrandedFrame, CopyInv, IdleTask
    <3>3. CASE BootSend
      BY <3>1, <3>3 DEF BootSend, PushStart, NoStrandedFrame, CopyInv, IdleTask, At,
                        ring, uart
    <3>4. CASE BootUart \/ BootEof \/ BootRxEnable \/ BootDone
      BY <2>0, <3>1, <3>4
      DEF BootUart, UartConfig, BootEof, BootRxEnable, BootDone, NoStrandedFrame,
          CopyInv, IdleTask, ring, uart, TypeOK, FlagType, IntBits
    <3> QED
      BY <2>1, <3>2, <3>3, <3>4 DEF BootStep
  <2>2. CASE HandlerSend \/ \E c \in Tasks : TaskSend(c)
    <3>1. PICK c \in Contexts, prio \in Prios, len \in FrameLens :
            PushStart(c, prio, len)
      BY <2>2, PrioAssumption DEF HandlerSend, TaskSend, Contexts, Prios
    <3> QED
      BY <2>0, <3>1
      DEF PushStart, NoStrandedFrame, CopyInv, At, ring, uart, TypeOK, CtxType
  <2>3. CASE \E c \in Contexts : PushStep(c)
    <3>1. PICK c \in Contexts : PushStep(c)
      BY <2>3
    <3>2. task' = task /\ int_ena' = int_ena
      BY <3>1 DEF PushStep, Precheck, Encode, EnqueueFull, EnqueueStore, Wake,
                  WakeLocked, DropLoad, DropStore, uart
    <3>3. CtxType
      BY <2>0 DEF TypeOK
    <3>4. CASE EnqueueStore(c)
      <4>1. ctx'[c].pc = "wake"
        BY <3>3, <3>4, GotoType DEF EnqueueStore, PushPcs
      <4> QED
        BY <3>2, <4>1 DEF NoStrandedFrame, CopyInv
    <3>5. CASE WakeLocked(c)
      BY <3>2, <3>5 DEF WakeLocked, NoStrandedFrame, CopyInv
    <3>6. CASE Wake(c)
      <4>1. UNCHANGED <<ring, task_pending>>
        BY <3>6 DEF Wake
      <4>2. task_pending \/ ctx'[c].pc = "post"
        BY <3>3, <3>6, GotoType DEF Wake, PushPcs
      <4> QED
        BY <3>2, <4>1, <4>2 DEF NoStrandedFrame, CopyInv
    <3>7. CASE Precheck(c) \/ Encode(c) \/ EnqueueFull(c) \/ DropLoad(c) \/ DropStore(c)
      <4>1. UNCHANGED <<ring, task_pending>> /\ ctx[c].pc \notin {"wake", "post"}
        BY <3>7 DEF Precheck, Encode, EnqueueFull, DropLoad, DropStore, At
      <4>2. \A d \in Contexts \ {c} : ctx'[d] = ctx[d]
        BY <3>3, <3>7
        DEF Precheck, Encode, EnqueueFull, DropLoad, DropStore, Goto, Return, CtxType
      <4> QED
        BY <3>2, <4>1, <4>2 DEF NoStrandedFrame, CopyInv, ring
    <3> QED
      BY <3>1, <3>4, <3>5, <3>6, <3>7 DEF PushStep
  <2>4. CASE TaskStep
    <3>1. CASE Dispatch
      BY <3>1 DEF Dispatch, TaskAt, TaskGoto, IdleTask, NoStrandedFrame, CopyInv,
                  ring, uart
    <3>2. CASE SendClearPending
      BY <3>2 DEF SendClearPending, TaskGoto, IdleTask, NoStrandedFrame, CopyInv
    <3>3. CASE SendReadFifo
      <4>1. task'.pc \in {"ena_tx", "tx_loop"}
        BY <2>0, <3>3 DEF SendReadFifo, TaskGoto, IdleTask, TypeOK, TaskType
      <4> QED
        BY <4>1 DEF NoStrandedFrame, CopyInv
    <3>4. CASE SendPart
      <4>1. Turn = task.free /\ task.free \in Nat
        BY <2>0, <3>4, TurnBounds, UartAssumption DEF SendPart, TypeOK, TaskType
      <4>2. task'.pc = "tx_end" /\ task'.free = 0
        BY <2>0, <3>4, <4>1 DEF SendPart, TypeOK, TaskType
      <4> QED
        BY <4>2 DEF NoStrandedFrame, CopyInv
    <3>5. CASE SendRest
      <4>1. task'.pc = "tx_loop"
        BY <2>0, <3>5 DEF SendRest, TaskAt, TypeOK, TaskType
      <4> QED
        BY <4>1 DEF NoStrandedFrame, CopyInv
    <3>6. CASE SendLoopExit
      <4>1. task'.pc = "tx_end" /\ task'.free = task.free
        BY <2>0, <3>6 DEF SendLoopExit, TypeOK, TaskType
      <4> QED
        BY <3>6, <4>1 DEF SendLoopExit, NoStrandedFrame, CopyInv, ring
    <3>7. CASE SendEnd
      BY <3>7 DEF SendEnd, SendEndPc, TaskAt, TaskGoto, IdleTask, NoStrandedFrame, CopyInv,
                  ring, uart
    <3>8. CASE RxRead \/ HandlerReturn \/ RxEmpty
      BY <3>8 DEF RxRead, HandlerReturn, RxEmpty, TaskAt, TaskGoto, IdleTask,
                  NoStrandedFrame, CopyInv, ring, uart
    <3>9. CASE IntEnaRead
      <4>1. /\ task'.pc = IF task.pc = "ena_tx" THEN "set_tx" ELSE "set_rx"
            /\ task'.reg = int_ena
        BY <2>0, <3>9 DEF IntEnaRead, TypeOK, TaskType
      <4> QED
        BY <3>9, <4>1 DEF IntEnaRead, NoStrandedFrame, CopyInv, ring, uart
    <3>10. CASE IntEnaWrite
      <4>1. task.reg \in IntBits
        BY <2>0 DEF TypeOK, TaskType
      <4>2. /\ int_ena.tx => int_ena'.tx
            /\ task.pc = "set_tx" => int_ena'.tx
        BY <3>10, <4>1 DEF IntEnaWrite, IntEnaSet, CopyInv, IntBits
      <4> QED
        BY <3>10, <4>2 DEF IntEnaWrite, IdleTask, NoStrandedFrame, CopyInv, ring
    <3> QED
      BY <2>4, <3>1, <3>2, <3>3, <3>4, <3>5, <3>6, <3>7, <3>8, <3>9, <3>10
      DEF TaskStep
  <2>5. CASE Interrupt
    BY <2>5 DEF Interrupt, IntEnaMasked, NoStrandedFrame, CopyInv, ring
  <2>6. CASE UartTxByte \/ UartRxByte \/ UNCHANGED vars
    BY <2>6 DEF UartTxByte, UartRxByte, vars, ring, uart, NoStrandedFrame, CopyInv
  <2> QED
    BY <2>1, <2>2, <2>3, <2>4, <2>5, <2>6 DEF Next
<1> QED
  BY <1>1, <1>2, Invariance, PTL DEF Spec

-----------------------------------------------------------------------------
(***************************************************************************)
(* The ring is a FrameQueue.                                               *)
(***************************************************************************)

(* The slots from the read index to the write index are a sequence of frames. *)
ContentsOK ==
  /\ accepted \in Nat /\ sent \in Nat /\ accepted - sent \in Nat
  /\ RingContents \in Seq(Frames)
  /\ Len(RingContents) = accepted - sent
  /\ \A k \in 1..(accepted - sent) : RingContents[k] = bufs[Slot(sent + k - 1)]

LEMMA ContentsType == IInv => ContentsOK
<1> SUFFICES ASSUME IInv PROVE ContentsOK
  OBVIOUS
<1>1. /\ accepted \in Nat /\ sent \in Nat /\ sent <= accepted
      /\ buf_read_i = sent
  BY DEF IInv, TypeOK, HistType, RingInv
<1>2. accepted - sent \in Nat
  BY <1>1
<1>3. \A k \in 1..(accepted - sent) : bufs[Slot(sent + k - 1)] \in Frames
  <2> TAKE k \in 1..(accepted - sent)
  <2>1. sent + k - 1 \in sent..(accepted - 1)
    BY <1>1, <1>2
  <2> QED
    BY <2>1 DEF IInv, RingInv
<1>4. RingContents = [k \in 1..(accepted - sent) |-> bufs[Slot(sent + k - 1)]]
  BY <1>1 DEF RingContents
<1>5. RingContents \in Seq(Frames)
  BY <1>2, <1>3, <1>4
<1>6. Len(RingContents) = accepted - sent
  BY <1>2, <1>4
<1> QED
  BY <1>1, <1>2, <1>4, <1>5, <1>6 DEF ContentsOK

(* A step that leaves the ring alone leaves the queue alone. *)
LEMMA ContentsUnchanged ==
  ASSUME UNCHANGED <<bufs, buf_read_i, idx_in_buf, accepted, sent>>
  PROVE  UNCHANGED FQ!fqvars
BY DEF FQ!fqvars, RingContents

(* transmitter_init only runs before anything was accepted. *)
LEMMA BootCommTaskContents ==
  ASSUME IInv, BootCommTask
  PROVE  UNCHANGED FQ!fqvars
<1>1. accepted = 0 /\ sent = 0 /\ buf_read_i = 0 /\ idx_in_buf = 0
  BY DEF IInv, BootInv, RingInv, BootCommTask
<1> QED
  BY <1>1 DEF BootCommTask, hist, FQ!fqvars, RingContents

(* The locked region of transmitter_push is FrameQueue's Accept. *)
LEMMA EnqueueStoreAccepts ==
  ASSUME IInv, IInv', NEW c \in Contexts, EnqueueStore(c)
  PROVE  FQ!Accept
<1> DEFINE f == [seq |-> accepted + 1, len |-> ctx[c].len, prio |-> ctx[c].prio]
           n == accepted - sent
<1>1. /\ accepted' = accepted + 1 /\ sent' = sent /\ idx_in_buf' = idx_in_buf
      /\ bufs' = [bufs EXCEPT ![Slot(accepted)] = f]
      /\ accepted - sent # RingSize /\ accepted - sent <= RingSize
  BY DEF EnqueueStore, WriteSlot, RingFull, IInv, RingInv
<1>2. /\ accepted \in Nat /\ sent \in Nat /\ n \in Nat
      /\ RingContents \in Seq(Frames) /\ Len(RingContents) = n
      /\ \A k \in 1..n : RingContents[k] = bufs[Slot(sent + k - 1)]
  BY ContentsType DEF ContentsOK
<1>3. /\ RingContents' \in Seq(Frames) /\ Len(RingContents') = n + 1
      /\ \A k \in 1..(n + 1) : RingContents'[k] = bufs'[Slot(sent + k - 1)]
  <2>1. ContentsOK'
    BY ContentsType, PTL
  <2>2. accepted' - sent' = n + 1
    BY <1>1, <1>2
  <2> QED
    BY <1>1, <2>1, <2>2 DEF ContentsOK
<1>4. f \in Frames
  BY <1>2 DEF EnqueueStore, At, IInv, PushInv, TypeOK, CtxType, Frames
<1>5. bufs \in [0..(RingSize - 1) -> Frames \cup {NoFrame}]
  BY DEF IInv, TypeOK, RingType
<1>6. /\ Append(RingContents, f) \in Seq(Frames)
      /\ Len(Append(RingContents, f)) = n + 1
      /\ \A k \in 1..n : Append(RingContents, f)[k] = RingContents[k]
      /\ Append(RingContents, f)[n + 1] = f
  BY <1>2, <1>4, AppendProperties
<1>7. ASSUME NEW k \in 1..(n + 1)
      PROVE  RingContents'[k] = Append(RingContents, f)[k]
  <2>1. CASE k = n + 1
    <3>1. sent + k - 1 = accepted
      BY <1>2, <2>1
    <3>2. bufs'[Slot(accepted)] = f
      BY <1>1, <1>2, <1>5, SlotInRange
    <3> QED
      BY <1>3, <1>6, <2>1, <3>1, <3>2
  <2>2. CASE k \in 1..n
    <3>1. /\ sent + k - 1 \in Nat /\ sent + k - 1 < accepted
          /\ accepted - (sent + k - 1) < RingSize
      BY <1>1, <1>2, <2>2, RingAssumption
    <3>2. Slot(sent + k - 1) # Slot(accepted)
      BY <1>2, <3>1, SlotDistinct
    <3>3. bufs'[Slot(sent + k - 1)] = bufs[Slot(sent + k - 1)]
      BY <1>1, <1>5, <3>1, <3>2, SlotInRange
    <3> QED
      BY <1>2, <1>3, <1>6, <2>2, <3>3
  <2> QED
    BY <1>2, <2>1, <2>2
<1>8. RingContents' = Append(RingContents, f)
  BY <1>3, <1>6, <1>7, SeqEqual
<1>9. f = [seq |-> sent + Len(RingContents) + 1, len |-> ctx[c].len,
           prio |-> ctx[c].prio]
  BY <1>2
<1>10. [len |-> ctx[c].len, prio |-> ctx[c].prio] \in [len : FrameLens, prio : Prios]
  BY DEF EnqueueStore, At, IInv, PushInv, TypeOK, CtxType
<1>11. Len(RingContents) < RingSize
  BY <1>1, <1>2, RingAssumption
<1> HIDE DEF f, n
<1> QED
  BY <1>1, <1>8, <1>9, <1>10, <1>11 DEF FQ!Accept

(* A turn that leaves the oldest frame unfinished is FrameQueue's Advance. *)
LEMMA SendPartAdvances ==
  ASSUME IInv, SendPart
  PROVE  FQ!Advance
<1>1. /\ TaskAt("tx_loop") /\ task.free > 0 /\ buf_read_i # buf_write_i
      /\ idx_in_buf + Turn # Oldest.len
  BY DEF SendPart
<1>2. /\ sent < accepted /\ Oldest = bufs[Slot(sent)] /\ Oldest.len \in Nat
      /\ Turn \in 1..task.free /\ idx_in_buf + Turn <= Oldest.len
  BY <1>1, TurnBounds
<1>3. task.free \in Nat /\ idx_in_buf \in Nat
  BY UartAssumption DEF IInv, TypeOK, TaskType, RingType
<1>4. /\ RingContents # <<>> /\ Head(RingContents) = Oldest
  <2>1. ContentsOK
    BY ContentsType
  <2>2. 1 \in 1..(accepted - sent) /\ sent + 1 - 1 = sent
    BY <1>2, <2>1 DEF ContentsOK
  <2> QED
    BY <1>2, <2>1, <2>2 DEF ContentsOK
<1>5. idx_in_buf' \in (idx_in_buf + 1)..(Oldest.len - 1)
  BY <1>1, <1>2, <1>3 DEF SendPart
<1>6. UNCHANGED <<RingContents, sent>>
  BY DEF SendPart, RingContents
<1> QED
  BY <1>4, <1>5, <1>6 DEF FQ!Advance

(* A turn that ends the oldest frame is FrameQueue's Finish. *)
LEMMA SendRestFinishes ==
  ASSUME IInv, IInv', SendRest
  PROVE  FQ!Finish
<1> DEFINE n == accepted - sent
<1>1. /\ TaskAt("tx_loop") /\ task.free > 0 /\ buf_read_i # buf_write_i
      /\ sent' = sent + 1 /\ accepted' = accepted /\ idx_in_buf' = 0
      /\ bufs' = [bufs EXCEPT ![Slot(sent)] = NoFrame]
  BY DEF SendRest, IInv, RingInv
<1>2. sent < accepted
  BY <1>1, TurnBounds
<1>3. /\ accepted \in Nat /\ sent \in Nat /\ n \in Nat \ {0}
      /\ RingContents \in Seq(Frames) /\ Len(RingContents) = n
      /\ \A k \in 1..n : RingContents[k] = bufs[Slot(sent + k - 1)]
  BY <1>2, ContentsType DEF ContentsOK
<1>4. /\ RingContents' \in Seq(Frames) /\ Len(RingContents') = n - 1
      /\ \A k \in 1..(n - 1) : RingContents'[k] = bufs'[Slot(sent + k)]
  <2>1. ContentsOK'
    BY ContentsType, PTL
  <2>2. accepted' - sent' = n - 1 /\ \A k \in 1..(n - 1) : sent' + k - 1 = sent + k
    BY <1>1, <1>3
  <2> QED
    BY <2>1, <2>2 DEF ContentsOK
<1>5. RingContents # <<>>
  BY <1>3
<1>6. /\ Tail(RingContents) \in Seq(Frames) /\ Len(Tail(RingContents)) = n - 1
      /\ \A k \in 1..(n - 1) : Tail(RingContents)[k] = RingContents[k + 1]
  BY <1>3, <1>5, HeadTailProperties
<1>7. ASSUME NEW k \in 1..(n - 1)
      PROVE  RingContents'[k] = Tail(RingContents)[k]
  <2>1. n <= RingSize
    BY DEF IInv, RingInv
  <2>2. /\ sent + k \in Nat /\ sent < sent + k /\ (sent + k) - sent < RingSize
        /\ k + 1 \in 1..n /\ sent + (k + 1) - 1 = sent + k
    BY <1>3, <2>1, RingAssumption
  <2>3. Slot(sent + k) # Slot(sent) /\ Slot(sent + k) \in 0..(RingSize - 1)
    BY <1>3, <2>2, SlotDistinct, SlotInRange
  <2>4. bufs'[Slot(sent + k)] = bufs[Slot(sent + k)]
    BY <1>1, <2>3 DEF IInv, TypeOK, RingType
  <2> QED
    BY <1>3, <1>4, <1>6, <2>2, <2>4
<1>8. RingContents' = Tail(RingContents)
  BY <1>4, <1>6, <1>7, SeqEqual
<1> QED
  BY <1>1, <1>5, <1>8 DEF FQ!Finish

(* Every other step stutters. *)
LEMMA OthersStutter ==
  ASSUME IInv, [Next]_vars, ~SendPart, ~SendRest,
         \A c \in Contexts : ~EnqueueStore(c)
  PROVE  UNCHANGED FQ!fqvars
<1>1. CASE BootCommTask
  BY <1>1, BootCommTaskContents
<1>2. CASE BootStep /\ ~BootCommTask
  BY <1>2, ContentsUnchanged
  DEF BootStep, BootUart, BootEof, BootRxEnable, BootSend, BootDone, PushStart,
      ring, hist
<1>3. CASE TaskStep
  BY <1>3, ContentsUnchanged
  DEF TaskStep, Dispatch, SendClearPending, SendReadFifo, SendLoopExit, SendEnd,
      RxRead, HandlerReturn, RxEmpty, IntEnaRead, IntEnaWrite, ring, hist
<1>4. CASE HandlerSend \/ \E c \in Tasks : TaskSend(c)
  BY <1>4, ContentsUnchanged DEF HandlerSend, TaskSend, PushStart, ring
<1>5. CASE \E c \in Contexts : PushStep(c)
  <2>1. PICK c \in Contexts : PushStep(c) /\ ~EnqueueStore(c)
    BY <1>5
  <2> QED
    BY <2>1, ContentsUnchanged
    DEF PushStep, Precheck, Encode, EnqueueFull, Wake, WakeLocked, DropLoad,
        DropStore, ring, hist
<1>6. CASE Interrupt \/ UartTxByte \/ UartRxByte
  BY <1>6, ContentsUnchanged DEF Interrupt, UartTxByte, UartRxByte, ring, hist
<1>7. CASE UNCHANGED vars
  BY <1>7, ContentsUnchanged DEF vars, ring, hist
<1> QED
  BY <1>1, <1>2, <1>3, <1>4, <1>5, <1>6, <1>7 DEF Next

(* Before the write index wraps, the transmitter implements the bounded FIFO:
   a frame once accepted leaves whole, in its turn and exactly once, although
   the senders, the comm task and the interrupt share the ring and only parts
   of the code hold a lock. *)
THEOREM RingIsFrameQueue ==
  ASSUME NoWrap
  PROVE  Spec => ImplementsFrameQueue
<1>1. Init => FQ!Init
  BY DEF Init, FQ!Init, RingContents
<1>2. IInv /\ IInv' /\ [Next]_vars => [FQ!Next]_(FQ!fqvars)
  <2> SUFFICES ASSUME IInv, IInv', [Next]_vars PROVE [FQ!Next]_(FQ!fqvars)
    OBVIOUS
  <2>1. CASE SendPart
    BY <2>1, SendPartAdvances DEF FQ!Next
  <2>2. CASE SendRest
    BY <2>2, SendRestFinishes DEF FQ!Next
  <2>3. CASE \E c \in Contexts : EnqueueStore(c)
    BY <2>3, EnqueueStoreAccepts DEF FQ!Next
  <2> QED
    BY <2>1, <2>2, <2>3, OthersStutter
<1> QED
  BY <1>1, <1>2, Invariance, PTL DEF Spec, ImplementsFrameQueue, FQ!Spec

-----------------------------------------------------------------------------
(***************************************************************************)
(* What transmitter_push takes it gives back or counts.                    *)
(***************************************************************************)

(* Nothing was dropped before transmitter_init resets the counter, and a
   context that loaded the counter did so before one drop it has seen. *)
DropInv ==
  /\ DropCounter
  /\ boot \in {"reset", "uart"} => drops = 0
  /\ \A c \in Contexts : At(c, "count") => ctx[c].reg < drops

(* Only the other contexts send below high priority, and the write index a
   precheck has read is not ahead of the ring. *)
PrioInv ==
  /\ ctx[Main].prio = "high"
  /\ \A c \in Contexts : At(c, "precheck") => ctx[c].reg <= accepted

(* Of the frames with a priority in S, those numbered s and later, and the
   contexts that may still queue one of them: a context that has passed the
   precheck, or that will, because it read the write index before frame s
   was queued. *)
Held(S, s) == {k \in s..accepted : bufs[Slot(k - 1)].prio \in S}
Coming(S, s) ==
  {c \in Tasks : /\ ctx[c].prio \in S
                 /\ \/ ctx[c].pc \in {"encode", "enqueue"}
                    \/ ctx[c].pc = "precheck" /\ ctx[c].reg < s}

(* Behind the T slots that such frames may fill there are at most as many of
   them as there are contexts, wherever one starts to count. *)
ReserveInv(S, T) ==
  \A s \in (sent + T + 1)..(accepted + 1) :
    Cardinality(Held(S, s)) + Cardinality(Coming(S, s)) <= Cardinality(Tasks)

AccountInv ==
  /\ HeapBalanced /\ DropInv /\ PrioInv
  /\ ReserveInv({"low"}, RingSize - LowFree)
  /\ ReserveInv({"low", "medium"}, RingSize - MediumFree)

(* A set S of priorities that must leave all but T slots free. *)
ReserveOf(S, T) ==
  /\ T \in Nat /\ S \subseteq {"low", "medium"}
  /\ \A p \in S : RingSize - T <= SlotsNeeded(p)

LEMMA Reserves ==
  /\ ReserveOf({"low"}, RingSize - LowFree)
  /\ ReserveOf({"low", "medium"}, RingSize - MediumFree)
BY PrioAssumption, RingAssumption DEF ReserveOf, SlotsNeeded

LEMMA ComingFinite ==
  ASSUME NEW S, NEW s
  PROVE  /\ IsFiniteSet(Coming(S, s)) /\ Cardinality(Coming(S, s)) \in Nat
         /\ Cardinality(Coming(S, s)) <= Cardinality(Tasks)
         /\ Cardinality(Tasks) \in Nat
<1>1. Coming(S, s) \in SUBSET Tasks
  BY DEF Coming
<1> QED
  BY <1>1, SenderAssumption, FS_Subset, FS_CardinalityType

LEMMA HeldFinite ==
  ASSUME NEW S, NEW s \in Int, accepted \in Nat
  PROVE  IsFiniteSet(Held(S, s)) /\ Cardinality(Held(S, s)) \in Nat
<1>1. Held(S, s) \in SUBSET (s..accepted)
  BY DEF Held
<1>2. IsFiniteSet(s..accepted)
  BY FS_Interval
<1> QED
  BY <1>1, <1>2, FS_Subset, FS_CardinalityType

(* Steps that queue nothing: the reserve holds if no context joins those that
   may still queue a frame beyond it. *)
LEMMA ReserveStep ==
  ASSUME NEW S, NEW T \in Nat, ReserveInv(S, T),
         accepted \in Nat, sent \in Nat, NEW r \in Nat, sent <= r,
         accepted' = accepted,
         \A s \in (r + T + 1)..accepted :
           /\ Held(S, s)' \subseteq Held(S, s)
           /\ Coming(S, s)' \subseteq Coming(S, s)
  PROVE  \A s \in (r + T + 1)..(accepted + 1) :
           Cardinality(Held(S, s)') + Cardinality(Coming(S, s)') <= Cardinality(Tasks)
<1> TAKE s \in (r + T + 1)..(accepted + 1)
<1>1. CASE s = accepted + 1
  <2>1. Held(S, s)' = {}
    BY <1>1 DEF Held
  <2>2. Coming(S, s)' \in SUBSET Tasks
    BY DEF Coming
  <2>3. /\ Cardinality(Coming(S, s)') <= Cardinality(Tasks)
        /\ Cardinality(Coming(S, s)') \in Nat /\ Cardinality(Tasks) \in Nat
    BY <2>2, SenderAssumption, FS_Subset, FS_CardinalityType
  <2> QED
    BY <2>1, <2>3, FS_EmptySet
<1>2. CASE s \in (r + T + 1)..accepted
  <2>1. Cardinality(Held(S, s)) + Cardinality(Coming(S, s)) <= Cardinality(Tasks)
    <3>1. s \in (sent + T + 1)..(accepted + 1)
      BY <1>2
    <3> QED
      BY <3>1 DEF ReserveInv
  <2>2. /\ IsFiniteSet(Held(S, s)) /\ Cardinality(Held(S, s)) \in Nat
        /\ IsFiniteSet(Coming(S, s)) /\ Cardinality(Coming(S, s)) \in Nat
        /\ Cardinality(Tasks) \in Nat
    BY HeldFinite, ComingFinite
  <2>3. /\ Cardinality(Held(S, s)') <= Cardinality(Held(S, s))
        /\ Cardinality(Held(S, s)') \in Nat
    BY <1>2, <2>2, FS_Subset, FS_CardinalityType
  <2>4. /\ Cardinality(Coming(S, s)') <= Cardinality(Coming(S, s))
        /\ Cardinality(Coming(S, s)') \in Nat
    BY <1>2, <2>2, FS_Subset, FS_CardinalityType
  <2> QED
    BY <2>1, <2>2, <2>3, <2>4
<1> QED
  BY <1>1, <1>2

(* A context that starts has read the write index after all frames there are. *)
LEMMA ReserveStart ==
  ASSUME IInv, NEW S, NEW T, ReserveOf(S, T), ReserveInv(S, T),
         NEW c \in Contexts, NEW prio \in Prios, NEW len \in FrameLens,
         PushStart(c, prio, len)
  PROVE  ReserveInv(S, T)'
<1>1. /\ accepted \in Nat /\ sent \in Nat /\ accepted' = accepted /\ sent' = sent
      /\ T \in Nat /\ bufs' = bufs /\ buf_write_i = accepted
      /\ ctx \in [Contexts -> [pc : PushPcs, reg : Nat, len : FrameLens \cup {0},
                               prio : Prios]]
  BY DEF IInv, TypeOK, HistType, CtxType, RingInv, PushStart, ring, ReserveOf
<1>2. ASSUME NEW s \in (sent + T + 1)..accepted
      PROVE  /\ Held(S, s)' \subseteq Held(S, s)
             /\ Coming(S, s)' \subseteq Coming(S, s)
  <2>1. Held(S, s)' = Held(S, s)
    BY <1>1 DEF Held
  <2>2. ctx'[c].pc = "precheck" /\ ~(ctx'[c].reg < s)
    BY <1>1 DEF PushStart
  <2>3. \A d \in Contexts \ {c} : ctx'[d] = ctx[d]
    BY <1>1 DEF PushStart
  <2>4. Coming(S, s)' \subseteq Coming(S, s)
    BY <2>2, <2>3 DEF Coming, Contexts
  <2> QED
    BY <2>1, <2>4
<1>3. \A s \in (sent + T + 1)..(accepted + 1) :
        Cardinality(Held(S, s)') + Cardinality(Coming(S, s)') <= Cardinality(Tasks)
  BY <1>1, <1>2, ReserveStep
<1> QED
  BY <1>1, <1>3 DEF ReserveInv

(* A context that passes the precheck read the write index when the reserve
   was still free, so it was counted already. *)
LEMMA ReservePrecheck ==
  ASSUME IInv, PrioInv, NEW S, NEW T, ReserveOf(S, T), ReserveInv(S, T),
         NEW c \in Contexts, Precheck(c)
  PROVE  ReserveInv(S, T)'
<1>1. /\ accepted \in Nat /\ sent \in Nat /\ accepted' = accepted /\ sent' = sent
      /\ T \in Nat /\ bufs' = bufs /\ buf_read_i = sent
      /\ accepted - sent <= RingSize
      /\ ctx \in [Contexts -> [pc : PushPcs, reg : Nat, len : FrameLens \cup {0},
                               prio : Prios]]
  BY DEF IInv, TypeOK, HistType, CtxType, RingInv, Precheck, ring, hist, ReserveOf
<1> DEFINE used == ctx[c].reg - sent
           p == ctx[c].prio
<1>2. ctx[c].reg \in Nat /\ ctx[c].reg <= accepted /\ p \in Prios
      /\ ctx[c].pc = "precheck"
  BY <1>1 DEF PrioInv, Precheck, At
<1>3. \A d \in Contexts \ {c} : ctx'[d] = ctx[d]
  BY <1>1 DEF Precheck, Goto
<1>4. ctx'[c].prio = p
  BY <1>1 DEF Precheck, Goto
<1>5. \/ ctx'[c].pc = "drop"
      \/ ctx'[c].pc = "encode" /\ ~(BufFree(used) < SlotsNeeded(p))
  BY <1>1 DEF Precheck, Goto
<1>6. ASSUME NEW s \in (sent + T + 1)..accepted
      PROVE  /\ Held(S, s)' \subseteq Held(S, s)
             /\ Coming(S, s)' \subseteq Coming(S, s)
  <2>1. Held(S, s)' = Held(S, s)
    BY <1>1 DEF Held
  <2>2. ASSUME ctx'[c].pc = "encode", p \in S
        PROVE  ctx[c].reg < s
    <3>1. ~(BufFree(used) < SlotsNeeded(p)) /\ RingSize - T <= SlotsNeeded(p)
      BY <1>5, <2>2 DEF ReserveOf
    <3>2. SlotsNeeded(p) \in Nat
      BY <1>2, PrioAssumption, RingAssumption DEF SlotsNeeded, Prios
    <3>3. BufFree(used) = RingSize - used
      BY <1>1, <1>2, RingAssumption DEF BufFree
    <3> QED
      BY <1>1, <1>2, <3>1, <3>2, <3>3, RingAssumption
  <2>3. ASSUME NEW d \in Coming(S, s)'
        PROVE  d \in Coming(S, s)
    <3>1. CASE d = c
      BY <1>2, <1>4, <1>5, <2>2, <2>3, <3>1 DEF Coming
    <3>2. CASE d # c
      BY <1>3, <2>3, <3>2 DEF Coming, Contexts
    <3> QED
      BY <3>1, <3>2
  <2> QED
    BY <2>1, <2>3
<1>7. \A s \in (sent + T + 1)..(accepted + 1) :
        Cardinality(Held(S, s)') + Cardinality(Coming(S, s)') <= Cardinality(Tasks)
  BY <1>1, <1>6, ReserveStep
<1> QED
  BY <1>1, <1>7 DEF ReserveInv

(* A step of transmitter_push that leaves no context nearer to the ring than
   it was. *)
LEMMA ReserveLeave ==
  ASSUME IInv, NEW S, NEW T, ReserveOf(S, T), ReserveInv(S, T),
         NEW c \in Contexts,
         \A d \in Contexts \ {c} : ctx'[d] = ctx[d],
         \/ ctx'[c].pc \notin {"precheck", "encode", "enqueue"}
         \/ /\ ctx[c].pc \in {"encode", "enqueue"} /\ ctx'[c].prio = ctx[c].prio
            /\ ctx'[c].pc # "precheck",
         UNCHANGED <<bufs, accepted, sent>>
  PROVE  ReserveInv(S, T)'
<1>1. accepted \in Nat /\ sent \in Nat /\ T \in Nat
  BY DEF IInv, TypeOK, HistType, ReserveOf
<1>2. ASSUME NEW s \in (sent + T + 1)..accepted
      PROVE  /\ Held(S, s)' \subseteq Held(S, s)
             /\ Coming(S, s)' \subseteq Coming(S, s)
  <2>1. Held(S, s)' = Held(S, s)
    BY DEF Held
  <2>2. ASSUME NEW d \in Coming(S, s)'
        PROVE  d \in Coming(S, s)
    <3>1. CASE d = c
      BY <2>2, <3>1 DEF Coming
    <3>2. CASE d # c
      BY <2>2, <3>2 DEF Coming, Contexts
    <3> QED
      BY <3>1, <3>2
  <2> QED
    BY <2>1, <2>2
<1>3. \A s \in (sent + T + 1)..(accepted + 1) :
        Cardinality(Held(S, s)') + Cardinality(Coming(S, s)') <= Cardinality(Tasks)
  BY <1>1, <1>2, ReserveStep
<1> QED
  BY <1>1, <1>3 DEF ReserveInv

(* A finished frame leaves the ring at the other end. *)
LEMMA ReserveSend ==
  ASSUME IInv, NEW S, NEW T, ReserveOf(S, T), ReserveInv(S, T), SendRest
  PROVE  ReserveInv(S, T)'
<1>1. /\ accepted \in Nat /\ sent \in Nat /\ T \in Nat
      /\ sent' = sent + 1 /\ accepted' = accepted /\ ctx' = ctx
      /\ bufs' = [bufs EXCEPT ![Slot(sent)] = NoFrame]
      /\ bufs \in [0..(RingSize - 1) -> Frames \cup {NoFrame}]
      /\ accepted - sent <= RingSize
  BY DEF IInv, TypeOK, HistType, RingType, RingInv, ReserveOf, SendRest
<1> DEFINE r == sent + 1
<1>2. ASSUME NEW s \in (r + T + 1)..accepted
      PROVE  /\ Held(S, s)' \subseteq Held(S, s)
             /\ Coming(S, s)' \subseteq Coming(S, s)
  <2>1. ASSUME NEW k \in s..accepted
        PROVE  bufs'[Slot(k - 1)] = bufs[Slot(k - 1)]
    <3>1. k - 1 \in Nat /\ sent < k - 1 /\ (k - 1) - sent < RingSize
      BY <1>1, RingAssumption
    <3>2. Slot(k - 1) # Slot(sent) /\ Slot(k - 1) \in 0..(RingSize - 1)
      BY <1>1, <3>1, SlotDistinct, SlotInRange
    <3> QED
      BY <1>1, <3>2
  <2>2. Held(S, s)' = Held(S, s)
    BY <1>1, <2>1 DEF Held
  <2>3. Coming(S, s)' = Coming(S, s)
    BY <1>1 DEF Coming
  <2> QED
    BY <2>2, <2>3
<1>3. r \in Nat /\ sent <= r
  BY <1>1
<1> HIDE DEF r
<1>4. \A s \in (r + T + 1)..(accepted + 1) :
        Cardinality(Held(S, s)') + Cardinality(Coming(S, s)') <= Cardinality(Tasks)
  BY <1>1, <1>2, <1>3, ReserveStep
<1> USE DEF r
<1> QED
  BY <1>1, <1>4 DEF ReserveInv

(* A context that queues its frame becomes that frame. *)
LEMMA ReserveEnqueue ==
  ASSUME IInv, PrioInv, NEW S, NEW T, ReserveOf(S, T), ReserveInv(S, T),
         NEW c \in Contexts, EnqueueStore(c)
  PROVE  ReserveInv(S, T)'
<1> DEFINE f == [seq |-> accepted + 1, len |-> ctx[c].len, prio |-> ctx[c].prio]
           a == accepted + 1
<1>1. /\ accepted \in Nat /\ sent \in Nat /\ T \in Nat
      /\ sent' = sent /\ accepted' = accepted + 1
      /\ bufs' = [bufs EXCEPT ![Slot(accepted)] = f]
      /\ bufs \in [0..(RingSize - 1) -> Frames \cup {NoFrame}]
      /\ accepted - sent < RingSize
      /\ ctx[c].pc = "enqueue"
      /\ ctx \in [Contexts -> [pc : PushPcs, reg : Nat, len : FrameLens \cup {0},
                               prio : Prios]]
  BY RingAssumption DEF IInv, TypeOK, HistType, RingType, CtxType, RingInv, ReserveOf,
     EnqueueStore, RingFull, WriteSlot, At
<1>2. /\ ctx'[c].pc = "wake"
      /\ \A d \in Contexts \ {c} : ctx'[d] = ctx[d]
  BY <1>1 DEF EnqueueStore, Goto
<1>3. c \notin Tasks => ctx[c].prio \notin S
  BY DEF PrioInv, ReserveOf, Contexts
<1>4. bufs'[Slot(accepted)] = f
  BY <1>1, SlotInRange
<1>5. ASSUME NEW s \in (sent + T + 1)..(a + 1)
      PROVE  Cardinality(Held(S, s)') + Cardinality(Coming(S, s)') <= Cardinality(Tasks)
  <2>1. CASE s = a + 1
    <3>1. Held(S, s)' = {}
      BY <1>1, <2>1 DEF Held
    <3>2. Coming(S, s)' \in SUBSET Tasks
      BY DEF Coming
    <3>3. /\ Cardinality(Coming(S, s)') <= Cardinality(Tasks)
          /\ Cardinality(Coming(S, s)') \in Nat /\ Cardinality(Tasks) \in Nat
      BY <3>2, SenderAssumption, FS_Subset, FS_CardinalityType
    <3> QED
      BY <3>1, <3>3, FS_EmptySet
  <2>2. CASE s \in (sent + T + 1)..(accepted + 1)
    <3>1. Cardinality(Held(S, s)) + Cardinality(Coming(S, s)) <= Cardinality(Tasks)
      BY <2>2 DEF ReserveInv
    <3>2. /\ IsFiniteSet(Held(S, s)) /\ Cardinality(Held(S, s)) \in Nat
          /\ IsFiniteSet(Coming(S, s)) /\ Cardinality(Coming(S, s)) \in Nat
          /\ Cardinality(Tasks) \in Nat
      BY <1>1, HeldFinite, ComingFinite
    <3>3. ASSUME NEW k \in s..accepted
          PROVE  bufs'[Slot(k - 1)] = bufs[Slot(k - 1)]
      <4>1. k - 1 \in Nat /\ k - 1 < accepted /\ accepted - (k - 1) < RingSize
        BY <1>1, RingAssumption
      <4>2. Slot(k - 1) # Slot(accepted) /\ Slot(k - 1) \in 0..(RingSize - 1)
        BY <1>1, <4>1, SlotDistinct, SlotInRange
      <4> QED
        BY <1>1, <4>2
    <3>4. \A k \in s..a : k \in s..accepted \/ k = a
      BY <1>1
    <3>5. a - 1 = accepted /\ a \in s..a /\ a \notin s..accepted
          /\ \A k \in s..accepted : k \in s..a
      BY <1>1, <2>2
    <3>6. CASE ctx[c].prio \in S
      <4>1. c \in Coming(S, s)
        BY <1>1, <1>3, <3>6 DEF Coming, Contexts
      <4>2. Coming(S, s)' = Coming(S, s) \ {c}
        BY <1>2 DEF Coming, Contexts
      <4>3. Held(S, s)' = Held(S, s) \cup {a} /\ a \notin Held(S, s)
        BY <1>1, <1>4, <3>3, <3>4, <3>5, <3>6 DEF Held
      <4>4. Cardinality(Held(S, s)') = Cardinality(Held(S, s)) + 1
        BY <3>2, <4>3, FS_AddElement
      <4>5. Cardinality(Coming(S, s)') = Cardinality(Coming(S, s)) - 1
        BY <3>2, <4>1, <4>2, FS_RemoveElement
      <4> QED
        BY <3>1, <3>2, <4>4, <4>5
    <3>7. CASE ctx[c].prio \notin S
      <4>1. Coming(S, s)' = Coming(S, s)
        BY <1>2, <3>7 DEF Coming, Contexts
      <4>2. Held(S, s)' = Held(S, s)
        BY <1>1, <1>4, <3>3, <3>4, <3>5, <3>7, SMTT(30) DEF Held
      <4> QED
        BY <3>1, <4>1, <4>2
    <3> QED
      BY <3>6, <3>7
  <2> QED
    BY <1>1, <2>1, <2>2
<1>6. ReserveInv(S, T)' =
        \A s \in (sent + T + 1)..(a + 1) :
          Cardinality(Held(S, s)') + Cardinality(Coming(S, s)') <= Cardinality(Tasks)
  BY <1>1 DEF ReserveInv
<1> QED
  BY <1>5, <1>6

(* The contexts that hold an encoded buffer. *)
Enqueuing == {c \in Contexts : At(c, "enqueue")}

LEMMA EnqueuingFinite == IsFiniteSet(Enqueuing) /\ Cardinality(Enqueuing) \in Nat
<1>1. IsFiniteSet(Contexts)
  BY SenderAssumption, FS_AddElement DEF Contexts
<1> QED
  BY <1>1, FS_Subset, FS_CardinalityType DEF Enqueuing

(* A step that changes no context, no buffer and no counter. *)
LEMMA AccountQuiet ==
  ASSUME IInv, AccountInv,
         UNCHANGED <<bufs, ctx, dropped_packets, accepted, sent, allocated, drops>>,
         boot' \in {"reset", "uart"} => boot \in {"reset", "uart"}
  PROVE  AccountInv'
<1>1. HeapBalanced' /\ PrioInv'
  BY DEF AccountInv, HeapBalanced, PrioInv, At
<1>2. DropInv'
  BY DEF AccountInv, DropInv, DropCounter, At
<1>3. \A S, T : ReserveInv(S, T) => ReserveInv(S, T)'
  BY DEF ReserveInv, Held, Coming
<1> QED
  BY <1>1, <1>2, <1>3 DEF AccountInv

LEMMA AccountStart ==
  ASSUME IInv, AccountInv, NEW c \in Contexts, NEW prio \in Prios,
         NEW len \in FrameLens, PushStart(c, prio, len), c = Main => prio = "high",
         boot' \in {"reset", "uart"} => boot \in {"reset", "uart"}
  PROVE  AccountInv'
<1>1. /\ ctx \in [Contexts -> [pc : PushPcs, reg : Nat, len : FrameLens \cup {0},
                               prio : Prios]]
      /\ buf_write_i = accepted /\ accepted \in Nat
  BY DEF IInv, TypeOK, CtxType, HistType, RingInv
<1>2. /\ ctx[c].pc = "idle" /\ ctx'[c].pc = "precheck"
      /\ ctx'[c].reg = accepted /\ ctx'[c].prio = prio
      /\ \A d \in Contexts \ {c} : ctx'[d] = ctx[d]
      /\ UNCHANGED <<bufs, dropped_packets, accepted, sent, allocated, drops>>
  BY <1>1 DEF PushStart, At, ring
<1>3. HeapBalanced'
  <2>1. Enqueuing' = Enqueuing
    BY <1>2 DEF Enqueuing, At
  <2> QED
    BY <1>2, <2>1 DEF AccountInv, HeapBalanced, Enqueuing
<1>4. PrioInv'
  BY <1>1, <1>2 DEF AccountInv, PrioInv, At, Contexts
<1>5. DropInv'
  <2>1. \A d \in Contexts : At(d, "count") <=> At(d, "count")'
    BY <1>2 DEF At
  <2> QED
    BY <1>2, <2>1 DEF AccountInv, DropInv, DropCounter, At
<1>6. /\ ReserveInv({"low"}, RingSize - LowFree)'
      /\ ReserveInv({"low", "medium"}, RingSize - MediumFree)'
  BY Reserves, ReserveStart DEF AccountInv
<1> QED
  BY <1>3, <1>4, <1>5, <1>6 DEF AccountInv

(* A context moves on without queueing or counting. *)
LEMMA AccountMove ==
  ASSUME IInv, AccountInv, NEW c \in Contexts,
         ~At(c, "count"), ctx'[c].pc \notin {"precheck", "count"},
         ctx'[c].prio = ctx[c].prio \/ ctx'[c].prio = "high",
         \A d \in Contexts \ {c} : ctx'[d] = ctx[d],
         UNCHANGED <<boot, dropped_packets, accepted, drops>>
  PROVE  DropInv' /\ PrioInv'
<1>1. PrioInv'
  BY DEF AccountInv, PrioInv, At, Contexts
<1>2. \A d \in Contexts : At(d, "count") <=> At(d, "count")'
  BY DEF At
<1>3. DropInv'
  BY <1>2 DEF AccountInv, DropInv, DropCounter, At
<1> QED
  BY <1>1, <1>3

LEMMA AccountPush ==
  ASSUME IInv, AccountInv, NEW c \in Contexts, PushStep(c)
  PROVE  AccountInv'
<1>1. /\ ctx \in [Contexts -> [pc : PushPcs, reg : Nat, len : FrameLens \cup {0},
                               prio : Prios]]
      /\ accepted \in Nat /\ sent \in Nat /\ allocated \in Int
      /\ drops \in Nat /\ dropped_packets \in Nat
  BY DEF IInv, TypeOK, CtxType, HistType
<1>2. /\ IsFiniteSet(Enqueuing) /\ Cardinality(Enqueuing) \in Nat
      /\ allocated = accepted - sent + Cardinality(Enqueuing)
  BY EnqueuingFinite DEF AccountInv, HeapBalanced, Enqueuing
<1>3. CASE Precheck(c)
  <2>1. /\ ctx[c].pc = "precheck" /\ ctx'[c].pc \in {"drop", "encode"}
        /\ ctx'[c].prio = ctx[c].prio
        /\ \A d \in Contexts \ {c} : ctx'[d] = ctx[d]
        /\ UNCHANGED <<bufs, boot, dropped_packets, accepted, sent, allocated, drops>>
    BY <1>1, <1>3 DEF Precheck, Goto, At, ring, hist
  <2>2. Enqueuing' = Enqueuing
    BY <2>1 DEF Enqueuing, At
  <2>3. DropInv' /\ PrioInv'
    BY <2>1, AccountMove DEF At
  <2>4. /\ ReserveInv({"low"}, RingSize - LowFree)'
        /\ ReserveInv({"low", "medium"}, RingSize - MediumFree)'
    BY <1>3, Reserves, ReservePrecheck DEF AccountInv
  <2> QED
    BY <1>2, <2>1, <2>2, <2>3, <2>4 DEF AccountInv, HeapBalanced, Enqueuing
<1>4. CASE Encode(c)
  <2>1. /\ ctx[c].pc = "encode"
        /\ ctx'[c].prio = ctx[c].prio \/ ctx'[c].prio = "high"
        /\ \A d \in Contexts \ {c} : ctx'[d] = ctx[d]
        /\ UNCHANGED <<bufs, boot, dropped_packets, accepted, sent, drops>>
        /\ \/ ctx'[c].pc = "idle" /\ allocated' = allocated
           \/ /\ ctx'[c].pc = "enqueue" /\ ctx'[c].prio = ctx[c].prio
              /\ allocated' = allocated + 1
    BY <1>1, <1>4 DEF Encode, Goto, Return, IdlePush, At, ring
  <2>2. DropInv' /\ PrioInv'
    BY <2>1, AccountMove DEF At
  <2>3. /\ ReserveInv({"low"}, RingSize - LowFree)'
        /\ ReserveInv({"low", "medium"}, RingSize - MediumFree)'
    BY <2>1, Reserves, ReserveLeave DEF AccountInv
  <2>4. CASE ctx'[c].pc = "idle"
    <3>1. Enqueuing' = Enqueuing
      BY <2>1, <2>4 DEF Enqueuing, At
    <3> QED
      BY <1>2, <2>1, <2>2, <2>3, <2>4, <3>1 DEF AccountInv, HeapBalanced, Enqueuing
  <2>5. CASE ctx'[c].pc = "enqueue"
    <3>1. Enqueuing' = Enqueuing \cup {c} /\ c \notin Enqueuing
      BY <2>1, <2>5 DEF Enqueuing, At
    <3>2. Cardinality(Enqueuing') = Cardinality(Enqueuing) + 1
      BY <1>2, <3>1, FS_AddElement
    <3>3. HeapBalanced'
      BY <1>1, <1>2, <2>1, <2>5, <3>2 DEF HeapBalanced, Enqueuing
    <3> QED
      BY <2>2, <2>3, <3>3 DEF AccountInv
  <2> QED
    BY <2>1, <2>4, <2>5
<1>5. CASE EnqueueFull(c) \/ EnqueueStore(c)
  <2>1. /\ ctx[c].pc = "enqueue" /\ ctx'[c].pc \in {"drop", "wake"}
        /\ ctx'[c].prio = ctx[c].prio
        /\ \A d \in Contexts \ {c} : ctx'[d] = ctx[d]
        /\ UNCHANGED <<boot, dropped_packets, sent, drops>>
    BY <1>1, <1>5 DEF EnqueueFull, EnqueueStore, Goto, At
  <2>2. DropInv' /\ PrioInv'
    <3>1. accepted' = accepted \/ accepted' = accepted + 1
      BY <1>5 DEF EnqueueFull, EnqueueStore
    <3>2. PrioInv'
      BY <1>1, <2>1, <3>1 DEF AccountInv, PrioInv, At, Contexts
    <3>3. \A d \in Contexts : At(d, "count") <=> At(d, "count")'
      BY <2>1 DEF At
    <3>4. DropInv'
      BY <2>1, <3>3 DEF AccountInv, DropInv, DropCounter, At
    <3> QED
      BY <3>2, <3>4
  <2>3. /\ ReserveInv({"low"}, RingSize - LowFree)'
        /\ ReserveInv({"low", "medium"}, RingSize - MediumFree)'
    <3>1. CASE EnqueueStore(c)
      BY <3>1, Reserves, ReserveEnqueue DEF AccountInv
    <3>2. CASE EnqueueFull(c)
      <4>1. UNCHANGED <<bufs, accepted, sent>>
        BY <3>2 DEF EnqueueFull, ring
      <4> QED
        BY <2>1, <4>1, Reserves, ReserveLeave DEF AccountInv
    <3> QED
      BY <1>5, <3>1, <3>2
  <2>4. Enqueuing' = Enqueuing \ {c} /\ c \in Enqueuing
    BY <2>1 DEF Enqueuing, At
  <2>5. Cardinality(Enqueuing') = Cardinality(Enqueuing) - 1
    BY <1>2, <2>4, FS_RemoveElement
  <2>6. \/ allocated' = allocated - 1 /\ accepted' = accepted
        \/ allocated' = allocated /\ accepted' = accepted + 1
    BY <1>5 DEF EnqueueFull, EnqueueStore
  <2>7. allocated' = accepted' - sent + Cardinality(Enqueuing')
    BY <1>1, <1>2, <2>5, <2>6
  <2>8. HeapBalanced'
    BY <2>1, <2>7 DEF HeapBalanced, Enqueuing
  <2> QED
    BY <2>2, <2>3, <2>8 DEF AccountInv
<1>6. CASE Wake(c) \/ WakeLocked(c)
  <2>1. /\ ctx[c].pc \in {"wake", "post"} /\ ctx'[c].pc \in {"idle", "post"}
        /\ ctx'[c].prio = ctx[c].prio \/ ctx'[c].prio = "high"
        /\ \A d \in Contexts \ {c} : ctx'[d] = ctx[d]
        /\ UNCHANGED <<bufs, boot, dropped_packets, accepted, sent, allocated, drops>>
    BY <1>1, <1>6 DEF Wake, WakeLocked, Goto, Return, IdlePush, At, ring, hist
  <2>2. Enqueuing' = Enqueuing
    BY <2>1 DEF Enqueuing, At
  <2>3. DropInv' /\ PrioInv'
    BY <2>1, AccountMove DEF At
  <2>4. /\ ReserveInv({"low"}, RingSize - LowFree)'
        /\ ReserveInv({"low", "medium"}, RingSize - MediumFree)'
    BY <2>1, Reserves, ReserveLeave DEF AccountInv
  <2> QED
    BY <1>2, <2>1, <2>2, <2>3, <2>4 DEF AccountInv, HeapBalanced, Enqueuing
<1>7. CASE DropLoad(c) \/ DropStore(c)
  <2>1. /\ ctx[c].pc \in {"drop", "count"} /\ ctx'[c].pc \in {"idle", "count"}
        /\ ctx'[c].prio = ctx[c].prio \/ ctx'[c].prio = "high"
        /\ \A d \in Contexts \ {c} : ctx'[d] = ctx[d]
        /\ UNCHANGED <<bufs, boot, accepted, sent, allocated>>
    BY <1>1, <1>7 DEF DropLoad, DropStore, Return, IdlePush, At, ring, hist
  <2>2. Enqueuing' = Enqueuing
    BY <2>1 DEF Enqueuing, At
  <2>3. PrioInv'
    BY <2>1 DEF AccountInv, PrioInv, At, Contexts
  <2>4. boot \notin {"reset", "uart"}
    BY <2>1 DEF IInv, BootInv
  <2>5. CASE DropLoad(c)
    <3>1. /\ ctx'[c].pc = "count" /\ ctx'[c].reg = dropped_packets
          /\ drops' = drops + 1 /\ dropped_packets' = dropped_packets
      BY <1>1, <2>5 DEF DropLoad
    <3>2. dropped_packets <= drops /\ \A d \in Contexts : At(d, "count") => ctx[d].reg < drops
      BY DEF AccountInv, DropInv, DropCounter
    <3>3. \A d \in Contexts : At(d, "count")' => ctx'[d].reg < drops + 1
      BY <1>1, <2>1, <3>1, <3>2 DEF At
    <3>4. At(c, "count")' /\ dropped_packets <= drops + 1
      BY <1>1, <3>1, <3>2 DEF At
    <3> QED
      BY <1>2, <2>1, <2>2, <2>3, <2>4, <3>1, <3>3, <3>4, Reserves, ReserveLeave
      DEF AccountInv, DropInv, DropCounter, HeapBalanced, Enqueuing
  <2>6. CASE DropStore(c)
    <3>1. /\ ctx'[c].pc = "idle" /\ dropped_packets' = ctx[c].reg + 1
          /\ drops' = drops /\ ctx[c].reg \in Nat /\ At(c, "count")
      BY <1>1, <2>6 DEF DropStore, Return, IdlePush, hist
    <3>2. ctx[c].reg < drops
      BY <3>1 DEF AccountInv, DropInv
    <3>3. dropped_packets' <= drops' /\ dropped_packets' > 0
      BY <1>1, <3>1, <3>2
    <3>4. \A d \in Contexts : At(d, "count")' => At(d, "count") /\ ctx'[d] = ctx[d]
      BY <2>1, <3>1 DEF At
    <3>5. DropInv'
      BY <2>1, <2>4, <3>1, <3>3, <3>4 DEF AccountInv, DropInv, DropCounter
    <3> QED
      BY <1>2, <2>1, <2>2, <2>3, <3>1, <3>5, Reserves, ReserveLeave
      DEF AccountInv, HeapBalanced, Enqueuing
  <2> QED
    BY <1>7, <2>5, <2>6
<1> QED
  BY <1>3, <1>4, <1>5, <1>6, <1>7 DEF PushStep

LEMMA AccountSend ==
  ASSUME IInv, AccountInv, SendRest
  PROVE  AccountInv'
<1>1. /\ accepted \in Nat /\ sent \in Nat /\ allocated \in Int
      /\ sent' = sent + 1 /\ allocated' = allocated - 1
      /\ UNCHANGED <<ctx, dropped_packets, accepted, drops, boot>>
  BY DEF SendRest, IInv, TypeOK, HistType
<1>2. HeapBalanced'
  <2>1. Enqueuing' = Enqueuing /\ Cardinality(Enqueuing) \in Nat
    BY <1>1, EnqueuingFinite DEF Enqueuing, At
  <2>2. allocated = accepted - sent + Cardinality(Enqueuing)
    BY DEF AccountInv, HeapBalanced, Enqueuing
  <2>3. allocated - 1 = accepted - (sent + 1) + Cardinality(Enqueuing)
    BY <1>1, <2>1, <2>2
  <2> QED
    BY <1>1, <2>1, <2>3 DEF HeapBalanced, Enqueuing
<1>3. PrioInv' /\ DropInv'
  BY <1>1 DEF AccountInv, PrioInv, DropInv, DropCounter, At
<1> QED
  BY <1>2, <1>3, Reserves, ReserveSend DEF AccountInv

(* Every step keeps the accounts. *)
LEMMA AccountNext ==
  ASSUME IInv, AccountInv, [Next]_vars
  PROVE  AccountInv'
<1>1. CASE BootCommTask
  <2>1. /\ drops = 0 /\ dropped_packets' = 0 /\ boot' = "task"
        /\ UNCHANGED <<bufs, ctx, accepted, sent, allocated, drops>>
    BY <1>1 DEF BootCommTask, AccountInv, DropInv, hist
  <2>2. HeapBalanced' /\ PrioInv'
    BY <2>1 DEF AccountInv, HeapBalanced, PrioInv, At
  <2>3. DropInv'
    BY <2>1 DEF AccountInv, DropInv, DropCounter, At
  <2>4. \A S, T : ReserveInv(S, T) => ReserveInv(S, T)'
    BY <2>1 DEF ReserveInv, Held, Coming
  <2> QED
    BY <2>2, <2>3, <2>4 DEF AccountInv
<1>2. CASE BootSend
  <2>1. PICK len \in FrameLens : PushStart(Main, "high", len)
    BY <1>2 DEF BootSend
  <2> QED
    BY <1>2, <2>1, AccountStart DEF BootSend, Contexts, Prios
<1>3. CASE BootUart \/ BootEof \/ BootRxEnable \/ BootDone
  BY <1>3, AccountQuiet
  DEF BootUart, BootEof, BootRxEnable, BootDone, ring, hist
<1>4. CASE SendRest
  BY <1>4, AccountSend
<1>5. CASE TaskStep /\ ~SendRest
  BY <1>5, AccountQuiet
  DEF TaskStep, Dispatch, SendClearPending, SendReadFifo, SendPart, SendLoopExit,
      SendEnd, RxRead, HandlerReturn, RxEmpty, IntEnaRead, IntEnaWrite, ring, hist
<1>6. CASE HandlerSend
  <2>1. PICK len \in FrameLens : PushStart(Main, "high", len)
    BY <1>6 DEF HandlerSend
  <2> QED
    BY <1>6, <2>1, AccountStart DEF HandlerSend, Contexts, Prios
<1>7. CASE \E c \in Contexts : PushStep(c)
  BY <1>7, AccountPush
<1>8. CASE \E c \in Tasks : TaskSend(c)
  <2>1. PICK c \in Tasks, prio \in Prios, len \in FrameLens :
          PushStart(c, prio, len) /\ boot' = boot
    BY <1>8, PrioAssumption DEF TaskSend
  <2> QED
    BY <2>1, AccountStart, SenderAssumption DEF Contexts
<1>9. CASE Interrupt \/ UartTxByte \/ UartRxByte \/ UNCHANGED vars
  BY <1>9, AccountQuiet DEF Interrupt, UartTxByte, UartRxByte, vars, ring, hist
<1> QED
  BY <1>1, <1>2, <1>3, <1>4, <1>5, <1>6, <1>7, <1>8, <1>9 DEF Next, BootStep

(* The number of frames between two places of the order. *)
LEMMA IntervalSize ==
  ASSUME NEW a \in Nat, NEW b \in Nat, NEW n \in Nat
  PROVE  /\ IsFiniteSet((a + 1)..b)
         /\ b - a <= n => Cardinality((a + 1)..b) <= n
         /\ b = a + n => Cardinality((a + 1)..b) = n
<1> DEFINE m == a + 1
<1>1. m \in Int /\ b \in Int
  OBVIOUS
<1> HIDE DEF m
<1>2. IsFiniteSet(m..b) /\ Cardinality(m..b) = IF m > b THEN 0 ELSE b - m + 1
  BY <1>1, FS_Interval
<1> QED
  BY <1>2 DEF m

LEMMA NoneCounted == Cardinality({}) = 0
BY FS_EmptySet

(* The reserve: T frames in front, and one per context behind them. *)
LEMMA ReserveKept ==
  ASSUME IInv, NEW S, NEW T, ReserveOf(S, T), ReserveInv(S, T)
  PROVE  Waiting(S) <= T + Cardinality(Tasks)
<1> DEFINE W == {k \in (sent + 1)..accepted : bufs[Slot(k - 1)].prio \in S}
<1>1. accepted \in Nat /\ sent \in Nat /\ T \in Nat /\ Cardinality(Tasks) \in Nat
  BY ComingFinite DEF IInv, TypeOK, HistType, ReserveOf
<1>2. CASE accepted - sent <= T
  <2>1. /\ IsFiniteSet((sent + 1)..accepted)
        /\ Cardinality((sent + 1)..accepted) <= T
    BY <1>1, <1>2, IntervalSize
  <2>2. /\ W \in SUBSET ((sent + 1)..accepted)
        /\ IsFiniteSet(W) /\ Cardinality(W) <= Cardinality((sent + 1)..accepted)
    BY <2>1, FS_Subset
  <2>3. Cardinality(W) \in Nat /\ Cardinality((sent + 1)..accepted) \in Nat
    BY <2>1, <2>2, FS_CardinalityType
  <2> QED
    BY <1>1, <2>1, <2>2, <2>3 DEF Waiting
<1>3. CASE accepted - sent > T
  <2> DEFINE s == sent + T + 1
             F == (sent + 1)..(sent + T)
             H == Held(S, s)
  <2>1. s \in Int /\ s \in (sent + T + 1)..(accepted + 1)
    BY <1>1, <1>3
  <2>2. /\ IsFiniteSet(F) /\ Cardinality(F) = T
    BY <1>1, IntervalSize
  <2>3. /\ IsFiniteSet(H) /\ Cardinality(H) \in Nat
    BY <1>1, <2>1, HeldFinite
  <2>4. Cardinality(H) <= Cardinality(Tasks)
    <3>1. /\ Cardinality(H) + Cardinality(Coming(S, s)) <= Cardinality(Tasks)
          /\ Cardinality(Coming(S, s)) \in Nat
      BY <2>1, ComingFinite DEF ReserveInv
    <3> QED
      BY <1>1, <2>3, <3>1
  <2>5. W \in SUBSET (F \cup H)
    BY <1>1 DEF Held
  <2>6. /\ IsFiniteSet(F \cup H) /\ IsFiniteSet(F \cap H)
        /\ Cardinality(F \cup H) = Cardinality(F) + Cardinality(H) - Cardinality(F \cap H)
        /\ Cardinality(F \cap H) \in Nat
    BY <2>2, <2>3, FS_Union, FS_Intersection, FS_CardinalityType
  <2>7. IsFiniteSet(W) /\ Cardinality(W) <= Cardinality(F \cup H) /\ Cardinality(W) \in Nat
    BY <2>5, <2>6, FS_Subset, FS_CardinalityType
  <2> HIDE DEF F, H, W, s
  <2>8. Cardinality(W) <= T + Cardinality(Tasks)
    BY <1>1, <2>2, <2>3, <2>4, <2>6, <2>7
  <2> QED
    BY <2>8 DEF W, Waiting
<1> QED
  BY <1>1, <1>2, <1>3

(* transmitter_push and transmitter_send neither leak an encoded buffer nor
   free one twice; the slots that each priority must leave free stay free up to
   one frame per context, although the precheck holds no lock; and the counter
   of dropped packets, which no lock protects, never exceeds the drops and is
   not zero when some were counted.  For every number of senders. *)
THEOREM AccountsBalance ==
  ASSUME NoWrap
  PROVE  Spec => []PushAccounts
<1>1. Init => AccountInv
  <2> SUFFICES ASSUME Init PROVE AccountInv
    OBVIOUS
  <2>1. HeapBalanced
    <3>1. {c \in Contexts : At(c, "enqueue")} = {}
      BY DEF Init, IdlePush, At
    <3>2. allocated = 0 /\ accepted = 0 /\ sent = 0
      BY DEF Init
    <3> HIDE DEF Init
    <3> QED
      BY <3>1, <3>2, NoneCounted DEF HeapBalanced
  <2>2. DropInv /\ PrioInv
    BY DEF Init, IdlePush, At, DropInv, DropCounter, PrioInv, Contexts
  <2>3. ASSUME NEW S, NEW T, ReserveOf(S, T)
        PROVE  ReserveInv(S, T)
    <3>1. \A s \in (sent + T + 1)..(accepted + 1) : Held(S, s) = {} /\ Coming(S, s) = {}
      BY <2>3 DEF Init, Held, Coming, IdlePush, ReserveOf, Contexts
    <3> QED
      BY <3>1, NoneCounted, ComingFinite DEF ReserveInv
  <2> QED
    BY <2>1, <2>2, <2>3, Reserves DEF AccountInv
<1>2. IInv /\ AccountInv /\ [Next]_vars => AccountInv'
  BY AccountNext
<1>3. IInv /\ AccountInv => PushAccounts
  <2> SUFFICES ASSUME IInv, AccountInv PROVE PushAccounts
    OBVIOUS
  <2>1. PriorityReserve
    BY Reserves, ReserveKept DEF AccountInv, PriorityReserve
  <2> QED
    BY <2>1 DEF AccountInv, DropInv, PushAccounts
<1> QED
  BY <1>1, <1>2, <1>3, Invariance, PTL DEF Spec

-----------------------------------------------------------------------------
(***************************************************************************)
(* The event queue.                                                        *)
(***************************************************************************)
Events == {"DO_RX", "DO_TX"}
Has(q, e) == \E i \in DOMAIN q : q[i] = e
Distinct(q) == \A i, j \in DOMAIN q : q[i] = q[j] => i = j

RxPath == {"rx_loop", "rx_handler", "ena_rx", "set_rx"}

(* DO_TX is queued or being dispatched exactly while task_pending is set. *)
TxEventInv ==
  /\ Has(comm_queue, "DO_TX") => task_pending
  /\ task.pc = "tx_start" => task_pending /\ ~Has(comm_queue, "DO_TX")
  /\ task_pending => task.pc = "tx_start" \/ Has(comm_queue, "DO_TX")

(* The RX interrupt is off from the moment it posts DO_RX until do_rx ends. *)
RxEventInv ==
  /\ int_ena.rx => ~Has(comm_queue, "DO_RX") /\ task.pc \notin RxPath
  /\ task.pc \in RxPath => ~Has(comm_queue, "DO_RX")

(* Between the read and the write of UART_INT_ENA nothing changes it. *)
EnaInv == task.pc \in {"set_tx", "set_rx"} => task.reg = int_ena

(* Before user_init returns nothing arrives and the TX interrupt is off; the
   main thread is inside comm_send only then or while do_rx handles a message. *)
EarlyInv ==
  /\ boot # "running" => /\ rxfifo = 0 /\ ~int_ena.tx
                         /\ ~Has(comm_queue, "DO_RX")
  /\ boot \in {"reset", "uart"} => comm_queue = <<>>
  /\ At(Main, "idle") \/ task.pc = "rx_handler" \/ boot # "running"

EventInv ==
  Distinct(comm_queue) /\ TxEventInv /\ RxEventInv /\ EnaInv /\ EarlyInv

(* Two places are enough, without bytes from the host before user_init has
   returned and without an interrupt inside the read-modify-write. *)
QuietUart == QueueLen >= 2 /\ ~BootRx /\ ~IntEnaRace

(* An event that is not in the queue finds a place. *)
LEMMA PostNew ==
  ASSUME NEW q \in Seq(Events), Distinct(q), NEW e \in Events, ~Has(q, e),
         QueueLen >= 2, Registered
  PROVE  /\ Post(q, e) \in Seq(Events) /\ Distinct(Post(q, e))
         /\ \A d \in Events : Has(Post(q, e), d) <=> Has(q, d) \/ d = e
<1>1. Len(q) \in Nat /\ DOMAIN q = 1..Len(q) /\ \A i \in 1..Len(q) : q[i] \in Events
  BY LenProperties, ElementOfSeq
<1>2. Len(q) < 2
  <2> SUFFICES ASSUME Len(q) >= 2 PROVE FALSE
    BY <1>1
  <2>1. 1 \in DOMAIN q /\ 2 \in DOMAIN q
    BY <1>1
  <2>2. q[1] # q[2] /\ q[1] # e /\ q[2] # e
    BY <2>1 DEF Distinct, Has
  <2>3. q[1] \in Events /\ q[2] \in Events
    BY <1>1, <2>1
  <2> QED
    BY <2>2, <2>3 DEF Events
<1>3. Post(q, e) = Append(q, e)
  <2>1. Len(q) < QueueLen
    BY <1>1, <1>2, LoadAssumption
  <2> QED
    BY <2>1 DEF Post
<1> DEFINE r == Append(q, e)
<1>4. /\ r \in Seq(Events) /\ Len(r) = Len(q) + 1
      /\ \A i \in 1..Len(q) : r[i] = q[i]
      /\ r[Len(q) + 1] = e
  BY AppendProperties
<1> HIDE DEF r
<1>5. DOMAIN r = 1..(Len(q) + 1)
  BY <1>4, LenProperties
<1>6. \A i \in DOMAIN r : i \in DOMAIN q \/ i = Len(q) + 1
  BY <1>1, <1>5
<1>7. \A i \in DOMAIN q : i \in DOMAIN r /\ r[i] = q[i] /\ r[i] # e
  BY <1>1, <1>4, <1>5 DEF Has
<1>8. Len(q) + 1 \in DOMAIN r
  BY <1>1, <1>5
<1>9. Distinct(r)
  BY <1>4, <1>6, <1>7 DEF Distinct
<1>10. \A d \in Events : Has(r, d) <=> Has(q, d) \/ d = e
  BY <1>4, <1>6, <1>7, <1>8 DEF Has
<1> QED
  BY <1>3, <1>4, <1>9, <1>10 DEF r

(* The event that is dispatched is gone. *)
LEMMA DispatchOne ==
  ASSUME NEW q \in Seq(Events), Distinct(q), q # <<>>
  PROVE  /\ Tail(q) \in Seq(Events) /\ Distinct(Tail(q)) /\ Head(q) \in Events
         /\ Has(q, Head(q))
         /\ \A d \in Events : Has(Tail(q), d) <=> Has(q, d) /\ d # Head(q)
<1> DEFINE t == Tail(q)
<1>1. /\ t \in Seq(Events) /\ Len(t) = Len(q) - 1 /\ Head(q) \in Events
      /\ \A i \in 1..Len(t) : t[i] = q[i + 1]
  BY HeadTailProperties
<1>2. Head(q) = q[1] /\ Len(q) \in Nat \ {0} /\ DOMAIN q = 1..Len(q)
  BY EmptySeq, LenProperties
<1> HIDE DEF t
<1>3. DOMAIN t = 1..(Len(q) - 1) /\ Len(t) = Len(q) - 1
  BY <1>1, LenProperties
<1>4. 1 \in DOMAIN q
  BY <1>2
<1>5. \A i \in DOMAIN t : i + 1 \in DOMAIN q /\ t[i] = q[i + 1] /\ i + 1 # 1
  BY <1>1, <1>2, <1>3
<1>6. \A i, j \in DOMAIN t : i + 1 = j + 1 => i = j
  BY <1>2, <1>3
<1>7. \A i \in DOMAIN q : i = 1 \/ \E j \in DOMAIN t : i = j + 1
  <2> TAKE i \in DOMAIN q
  <2>1. i = 1 \/ (i - 1 \in DOMAIN t /\ i = (i - 1) + 1)
    BY <1>2, <1>3
  <2> QED
    BY <2>1
<1>8. Distinct(t)
  BY <1>5, <1>6 DEF Distinct
<1>9. \A d \in Events : Has(t, d) <=> Has(q, d) /\ d # Head(q)
  BY <1>2, <1>4, <1>5, <1>7 DEF Has, Distinct
<1> QED
  BY <1>1, <1>2, <1>4, <1>8, <1>9 DEF t, Has

(* A step that touches neither the events nor the register. *)
LEMMA EventQuiet ==
  ASSUME EventInv, task.pc \notin {"set_tx", "set_rx"} \/ task' = task,
         UNCHANGED <<wakeup, int_ena>>,
         task'.pc = task.pc \/ /\ {task.pc, task'.pc} \cap {"tx_start", "set_tx", "set_rx"} = {}
                               /\ task'.pc \in RxPath => task.pc \in RxPath,
         boot' # "running" => rxfifo' = 0 /\ boot # "running",
         boot' \in {"reset", "uart"} => boot \in {"reset", "uart"},
         At(Main, "idle")' \/ task'.pc = "rx_handler" \/ boot' # "running"
  PROVE  EventInv'
<1>1. Distinct(comm_queue)' /\ (EnaInv)'
  BY DEF EventInv, Distinct, EnaInv
<1>2. TxEventInv' /\ RxEventInv'
  BY DEF EventInv, TxEventInv, RxEventInv, Has
<1>3. EarlyInv'
  BY DEF EventInv, EarlyInv, Has
<1> QED
  BY <1>1, <1>2, <1>3 DEF EventInv

LEMMA EventBoot ==
  ASSUME IInv, EventInv, BootStep
  PROVE  EventInv'
<1>1. /\ task = IdleTask /\ task' = task /\ task.pc = "idle" /\ boot # "running"
      /\ int_ena \in IntBits
  BY DEF BootStep, BootUart, BootCommTask, BootEof, BootRxEnable, BootSend, BootDone,
         PushStart, IInv, TypeOK, FlagType, BootInv, IdleTask
<1>2. CASE BootUart \/ BootRxEnable
  <2>1. /\ UNCHANGED <<wakeup, ctx>> /\ boot' # "running" /\ rxfifo' = 0
        /\ int_ena' = [int_ena EXCEPT !.rx = TRUE] /\ int_ena'.tx = int_ena.tx
        /\ boot' \in {"reset", "uart"} => boot \in {"reset", "uart"}
    BY <1>1, <1>2 DEF BootUart, UartConfig, BootRxEnable, EventInv, EarlyInv, IntBits
  <2>2. Distinct(comm_queue)' /\ EnaInv'
    BY <1>1, <2>1 DEF EventInv, Distinct, EnaInv
  <2>3. TxEventInv' /\ RxEventInv'
    BY <1>1, <2>1 DEF EventInv, TxEventInv, RxEventInv, EarlyInv, RxPath, Has
  <2>4. EarlyInv'
    BY <1>1, <2>1 DEF EventInv, EarlyInv, Has
  <2> QED
    BY <2>2, <2>3, <2>4 DEF EventInv
<1>3. CASE BootCommTask
  <2>1. /\ comm_queue = <<>> /\ UNCHANGED <<comm_queue, ctx, int_ena, rxfifo>>
        /\ task_pending' = FALSE /\ boot' = "task"
    BY <1>3 DEF BootCommTask, EventInv, EarlyInv, uart
  <2>2. \A e : ~Has(comm_queue, e)
    BY <2>1 DEF Has
  <2>3. Distinct(comm_queue)' /\ EnaInv'
    BY <1>1, <2>1 DEF EventInv, Distinct, EnaInv
  <2>4. TxEventInv' /\ RxEventInv'
    BY <1>1, <2>1, <2>2 DEF EventInv, TxEventInv, RxEventInv, RxPath, Has
  <2>5. EarlyInv'
    BY <1>1, <2>1, <2>2 DEF EventInv, EarlyInv, Has
  <2> QED
    BY <2>3, <2>4, <2>5 DEF EventInv
<1>4. CASE BootEof \/ BootSend
  <2>1. /\ UNCHANGED <<wakeup, int_ena, rxfifo>>
        /\ boot \notin {"reset", "uart"} /\ boot' \notin {"reset", "uart", "running"}
    BY <1>4 DEF BootEof, BootSend, PushStart, uart
  <2>2. rxfifo = 0
    BY <1>1 DEF EventInv, EarlyInv
  <2> QED
    BY <1>1, <2>1, <2>2, EventQuiet
<1>5. CASE BootDone
  BY <1>1, <1>5, EventQuiet DEF BootDone, uart, At
<1> QED
  BY <1>2, <1>3, <1>4, <1>5 DEF BootStep

LEMMA EventPush ==
  ASSUME QuietUart, IInv, EventInv, NEW c \in Contexts, PushStep(c)
  PROVE  EventInv'
<1>1. ctx \in [Contexts -> [pc : PushPcs, reg : Nat, len : FrameLens \cup {0},
                            prio : Prios]]
  BY DEF IInv, TypeOK, CtxType
<1>2. UNCHANGED <<task, boot, int_ena, rxfifo>> /\ ctx[c].pc # "idle"
  BY DEF PushStep, Precheck, Encode, EnqueueFull, EnqueueStore, Wake, WakeLocked,
         DropLoad, DropStore, At, uart
<1>3. \A d \in Contexts \ {c} : ctx'[d] = ctx[d]
  BY <1>1 DEF PushStep, Precheck, Encode, EnqueueFull, EnqueueStore, Wake, WakeLocked,
         DropLoad, DropStore, Goto, Return
<1>4. At(Main, "idle")' \/ task'.pc = "rx_handler" \/ boot' # "running"
  <2>1. CASE c = Main
    BY <1>2, <2>1 DEF EventInv, EarlyInv, At
  <2>2. CASE c # Main
    BY <1>2, <1>3, <2>2 DEF EventInv, EarlyInv, At, Contexts
  <2> QED
    BY <2>1, <2>2
<1>5. CASE wakeup' = wakeup
  BY <1>2, <1>4, <1>5, EventQuiet DEF EventInv, EarlyInv
<1>6. CASE WakeLocked(c) /\ ~task_pending
  <2>1. boot \notin {"reset", "uart"}
    BY <1>2 DEF IInv, BootInv
  <2>2. Registered /\ comm_queue \in Seq(Events) /\ ~Has(comm_queue, "DO_TX")
    BY <1>6, <2>1 DEF Registered, IInv, TypeOK, QueueType, Events, EventInv, TxEventInv
  <2>3. /\ comm_queue' = Post(comm_queue, "DO_TX") /\ task_pending' = TRUE
    BY <1>6 DEF WakeLocked
  <2>4. /\ Distinct(comm_queue')
        /\ \A d \in Events : Has(comm_queue', d) <=> Has(comm_queue, d) \/ d = "DO_TX"
    BY <2>2, <2>3, PostNew DEF EventInv, QuietUart, Events
  <2>5. /\ Has(comm_queue', "DO_TX")
        /\ Has(comm_queue', "DO_RX") <=> Has(comm_queue, "DO_RX")
    BY <2>4 DEF Events
  <2>6. task.pc # "tx_start"
    BY <1>6 DEF EventInv, TxEventInv
  <2>7. Distinct(comm_queue)' /\ EnaInv'
    BY <1>2, <2>4 DEF EventInv, EnaInv
  <2>8. TxEventInv' /\ RxEventInv'
    BY <1>2, <2>3, <2>5, <2>6 DEF EventInv, TxEventInv, RxEventInv
  <2>9. EarlyInv'
    BY <1>2, <1>4, <2>1, <2>5 DEF EventInv, EarlyInv
  <2> QED
    BY <2>7, <2>8, <2>9 DEF EventInv
<1>7. wakeup' = wakeup \/ (WakeLocked(c) /\ ~task_pending)
  BY DEF PushStep, Precheck, Encode, EnqueueFull, EnqueueStore, Wake, WakeLocked,
         DropLoad, DropStore
<1> QED
  BY <1>5, <1>6, <1>7

LEMMA EventTask ==
  ASSUME IInv, EventInv, TaskStep
  PROVE  EventInv'
<1>1. /\ task.pc # "idle" \/ Dispatch
      /\ task \in [pc : TaskPcs, free : 0..FifoSize, reg : IntBits]
      /\ comm_queue \in Seq(Events) /\ int_ena \in IntBits
  BY DEF TaskStep, SendClearPending, SendReadFifo, SendPart, SendRest, SendLoopExit,
         SendEnd, RxRead, HandlerReturn, RxEmpty, IntEnaRead, IntEnaWrite, TaskAt,
         IInv, TypeOK, TaskType, QueueType, FlagType, Events
<1>2. boot = "running" /\ boot' = boot /\ ctx' = ctx
  <2>1. boot = "running"
    BY <1>1 DEF IInv, BootInv, IdleTask, Dispatch
  <2> QED
    BY <2>1 DEF TaskStep, Dispatch, SendClearPending, SendReadFifo, SendPart, SendRest,
           SendLoopExit, SendEnd, RxRead, HandlerReturn, RxEmpty, IntEnaRead, IntEnaWrite
<1>3. CASE Dispatch
  <2>1. /\ At(Main, "idle") /\ task.pc = "idle" /\ comm_queue # <<>>
        /\ comm_queue' = Tail(comm_queue)
        /\ task'.pc = IF Head(comm_queue) = "DO_TX" THEN "tx_start" ELSE "rx_loop"
        /\ UNCHANGED <<task_pending, int_ena, rxfifo>>
    BY <1>3 DEF Dispatch, TaskAt, TaskGoto, IdleTask, uart
  <2>2. /\ Distinct(comm_queue') /\ Head(comm_queue) \in Events
        /\ Has(comm_queue, Head(comm_queue))
        /\ \A d \in Events : Has(comm_queue', d) <=> Has(comm_queue, d) /\ d # Head(comm_queue)
    BY <1>1, <2>1, DispatchOne DEF EventInv
  <2>3. CASE Head(comm_queue) = "DO_TX"
    <3>1. /\ Has(comm_queue, "DO_TX") /\ ~Has(comm_queue', "DO_TX")
          /\ Has(comm_queue', "DO_RX") <=> Has(comm_queue, "DO_RX")
      BY <2>2, <2>3 DEF Events
    <3>2. task'.pc = "tx_start"
      BY <2>1, <2>3
    <3>3. Distinct(comm_queue)' /\ EnaInv' /\ TxEventInv' /\ RxEventInv' /\ EarlyInv'
      BY <1>2, <2>1, <2>2, <3>1, <3>2
      DEF EventInv, EnaInv, TxEventInv, RxEventInv, EarlyInv, RxPath, At
    <3> QED
      BY <3>3 DEF EventInv
  <2>4. CASE Head(comm_queue) = "DO_RX"
    <3>1. /\ Has(comm_queue, "DO_RX") /\ ~Has(comm_queue', "DO_RX")
          /\ Has(comm_queue', "DO_TX") <=> Has(comm_queue, "DO_TX")
      BY <2>2, <2>4 DEF Events
    <3>2. task'.pc = "rx_loop"
      BY <2>1, <2>4
    <3>3. Distinct(comm_queue)' /\ EnaInv' /\ TxEventInv' /\ RxEventInv' /\ EarlyInv'
      BY <1>2, <2>1, <2>2, <3>1, <3>2
      DEF EventInv, EnaInv, TxEventInv, RxEventInv, EarlyInv, RxPath, At
    <3> QED
      BY <3>3 DEF EventInv
  <2> QED
    BY <2>2, <2>3, <2>4 DEF Events
<1>4. CASE SendClearPending
  <2>1. /\ task.pc = "tx_start" /\ task'.pc = "tx_fifo" /\ At(Main, "idle")
        /\ task_pending' = FALSE /\ UNCHANGED <<comm_queue, int_ena>>
    BY <1>4 DEF SendClearPending, TaskAt, TaskGoto, IdleTask, uart
  <2>2. Distinct(comm_queue)' /\ EnaInv' /\ TxEventInv' /\ RxEventInv' /\ EarlyInv'
    BY <1>2, <2>1
    DEF EventInv, EnaInv, TxEventInv, RxEventInv, EarlyInv, RxPath, At
  <2> QED
    BY <2>2 DEF EventInv
<1>5. CASE SendReadFifo \/ SendPart \/ SendRest \/ SendLoopExit \/ SendEnd
  <2>1. /\ task.pc \in {"tx_fifo", "tx_loop", "tx_end"} /\ At(Main, "idle")
        /\ task'.pc \in {"tx_loop", "tx_end", "ena_tx", "idle"}
        /\ UNCHANGED <<wakeup, int_ena>>
    BY <1>1, <1>5
    DEF SendReadFifo, SendPart, SendRest, SendLoopExit, SendEnd, SendEndPc, TaskAt,
        TaskGoto, IdleTask, uart
  <2> QED
    BY <1>2, <2>1, EventQuiet DEF RxPath, At
<1>6. CASE RxRead \/ HandlerReturn \/ RxEmpty
  <2>1. /\ task.pc \in {"rx_loop", "rx_handler"} /\ At(Main, "idle")
        /\ task'.pc \in {"rx_loop", "rx_handler", "ena_rx"}
        /\ UNCHANGED <<wakeup, int_ena>>
    BY <1>6
    DEF RxRead, HandlerReturn, RxEmpty, TaskAt, TaskGoto, IdleTask, uart
  <2> QED
    BY <1>2, <2>1, EventQuiet DEF RxPath, At
<1>7. CASE IntEnaRead
  <2>1. /\ task.pc \in {"ena_tx", "ena_rx"} /\ task'.reg = int_ena
        /\ task'.pc = IF task.pc = "ena_tx" THEN "set_tx" ELSE "set_rx"
        /\ UNCHANGED <<wakeup, int_ena>>
    BY <1>1, <1>7 DEF IntEnaRead, uart
  <2>2. Distinct(comm_queue)' /\ EnaInv' /\ TxEventInv' /\ RxEventInv' /\ EarlyInv'
    BY <1>2, <2>1
    DEF EventInv, EnaInv, TxEventInv, RxEventInv, EarlyInv, RxPath, At
  <2> QED
    BY <2>2 DEF EventInv
<1>8. CASE IntEnaWrite
  <2>1. /\ task.pc \in {"set_tx", "set_rx"} /\ task.reg = int_ena /\ task'.pc = "idle"
        /\ int_ena'.rx = (int_ena.rx \/ task.pc = "set_rx")
        /\ UNCHANGED wakeup
    BY <1>1, <1>8 DEF IntEnaWrite, IntEnaSet, EventInv, EnaInv, IdleTask, IntBits
  <2>2. Distinct(comm_queue)' /\ EnaInv' /\ TxEventInv' /\ RxEventInv' /\ EarlyInv'
    BY <1>2, <2>1
    DEF EventInv, EnaInv, TxEventInv, RxEventInv, EarlyInv, RxPath, At
  <2> QED
    BY <2>2 DEF EventInv
<1> QED
  BY <1>3, <1>4, <1>5, <1>6, <1>7, <1>8 DEF TaskStep

(* The interrupt posts each event only when it is not in the queue. *)
LEMMA EventInterrupt ==
  ASSUME QuietUart, IInv, EventInv, Interrupt
  PROVE  EventInv'
<1> DEFINE q == IF RxStatus THEN Post(comm_queue, "DO_RX") ELSE comm_queue
<1>1. /\ comm_queue \in Seq(Events) /\ int_ena \in IntBits /\ task_pending \in BOOLEAN
      /\ rxfifo \in Nat
  BY UartAssumption DEF IInv, TypeOK, QueueType, FlagType, FifoType, Events
<1>2. /\ UNCHANGED <<task, boot, ctx, rxfifo>>
      /\ task.pc \notin {"set_tx", "set_rx"}
      /\ int_ena'.rx = (int_ena.rx /\ ~RxStatus)
      /\ int_ena'.tx = (int_ena.tx /\ ~TxStatus)
      /\ comm_queue' = IF TxStatus /\ ~task_pending THEN Post(q, "DO_TX") ELSE q
      /\ task_pending' = (task_pending \/ TxStatus)
  BY DEF Interrupt, IntEnaMasked, QuietUart
<1>3. boot = "running"
  <2>1. CASE RxStatus
    <3>1. rxfifo # 0
      BY <1>1, <2>1, UartAssumption DEF RxStatus
    <3> QED
      BY <3>1 DEF EventInv, EarlyInv
  <2>2. CASE TxStatus
    BY <2>2 DEF TxStatus, EventInv, EarlyInv
  <2> QED
    BY <2>1, <2>2 DEF Interrupt
<1>4. Registered
  BY <1>3 DEF Registered
<1>5. /\ q \in Seq(Events) /\ Distinct(q)
      /\ Has(q, "DO_TX") <=> Has(comm_queue, "DO_TX")
      /\ Has(q, "DO_RX") <=> Has(comm_queue, "DO_RX") \/ RxStatus
  <2>1. CASE RxStatus
    <3>1. ~Has(comm_queue, "DO_RX")
      BY <2>1 DEF RxStatus, EventInv, RxEventInv
    <3>2. /\ q \in Seq(Events) /\ Distinct(q)
          /\ \A d \in Events : Has(q, d) <=> Has(comm_queue, d) \/ d = "DO_RX"
      BY <1>1, <1>4, <2>1, <3>1, PostNew DEF EventInv, QuietUart, Events
    <3> HIDE DEF q
    <3> QED
      BY <2>1, <3>2 DEF Events
  <2>2. CASE ~RxStatus
    BY <1>1, <2>2 DEF EventInv
  <2> QED
    BY <2>1, <2>2
<1> HIDE DEF q
<1>6. CASE TxStatus /\ ~task_pending
  <2>1. ~Has(q, "DO_TX")
    BY <1>5, <1>6 DEF EventInv, TxEventInv
  <2>2. comm_queue' = Post(q, "DO_TX")
    BY <1>2, <1>6
  <2>3. /\ Distinct(comm_queue')
        /\ \A d \in Events : Has(comm_queue', d) <=> Has(q, d) \/ d = "DO_TX"
    BY <1>4, <1>5, <2>1, <2>2, PostNew DEF QuietUart, Events
  <2>4. /\ Has(comm_queue', "DO_TX")
        /\ Has(comm_queue', "DO_RX") <=> Has(comm_queue, "DO_RX") \/ RxStatus
    BY <1>5, <2>3 DEF Events
  <2>5. Distinct(comm_queue)' /\ EnaInv' /\ TxEventInv' /\ RxEventInv' /\ EarlyInv'
    BY <1>2, <1>3, <1>6, <2>3, <2>4
    DEF EventInv, EnaInv, TxEventInv, RxEventInv, EarlyInv, RxStatus, At
  <2> QED
    BY <2>5 DEF EventInv
<1>7. CASE ~(TxStatus /\ ~task_pending)
  <2>1. comm_queue' = q /\ task_pending' = task_pending
    BY <1>1, <1>2, <1>7
  <2>2. RxStatus => int_ena.rx
    BY DEF RxStatus
  <2>3. Distinct(comm_queue)' /\ EnaInv' /\ TxEventInv'
    BY <1>2, <1>5, <2>1 DEF EventInv, EnaInv, TxEventInv
  <2>4. RxEventInv' /\ EarlyInv'
    BY <1>2, <1>3, <1>5, <2>1, <2>2 DEF EventInv, RxEventInv, EarlyInv, At
  <2> QED
    BY <2>3, <2>4 DEF EventInv
<1> QED
  BY <1>6, <1>7

LEMMA EventNext ==
  ASSUME QuietUart, IInv, EventInv, [Next]_vars
  PROVE  EventInv'
<1>1. CASE BootStep
  BY <1>1, EventBoot
<1>2. CASE TaskStep
  BY <1>2, EventTask
<1>3. CASE HandlerSend
  <2>1. /\ task.pc = "rx_handler" /\ UNCHANGED <<task, boot, wakeup, int_ena, rxfifo>>
    BY <1>3 DEF HandlerSend, PushStart, uart
  <2> QED
    BY <2>1, EventQuiet DEF EventInv, EarlyInv
<1>4. CASE \E c \in Contexts : PushStep(c)
  BY <1>4, EventPush
<1>5. CASE \E c \in Tasks : TaskSend(c)
  <2>1. PICK c \in Tasks : TaskSend(c)
    BY <1>5
  <2>2. /\ UNCHANGED <<task, boot, wakeup, int_ena, rxfifo>>
        /\ At(Main, "idle")' = At(Main, "idle")
    BY <2>1, SenderAssumption
    DEF TaskSend, PushStart, uart, At, IInv, TypeOK, CtxType, Contexts
  <2> QED
    BY <2>2, EventQuiet DEF EventInv, EarlyInv
<1>6. CASE Interrupt
  BY <1>6, EventInterrupt
<1>7. CASE UartTxByte \/ UNCHANGED vars
  <2>1. UNCHANGED <<task, boot, wakeup, int_ena, rxfifo, ctx>>
    BY <1>7 DEF UartTxByte, vars, uart
  <2> QED
    BY <2>1, EventQuiet DEF EventInv, EarlyInv, At
<1>8. CASE UartRxByte
  <2>1. UNCHANGED <<task, boot, wakeup, int_ena, ctx>> /\ boot = "running"
    BY <1>8 DEF UartRxByte, QuietUart
  <2> QED
    BY <2>1, EventQuiet DEF EventInv, EarlyInv, At
<1> QED
  BY <1>1, <1>2, <1>3, <1>4, <1>5, <1>6, <1>7, <1>8 DEF Next

(* The event queue is long enough although no caller looks at the result of
   system_os_post: an event finds a place because it is never queued twice.
   Two places do; comm.c has three.  The two conditions on the UART are the
   ones under which the runs show the opposite. *)
THEOREM EventQueueLongEnough ==
  ASSUME NoWrap, QuietUart
  PROVE  Spec => []EventQueueSuffices
<1>1. Init => EventInv
  <2> SUFFICES ASSUME Init PROVE EventInv
    OBVIOUS
  <2>1. comm_queue = <<>> /\ task.pc = "idle" /\ task_pending = FALSE
        /\ int_ena = [rx |-> FALSE, tx |-> FALSE] /\ boot = "reset" /\ rxfifo = 0
        /\ At(Main, "idle")
    BY DEF Init, IdleTask, IdlePush, At, Contexts
  <2>2. \A e : ~Has(comm_queue, e)
    BY <2>1 DEF Has
  <2>3. Distinct(comm_queue)
    BY <2>1 DEF Distinct
  <2> QED
    BY <2>1, <2>2, <2>3
    DEF EventInv, TxEventInv, RxEventInv, EnaInv, EarlyInv, RxPath
<1>2. IInv /\ EventInv /\ [Next]_vars => EventInv'
  BY EventNext
<1>3. IInv /\ EventInv => EventQueueSuffices
  <2> SUFFICES ASSUME IInv, EventInv PROVE EventQueueSuffices
    OBVIOUS
  <2>1. PendingMeansQueued
    <3>1. task.pc = "tx_start" => TaskAt("tx_start")
      BY DEF EventInv, EarlyInv, TaskAt, IInv, BootInv, IdleTask
    <3> QED
      BY <3>1 DEF EventInv, TxEventInv, PendingMeansQueued, Has
  <2>2. OneRxEvent
    <3> DEFINE I == {i \in DOMAIN comm_queue : comm_queue[i] = "DO_RX"}
    <3>1. CASE I = {}
      BY <3>1, NoneCounted DEF OneRxEvent
    <3>2. CASE I # {}
      <4>1. PICK i : i \in I
        BY <3>2
      <4>2. I = {i}
        BY <4>1 DEF EventInv, Distinct
      <4> QED
        BY <4>2, FS_Singleton DEF OneRxEvent
    <3> QED
      BY <3>1, <3>2
  <2> QED
    BY <2>1, <2>2 DEF EventQueueSuffices
<1> QED
  BY <1>1, <1>2, <1>3, Invariance, PTL DEF Spec
=============================================================================
