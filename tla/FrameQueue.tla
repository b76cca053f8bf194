----------------------------- MODULE FrameQueue -----------------------------
(***************************************************************************)
(* What the transmitter of user_main/comm.c promises to those who call     *)
(* comm_send: a bounded first-in first-out queue of frames whose bytes     *)
(* reach the UART frame after frame.  A frame may be refused; once         *)
(* accepted it leaves whole, in its turn, exactly once.                    *)
(***************************************************************************)
EXTENDS Naturals, Sequences

CONSTANTS Capacity,   \* TX_RING_BUFFER_SIZE
          Payloads    \* what a frame is: here its length and priority

VARIABLES queue,      \* frames accepted and not finished, oldest first
          progress,   \* bytes of the oldest frame already handed over
          delivered   \* number of frames handed over completely

fqvars == <<queue, progress, delivered>>

Init == queue = <<>> /\ progress = 0 /\ delivered = 0

(* The number of a frame is its place in the order of acceptance. *)
Accept ==
  /\ Len(queue) < Capacity
  /\ \E f \in Payloads :
       queue' = Append(queue, [seq |-> delivered + Len(queue) + 1,
                               len |-> f.len, prio |-> f.prio])
  /\ UNCHANGED <<progress, delivered>>

(* More bytes of the oldest frame, but not yet all of them. *)
Advance ==
  /\ queue # <<>>
  /\ progress' \in (progress + 1)..(Head(queue).len - 1)
  /\ UNCHANGED <<queue, delivered>>

(* The last bytes of the oldest frame. *)
Finish ==
  /\ queue # <<>>
  /\ queue' = Tail(queue)
  /\ progress' = 0
  /\ delivered' = delivered + 1

Next == Accept \/ Advance \/ Finish

Spec == Init /\ [][Next]_fqvars
=============================================================================
