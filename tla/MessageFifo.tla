----------------------------- MODULE MessageFifo -----------------------------
(***************************************************************************)
(* What a message-queue device promises: messages leave in the order they  *)
(* were put in, each one to one reader at most; unloading empties the      *)
(* queue.                                                                  *)
(***************************************************************************)
EXTENDS Sequences

CONSTANTS Proc, Msg, Nothing

VARIABLES
    fifo,   \* messages put and not yet taken, oldest first
    hand    \* hand[p]: the message p's read has taken, or Nothing

fifoVars == <<fifo, hand>>

FifoInit ==
    /\ fifo = <<>>
    /\ hand = [p \in Proc |-> Nothing]

Put(m) ==
    /\ fifo' = Append(fifo, m)
    /\ UNCHANGED hand

Take(p) ==
    /\ fifo # <<>>
    /\ hand[p] = Nothing
    /\ hand' = [hand EXCEPT ![p] = Head(fifo)]
    /\ fifo' = Tail(fifo)

\* The read returns, with the message or having dropped it on a bad buffer.
Finish(p) ==
    /\ hand[p] # Nothing
    /\ hand' = [hand EXCEPT ![p] = Nothing]
    /\ UNCHANGED fifo

Clear ==
    /\ fifo' = <<>>
    /\ UNCHANGED hand

FifoNext ==
    \/ \E m \in Msg : Put(m)
    \/ \E p \in Proc : Take(p) \/ Finish(p)
    \/ Clear

FifoSpec == FifoInit /\ [][FifoNext]_fifoVars
=============================================================================
