------------------------------ MODULE LcdFifo ------------------------------
(* What the code that prints on the LCD counts on: a queue of Slots        *)
(* operations.  A print hands over its operations one after the other; one *)
(* that finds the queue full is dropped, the others leave the queue        *)
(* unchanged and in the order they came in; a reset empties the queue.     *)
EXTENDS Naturals, Sequences

CONSTANTS Ops, Slots

VARIABLES fifo, taken, input

fifoVars == <<fifo, taken, input>>

FifoInit == fifo = <<>> /\ taken \in Ops /\ input = <<>>

Submit ==
  /\ input = <<>> /\ input' \in Seq(Ops)
  /\ UNCHANGED <<fifo, taken>>

Put ==
  /\ input # <<>>
  /\ fifo' = IF Len(fifo) < Slots THEN Append(fifo, Head(input)) ELSE fifo
  /\ input' = Tail(input)
  /\ UNCHANGED taken

Take ==
  /\ input = <<>> /\ fifo # <<>>
  /\ taken' = Head(fifo)
  /\ fifo' = Tail(fifo)
  /\ UNCHANGED input

Reset ==
  /\ input = <<>> /\ input' \in Seq(Ops)
  /\ fifo' = <<>> /\ taken' \in Ops

FifoNext == Submit \/ Put \/ Take \/ Reset

FifoSpec == FifoInit /\ [][FifoNext]_fifoVars
=============================================================================
