------------------------------ MODULE Channel ------------------------------
(***************************************************************************)
(* What jp_queue promises to its two users, without ring, lock or          *)
(* condition variables: a bounded FIFO channel with one sender and one     *)
(* receiver that can be closed once and for all.                           *)
(*                                                                         *)
(* A send is two-phased.  The sender is admitted while the channel is      *)
(* open, and an admitted sender may still deliver one item after the       *)
(* channel was closed, never two.  The receiver is told that the stream    *)
(* has ended only when the channel is closed and empty.                    *)
(***************************************************************************)
EXTENDS Naturals, Sequences

CONSTANTS
  Capacity,     \* most items the channel holds
  Lossy,        \* an open channel may refuse a sender when it is full
  Data          \* the items

VARIABLES
  chan,         \* the items sent and not yet received, oldest first
  open,         \* the channel has not been closed
  admitted,     \* the sender was let in and has neither sent nor given up
  eos           \* the receiver was told that the stream has ended

vars == <<chan, open, admitted, eos>>

Init ==
  /\ chan = << >>
  /\ open = TRUE
  /\ admitted = FALSE
  /\ eos = FALSE

\* The sender is let in.  Only an open channel lets a sender in.
Admit ==
  /\ open
  /\ ~admitted
  /\ admitted' = TRUE
  /\ UNCHANGED <<chan, open, eos>>

\* An admitted sender delivers its item, also when the channel was closed
\* in between.
Send(v) ==
  /\ admitted
  /\ Len(chan) < Capacity
  /\ chan' = Append(chan, v)
  /\ admitted' = FALSE
  /\ UNCHANGED <<open, eos>>

\* An admitted sender is refused: by a closed channel, or by a lossy one
\* that is full.
Refuse ==
  /\ admitted
  /\ ~open \/ (Lossy /\ Len(chan) = Capacity)
  /\ admitted' = FALSE
  /\ UNCHANGED <<chan, open, eos>>

\* The receiver takes the oldest item.
Receive ==
  /\ chan # << >>
  /\ ~eos
  /\ chan' = Tail(chan)
  /\ UNCHANGED <<open, admitted, eos>>

\* Closing is final.
Close ==
  /\ open' = FALSE
  /\ UNCHANGED <<chan, admitted, eos>>

\* The receiver is told that nothing is left.
EndOfStream ==
  /\ ~open
  /\ chan = << >>
  /\ eos' = TRUE
  /\ UNCHANGED <<chan, open, admitted>>

Next ==
  \/ Admit
  \/ \E v \in Data : Send(v)
  \/ Refuse
  \/ Receive
  \/ Close
  \/ EndOfStream

Spec == Init /\ [][Next]_vars

=============================================================================
