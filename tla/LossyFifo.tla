----------------------------- MODULE LossyFifo ------------------------------
(***************************************************************************)
(* What the event queue promises its callers, without threads or locks: a  *)
(* bounded FIFO that may lose events but never reorders, duplicates or     *)
(* resurrects one, and that accepts nothing once it is closed.             *)
(***************************************************************************)
EXTENDS Integers, Sequences, FiniteSets

CONSTANTS Events,    \* the events that may be offered
          Capacity   \* how many accepted events may be unsettled at once

VARIABLES open,      \* whether events are still accepted
          pending,   \* the accepted, unsettled events, oldest first
          delivered, \* the events that reached the store
          lost       \* the events that were refused, dropped or failed

vars == <<open, pending, delivered, lost>>

InPending(e) == \E i \in DOMAIN pending : pending[i] = e
Fresh(e) == e \notin delivered \cup lost /\ ~InPending(e)

Init ==
    /\ open = TRUE
    /\ pending = <<>>
    /\ delivered = {}
    /\ lost = {}

Accept(e) ==
    /\ open /\ Fresh(e) /\ Len(pending) < Capacity
    /\ pending' = Append(pending, e)
    /\ UNCHANGED <<open, delivered, lost>>

Discard(e) ==
    /\ Fresh(e)
    /\ lost' = lost \cup {e}
    /\ UNCHANGED <<open, pending, delivered>>

Deliver ==
    /\ pending # <<>>
    /\ delivered' = delivered \cup {Head(pending)}
    /\ pending' = Tail(pending)
    /\ UNCHANGED <<open, lost>>

(* The oldest event is lost, or, while that one is being written, the next. *)
Lose(i) ==
    /\ i \in 1..2 /\ i <= Len(pending)
    /\ lost' = lost \cup {pending[i]}
    /\ pending' = SubSeq(pending, 1, i - 1) \o SubSeq(pending, i + 1, Len(pending))
    /\ UNCHANGED <<open, delivered>>

Close ==
    /\ open
    /\ open' = FALSE
    /\ UNCHANGED <<pending, delivered, lost>>

Next ==
    \/ \E e \in Events : Accept(e) \/ Discard(e)
    \/ Deliver
    \/ \E i \in 1..2 : Lose(i)
    \/ Close

Spec == Init /\ [][Next]_vars

=============================================================================
