---------------------------- MODULE BoundedQueue ----------------------------
(***************************************************************************)
(* What the rest of the suite expects of CBuffer and CBufferNoSync: a      *)
(* first-in first-out queue of at most Size elements.  A write to a full   *)
(* queue and a read from an empty one are refused and change nothing.      *)
(***************************************************************************)
EXTENDS Naturals, Sequences

CONSTANTS Size, Values, NoValue

VARIABLES queue, reply   \* reply: what the last operation returned

Refused    == [ok |-> FALSE, value |-> NoValue]
Written    == [ok |-> TRUE,  value |-> NoValue]
Returns(v) == [ok |-> TRUE,  value |-> v]

Init == queue = <<>> /\ reply = Refused

Put(v) ==
  \/ /\ Len(queue) < Size
     /\ queue' = Append(queue, v)
     /\ reply' = Written
  \/ /\ Len(queue) = Size
     /\ reply' = Refused
     /\ UNCHANGED queue

Get ==
  \/ /\ queue # <<>>
     /\ queue' = Tail(queue)
     /\ reply' = Returns(Head(queue))
  \/ /\ queue = <<>>
     /\ reply' = Refused
     /\ UNCHANGED queue

Next == Get \/ \E v \in Values : Put(v)

Spec == Init /\ [][Next]_<<queue, reply>>
=============================================================================
