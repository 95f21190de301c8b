---------------------------- MODULE BufferNoSync ----------------------------
(***************************************************************************)
(* The cyclic buffer CBufferNoSync (EIBStdLib/include/BufferNoSync.h) that *)
(* holds the frames for the output handler and, wrapped in a lock as       *)
(* CBuffer, the frames for each client.  Every operation runs under the    *)
(* lock of CBuffer, or of the handler that owns the buffer, and is one     *)
(* step.                                                                   *)
(***************************************************************************)
EXTENDS Integers, Sequences

CONSTANTS
  Size,    (* MaxSize, 100 for the output handler, 250 by default            *)
  Values,  (* the elements                                                   *)
  NoValue  (* what a cell holds before its first Write                     *)

ASSUME SizeAssumption == Size \in Nat \ {0}
ASSUME NoValueAssumption == NoValue \notin Values

VARIABLES
  data,    (* _data, NoValue where nothing was written yet                   *)
  head,    (* _head, the cell the next Write fills                         *)
  tail,    (* _tail, the cell the next Read takes                          *)
  empty,   (* _empty                                                         *)
  full,    (* _full                                                          *)
  reply    (* what the last operation returned                               *)

bufferVars == <<data, head, tail, empty, full, reply>>

Cells   == 0 .. Size - 1
Next1(i)  == (i + 1) % Size
Refused    == [ok |-> FALSE, value |-> NoValue]
Written    == [ok |-> TRUE,  value |-> NoValue]
Returns(v) == [ok |-> TRUE,  value |-> v]

BufferInit ==
  /\ data = [i \in Cells |-> NoValue]
  /\ head = 0
  /\ tail = 0
  /\ empty = TRUE
  /\ full = FALSE
  /\ reply = Refused

BufferRead ==
  IF empty
  THEN reply' = Refused /\ UNCHANGED <<data, head, tail, empty, full>>
  ELSE /\ reply' = Returns(data[tail])
       /\ full' = FALSE
       /\ tail' = Next1(tail)
       /\ empty' = (tail' = head)
       /\ UNCHANGED <<data, head>>

(* Mutant: a write to a full buffer replaces the oldest element.            *)
WriteOverwrites(v) ==
  /\ data' = [data EXCEPT ![head] = v]
  /\ empty' = FALSE
  /\ head' = Next1(head)
  /\ full' = (full \/ tail = head')
  /\ tail' = IF full THEN Next1(tail) ELSE tail
  /\ reply' = Written

BufferWrite(v) ==
  IF full
  THEN reply' = Refused /\ UNCHANGED <<data, head, tail, empty, full>>
  ELSE /\ data' = [data EXCEPT ![head] = v]
       /\ empty' = FALSE
       /\ head' = Next1(head)
       /\ full' = (tail = head')
       /\ reply' = Written
       /\ UNCHANGED tail

BufferNext == BufferRead \/ \E v \in Values : BufferWrite(v)

BufferSpec == BufferInit /\ [][BufferNext]_bufferVars

-----------------------------------------------------------------------------
(* The number of elements, which the class itself never computes.           *)
Count == IF full THEN Size
         ELSE IF tail <= head THEN head - tail ELSE head - tail + Size

(* The cell of the i-th oldest element.                                     *)
Cell(i) == IF tail + i - 1 < Size THEN tail + i - 1 ELSE tail + i - 1 - Size

Contents == [i \in 1 .. Count |-> data[Cell(i)]]

BufferTypeOK ==
  /\ data \in [Cells -> Values \cup {NoValue}]
  /\ head \in Cells /\ tail \in Cells
  /\ empty \in BOOLEAN /\ full \in BOOLEAN
  /\ reply \in [ok : BOOLEAN, value : Values \cup {NoValue}]

(* The two flags tell apart the two meanings of head = tail, and are never  *)
(* both set: a buffer that claims to be full and empty would refuse reads   *)
(* and writes for ever.                                                     *)
FlagsConsistent ==
  /\ ~(empty /\ full)
  /\ (head = tail) <=> (empty \/ full)

(* Writes and reads of the cyclic buffer are those of a bounded queue: no   *)
(* element is lost, reordered, invented or returned twice across the wrap.  *)
Queue == INSTANCE BoundedQueue WITH queue <- Contents
ImplementsQueue == Queue!Spec
=============================================================================
