-------------------------- MODULE ServerPartsProofs --------------------------
(***************************************************************************)
(* Theorems about five parts of the server that MCServerParts checks.  For  *)
(* every size and every set of values, the cyclic buffer is well typed, its *)
(* flags are consistent, and it implements a bounded first-in first-out     *)
(* queue.  For every period, nap and bound, the scheduler sends the commands*)
(* in the order of their times, each accepted command exactly once and not  *)
(* before its time, and late by no more than the time between two checks.   *)
(* For every set of users and of browsers, the list of users that is saved  *)
(* takes effect, and a request is let in only with a right of its user.     *)
(* For every table of statistics, what is read of an address is what came   *)
(* for it, the newest first, wherever the reader is in its changes.  For     *)
(* every set of threads, the monitor of the threads library has Mesa         *)
(* semantics.                                                              *)
(***************************************************************************)
EXTENDS BufferNoSync, CommandScheduler, WebSessions, StatsRecords, JtcMonitor,
        ModularArithmetic, SequenceTheorems, FiniteSetTheorems, TLAPS

(***************************************************************************)
(* The cyclic buffer.                                                      *)
(***************************************************************************)
(* The index after the last cell is the first one.                          *)
LEMMA Next1Value ==
  ASSUME NEW i \in Cells
  PROVE  Next1(i) = IF i = Size - 1 THEN 0 ELSE i + 1
<1>1. CASE i = Size - 1
  BY <1>1, SizeAssumption DEF Next1, Cells
<1>2. CASE i # Size - 1
  BY <1>2, SizeAssumption DEF Next1, Cells
<1>3. QED BY <1>1, <1>2

(* BufferTypeOK and FlagsConsistent together are inductive.                       *)
BufferInv == BufferTypeOK /\ FlagsConsistent

LEMMA InitInv == BufferInit => BufferInv
<1> SUFFICES ASSUME BufferInit PROVE BufferInv
  OBVIOUS
<1> USE DEF BufferInit
<1>1. head \in Cells /\ tail \in Cells
  BY SizeAssumption DEF Cells
<1>2. data \in [Cells -> Values \cup {NoValue}]
  OBVIOUS
<1>3. reply \in [ok : BOOLEAN, value : Values \cup {NoValue}]
  BY DEF Refused
<1>4. BufferTypeOK
  BY <1>1, <1>2, <1>3 DEF BufferTypeOK
<1>5. FlagsConsistent
  BY DEF FlagsConsistent
<1>6. QED BY <1>4, <1>5 DEF BufferInv

(* A reply of the buffer is well typed.                                     *)
LEMMA ReplyTypes ==
  ASSUME NEW v \in Values \cup {NoValue}
  PROVE  {Refused, Written, Returns(v)} \subseteq
           [ok : BOOLEAN, value : Values \cup {NoValue}]
BY DEF Refused, Written, Returns

LEMMA ReadInv == BufferInv /\ BufferRead => BufferInv'
<1> SUFFICES ASSUME BufferInv, BufferRead PROVE BufferInv'
  OBVIOUS
<1>1. BufferTypeOK /\ FlagsConsistent
  BY DEF BufferInv
<1>2. CASE empty
  <2>1. reply' = Refused /\ UNCHANGED <<data, head, tail, empty, full>>
    BY <1>2 DEF BufferRead
  <2>2. reply' \in [ok : BOOLEAN, value : Values \cup {NoValue}]
    BY <2>1 DEF Refused
  <2>3. BufferTypeOK'
    BY <1>1, <2>1, <2>2 DEF BufferTypeOK
  <2>4. FlagsConsistent'
    BY <1>1, <2>1 DEF FlagsConsistent
  <2>5. QED BY <2>3, <2>4 DEF BufferInv
<1>3. CASE ~empty
  <2>1. /\ reply' = Returns(data[tail])
        /\ full' = FALSE
        /\ tail' = Next1(tail)
        /\ empty' = (tail' = head)
        /\ data' = data /\ head' = head
    BY <1>3 DEF BufferRead
  <2>2. data[tail] \in Values \cup {NoValue}
    BY <1>1 DEF BufferTypeOK
  <2>3. reply' \in [ok : BOOLEAN, value : Values \cup {NoValue}]
    BY <2>1, <2>2, ReplyTypes
  <2>4. tail' \in Cells
    BY <1>1, <2>1, Next1Value, SizeAssumption DEF BufferTypeOK, Cells
  <2>5. empty' \in BOOLEAN /\ full' \in BOOLEAN
    BY <2>1
  <2>6. BufferTypeOK'
    BY <1>1, <2>1, <2>3, <2>4, <2>5 DEF BufferTypeOK
  <2>7. FlagsConsistent'
    BY <2>1 DEF FlagsConsistent
  <2>8. QED BY <2>6, <2>7 DEF BufferInv
<1>4. QED BY <1>2, <1>3

LEMMA WriteInv ==
  ASSUME NEW v \in Values, BufferInv, BufferWrite(v)
  PROVE  BufferInv'
<1>1. BufferTypeOK /\ FlagsConsistent
  BY DEF BufferInv
<1>2. CASE full
  <2>1. reply' = Refused /\ UNCHANGED <<data, head, tail, empty, full>>
    BY <1>2 DEF BufferWrite
  <2>2. reply' \in [ok : BOOLEAN, value : Values \cup {NoValue}]
    BY <2>1 DEF Refused
  <2>3. BufferTypeOK'
    BY <1>1, <2>1, <2>2 DEF BufferTypeOK
  <2>4. FlagsConsistent'
    BY <1>1, <2>1 DEF FlagsConsistent
  <2>5. QED BY <2>3, <2>4 DEF BufferInv
<1>3. CASE ~full
  <2>1. /\ data' = [data EXCEPT ![head] = v]
        /\ empty' = FALSE
        /\ head' = Next1(head)
        /\ full' = (tail = head')
        /\ reply' = Written
        /\ tail' = tail
    BY <1>3 DEF BufferWrite
  <2>2. data' \in [Cells -> Values \cup {NoValue}]
    BY <1>1, <2>1 DEF BufferTypeOK
  <2>3. reply' \in [ok : BOOLEAN, value : Values \cup {NoValue}]
    BY <2>1 DEF Written
  <2>4. head' \in Cells
    BY <1>1, <2>1, Next1Value, SizeAssumption DEF BufferTypeOK, Cells
  <2>5. empty' \in BOOLEAN /\ full' \in BOOLEAN
    BY <2>1
  <2>6. BufferTypeOK'
    BY <1>1, <2>1, <2>2, <2>3, <2>4, <2>5 DEF BufferTypeOK
  <2>7. FlagsConsistent'
    BY <2>1 DEF FlagsConsistent
  <2>8. QED BY <2>6, <2>7 DEF BufferInv
<1>4. QED BY <1>2, <1>3

LEMMA StepInv == BufferInv /\ [BufferNext]_bufferVars => BufferInv'
<1>1. ASSUME BufferInv, UNCHANGED bufferVars PROVE BufferInv'
  BY <1>1 DEF bufferVars, BufferInv, BufferTypeOK, FlagsConsistent
<1>2. QED BY <1>1, ReadInv, WriteInv DEF BufferNext

(* The buffer keeps its types: head and tail always name a cell.            *)
THEOREM BufferTypeCorrect == BufferSpec => []BufferTypeOK
<1>1. BufferSpec => []BufferInv BY InitInv, StepInv, PTL DEF BufferSpec
<1>2. QED BY <1>1, PTL DEF BufferInv

(* CBufferNoSync::Read and Write keep the two flags consistent with the    *)
(* indices, so a full buffer is never taken for an empty one.               *)
THEOREM FlagsCorrect == BufferSpec => []FlagsConsistent
<1>1. BufferSpec => []BufferInv BY InitInv, StepInv, PTL DEF BufferSpec
<1>2. QED BY <1>1, PTL DEF BufferInv

-----------------------------------------------------------------------------
(***************************************************************************)
(* The buffer implements the bounded queue.                                *)
(***************************************************************************)
Any == Values \cup {NoValue}

(* The number of elements, and where the elements lie.                      *)
LEMMA CountValue ==
  ASSUME BufferInv
  PROVE  /\ Count \in 0 .. Size
         /\ empty <=> Count = 0
         /\ full <=> Count = Size
BY SizeAssumption DEF BufferInv, BufferTypeOK, FlagsConsistent, Count, Cells

LEMMA CellValue ==
  ASSUME BufferInv, NEW i \in 1 .. Size
  PROVE  Cell(i) \in Cells
BY SizeAssumption DEF BufferInv, BufferTypeOK, Cell, Cells

(* Contents is the sequence its definition reads as.                        *)
LEMMA ContentsValue ==
  ASSUME BufferInv
  PROVE  /\ Contents \in Seq(Any)
         /\ Len(Contents) = Count
         /\ \A i \in 1 .. Count : Contents[i] = data[Cell(i)]
<1>1. Count \in Nat /\ Count <= Size
  BY CountValue, SizeAssumption
<1>2. \A i \in 1 .. Count : data[Cell(i)] \in Any
  BY <1>1, CellValue, SizeAssumption DEF BufferInv, BufferTypeOK, Any
<1>3. Contents \in [1 .. Count -> Any]
  BY <1>2 DEF Contents
<1>4. Contents \in Seq(Any)
  BY <1>1, <1>3, SeqDef
<1>5. Len(Contents) = Count
  BY <1>1, <1>3, <1>4, LenProperties
<1>6. QED BY <1>4, <1>5 DEF Contents

(* The cell a Write fills is the one after the newest element, and none of *)
(* the cells of the elements.                                               *)
LEMMA HeadCell ==
  ASSUME BufferInv, ~full
  PROVE  /\ Cell(Count + 1) = head
         /\ \A i \in 1 .. Count : Cell(i) # head
<1>1. Cell(Count + 1) = head
  BY SizeAssumption DEF BufferInv, BufferTypeOK, FlagsConsistent, Count, Cell, Cells
<1>2. ASSUME NEW i \in 1 .. Count PROVE Cell(i) # head
  BY <1>2, SizeAssumption DEF BufferInv, BufferTypeOK, FlagsConsistent, Count, Cell, Cells
<1>3. QED BY <1>1, <1>2

(* The buffer after a Write that was not refused.                          *)
LEMMA AfterWrite ==
  ASSUME NEW v \in Values, BufferInv, BufferWrite(v), ~full
  PROVE  /\ Count' = Count + 1
         /\ \A i \in 1 .. Count + 1 : Cell(i)' = Cell(i)
<1>1. /\ head' = Next1(head) /\ tail' = tail /\ full' = (tail = head')
  BY DEF BufferWrite
<1>2. head' = IF head = Size - 1 THEN 0 ELSE head + 1
  BY <1>1, Next1Value DEF BufferInv, BufferTypeOK
<1>3. tail \in 0 .. Size - 1 /\ head \in 0 .. Size - 1 /\ Size \in Nat \ {0}
  BY SizeAssumption DEF BufferInv, BufferTypeOK, Cells
<1>4. Count = IF tail <= head THEN head - tail ELSE head - tail + Size
  BY DEF Count
<1>5. Count' = Count + 1
  <2>1. CASE tail = head'
    <3>1. Count' = Size
      BY <1>1, <2>1 DEF Count
    <3>2. QED BY <1>2, <1>3, <1>4, <2>1, <3>1
  <2>2. CASE tail # head'
    <3>1. Count' = IF tail <= head' THEN head' - tail ELSE head' - tail + Size
      BY <1>1, <2>2 DEF Count
    <3>2. QED BY <1>2, <1>3, <1>4, <2>2, <3>1
  <2>3. QED BY <2>1, <2>2
<1>6. \A i \in 1 .. Count + 1 : Cell(i)' = Cell(i)
  BY <1>1 DEF Cell
<1>7. QED BY <1>5, <1>6

(* The buffer after a Read that was not refused.                           *)
LEMMA AfterRead ==
  ASSUME BufferInv, BufferRead, ~empty
  PROVE  /\ Count' = Count - 1
         /\ Cell(1) = tail
         /\ \A i \in 1 .. Count - 1 : Cell(i)' = Cell(i + 1)
<1>1. /\ head' = head /\ tail' = Next1(tail) /\ full' = FALSE
      /\ empty' = (tail' = head)
  BY DEF BufferRead
<1>2. tail' = IF tail = Size - 1 THEN 0 ELSE tail + 1
  BY <1>1, Next1Value DEF BufferInv, BufferTypeOK
<1>3. tail \in 0 .. Size - 1 /\ head \in 0 .. Size - 1 /\ Size \in Nat \ {0}
  BY SizeAssumption DEF BufferInv, BufferTypeOK, Cells
<1>4. full <=> head = tail
  BY DEF BufferInv, BufferTypeOK, FlagsConsistent
<1>5. Count' = Count - 1
  <2>1. Count' = IF tail' <= head THEN head - tail' ELSE head - tail' + Size
    BY <1>1 DEF Count
  <2>2. CASE full
    <3>1. Count = Size
      BY <2>2 DEF Count
    <3>2. QED BY <1>2, <1>3, <1>4, <2>1, <2>2, <3>1
  <2>3. CASE ~full
    <3>1. Count = IF tail <= head THEN head - tail ELSE head - tail + Size
      BY <2>3 DEF Count
    <3>2. QED BY <1>2, <1>3, <1>4, <2>1, <2>3, <3>1
  <2>4. QED BY <2>2, <2>3
<1>6. Cell(1) = tail
  BY <1>3 DEF Cell
<1>7. \A i \in 1 .. Count - 1 : Cell(i)' = Cell(i + 1)
  <2>1. Count <= Size /\ Count \in Nat
    BY CountValue, <1>3
  <2>2. QED BY <1>1, <1>2, <1>3, <2>1 DEF Cell
<1>8. QED BY <1>5, <1>6, <1>7

LEMMA PrimedContentsValue ==
  ASSUME BufferInv'
  PROVE  /\ Contents' \in Seq(Any)
         /\ Len(Contents') = Count'
         /\ \A i \in 1 .. Count' : Contents'[i] = data'[Cell(i)']
<1>1. (/\ Contents \in Seq(Any)
       /\ Len(Contents) = Count
       /\ \A i \in 1 .. Count : Contents[i] = data[Cell(i)])'
  BY ContentsValue, PTL
<1>2. QED BY <1>1 DEF Any

LEMMA WriteRefines ==
  ASSUME NEW v \in Values, BufferInv, BufferInv', BufferWrite(v)
  PROVE  Queue!Put(v)
<1>1. CASE full
  <2>1. reply' = Refused /\ UNCHANGED <<data, head, tail, full>>
    BY <1>1 DEF BufferWrite
  <2>2. Count' = Count /\ \A i : Cell(i)' = Cell(i)
    BY <2>1 DEF Count, Cell
  <2>3. Contents' = Contents
    BY <2>1, <2>2 DEF Contents
  <2>4. Len(Contents) = Size
    BY <1>1, CountValue, ContentsValue
  <2>5. QED BY <2>1, <2>3, <2>4 DEF Queue!Put, Queue!Refused, Refused
<1>2. CASE ~full
  <2>1. /\ data' = [data EXCEPT ![head] = v]
        /\ reply' = Written
    BY <1>2 DEF BufferWrite
  <2>2. /\ Count \in Nat /\ Count < Size
        /\ Contents \in Seq(Any) /\ Len(Contents) = Count
        /\ \A i \in 1 .. Count : Contents[i] = data[Cell(i)]
    BY <1>2, CountValue, ContentsValue, SizeAssumption
  <2>3. /\ Contents' \in Seq(Any) /\ Len(Contents') = Count'
        /\ \A i \in 1 .. Count' : Contents'[i] = data'[Cell(i)']
    BY PrimedContentsValue
  <2>4. /\ Append(Contents, v) \in Seq(Any)
        /\ Len(Append(Contents, v)) = Count + 1
        /\ \A i \in 1 .. Count + 1 :
             Append(Contents, v)[i] = IF i = Count + 1 THEN v ELSE Contents[i]
    BY <2>2, AppendProperties DEF Any
  <2>5. Count' = Count + 1 /\ \A i \in 1 .. Count + 1 : Cell(i)' = Cell(i)
    BY <1>2, AfterWrite
  <2>6. /\ Cell(Count + 1) = head
        /\ \A i \in 1 .. Count : Cell(i) # head
    BY <1>2, HeadCell
  <2>7. ASSUME NEW i \in 1 .. Count + 1
        PROVE  Contents'[i] = Append(Contents, v)[i]
    <3>1. Cell(i) \in Cells
      <4>1. i \in 1 .. Size
        BY <2>2, SizeAssumption
      <4>2. QED BY <4>1, CellValue
    <3>2. Contents'[i] = data'[Cell(i)]
      BY <2>3, <2>5
    <3>3. data \in [Cells -> Any]
      BY DEF BufferInv, BufferTypeOK, Any
    <3>4. CASE i = Count + 1
      BY <2>1, <2>4, <2>6, <3>1, <3>2, <3>3, <3>4
    <3>5. CASE i # Count + 1
      <4>1. i \in 1 .. Count
        BY <2>2, <3>5
      <4>2. data'[Cell(i)] = data[Cell(i)]
        BY <2>1, <2>6, <3>1, <3>3, <4>1
      <4>3. QED BY <2>2, <2>4, <3>2, <3>5, <4>1, <4>2
    <3>6. QED BY <3>4, <3>5
  <2>8. Contents' = Append(Contents, v)
    BY <2>3, <2>4, <2>5, <2>7, SeqEqual
  <2>9. QED BY <2>1, <2>2, <2>8 DEF Queue!Put, Queue!Written, Written
<1>3. QED BY <1>1, <1>2

LEMMA ReadRefines ==
  ASSUME BufferInv, BufferInv', BufferRead
  PROVE  Queue!Get
<1>1. CASE empty
  <2>1. reply' = Refused /\ UNCHANGED <<data, head, tail, full>>
    BY <1>1 DEF BufferRead
  <2>2. Count' = Count /\ \A i : Cell(i)' = Cell(i)
    BY <2>1 DEF Count, Cell
  <2>3. Contents' = Contents
    BY <2>1, <2>2 DEF Contents
  <2>4. Contents = <<>>
    <3>1. Contents \in Seq(Any) /\ Len(Contents) = 0
      BY <1>1, CountValue, ContentsValue
    <3>2. QED BY <3>1, EmptySeq, SeqEqual
  <2>5. QED BY <2>1, <2>3, <2>4 DEF Queue!Get, Queue!Refused, Refused
<1>2. CASE ~empty
  <2>1. data' = data /\ reply' = Returns(data[tail])
    BY <1>2 DEF BufferRead
  <2>2. /\ Count \in Nat \ {0}
        /\ Contents \in Seq(Any) /\ Len(Contents) = Count
        /\ \A i \in 1 .. Count : Contents[i] = data[Cell(i)]
    BY <1>2, CountValue, ContentsValue, SizeAssumption
  <2>3. /\ Contents' \in Seq(Any) /\ Len(Contents') = Count'
        /\ \A i \in 1 .. Count' : Contents'[i] = data'[Cell(i)']
    BY PrimedContentsValue
  <2>4. Contents # <<>>
    BY <2>2, EmptySeq
  <2>5. /\ Tail(Contents) \in Seq(Any)
        /\ Len(Tail(Contents)) = Count - 1
        /\ \A i \in 1 .. Count - 1 : Tail(Contents)[i] = Contents[i + 1]
    BY <2>2, <2>4, HeadTailProperties
  <2>6. /\ Count' = Count - 1
        /\ Cell(1) = tail
        /\ \A i \in 1 .. Count - 1 : Cell(i)' = Cell(i + 1)
    BY <1>2, AfterRead
  <2>7. ASSUME NEW i \in 1 .. Count - 1
        PROVE  Contents'[i] = Tail(Contents)[i]
    <3>1. i + 1 \in 1 .. Count
      BY <2>2
    <3>2. Contents'[i] = data[Cell(i + 1)]
      BY <2>1, <2>3, <2>6
    <3>3. QED BY <2>2, <2>5, <3>1, <3>2
  <2>8. Contents' = Tail(Contents)
    BY <2>2, <2>3, <2>5, <2>6, <2>7, SeqEqual
  <2>9. Head(Contents) = data[tail]
    <3>1. Contents[1] = data[Cell(1)]
      BY <2>2
    <3>2. QED BY <2>2, <2>4, <2>6, <3>1
  <2>10. QED BY <2>1, <2>4, <2>8, <2>9 DEF Queue!Get, Queue!Returns, Returns
<1>3. QED BY <1>1, <1>2

(* Every operation of CBufferNoSync is an operation of the bounded queue.   *)
LEMMA StepRefines ==
  ASSUME BufferInv, BufferInv', [BufferNext]_bufferVars
  PROVE  [Queue!Next]_<<Contents, reply>>
<1>1. CASE UNCHANGED bufferVars
  <2>1. Count' = Count /\ (\A i : Cell(i)' = Cell(i)) /\ data' = data /\ reply' = reply
    BY <1>1 DEF bufferVars, Count, Cell
  <2>2. QED BY <2>1 DEF Contents
<1>2. CASE BufferRead
  BY <1>2, ReadRefines DEF Queue!Next
<1>3. ASSUME NEW v \in Values, BufferWrite(v) PROVE Queue!Next
  BY <1>3, WriteRefines DEF Queue!Next
<1>4. QED BY <1>1, <1>2, <1>3 DEF BufferNext

LEMMA InitRefines == BufferInit => Queue!Init
<1> SUFFICES ASSUME BufferInit PROVE Queue!Init
  OBVIOUS
<1>1. BufferInv
  BY InitInv
<1>2. Contents \in Seq(Any) /\ Len(Contents) = 0
  BY <1>1, CountValue, ContentsValue DEF BufferInit
<1>3. Contents = <<>>
  BY <1>2, EmptySeq, SeqEqual
<1>4. QED BY <1>3 DEF BufferInit, Queue!Init, Queue!Refused, Refused

(* Between any Write and any Read the class is a first-in first-out queue  *)
(* of at most Size elements: nothing is lost, reordered or returned twice.  *)
THEOREM BufferImplementsQueue == BufferSpec => ImplementsQueue
<1>1. BufferSpec => []BufferInv BY InitInv, StepInv, PTL DEF BufferSpec
<1>2. BufferInv /\ BufferInv' /\ [BufferNext]_bufferVars => [Queue!Next]_<<Contents, reply>>
  BY StepRefines
<1>3. QED BY <1>1, <1>2, InitRefines, PTL DEF BufferSpec, ImplementsQueue, Queue!Spec

-----------------------------------------------------------------------------
(***************************************************************************)
(* The command scheduler.                                                  *)
(***************************************************************************)
(***************************************************************************)
(* The top of the heap.                                                    *)
(***************************************************************************)
LEMMA TopIsFirst ==
  ASSUME NEW S, S \subseteq Commands, S # {}
  PROVE  Top(S) \in S /\ \A c \in S \ {Top(S)} : Before(Top(S), c)
<1> DEFINE Dues == {c.due : c \in S}
<1>1. PICK d \in Dues : \A e \in Dues : d <= e
  <2>1. Dues \subseteq Nat /\ Dues # {}
    BY DEF Commands
  <2> HIDE DEF Dues
  <2> QED
    BY <2>1, LeastNumber
<1> DEFINE Ids == {c.id : c \in {x \in S : x.due = d}}
<1>2. PICK i \in Ids : \A j \in Ids : i <= j
  <2>1. Ids \subseteq Nat /\ Ids # {}
    BY <1>1 DEF Commands
  <2> HIDE DEF Ids
  <2> QED
    BY <2>1, LeastNumber
<1>3. PICK c \in S : c.due = d /\ c.id = i
  BY <1>2
<1>4. \A x \in S \ {c} : Before(c, x)
  BY <1>1, <1>2, <1>3 DEF Before, Commands
<1> QED
  BY <1>3, <1>4 DEF Top

COROLLARY TopIsEarliest ==
  ASSUME NEW S, S \subseteq Commands, S # {}
  PROVE  Top(S) \in S /\ \A c \in S : Top(S).due <= c.due
<1>1. Top(S) \in S /\ \A c \in S \ {Top(S)} : Before(Top(S), c)
  BY TopIsFirst
<1> QED
  BY <1>1 DEF Before, Commands

-----------------------------------------------------------------------------
(***************************************************************************)
(* The inductive invariant.                                                *)
(***************************************************************************)
Waiting == schedule \cup InHand
Places  == 1 .. Len(sent)

(* TypeOK without the Boolean variables, which the arithmetic need not see. *)
Types ==
  /\ now \in Nat
  /\ schedule \subseteq Commands
  /\ monitor \in {"free", "run", "web"}
  /\ run \in [pc : {"top", "check", "loop", "send", "reset", "nap", "wait", "dead"},
              next : Nat, wake : Nat, t : Nat, cmd : Commands]
  /\ web \in [pc : {"idle", "adding"}, due : Nat]
  /\ main \in {"serving", "notify", "join", "closed"}
  /\ accepted \in Nat
  /\ sent \in Seq(Commands)

(* The monitor is held where the code is inside a synchronized block.       *)
Monitors ==
  /\ monitor = "run" <=> run.pc \in {"loop", "send"}
  /\ monitor = "web" <=> web.pc = "adding"

(* During a check the heap changes by the thread's own hand only, so the    *)
(* copy of the top is still the top when it is popped.                      *)
AtTop ==
  /\ run.pc = "loop" => run.cmd \in schedule /\ run.cmd = Top(schedule)
  /\ run.pc = "send" => run.cmd \notin schedule /\ run.cmd.due <= run.t
  /\ run.pc \in {"loop", "send"} =>
       run.t <= now /\ \A c \in schedule : run.cmd.due <= c.due

Ordered ==
  /\ SentInTimeOrder
  /\ \A i \in Places : sent[i].due <= now
  /\ \A i \in Places, c \in Waiting : sent[i].due <= c.due
  /\ web.pc = "adding" => \A i \in Places : sent[i].due <= web.due

Numbered ==
  /\ {c.id : c \in Waiting} \cup {sent[i].id : i \in Places} = 1 .. accepted
  /\ \A c, d \in Waiting : c.id = d.id => c = d
  /\ \A i, j \in Places : sent[i].id = sent[j].id => i = j
  /\ \A i \in Places, c \in Waiting : sent[i].id # c.id

IInv == Types /\ Monitors /\ AtTop /\ Ordered /\ Numbered

LEMMA InitIInv == Init => IInv
<1> SUFFICES ASSUME Init PROVE IInv
  OBVIOUS
<1>1. Types
  BY TimesAssumption DEF Init, Types, Commands, NoCommand
<1>2. Places = {} /\ Waiting = {}
  BY DEF Init, Places, Waiting, InHand
<1>3. Monitors /\ AtTop
  BY DEF Init, Monitors, AtTop
<1>4. Ordered
  BY <1>2 DEF Init, Ordered, SentInTimeOrder, Places
<1>5. Numbered
  BY <1>2 DEF Init, Numbered
<1> QED
  BY <1>1, <1>3, <1>4, <1>5 DEF IInv

(***************************************************************************)
(* Types and monitors, action by action.                                   *)
(***************************************************************************)
LEMMA TypeStep == IInv /\ [Next]_vars => Types'
<1> SUFFICES ASSUME IInv, [Next]_vars PROVE Types'
  OBVIOUS
<1> USE DEF IInv, Types
<1>1. CASE Turn
  BY <1>1 DEF Turn
<1>2. CASE CheckBegins
  <2>1. schedule # {} => Top(schedule) \in Commands
    BY TopIsEarliest
  <2> QED
    BY <1>2, <2>1 DEF CheckBegins
<1>3. CASE CheckPops
  BY <1>3 DEF CheckPops
<1>4. CASE CheckSends
  <2>1. schedule # {} => Top(schedule) \in Commands
    BY TopIsEarliest
  <2>2. run' \in [pc : {"top", "check", "loop", "send", "reset", "nap", "wait", "dead"},
                  next : Nat, wake : Nat, t : Nat, cmd : Commands]
    BY <1>4, <2>1 DEF CheckSends
  <2>3. sent' \in Seq(Commands) /\ monitor' \in {"free", "run", "web"}
    BY <1>4 DEF CheckSends
  <2> QED
    BY <1>4, <2>2, <2>3 DEF CheckSends
<1>5. CASE CheckEnds
  BY <1>5 DEF CheckEnds
<1>6. CASE Reset
  <2>1. now + Period \in Nat
    BY TimesAssumption
  <2> QED
    BY <1>6, <2>1 DEF Reset
<1>7. CASE Sleep
  <2>1. PICK ticks \in 1 .. Nap :
          run' = [run EXCEPT !.pc = "wait", !.wake = now + ticks]
    BY <1>7 DEF Sleep
  <2>2. now + ticks \in Nat
    BY TimesAssumption
  <2> QED
    BY <1>7, <2>1, <2>2 DEF Sleep
<1>8. CASE WakeUp
  BY <1>8 DEF WakeUp
<1>9. ASSUME NEW due \in 1 .. MaxDue, Add(due) PROVE Types'
  BY <1>9 DEF Add
<1>10. CASE AddPushes
  BY <1>10 DEF AddPushes, Commands
<1>11. CASE CloseSetsStop \/ CloseNotifies \/ CloseJoins
  BY <1>11 DEF CloseSetsStop, CloseNotifies, CloseJoins
<1>12. CASE Tick \/ OutputTaken \/ OutputFreed
  BY <1>12 DEF Tick, OutputTaken, OutputFreed
<1>13. CASE UNCHANGED vars
  BY <1>13 DEF vars
<1> QED
  BY <1>1, <1>2, <1>3, <1>4, <1>5, <1>6, <1>7, <1>8, <1>9, <1>10, <1>11, <1>12,
     <1>13 DEF Next, Scheduler

LEMMA MonitorsStep == IInv /\ [Next]_vars => Monitors'
<1> SUFFICES ASSUME IInv, [Next]_vars PROVE Monitors'
  OBVIOUS
<1> USE DEF IInv, Types, Monitors
<1>1. CASE Scheduler
  BY <1>1 DEF Scheduler, Turn, CheckBegins, CheckPops, CheckSends, CheckEnds, Reset,
              Sleep, WakeUp
<1>2. CASE (\E due \in 1 .. MaxDue : Add(due)) \/ AddPushes
  BY <1>2 DEF Add, AddPushes
<1>3. CASE CloseSetsStop \/ CloseNotifies \/ CloseJoins
  BY <1>3 DEF CloseSetsStop, CloseNotifies, CloseJoins
<1>4. CASE Tick \/ OutputTaken \/ OutputFreed \/ UNCHANGED vars
  BY <1>4 DEF Tick, OutputTaken, OutputFreed, vars
<1> QED
  BY <1>1, <1>2, <1>3, <1>4 DEF Next

LEMMA AtTopStep == IInv /\ [Next]_vars => AtTop'
<1> SUFFICES ASSUME IInv, [Next]_vars PROVE AtTop'
  OBVIOUS
<1> USE DEF IInv, Types
<1>1. schedule # {} =>
        Top(schedule) \in schedule /\ \A c \in schedule : Top(schedule).due <= c.due
  BY TopIsEarliest
<1>2. CASE CheckBegins
  <2>1. \/ run'.pc = "reset"
        \/ /\ schedule # {} /\ schedule' = schedule /\ now' = now
           /\ run'.pc = "loop" /\ run'.t = now /\ run'.cmd = Top(schedule)
    BY <1>2 DEF CheckBegins
  <2> QED
    BY <1>1, <2>1 DEF AtTop
<1>3. CASE CheckPops
  BY <1>3 DEF CheckPops, AtTop
<1>4. CASE CheckSends
  BY <1>1, <1>4 DEF CheckSends, AtTop
<1>5. CASE Turn \/ CheckEnds \/ Reset \/ Sleep \/ WakeUp
  BY <1>5 DEF Turn, CheckEnds, Reset, Sleep, WakeUp, AtTop
<1>6. CASE AddPushes
  <2>1. run.pc \notin {"loop", "send"} /\ run' = run
    BY <1>6 DEF AddPushes, Monitors
  <2> QED
    BY <2>1 DEF AtTop
<1>7. CASE \E due \in 1 .. MaxDue : Add(due)
  BY <1>7 DEF Add, AtTop
<1>8. CASE CloseSetsStop \/ CloseNotifies \/ CloseJoins
  BY <1>8 DEF CloseSetsStop, CloseNotifies, CloseJoins, AtTop
<1>9. CASE Tick \/ OutputTaken \/ OutputFreed \/ UNCHANGED vars
  BY <1>9 DEF Tick, OutputTaken, OutputFreed, vars, AtTop
<1> QED
  BY <1>2, <1>3, <1>4, <1>5, <1>6, <1>7, <1>8, <1>9 DEF Next, Scheduler

(***************************************************************************)
(* Order and numbers: most steps leave the commands where they are.        *)
(***************************************************************************)
Quiet ==
  /\ Waiting' = Waiting /\ UNCHANGED <<sent, accepted>>
  /\ now' >= now
  /\ web' = web \/ web'.due > now \/ web'.pc # "adding"

LEMMA QuietStep ==
  ASSUME IInv, Types', Quiet
  PROVE  Ordered' /\ Numbered'
<1>1. Places' = Places /\ sent' = sent /\ Waiting' = Waiting /\ accepted' = accepted
  BY DEF Quiet, Places
<1>2. \A i \in Places : sent[i] \in Commands
  BY DEF IInv, Types, Places
<1>3. Ordered'
  <2>1. SentInTimeOrder'
    BY <1>1 DEF IInv, Ordered, SentInTimeOrder
  <2>2. \A i \in Places : sent[i].due <= now /\ sent[i].due \in Nat /\ now \in Nat
                         /\ now' \in Nat /\ now' >= now
    BY <1>2 DEF IInv, Types, Ordered, Commands, Quiet
  <2>3. \A i \in Places' : sent'[i].due <= now'
    BY <1>1, <2>2
  <2>4. \A i \in Places', c \in Waiting' : sent'[i].due <= c.due
    BY <1>1 DEF IInv, Ordered
  <2>5. web'.pc = "adding" => \A i \in Places' : sent'[i].due <= web'.due
    <3>1. CASE web' = web
      BY <1>1, <3>1 DEF IInv, Ordered
    <3>2. CASE web'.due > now
      <4>1. web'.due \in Nat
        BY DEF Types
      <4> QED
        BY <1>1, <2>2, <3>2, <4>1
    <3> QED
      BY <3>1, <3>2 DEF Quiet
  <2> QED
    BY <2>1, <2>3, <2>4, <2>5 DEF Ordered
<1>4. Numbered'
  BY <1>1 DEF IInv, Numbered
<1> QED
  BY <1>3, <1>4

LEMMA SchedulerIsQuiet ==
  ASSUME IInv, Turn \/ CheckBegins \/ CheckPops \/ CheckEnds \/ Reset \/ Sleep \/ WakeUp
  PROVE  Quiet
<1>1. CASE CheckPops
  BY <1>1 DEF IInv, AtTop, Types, CheckPops, Quiet, Waiting, InHand
<1>2. CASE Turn \/ CheckBegins \/ CheckEnds \/ Reset \/ Sleep \/ WakeUp
  <2>1. /\ UNCHANGED <<now, schedule, web, sent, accepted>>
        /\ run.pc # "send" /\ run'.pc # "send"
    BY <1>2 DEF IInv, Types, Turn, CheckBegins, CheckEnds, Reset, Sleep, WakeUp
  <2>2. now \in Nat
    BY DEF IInv, Types
  <2> QED
    BY <2>1, <2>2 DEF Quiet, Waiting, InHand
<1> QED
  BY <1>1, <1>2

LEMMA OthersAreQuiet ==
  ASSUME IInv,
         \/ \E due \in 1 .. MaxDue : Add(due)
         \/ CloseSetsStop \/ CloseNotifies \/ CloseJoins
         \/ Tick \/ OutputTaken \/ OutputFreed \/ UNCHANGED vars
  PROVE  Quiet
<1> USE DEF IInv, Types, Quiet, Waiting, InHand
<1>1. CASE \E due \in 1 .. MaxDue : Add(due)
  BY <1>1 DEF Add
<1>2. CASE CloseSetsStop \/ CloseNotifies \/ CloseJoins
  BY <1>2 DEF CloseSetsStop, CloseNotifies, CloseJoins
<1>3. CASE Tick \/ OutputTaken \/ OutputFreed \/ UNCHANGED vars
  BY <1>3 DEF Tick, OutputTaken, OutputFreed, vars
<1> QED
  BY <1>1, <1>2, <1>3

(* The command in hand is sent: it is due no later than what still waits,   *)
(* and no earlier than what has been sent.                                  *)
LEMMA SendStep ==
  ASSUME IInv, Types', CheckSends
  PROVE  Ordered' /\ Numbered'
<1> DEFINE n == Len(sent)
<1>1. /\ sent \in Seq(Commands) /\ n \in Nat /\ run.cmd \in Commands
      /\ Len(sent') = n + 1 /\ sent'[n + 1] = run.cmd
      /\ \A i \in 1 .. n : sent'[i] = sent[i]
  BY DEF IInv, Types, CheckSends
<1>2. Places = 1 .. n /\ Places' = 1 .. n + 1
  BY <1>1 DEF Places
<1>3. /\ Waiting = schedule \cup {run.cmd} /\ Waiting' = schedule
      /\ run.cmd \notin schedule
  BY DEF IInv, Types, AtTop, CheckSends, Waiting, InHand
<1>4. /\ \A c \in schedule : run.cmd.due <= c.due
      /\ run.cmd.due <= now /\ now' = now
      /\ web.pc # "adding" /\ web' = web /\ accepted' = accepted
  BY <1>1 DEF IInv, Types, AtTop, Monitors, CheckSends, Commands
<1> HIDE DEF n
<1>5. Ordered'
  <2>1. \A i \in Places : sent[i].due <= run.cmd.due
    BY <1>3 DEF IInv, Ordered
  <2>2. SentInTimeOrder'
    <3> SUFFICES ASSUME NEW i \in 1 .. n + 1, NEW j \in 1 .. n + 1, i < j
                 PROVE  sent'[i].due <= sent'[j].due
      BY <1>1 DEF SentInTimeOrder
    <3>1. i \in 1 .. n
      BY <1>1
    <3>2. CASE j = n + 1
      BY <1>1, <1>2, <2>1, <3>1, <3>2
    <3>3. CASE j \in 1 .. n
      BY <1>1, <3>1, <3>3 DEF IInv, Ordered, SentInTimeOrder, n
    <3> QED
      BY <1>1, <3>2, <3>3
  <2>3. \A i \in Places' : sent'[i].due <= now'
    BY <1>1, <1>2, <1>4 DEF IInv, Ordered
  <2>4. \A i \in Places', c \in Waiting' : sent'[i].due <= c.due
    BY <1>1, <1>2, <1>3, <1>4 DEF IInv, Ordered
  <2> QED
    BY <2>2, <2>3, <2>4, <1>4 DEF Ordered
<1>6. Numbered'
  <2>1. {sent'[i].id : i \in Places'} = {sent[i].id : i \in Places} \cup {run.cmd.id}
    BY <1>1, <1>2
  <2>2. {c.id : c \in Waiting} = {c.id : c \in Waiting'} \cup {run.cmd.id}
    BY <1>3
  <2>3. \A i \in Places : sent[i].id # run.cmd.id
    BY <1>3 DEF IInv, Numbered
  <2>4. \A c \in Waiting' : c.id # run.cmd.id
    BY <1>3 DEF IInv, Numbered
  <2>5. {c.id : c \in Waiting'} \cup {sent'[i].id : i \in Places'} = 1 .. accepted'
    BY <1>4, <2>1, <2>2 DEF IInv, Numbered
  <2>6. \A i, j \in Places' : sent'[i].id = sent'[j].id => i = j
    BY <1>1, <1>2, <2>3 DEF IInv, Numbered
  <2>7. \A i \in Places', c \in Waiting' : sent'[i].id # c.id
    BY <1>1, <1>2, <1>3, <2>4 DEF IInv, Numbered
  <2>8. \A c, d \in Waiting' : c.id = d.id => c = d
    BY <1>3 DEF IInv, Numbered
  <2> QED
    BY <2>5, <2>6, <2>7, <2>8 DEF Numbered
<1> QED
  BY <1>5, <1>6

(* A new command has a new number, and a time that lay in the future when   *)
(* the monitor was taken - later than anything sent before, and nothing is  *)
(* sent while the monitor is held.                                          *)
LEMMA PushStep ==
  ASSUME IInv, Types', AddPushes
  PROVE  Ordered' /\ Numbered'
<1> DEFINE new == [id |-> accepted + 1, due |-> web.due]
<1>1. /\ Waiting' = Waiting \cup {new} /\ accepted' = accepted + 1 /\ accepted \in Nat
      /\ sent' = sent /\ now' = now /\ Places' = Places
  BY DEF IInv, Types, Monitors, AddPushes, Waiting, InHand, Places
<1>2. web.pc = "adding" /\ web'.pc # "adding"
  BY DEF IInv, Types, AddPushes
<1>3. new.id = accepted + 1 /\ new.due = web.due
  OBVIOUS
<1> HIDE DEF new
<1>4. Ordered'
  BY <1>1, <1>2, <1>3 DEF IInv, Ordered, SentInTimeOrder, Places
<1>5. Numbered'
  <2>1. /\ \A c \in Waiting : c.id \in 1 .. accepted
        /\ \A i \in Places : sent[i].id \in 1 .. accepted
    BY DEF IInv, Numbered
  <2>2. {c.id : c \in Waiting'} = {c.id : c \in Waiting} \cup {accepted + 1}
    BY <1>1, <1>3
  <2>3. {c.id : c \in Waiting'} \cup {sent'[i].id : i \in Places'} = 1 .. accepted'
    <3>1. {sent'[i].id : i \in Places'} = {sent[i].id : i \in Places}
      BY <1>1
    <3>2. 1 .. accepted' = (1 .. accepted) \cup {accepted + 1}
      BY <1>1
    <3> QED
      BY <2>2, <3>1, <3>2 DEF IInv, Numbered
  <2> QED
    BY <1>1, <1>3, <2>1, <2>3 DEF IInv, Numbered
<1> QED
  BY <1>4, <1>5

LEMMA NextIInv == IInv /\ [Next]_vars => IInv'
<1> SUFFICES ASSUME IInv, [Next]_vars PROVE IInv'
  OBVIOUS
<1>1. Types' /\ Monitors' /\ AtTop'
  BY TypeStep, MonitorsStep, AtTopStep
<1>2. Ordered' /\ Numbered'
  <2>1. CASE CheckSends
    BY <1>1, <2>1, SendStep
  <2>2. CASE AddPushes
    BY <1>1, <2>2, PushStep
  <2>3. CASE Quiet
    BY <1>1, <2>3, QuietStep
  <2> QED
    BY <2>1, <2>2, <2>3, SchedulerIsQuiet, OthersAreQuiet DEF Next, Scheduler
<1> QED
  BY <1>1, <1>2 DEF IInv

LEMMA Invariance == Spec => []IInv
  BY InitIInv, NextIInv, PTL DEF Spec

-----------------------------------------------------------------------------
(* Every variable keeps its type.                                           *)
THEOREM SchedulerTypeCorrect == Spec => []TypeOK
<1> DEFINE Flags == stop \in BOOLEAN /\ output \in BOOLEAN
<1>1. Init => Flags
  BY DEF Init
<1>2. Flags /\ [Next]_vars => Flags'
  BY DEF Next, Scheduler, Turn, CheckBegins, CheckPops, CheckSends, CheckEnds, Reset,
         Sleep, WakeUp, Add, AddPushes, CloseSetsStop, CloseNotifies, CloseJoins, Tick,
         OutputTaken, OutputFreed, vars
<1>3. IInv /\ Flags => TypeOK
  BY DEF IInv, Types, TypeOK
<1> HIDE DEF Flags
<1> QED
  BY <1>1, <1>2, <1>3, Invariance, PTL DEF Spec

(* The commands are sent in the order of their times.                       *)
THEOREM SentInOrderOfTime == Spec => []SentInTimeOrder
<1>1. IInv => SentInTimeOrder
  BY DEF IInv, Ordered
<1> QED
  BY <1>1, Invariance, PTL

(* An accepted command is sent exactly once, and not before its time.       *)
THEOREM SentExactlyOnce == Spec => []ExactlyOnce
<1>1. IInv => ExactlyOnce
  BY DEF IInv, Ordered, Numbered, ExactlyOnce, Waiting, Places
<1> QED
  BY <1>1, Invariance, PTL
-----------------------------------------------------------------------------
(***************************************************************************)
(* Punctuality, when time passes only while the thread sleeps.  Everything *)
(* that was due at the last check has been sent, so what waits is due      *)
(* later; and the thread, which looks at the count whenever it wakes, never*)
(* oversleeps the next check by more than a nap.                           *)
(***************************************************************************)
LastCheck == run.next - Period

(* What is in the heap, or about to be, is due after time.                  *)
DueAfter(time) ==
  /\ \A c \in schedule : c.due > time
  /\ web.pc = "adding" => web.due > time

Awake ==
  /\ LastCheck <= now /\ now < run.next + Nap
  /\ run.pc = "nap" => now < run.next
  /\ run.pc = "wait" => now <= run.wake /\ run.wake < run.next + Nap
  /\ run.pc \in {"loop", "send"} => run.t = now

Late == DueAfter(LastCheck) /\ (run.pc = "reset" => DueAfter(now))

Serving == stop = FALSE /\ run.pc # "dead"

Punctual == main = "serving" => Serving /\ Awake /\ Late

LEMMA InitPunctual == Init => Punctual
BY TimesAssumption DEF Init, Punctual, Serving, Awake, Late, LastCheck, DueAfter

LEMMA SchedulerPunctual ==
  ASSUME Prompt, IInv, Punctual, Scheduler, main = "serving"
  PROVE  Serving' /\ Awake' /\ Late'
<1> USE TimesAssumption DEF IInv, Types
<1>1. Serving /\ Awake /\ Late
  BY DEF Punctual
<1>2. UNCHANGED <<now, web, stop>>
  BY DEF Scheduler, Turn, CheckBegins, CheckPops, CheckSends, CheckEnds, Reset, Sleep, WakeUp
<1>3. \A c \in schedule : c.due \in Nat
  BY DEF Commands
<1>4. Serving'
  BY <1>1, <1>2 DEF Serving, Scheduler, Turn, CheckBegins, CheckPops, CheckSends, CheckEnds,
                    Reset, Sleep, WakeUp
<1>5. CASE Reset
  <2>1. /\ run.pc = "reset" /\ run'.next = now + Period /\ run'.pc = "nap"
        /\ schedule' = schedule
    BY <1>5 DEF Reset
  <2>2. Awake'
    BY <1>2, <2>1 DEF Awake, LastCheck
  <2>3. DueAfter(LastCheck)'
    BY <1>1, <1>2, <2>1 DEF Late, DueAfter, LastCheck
  <2> QED
    BY <1>4, <2>1, <2>2, <2>3 DEF Late
<1>6. CASE ~Reset
  <2>1. run'.next = run.next /\ schedule' \subseteq schedule
    BY <1>6 DEF Scheduler, Turn, CheckBegins, CheckPops, CheckSends, CheckEnds, Sleep, WakeUp
  <2>2. DueAfter(LastCheck)'
    BY <1>1, <1>2, <2>1 DEF Late, DueAfter, LastCheck
  <2>3. Awake'
    <3>1. CASE Turn
      BY <1>1, <1>2, <2>1, <3>1 DEF Awake, LastCheck, Turn
    <3>2. CASE CheckBegins \/ CheckPops \/ CheckSends \/ CheckEnds \/ WakeUp
      BY <1>1, <1>2, <2>1, <3>2
      DEF Awake, LastCheck, CheckBegins, CheckPops, CheckSends, CheckEnds, WakeUp
    <3>3. CASE Sleep
      <4>1. PICK ticks \in 1 .. Nap :
              run' = [run EXCEPT !.pc = "wait", !.wake = now + ticks]
        BY <3>3 DEF Sleep
      <4>2. run.pc = "nap" /\ run'.pc = "wait" /\ run'.wake = now + ticks
        BY <3>3, <4>1 DEF Sleep
      <4> QED
        BY <1>1, <1>2, <2>1, <4>2 DEF Awake, LastCheck
    <3> QED
      BY <1>6, <3>1, <3>2, <3>3 DEF Scheduler
  <2>4. run'.pc = "reset" => DueAfter(now)'
    <3> SUFFICES ASSUME run'.pc = "reset" PROVE DueAfter(now)'
      OBVIOUS
    <3>1. web.pc # "adding" /\ schedule' = schedule
      <4>1. CheckBegins \/ CheckSends \/ CheckEnds
        BY DEF Scheduler, Turn, CheckPops, Reset, Sleep, WakeUp
      <4>2. monitor # "web" /\ schedule' = schedule
        BY <4>1 DEF CheckBegins, CheckSends, CheckEnds, Monitors
      <4> QED
        BY <4>2 DEF Monitors
    <3>2. \A c \in schedule : c.due > now
      <4>1. schedule = {} \/ CheckEnds
        BY DEF Scheduler, Turn, CheckBegins, CheckPops, CheckSends, Reset, Sleep, WakeUp
      <4>2. ASSUME CheckEnds PROVE \A c \in schedule : c.due > now
        <5>1. run.pc = "loop" /\ run.cmd.due > run.t /\ run.t = now /\ run.cmd.due \in Nat
          BY <1>1, <4>2 DEF CheckEnds, Awake, Commands
        <5>2. \A c \in schedule : run.cmd.due <= c.due
          BY <5>1 DEF AtTop
        <5> QED
          BY <1>3, <5>1, <5>2
      <4> QED
        BY <4>1, <4>2
    <3> QED
      BY <1>2, <3>1, <3>2 DEF DueAfter
  <2> QED
    BY <1>4, <2>2, <2>3, <2>4 DEF Late
<1> QED
  BY <1>5, <1>6

(* A request adds nothing that is due already.                              *)
LEMMA RequestsPunctual ==
  ASSUME IInv, Punctual, main = "serving",
         (\E due \in 1 .. MaxDue : Add(due)) \/ AddPushes
  PROVE  Serving' /\ Awake' /\ Late'
<1> USE TimesAssumption DEF IInv, Types
<1>1. Serving /\ Awake /\ Late
  BY DEF Punctual
<1>2. UNCHANGED <<now, run, stop>>
  BY DEF Add, AddPushes
<1>3. Serving' /\ Awake'
  BY <1>1, <1>2 DEF Serving, Awake, LastCheck
<1>4. ASSUME NEW time \in Int, time <= now, DueAfter(time) PROVE DueAfter(time)'
  <2>1. ASSUME NEW due \in 1 .. MaxDue, Add(due) PROVE DueAfter(time)'
    BY <1>4, <2>1 DEF Add, DueAfter
  <2>2. CASE AddPushes
    <3> DEFINE new == [id |-> accepted + 1, due |-> web.due]
    <3>1. schedule' = schedule \cup {new} /\ web'.pc = "idle" /\ web.pc = "adding"
      BY <2>2 DEF AddPushes
    <3>2. new.due = web.due
      OBVIOUS
    <3> HIDE DEF new
    <3> QED
      BY <1>4, <3>1, <3>2 DEF DueAfter
  <2> QED
    BY <2>1, <2>2
<1>5. LastCheck \in Int /\ LastCheck <= now /\ now \in Int /\ LastCheck' = LastCheck
  BY <1>1, <1>2 DEF Awake, LastCheck
<1> QED
  BY <1>1, <1>2, <1>3, <1>4, <1>5 DEF Late

LEMMA TimePunctual ==
  ASSUME Prompt, IInv, Punctual, main = "serving", Tick
  PROVE  Serving' /\ Awake' /\ Late'
<1> USE TimesAssumption DEF IInv, Types
<1>1. Serving /\ Awake /\ Late
  BY DEF Punctual
<1>2. /\ UNCHANGED <<schedule, run, web, stop>> /\ now' = now + 1
      /\ run.pc = "wait" /\ now < run.wake
  BY <1>1 DEF Tick, Asleep, Serving
<1> QED
  BY <1>1, <1>2 DEF Serving, Awake, Late, LastCheck, DueAfter

LEMMA StepPunctual ==
  ASSUME Prompt, IInv, Punctual, [Next]_vars
  PROVE  Punctual'
<1> SUFFICES ASSUME main' = "serving" PROVE Serving' /\ Awake' /\ Late'
  BY DEF Punctual
<1>1. main = "serving" /\ ~CloseSetsStop /\ ~CloseNotifies /\ ~CloseJoins
  BY DEF Next, Scheduler, Turn, CheckBegins, CheckPops, CheckSends, CheckEnds, Reset, Sleep,
         WakeUp, Add, AddPushes, CloseSetsStop, CloseNotifies, CloseJoins, Tick, OutputTaken,
         OutputFreed, vars
<1>2. CASE OutputTaken \/ OutputFreed \/ UNCHANGED vars
  <2>1. UNCHANGED <<now, schedule, run, web, stop>>
    BY <1>2 DEF OutputTaken, OutputFreed, vars
  <2> QED
    BY <1>1, <2>1 DEF Punctual, Serving, Awake, Late, LastCheck, DueAfter
<1> QED
  BY <1>1, <1>2, SchedulerPunctual, RequestsPunctual, TimePunctual DEF Next

(* While the server runs, no command waits longer than the period of the    *)
(* checks and the nap before the check - for every period and every nap, and*)
(* whatever is added, provided that only the sleeping thread lets time pass.*)
(* (A thread that is blocked in Write for long is late with the others, too;*)
(* nothing bounds that time.)                                               *)
THEOREM CommandsArePunctual == Prompt => (Spec => []NeverVeryLate)
<1> SUFFICES ASSUME Prompt PROVE Spec => []NeverVeryLate
  OBVIOUS
<1>1. IInv /\ Punctual => NeverVeryLate
  <2> SUFFICES ASSUME IInv, Punctual, NEW c \in schedule, main = "serving"
               PROVE  now < c.due + Period + Nap - 1
    BY DEF NeverVeryLate
  <2>1. c.due > run.next - Period /\ now < run.next + Nap
    BY DEF Punctual, Awake, Late, DueAfter, LastCheck
  <2>2. c.due \in Nat /\ now \in Nat /\ run.next \in Nat
    BY DEF IInv, Types, Commands
  <2> QED
    BY <2>1, <2>2, TimesAssumption
<1>2. IInv /\ Punctual /\ [Next]_vars => Punctual'
  BY StepPunctual
<1> QED
  BY <1>1, <1>2, InitPunctual, Invariance, PTL DEF Spec
-----------------------------------------------------------------------------
(***************************************************************************)
(* The users database and the web interface.                               *)
(***************************************************************************)
(***************************************************************************)
(* The inductive invariant.                                                *)
(***************************************************************************)
UserRecords == [name : WebUsers, rights : WebRights]
Databases == UNION {[names -> UserRecords] : names \in SUBSET WebUsers}
KeyedByName(db) == \A k \in DOMAIN db : db[k].name = k
Lists == {db \in Databases : KeyedByName(db)}
FileRecords == {usersFile[i] : i \in 1 .. Len(usersFile)}
Requests ==
  [pc : {"idle", "seed", "draw", "act", "write", "clear", "load"}, cookie : Nat,
   as : WebUsers \cup {0}, user : WebUsers \cup {0}, need : WebNeeds, pos : Nat,
   list : Lists, seen : SUBSET (SUBSET UserRecords)]

WebTypes ==
  /\ usersFile \in Seq(UserRecords) /\ usersDb \in Databases
  /\ webSessions \in UNION {[ids -> [user : WebUsers, old : BOOLEAN]] : ids \in SUBSET Nat}
  /\ webSeed \in [done : BOOLEAN, drawn : Nat]
  /\ webMain \in {"console", "start", "failed", "serving"}
  /\ webBrowser \in [WebBrowsers -> Requests]
  /\ usersLists \in SUBSET (SUBSET UserRecords)

(* Nobody is served before the users are loaded.                            *)
Beginning ==
  /\ webMain # "serving" => \A b \in WebBrowsers : webBrowser[b].pc = "idle"
  /\ webMain \in {"console", "start"} => usersLists = {FileRecords}

(* A cookie is the number of a session that no other browser was given, if  *)
(* the numbers were seeded before.                                          *)
Owned ==
  /\ webSeed.done
  /\ \A s \in DOMAIN webSessions : s \in 1 .. webSeed.drawn
  /\ \A b \in WebBrowsers :
       /\ webBrowser[b].pc # "seed"
       /\ webBrowser[b].cookie <= webSeed.drawn
       /\ webBrowser[b].cookie \in DOMAIN webSessions =>
            webSessions[webBrowser[b].cookie].user = webBrowser[b].as

Cookies ==
  /\ \A b \in WebBrowsers : webBrowser[b].pc \in {"seed", "draw"} => webBrowser[b].user # 0
  /\ ~WebFirstLogin => Owned

(* WebActsWithRights of one request; its right does not need the cookies.   *)
ActsWell(r) ==
  /\ ~WebFirstLogin => (r.cookie # 0 => r.user = r.as)
  /\ \E list \in r.seen, rights \in WebRights :
       WebRecord(r.user, rights) \in list /\ WebAllowed(rights, r.need)

LetInWell == \A b \in WebBrowsers : webBrowser[b].pc = "act" => ActsWell(webBrowser[b])

(* The one list that is on its way is written, then read.                   *)
OneSaves == \A b, c \in WebSaving : b = c

FileWritten(file, list, pos) ==
  /\ pos = Len(file) /\ Len(file) <= Len(InFile(list))
  /\ \A i \in 1 .. Len(file) : file[i] = InFile(list)[i]

FileLoaded(db, file, pos) ==
  /\ pos <= Len(file)
  /\ DOMAIN db = {file[i].name : i \in 1 .. pos}
  /\ \A i \in 1 .. pos : db[file[i].name] = file[i]

OnItsWay ==
  \A b \in WebSaving :
    /\ Records(webBrowser[b].list) \in usersLists
    /\ webBrowser[b].pc = "write" => FileWritten(usersFile, webBrowser[b].list, webBrowser[b].pos)
    /\ webBrowser[b].pc \in {"clear", "load"} => usersFile = InFile(webBrowser[b].list)
    /\ webBrowser[b].pc \in {"write", "clear"} => Records(usersDb) \in usersLists
    /\ webBrowser[b].pc = "load" => FileLoaded(usersDb, usersFile, webBrowser[b].pos)

UsersServed ==
  webMain = "serving" =>
    /\ KeyedByName(usersDb)
    /\ WebSaving = {} => usersLists = {Records(usersDb)}

WebInv ==
  WebTypes /\ Beginning /\ Cookies /\ OneSaves /\ OnItsWay /\ UsersServed /\ LetInWell

(* The file keeps up with the list in effect: a server that is closed writes*)
(* it once more while nobody else does.                                    *)
FileHolds(file, db) ==
  {file[i] : i \in 1 .. Len(file)} = Records(db) /\ LoadsWell(file)

ClosesWell ==
  /\ webClosing \in [pc : {"no", "saves", "stops"}, place : Nat]
  /\ webMain # "serving" => webClosing.pc = "no"
  /\ webMain = "serving" /\ WebSaving = {} /\ webClosing.pc # "saves" =>
       FileHolds(usersFile, usersDb)
  /\ webClosing.pc = "saves" =>
       WebSaving = {} /\ FileWritten(usersFile, usersDb, webClosing.place)

(* Once two have saved at a time nothing is known.                          *)
WebWorks == webMixed \/ (WebInv /\ ClosesWell)

(***************************************************************************)
(* The file.                                                               *)
(***************************************************************************)
LEMMA SubsetsFinite ==
  ASSUME NEW D \in SUBSET WebUsers
  PROVE  IsFiniteSet(D) /\ D \subseteq Nat /\ Cardinality(D) \in Nat
BY WebAssumption, FS_Subset, FS_CardinalityType

(* The place of a number in a set.                                         *)
Rank(D, k) == Cardinality({j \in D : j <= k})

(* The numbers of a finite set, in order.                                   *)
LEMMA Ranks ==
  ASSUME NEW D, IsFiniteSet(D), D \subseteq Nat
  PROVE  /\ \A i \in 1 .. Cardinality(D) : \E k \in D : Rank(D, k) = i
         /\ \A k \in D : Rank(D, k) \in 1 .. Cardinality(D)
         /\ \A k, l \in D :
              Rank(D, k) = Rank(D, l) => k = l
<1> DEFINE Below(k) == {j \in D : j <= k}
           rank == [k \in D |-> Cardinality(Below(k))]
<1>1. Cardinality(D) \in Nat
  BY FS_CardinalityType
<1>2. ASSUME NEW k \in D PROVE IsFiniteSet(Below(k)) /\ Cardinality(Below(k)) \in 1 .. Cardinality(D)
  <2>1. Below(k) \in SUBSET D /\ k \in Below(k)
    OBVIOUS
  <2>2. IsFiniteSet(Below(k)) /\ Cardinality(Below(k)) <= Cardinality(D)
    BY <2>1, FS_Subset
  <2>3. Cardinality(Below(k)) \in Nat /\ Cardinality(Below(k)) # 0
    BY <2>1, <2>2, FS_CardinalityType, FS_EmptySet
  <2> QED
    BY <1>1, <2>2, <2>3
<1>3. ASSUME NEW k \in D, NEW l \in D, k < l
      PROVE  Cardinality(Below(k)) # Cardinality(Below(l))
  <2>1. Below(k) \in SUBSET Below(l) /\ l \in Below(l) /\ l \notin Below(k)
    <3>1. k \in Nat /\ l \in Nat /\ ~(l <= k) /\ l <= l
      BY <1>3
    <3>2. \A j \in D : j <= k => j <= l
      BY <1>3
    <3> QED
      BY <3>1, <3>2
  <2>2. IsFiniteSet(Below(l))
    BY <1>2
  <2> QED
    BY <2>1, <2>2, FS_Subset
<1>4. \A k, l \in D : Cardinality(Below(k)) = Cardinality(Below(l)) => k = l
  <2> SUFFICES ASSUME NEW k \in D, NEW l \in D, Cardinality(Below(k)) = Cardinality(Below(l)), k # l
               PROVE  FALSE
    OBVIOUS
  <2>1. k < l \/ l < k
    OBVIOUS
  <2> QED
    BY <1>3, <2>1
<1>5. rank \in Injection(D, 1 .. Cardinality(D))
  <2>1. rank \in [D -> 1 .. Cardinality(D)]
    BY <1>2
  <2>2. \A k, l \in D : rank[k] = rank[l] => k = l
    BY <1>4
  <2> QED
    BY <2>1, <2>2 DEF Injection, IsInjective
<1>6. rank \in Surjection(D, 1 .. Cardinality(D))
  <2>1. IsFiniteSet(1 .. Cardinality(D)) /\ Cardinality(1 .. Cardinality(D)) = Cardinality(D)
    BY <1>1, FS_Interval
  <2> QED
    BY <1>5, <2>1, FS_Injection
<1>7. \A i \in 1 .. Cardinality(D) : \E k \in D : Cardinality(Below(k)) = i
  BY <1>6 DEF Surjection
<1> QED
  BY <1>2, <1>4, <1>7 DEF Rank

(* What Save writes: each record once.                                      *)
LEMMA FileValue ==
  ASSUME NEW db \in Databases
  PROVE  /\ InFile(db) \in Seq(UserRecords)
         /\ {InFile(db)[i] : i \in 1 .. Len(InFile(db))} = Records(db)
         /\ KeyedByName(db) =>
              \A i, j \in 1 .. Len(InFile(db)) :
                InFile(db)[i].name = InFile(db)[j].name => i = j
<1> DEFINE D == DOMAIN db
           n == Cardinality(D)
           At(i) == CHOOSE k \in D : Rank(D, k) = i
<1>1. D \in SUBSET WebUsers /\ \A k \in D : db[k] \in UserRecords
  BY DEF Databases
<1>2. IsFiniteSet(D) /\ D \subseteq Nat /\ n \in Nat
  BY <1>1, SubsetsFinite
<1>3. InFile(db) = [i \in 1 .. n |-> db[At(i)]]
  BY DEF InFile, Rank
<1>4. /\ \A i \in 1 .. n : \E k \in D : Rank(D, k) = i
      /\ \A k \in D : Rank(D, k) \in 1 .. n
      /\ \A k, l \in D : Rank(D, k) = Rank(D, l) => k = l
  BY <1>2, Ranks
<1> HIDE DEF n, D
<1>5. \A i \in 1 .. n : At(i) \in D /\ Rank(D, At(i)) = i
  BY <1>4, Zenon
<1> HIDE DEF At
<1>6. ASSUME NEW k \in D PROVE \E i \in 1 .. n : At(i) = k
  <2>1. Rank(D, k) \in 1 .. n
    BY <1>4, Zenon
  <2>2. At(Rank(D, k)) \in D /\ Rank(D, At(Rank(D, k))) = Rank(D, k)
    BY <1>5, <2>1
  <2>3. At(Rank(D, k)) = k
    BY <1>4, <2>2, Zenon
  <2> QED
    BY <2>1, <2>3, Zenon
<1>7. \A i \in 1 .. n : db[At(i)] \in UserRecords
  BY <1>1, <1>5
<1>8. InFile(db) \in Seq(UserRecords) /\ Len(InFile(db)) = n
  <2>1. InFile(db) \in [1 .. n -> UserRecords]
    BY <1>3, <1>7
  <2> QED
    BY <1>2, <2>1, SeqDef, LenProperties
<1>9. {InFile(db)[i] : i \in 1 .. n} = Records(db)
  <2>1. \A i \in 1 .. n : InFile(db)[i] = db[At(i)] /\ At(i) \in D
    BY <1>5, <1>3
  <2>2. \A k \in D : \E i \in 1 .. n : InFile(db)[i] = db[k]
    BY <1>6, <2>1
  <2> QED
    BY <2>1, <2>2 DEF Records, D
<1>10. ASSUME KeyedByName(db), NEW i \in 1 .. n, NEW j \in 1 .. n,
             InFile(db)[i].name = InFile(db)[j].name
      PROVE  i = j
  <2>1. At(i) = At(j)
    BY <1>5, <1>3, <1>10 DEF KeyedByName, D
  <2> QED
    BY <1>5, <2>1
<1> QED
  BY <1>8, <1>9, <1>10

LEMMA ListTypes ==
  /\ NoUsers \in Lists
  /\ \A db \in Databases : Records(db) \in SUBSET UserRecords
  /\ UsersLists \subseteq Lists
<1>1. NoUsers \in Lists
  <2>1. NoUsers \in [{} -> UserRecords] /\ DOMAIN NoUsers = {}
    BY DEF NoUsers
  <2> QED
    BY <2>1 DEF Lists, Databases, KeyedByName
<1>2. ASSUME NEW db \in Databases PROVE Records(db) \in SUBSET UserRecords
  BY DEF Databases, Records
<1>3. ASSUME NEW list \in UsersLists PROVE list \in Lists
  <2>1. PICK names \in SUBSET WebUsers :
          list \in {[u \in names |-> WebRecord(u, rights[u])] : rights \in [names -> WebRights]}
    BY DEF UsersLists
  <2>2. PICK rights \in [names -> WebRights] : list = [u \in names |-> WebRecord(u, rights[u])]
    BY <2>1
  <2>3. \A u \in names : list[u] = WebRecord(u, rights[u]) /\ list[u] \in UserRecords /\ list[u].name = u
    BY <2>2 DEF WebRecord, UserRecords
  <2>4. list \in [names -> UserRecords]
    BY <2>2, <2>3
  <2> QED
    BY <2>2, <2>3, <2>4 DEF Lists, Databases, KeyedByName
<1> QED
  BY <1>1, <1>2, <1>3

(* What Load makes of records with different names.                         *)
LEMMA KeyedValue ==
  ASSUME NEW records \in SUBSET UserRecords,
         \A r, s \in records : r.name = s.name => r = s
  PROVE  Keyed(records) \in Lists /\ Records(Keyed(records)) = records
<1>1. ASSUME NEW r \in records
      PROVE  r.name \in WebUsers /\ (CHOOSE s \in records : s.name = r.name) = r
  BY DEF UserRecords
<1>2. DOMAIN Keyed(records) = {r.name : r \in records}
  BY DEF Keyed
<1>3. \A r \in records : Keyed(records)[r.name] = r
  BY <1>1 DEF Keyed
<1>4. Keyed(records) \in [{r.name : r \in records} -> UserRecords]
  BY <1>1, <1>3 DEF Keyed
<1>5. {r.name : r \in records} \in SUBSET WebUsers
  BY <1>1
<1>6. KeyedByName(Keyed(records))
  BY <1>2, <1>3 DEF KeyedByName
<1>7. Records(Keyed(records)) = records
  BY <1>2, <1>3 DEF Records
<1> QED
  BY <1>4, <1>5, <1>6, <1>7 DEF Lists, Databases

(* A database whose records are under their names is what its records make. *)
LEMMA KeyedRecords ==
  ASSUME NEW db \in Databases, KeyedByName(db)
  PROVE  Keyed(Records(db)) = db
<1>1. \A k \in DOMAIN db : db[k].name = k
  BY DEF KeyedByName
<1>2. {r.name : r \in Records(db)} = DOMAIN db
  BY <1>1 DEF Records
<1>3. ASSUME NEW k \in DOMAIN db
      PROVE  (CHOOSE r \in Records(db) : r.name = k) = db[k]
  <2>1. db[k] \in Records(db) /\ db[k].name = k
    BY <1>1 DEF Records
  <2>2. \A r \in Records(db) : r.name = k => r = db[k]
    BY <1>1 DEF Records
  <2> QED
    BY <2>1, <2>2
<1>4. \A k \in DOMAIN db : Keyed(Records(db))[k] = db[k]
  BY <1>2, <1>3 DEF Keyed
<1>5. DOMAIN Keyed(Records(db)) = DOMAIN db
  BY <1>2 DEF Keyed
<1>6. PICK names \in SUBSET WebUsers : db \in [names -> UserRecords]
  BY DEF Databases
<1>7. Keyed(Records(db)) = [k \in DOMAIN db |-> db[k]]
  <2>1. Keyed(Records(db)) = [k \in DOMAIN db |-> CHOOSE r \in Records(db) : r.name = k]
    BY <1>2 DEF Keyed
  <2> QED
    BY <1>3, <2>1
<1> QED
  BY <1>6, <1>7

LEMMA IdleType ==
  /\ WebIdle \in Requests /\ WebIdle.pc = "idle" /\ WebIdle.cookie = 0
  /\ \A cookie \in Nat, as \in WebUsers \cup {0} :
       [WebIdle EXCEPT !.cookie = cookie, !.as = as] \in Requests
<1>1. PICK none : none = NoUsers
  OBVIOUS
<1>2. none \in Lists
  BY <1>1, ListTypes
<1>3. WebIdle = [pc |-> "idle", cookie |-> 0, as |-> 0, user |-> 0, need |-> "any", pos |-> 0,
                 list |-> none, seen |-> {}]
  BY <1>1 DEF WebIdle
<1> QED
  BY <1>2, <1>3 DEF Requests, WebNeeds

LEMMA WebInitInv ==
  ASSUME WebInit
  PROVE  WebInv
<1>1. PICK r \in WebRights : usersDb = Keyed({WebRecord(u, r) : u \in WebUsers})
  BY DEF WebInit
<1>2. usersDb \in Databases
  <2> DEFINE records == {WebRecord(u, r) : u \in WebUsers}
  <2>1. records \in SUBSET UserRecords /\ \A s, t \in records : s.name = t.name => s = t
    BY DEF WebRecord, UserRecords
  <2> HIDE DEF records
  <2>2. Keyed(records) \in Lists
    BY <2>1, KeyedValue
  <2> QED
    BY <1>1, <2>2 DEF Lists, records
<1>3. /\ usersFile = InFile(usersDb) /\ usersLists = {Records(usersDb)}
      /\ webSessions = NoUsers /\ webMain = "console" /\ webSeed = [done |-> ~WebFirstLogin, drawn |-> 0]
      /\ webBrowser = [b \in WebBrowsers |-> WebIdle]
  BY DEF WebInit
<1>4. usersFile \in Seq(UserRecords) /\ usersLists = {FileRecords}
  BY <1>2, <1>3, FileValue DEF FileRecords
<1>5. webSessions \in UNION {[ids -> [user : WebUsers, old : BOOLEAN]] : ids \in SUBSET Nat}
      /\ DOMAIN webSessions = {}
  <2>1. webSessions \in [{} -> [user : WebUsers, old : BOOLEAN]]
    BY <1>3 DEF NoUsers
  <2> QED
    BY <2>1
<1>6. \A b \in WebBrowsers : webBrowser[b] = WebIdle
  BY <1>3
<1>7. WebTypes
  <2>1. webBrowser \in [WebBrowsers -> Requests]
    BY <1>3, IdleType
  <2>2. Records(usersDb) \in SUBSET UserRecords
    BY <1>2, ListTypes
  <2> QED
    BY <1>2, <1>3, <1>4, <1>5, <2>1, <2>2 DEF WebTypes
<1>8. Beginning /\ Cookies
  <2>1. \A b \in WebBrowsers : webBrowser[b].pc = "idle" /\ webBrowser[b].cookie = 0
    BY <1>6, IdleType
  <2>2. Beginning
    BY <1>4, <2>1 DEF Beginning
  <2>3. webSeed.drawn = 0 /\ (~WebFirstLogin => webSeed.done)
    BY <1>3
  <2>4. ~WebFirstLogin => Owned
    BY <1>5, <2>1, <2>3 DEF Owned
  <2>5. Cookies
    BY <2>1, <2>4 DEF Cookies
  <2> QED
    BY <2>2, <2>5
<1>9. WebSaving = {}
  BY <1>6, IdleType DEF WebSaving
<1>10. OneSaves /\ OnItsWay /\ UsersServed /\ LetInWell
  BY <1>3, <1>6, <1>9, IdleType DEF OneSaves, OnItsWay, UsersServed, LetInWell
<1> QED
  BY <1>7, <1>8, <1>10 DEF WebInv

(***************************************************************************)
(* The console and the start.                                              *)
(***************************************************************************)
LEMMA DatabaseOps ==
  ASSUME NEW db \in Databases, NEW u \in WebUsers, NEW k \in WebUsers, NEW r \in UserRecords
  PROVE  /\ AddRecord(db, u, r) \in Databases
         /\ k \in DOMAIN db => [db EXCEPT ![k] = r] \in Databases
         /\ DeleteRecord(db, u) \in Databases
<1>1. DOMAIN db \in SUBSET WebUsers /\ db \in [DOMAIN db -> UserRecords]
  BY DEF Databases
<1>2. AddRecord(db, u, r) \in Databases
  <2>1. CASE u \in DOMAIN db
    BY <2>1 DEF AddRecord
  <2>2. CASE u \notin DOMAIN db
    <3>1. AddRecord(db, u, r) \in [DOMAIN db \cup {u} -> UserRecords]
      BY <1>1, <2>2 DEF AddRecord
    <3> QED
      BY <1>1, <3>1 DEF Databases
  <2> QED
    BY <2>1, <2>2
<1>3. ASSUME k \in DOMAIN db PROVE [db EXCEPT ![k] = r] \in Databases
  BY <1>1, <1>3 DEF Databases
<1>4. DeleteRecord(db, u) \in Databases
  <2>1. DeleteRecord(db, u) \in [DOMAIN db \ {u} -> UserRecords]
    BY <1>1 DEF DeleteRecord
  <2> QED
    BY <1>1, <2>1 DEF Databases
<1> QED
  BY <1>2, <1>3, <1>4

(* Before anybody is served the browsers are idle.                          *)
LEMMA NotServing ==
  ASSUME WebInv, webMain # "serving"
  PROVE  /\ \A b \in WebBrowsers : webBrowser[b].pc = "idle"
         /\ WebSaving = {}
BY DEF WebInv, Beginning, WebSaving

LEMMA BeforeServing ==
  ASSUME WebInv, WebTypes', webMain # "serving",
         UNCHANGED <<webSessions, webSeed, webBrowser>>,
         webMain' \in {"console", "start"} => usersLists' = {FileRecords'},
         webMain' = "serving" => KeyedByName(usersDb') /\ usersLists' = {Records(usersDb')}
  PROVE  WebInv'
<1>1. \A b \in WebBrowsers : webBrowser'[b].pc = "idle"
  BY NotServing
<1>2. WebSaving' = {}
  BY NotServing DEF WebSaving
<1>3. Beginning' /\ Cookies'
  BY <1>1 DEF WebInv, Beginning, Cookies, Owned
<1>4. OneSaves' /\ OnItsWay' /\ UsersServed' /\ LetInWell'
  BY <1>1, <1>2 DEF OneSaves, OnItsWay, UsersServed, LetInWell
<1> QED
  BY <1>3, <1>4 DEF WebInv

LEMMA ConsoleStep ==
  ASSUME WebInv, AddUser \/ UpdateUser \/ DeleteUser
  PROVE  WebInv'
<1>1. PICK db : ConsoleEdits(db) /\ db \in Databases
  <2>1. usersDb \in Databases /\ DOMAIN usersDb \subseteq WebUsers
        /\ \A k \in DOMAIN usersDb : usersDb[k].name \in WebUsers
    BY DEF WebInv, WebTypes, Databases, UserRecords
  <2>2. CASE AddUser
    <3>1. PICK u \in WebUsers, r \in WebRights : ConsoleEdits(AddRecord(usersDb, u, WebRecord(u, r)))
      BY <2>2 DEF AddUser
    <3>2. WebRecord(u, r) \in UserRecords
      BY DEF WebRecord, UserRecords
    <3> QED
      BY <2>1, <3>1, <3>2, DatabaseOps
  <2>3. CASE UpdateUser
    <3>1. PICK k \in DOMAIN usersDb, u \in WebUsers, r \in WebRights :
            ConsoleEdits([usersDb EXCEPT ![k] = WebRecord(u, r)])
      BY <2>3 DEF UpdateUser
    <3>2. WebRecord(u, r) \in UserRecords /\ k \in WebUsers
      BY <2>1 DEF WebRecord, UserRecords
    <3> QED
      BY <2>1, <3>1, <3>2, DatabaseOps
  <2>4. CASE DeleteUser
    <3>1. PICK k \in DOMAIN usersDb : ConsoleEdits(DeleteRecord(usersDb, usersDb[k].name))
      BY <2>4 DEF DeleteUser
    <3>2. usersDb[k] \in UserRecords
      BY <2>1 DEF Databases
    <3> QED
      BY <2>1, <3>1, <3>2, DatabaseOps
  <2> QED
    BY <2>2, <2>3, <2>4
<1>2. /\ webMain = "console" /\ usersDb' = db
      /\ UNCHANGED <<usersFile, webSessions, webSeed, webMain, webBrowser, usersLists>>
  BY <1>1 DEF ConsoleEdits
<1>3. WebTypes'
  BY <1>1, <1>2 DEF WebInv, WebTypes
<1>4. usersLists' = {FileRecords'}
  BY <1>2 DEF WebInv, Beginning, FileRecords
<1> QED
  BY <1>2, <1>3, <1>4, BeforeServing

LEMMA SavesStep ==
  ASSUME WebInv, ConsoleSaves
  PROVE  WebInv'
<1>1. /\ webMain = "console" /\ webMain' = "start" /\ usersDb' = NoUsers
      /\ UNCHANGED <<webSessions, webSeed, webBrowser>>
  BY DEF ConsoleSaves
<1>2. usersDb \in Databases /\ usersDb' \in Databases
  BY <1>1, ListTypes DEF WebInv, WebTypes, Lists
<1>3. /\ usersFile' \in Seq(UserRecords) /\ usersLists' \in SUBSET (SUBSET UserRecords)
      /\ usersLists' = {FileRecords'}
  <2>1. CASE usersFile' = InFile(usersDb) /\ usersLists' = {Records(usersDb)}
    <3>1. {usersFile'[i] : i \in 1 .. Len(usersFile')} = Records(usersDb)
      BY <1>2, <2>1, FileValue
    <3>2. usersFile' \in Seq(UserRecords) /\ Records(usersDb) \in SUBSET UserRecords
      BY <1>2, <2>1, FileValue, ListTypes
    <3> QED
      BY <2>1, <3>1, <3>2 DEF FileRecords
  <2>2. CASE UNCHANGED <<usersFile, usersLists>>
    BY <1>1, <2>2 DEF WebInv, WebTypes, Beginning, FileRecords
  <2> QED
    BY <2>1, <2>2 DEF ConsoleSaves
<1>4. WebTypes'
  BY <1>1, <1>2, <1>3 DEF WebInv, WebTypes
<1> QED
  BY <1>1, <1>3, <1>4, BeforeServing

LEMMA StartsStep ==
  ASSUME WebInv, ServerStarts
  PROVE  WebInv'
<1>1. /\ webMain = "start" /\ webMain' \in {"serving", "failed"}
      /\ UNCHANGED <<usersFile, webSessions, webSeed, webBrowser, usersLists>>
  BY DEF ServerStarts
<1>2. usersLists = {FileRecords} /\ usersFile \in Seq(UserRecords) /\ usersDb \in Databases
  BY <1>1 DEF WebInv, WebTypes, Beginning
<1>3. CASE LoadsWell(usersFile)
  <2>1. usersDb' = Keyed(FileRecords)
    BY <1>3 DEF ServerStarts, LoadAll, FileRecords
  <2>2. FileRecords \in SUBSET UserRecords
    BY <1>2, ElementOfSeq DEF FileRecords
  <2>3. \A r, s \in FileRecords : r.name = s.name => r = s
    BY <1>3 DEF LoadsWell, FileRecords
  <2>4. usersDb' \in Lists /\ Records(usersDb') = FileRecords
    BY <2>1, <2>2, <2>3, KeyedValue
  <2>5. WebTypes'
    BY <1>1, <2>4 DEF WebInv, WebTypes, Lists
  <2> QED
    BY <1>1, <1>2, <2>4, <2>5, BeforeServing DEF Lists
<1>4. CASE ~LoadsWell(usersFile)
  <2>1. webMain' = "failed" /\ usersDb' = usersDb
    BY <1>4 DEF ServerStarts
  <2>2. WebTypes'
    BY <1>1, <2>1 DEF WebInv, WebTypes
  <2> QED
    BY <1>1, <2>1, <2>2, BeforeServing
<1> QED
  BY <1>3, <1>4

(***************************************************************************)
(* Requests that leave the users alone.                                    *)
(***************************************************************************)
Saving == {"write", "clear", "load"}

(* One browser's request goes on.                                           *)
LEMMA StepValue ==
  ASSUME WebTypes, NEW b \in WebBrowsers, NEW r \in Requests, WebStep(b, r)
  PROVE  /\ webBrowser' \in [WebBrowsers -> Requests] /\ webBrowser'[b] = r
         /\ \A c \in WebBrowsers : c # b => webBrowser'[c] = webBrowser[c]
         /\ WebSaving' = IF r.pc \in Saving THEN WebSaving \cup {b} ELSE WebSaving \ {b}
<1>1. /\ webBrowser' \in [WebBrowsers -> Requests] /\ webBrowser'[b] = r
      /\ \A c \in WebBrowsers : c # b => webBrowser'[c] = webBrowser[c]
  BY DEF WebTypes, WebStep
<1>2. WebSaving' = IF r.pc \in Saving THEN WebSaving \cup {b} ELSE WebSaving \ {b}
  BY <1>1 DEF WebSaving, Saving
<1> QED
  BY <1>1, <1>2

LEMMA ActsKept ==
  ASSUME LetInWell, NEW b \in WebBrowsers, NEW r, webBrowser'[b] = r,
         r.pc = "act" => ActsWell(r),
         \A c \in WebBrowsers : c # b => webBrowser'[c] = webBrowser[c]
  PROVE  LetInWell'
<1> SUFFICES ASSUME NEW c \in WebBrowsers, webBrowser'[c].pc = "act"
             PROVE  ActsWell(webBrowser'[c])
  BY DEF LetInWell
<1>1. CASE c = b
  BY <1>1
<1>2. CASE c # b
  BY <1>2 DEF LetInWell
<1> QED
  BY <1>1, <1>2

LEMMA Served ==
  ASSUME WebInv, webMain = "serving", NEW b \in WebBrowsers, NEW r \in Requests, WebStep(b, r),
         webBrowser[b].pc \notin Saving, r.pc \notin Saving, r.pc = "act" => ActsWell(r),
         UNCHANGED <<usersFile, usersDb, webMain, usersLists>>,
         webSessions' \in UNION {[ids -> [user : WebUsers, old : BOOLEAN]] : ids \in SUBSET Nat},
         webSeed' \in [done : BOOLEAN, drawn : Nat],
         Cookies'
  PROVE  WebInv'
<1>1. /\ webBrowser' \in [WebBrowsers -> Requests] /\ webBrowser'[b] = r
      /\ \A c \in WebBrowsers : c # b => webBrowser'[c] = webBrowser[c]
      /\ WebSaving' = WebSaving /\ b \notin WebSaving
  BY StepValue DEF WebInv, WebSaving, Saving
<1>2. WebTypes'
  BY <1>1 DEF WebInv, WebTypes
<1>3. Beginning' /\ UsersServed' /\ OneSaves'
  BY <1>1 DEF WebInv, Beginning, UsersServed, OneSaves
<1>4. \A c \in WebSaving : c \in WebBrowsers /\ webBrowser'[c] = webBrowser[c]
  BY <1>1 DEF WebSaving
<1>5. OnItsWay'
  BY <1>1, <1>4 DEF WebInv, OnItsWay
<1>6. LetInWell'
  BY <1>1, ActsKept DEF WebInv
<1> QED
  BY <1>2, <1>3, <1>5, <1>6 DEF WebInv

(* A browser that does something is served.                                 *)
LEMMA Begun ==
  ASSUME WebInv, NEW b \in WebBrowsers, WebBegins(b) \/ webBrowser[b].pc # "idle"
  PROVE  webMain = "serving" /\ webBrowser[b] \in Requests
BY NotServing DEF WebBegins, WebInv, WebTypes

(* Sessions end, or are used; a browser keeps its cookie or throws it away. *)
LEMMA CookiesKept ==
  ASSUME WebInv, NEW b \in WebBrowsers, NEW r \in Requests, WebStep(b, r),
         webSeed' = webSeed,
         DOMAIN webSessions' \subseteq DOMAIN webSessions,
         \A s \in DOMAIN webSessions' : webSessions'[s].user = webSessions[s].user,
         r.cookie = 0 \/ (r.cookie = webBrowser[b].cookie /\ r.as = webBrowser[b].as),
         r.pc \in {"seed", "draw"} => r.user # 0,
         ~WebFirstLogin => r.pc # "seed"
  PROVE  Cookies'
<1>1. /\ webBrowser'[b] = r
      /\ \A c \in WebBrowsers : c # b => webBrowser'[c] = webBrowser[c]
  BY StepValue DEF WebInv
<1>2. \A c \in WebBrowsers : webBrowser'[c].pc \in {"seed", "draw"} => webBrowser'[c].user # 0
  BY <1>1 DEF WebInv, Cookies
<1>3. ASSUME ~WebFirstLogin PROVE Owned'
  <2>1. Owned /\ webSeed.drawn \in Nat
    BY <1>3 DEF WebInv, WebTypes, Cookies
  <2>2. webSeed'.done /\ \A s \in DOMAIN webSessions' : s \in 1 .. webSeed'.drawn
    BY <2>1 DEF Owned
  <2>3. ASSUME NEW c \in WebBrowsers
        PROVE  /\ webBrowser'[c].pc # "seed"
               /\ webBrowser'[c].cookie <= webSeed'.drawn
               /\ webBrowser'[c].cookie \in DOMAIN webSessions' =>
                    webSessions'[webBrowser'[c].cookie].user = webBrowser'[c].as
    <3>1. CASE c # b
      BY <1>1, <2>1, <3>1 DEF Owned
    <3>2. CASE c = b /\ r.cookie = 0
      BY <1>1, <1>3, <2>1, <2>2, <3>2
    <3>3. CASE c = b /\ r.cookie = webBrowser[b].cookie /\ r.as = webBrowser[b].as
      BY <1>1, <1>3, <2>1, <3>3 DEF Owned
    <3> QED
      BY <3>1, <3>2, <3>3
  <2> QED
    BY <2>2, <2>3 DEF Owned
<1> QED
  BY <1>2, <1>3 DEF Cookies

LEMMA LessSessions ==
  ASSUME NEW sessions \in UNION {[ids -> [user : WebUsers, old : BOOLEAN]] : ids \in SUBSET Nat},
         NEW sid \in Nat
  PROVE  [s \in DOMAIN sessions \ {sid} |-> sessions[s]]
           \in UNION {[ids -> [user : WebUsers, old : BOOLEAN]] : ids \in SUBSET Nat}
<1>1. PICK ids \in SUBSET Nat : sessions \in [ids -> [user : WebUsers, old : BOOLEAN]]
  OBVIOUS
<1>2. [s \in DOMAIN sessions \ {sid} |-> sessions[s]]
        \in [ids \ {sid} -> [user : WebUsers, old : BOOLEAN]]
  BY <1>1
<1>3. ids \ {sid} \in SUBSET Nat
  BY <1>1
<1> QED
  BY <1>2, <1>3

LEMMA OneMoreSession ==
  ASSUME NEW sessions \in UNION {[ids -> [user : WebUsers, old : BOOLEAN]] : ids \in SUBSET Nat},
         NEW sid \in Nat, NEW user \in WebUsers
  PROVE  [s \in DOMAIN sessions \cup {sid} |->
            IF s = sid THEN [user |-> user, old |-> FALSE] ELSE sessions[s]]
           \in UNION {[ids -> [user : WebUsers, old : BOOLEAN]] : ids \in SUBSET Nat}
<1>1. PICK ids \in SUBSET Nat : sessions \in [ids -> [user : WebUsers, old : BOOLEAN]]
  OBVIOUS
<1>2. [s \in DOMAIN sessions \cup {sid} |->
         IF s = sid THEN [user |-> user, old |-> FALSE] ELSE sessions[s]]
        \in [ids \cup {sid} -> [user : WebUsers, old : BOOLEAN]]
  BY <1>1
<1>3. ids \cup {sid} \in SUBSET Nat
  BY <1>1
<1> QED
  BY <1>2, <1>3

(* While the server works, what is in the database is in a list that counts.*)
LEMMA DatabaseCounts ==
  ASSUME WebInv, webMain = "serving", NEW k \in DOMAIN usersDb
  PROVE  /\ usersDb[k] \in UserRecords /\ usersDb[k].name = k
         /\ \E list \in usersLists : usersDb[k] \in list
<1>1. usersDb[k] \in UserRecords /\ usersDb[k].name = k
  BY DEF WebInv, WebTypes, Databases, UsersServed, KeyedByName
<1>2. usersDb[k] \in Records(usersDb)
  BY DEF Records
<1>3. CASE WebSaving = {}
  BY <1>1, <1>2, <1>3 DEF WebInv, UsersServed
<1>4. CASE WebSaving # {}
  <2>1. PICK b \in WebBrowsers : b \in WebSaving /\ webBrowser[b].pc \in Saving
    BY <1>4 DEF WebSaving, Saving
  <2>2. CASE webBrowser[b].pc # "load"
    BY <1>1, <1>2, <2>1, <2>2 DEF WebInv, OnItsWay, Saving
  <2>3. CASE webBrowser[b].pc = "load"
    <3>1. /\ usersFile = InFile(webBrowser[b].list) /\ FileLoaded(usersDb, usersFile, webBrowser[b].pos)
          /\ Records(webBrowser[b].list) \in usersLists
      BY <2>1, <2>3 DEF WebInv, OnItsWay
    <3>2. webBrowser[b].pos \in Nat /\ webBrowser[b].list \in Databases /\ Len(usersFile) \in Nat
      BY LenProperties DEF WebInv, WebTypes, Requests, Lists
    <3>3. PICK i \in 1 .. webBrowser[b].pos : usersDb[k] = usersFile[i] /\ i \in 1 .. Len(usersFile)
      BY <3>1, <3>2 DEF FileLoaded
    <3>4. usersDb[k] \in Records(webBrowser[b].list)
      BY <3>1, <3>2, <3>3, FileValue
    <3> QED
      BY <1>1, <3>1, <3>4
  <2> QED
    BY <2>2, <2>3
<1> QED
  BY <1>1, <1>3, <1>4

LEMMA ReplyType ==
  ASSUME WebTypes, NEW b \in WebBrowsers, WebReplies(b)
  PROVE  \E r \in Requests :
           /\ WebStep(b, r) /\ r.pc = "idle" /\ r.pc \notin Saving
           /\ r.cookie = webBrowser[b].cookie /\ r.as = webBrowser[b].as
<1> DEFINE r == [WebIdle EXCEPT !.cookie = webBrowser[b].cookie, !.as = webBrowser[b].as]
<1>1. webBrowser[b].cookie \in Nat /\ webBrowser[b].as \in WebUsers \cup {0}
  BY DEF WebTypes, Requests
<1>2. r \in Requests
  BY <1>1, IdleType
<1>3. r.pc = "idle" /\ r.cookie = webBrowser[b].cookie /\ r.as = webBrowser[b].as
  BY DEF WebIdle
<1>4. WebStep(b, r)
  BY DEF WebReplies
<1> HIDE DEF r
<1> QED
  BY <1>2, <1>3, <1>4 DEF Saving

LEMMA LetIn ==
  ASSUME WebInv, webMain = "serving", NEW b \in WebBrowsers, NEW user \in WebUsers \cup {0},
         NEW need \in WebNeeds, WebActs(b, user, need),
         ~WebFirstLogin => (webBrowser[b].cookie # 0 => user = webBrowser[b].as)
  PROVE  \E r \in Requests :
           /\ WebStep(b, r) /\ r.pc \in {"idle", "act"} /\ r.pc \notin Saving
           /\ r.pc = "act" => ActsWell(r)
           /\ r.cookie = webBrowser[b].cookie /\ r.as = webBrowser[b].as
<1>1. CASE \E r \in WebUser(user) : WebAllowed(r.rights, need)
  <2>1. PICK k \in DOMAIN usersDb : k = user /\ WebAllowed(usersDb[k].rights, need)
    BY <1>1 DEF WebUser
  <2>2. usersDb[user] \in UserRecords /\ usersDb[user].name = user
        /\ \E list \in usersLists : usersDb[user] \in list
    BY <2>1, DatabaseCounts
  <2>3. usersDb[user] = WebRecord(user, usersDb[user].rights) /\ usersDb[user].rights \in WebRights
    BY <2>2 DEF UserRecords, WebRecord
  <2> DEFINE r == [webBrowser[b] EXCEPT !.pc = "act", !.user = user, !.need = need,
                                        !.seen = usersLists]
  <2>4. webBrowser[b] \in Requests /\ usersLists \in SUBSET (SUBSET UserRecords)
    BY DEF WebInv, WebTypes
  <2>5. /\ r \in Requests /\ r.pc = "act" /\ r.user = user /\ r.need = need /\ r.seen = usersLists
        /\ r.cookie = webBrowser[b].cookie /\ r.as = webBrowser[b].as
    BY <2>4 DEF Requests
  <2>6. WebStep(b, r)
    BY <1>1 DEF WebActs
  <2> HIDE DEF r
  <2>7. ActsWell(r)
    BY <2>1, <2>2, <2>3, <2>5 DEF ActsWell
  <2> QED
    BY <2>5, <2>6, <2>7 DEF Saving
<1>2. CASE ~ \E r \in WebUser(user) : WebAllowed(r.rights, need)
  <2>1. WebReplies(b)
    BY <1>2 DEF WebActs
  <2> QED
    BY <2>1, ReplyType DEF WebInv
<1> QED
  BY <1>1, <1>2

LEMMA LoginSteps ==
  ASSUME WebInv, NEW b \in WebBrowsers, ApiLogin(b) \/ ApiLogout(b)
  PROVE  WebInv'
<1>1. /\ webMain = "serving" /\ webBrowser[b] \in Requests /\ webBrowser[b].pc = "idle"
      /\ webBrowser[b].cookie \in Nat
      /\ UNCHANGED <<usersFile, usersDb, webMain, usersLists, webSeed>>
  BY Begun DEF ApiLogin, ApiLogout, WebBegins, WebDoes, Requests
<1>2. webSeed \in [done : BOOLEAN, drawn : Nat]
      /\ webSessions \in UNION {[ids -> [user : WebUsers, old : BOOLEAN]] : ids \in SUBSET Nat}
  BY DEF WebInv, WebTypes
<1>3. CASE ApiLogin(b)
  <2>1. PICK u \in DOMAIN usersDb :
          WebStep(b, [webBrowser[b] EXCEPT !.pc = IF webSeed.done THEN "draw" ELSE "seed", !.user = u])
    BY <1>3 DEF ApiLogin
  <2>2. u \in WebUsers /\ u # 0
    BY WebAssumption DEF WebInv, WebTypes, Databases
  <2>3. PICK r : r = [webBrowser[b] EXCEPT !.pc = IF webSeed.done THEN "draw" ELSE "seed", !.user = u]
    OBVIOUS
  <2>4. /\ r \in Requests /\ r.pc = (IF webSeed.done THEN "draw" ELSE "seed") /\ r.user = u
        /\ r.cookie = webBrowser[b].cookie /\ r.as = webBrowser[b].as
    BY <1>1, <2>2, <2>3 DEF Requests
  <2>5. WebStep(b, r) /\ webSessions' = webSessions
    BY <1>3, <2>1, <2>3 DEF ApiLogin
  <2>6. ~WebFirstLogin => r.pc # "seed"
    BY <2>4 DEF WebInv, Cookies, Owned
  <2>7. Cookies'
    BY <1>1, <2>2, <2>4, <2>5, <2>6, CookiesKept
  <2> QED
    BY <1>1, <1>2, <2>4, <2>5, <2>7, Served DEF Saving
<1>4. CASE ApiLogout(b)
  <2>1. /\ webSessions' = [s \in DOMAIN webSessions \ {webBrowser[b].cookie} |-> webSessions[s]]
        /\ WebStep(b, WebIdle)
    BY <1>4 DEF ApiLogout
  <2>2. Cookies'
    BY <1>1, <2>1, IdleType, CookiesKept
  <2>3. webSessions' \in UNION {[ids -> [user : WebUsers, old : BOOLEAN]] : ids \in SUBSET Nat}
    BY <1>1, <1>2, <2>1, LessSessions
  <2> QED
    BY <1>1, <1>2, <2>1, <2>2, <2>3, IdleType, Served DEF Saving
<1> QED
  BY <1>3, <1>4

(* Only the first logins seed, which the theorems about the cookies exclude.*)
LEMMA SeedsStep ==
  ASSUME WebInv, NEW b \in WebBrowsers, WebSeeds(b)
  PROVE  WebInv'
<1>1. PICK r : r = [webBrowser[b] EXCEPT !.pc = "draw"]
  OBVIOUS
<1>2. /\ webMain = "serving" /\ webBrowser[b] \in Requests /\ webBrowser[b].pc = "seed"
      /\ WebStep(b, r) /\ webSeed' = [done |-> TRUE, drawn |-> 0]
      /\ UNCHANGED <<usersFile, usersDb, webSessions, webMain, usersLists>>
  BY <1>1, Begun DEF WebSeeds, WebDoes
<1>3. r \in Requests /\ r.pc = "draw" /\ r.user = webBrowser[b].user
  BY <1>1, <1>2 DEF Requests
<1>4. /\ webBrowser'[b] = r
      /\ \A c \in WebBrowsers : c # b => webBrowser'[c] = webBrowser[c]
  BY <1>2, <1>3, StepValue DEF WebInv
<1>5. WebFirstLogin
  BY <1>2 DEF WebInv, Cookies, Owned
<1>6. Cookies'
  BY <1>2, <1>3, <1>4, <1>5 DEF WebInv, Cookies
<1>7. /\ webSeed' \in [done : BOOLEAN, drawn : Nat]
      /\ webSessions' \in UNION {[ids -> [user : WebUsers, old : BOOLEAN]] : ids \in SUBSET Nat}
  BY <1>2 DEF WebInv, WebTypes
<1> QED
  BY <1>2, <1>3, <1>6, <1>7, Served DEF Saving

LEMMA StoresStep ==
  ASSUME WebInv, NEW b \in WebBrowsers, WebStoresSession(b)
  PROVE  WebInv'
<1> DEFINE sid == webSeed.drawn + 1
           user == webBrowser[b].user
           r == [WebIdle EXCEPT !.cookie = sid, !.as = user]
<1>1. /\ webMain = "serving" /\ webBrowser[b] \in Requests /\ webBrowser[b].pc = "draw"
      /\ UNCHANGED <<usersFile, usersDb, webMain, usersLists>>
  BY Begun DEF WebStoresSession, WebDoes
<1>2. webSeed.drawn \in Nat /\ sid \in Nat /\ user \in WebUsers
  <2>1. webSeed.drawn \in Nat
    BY DEF WebInv, WebTypes
  <2>2. webBrowser[b].user # 0
    BY <1>1 DEF WebInv, Cookies
  <2>3. webBrowser[b].user \in WebUsers \cup {0}
    BY <1>1 DEF Requests
  <2> QED
    BY <2>1, <2>2, <2>3
<1>3. r \in Requests /\ r.pc = "idle" /\ r.cookie = sid /\ r.as = user
  <2>1. r \in Requests
    BY <1>2, IdleType
  <2> QED
    BY <2>1 DEF WebIdle
<1>4. /\ webSeed' = [webSeed EXCEPT !.drawn = sid] /\ WebStep(b, r)
      /\ webSessions' = [s \in DOMAIN webSessions \cup {sid} |->
                           IF s = sid THEN [user |-> user, old |-> FALSE] ELSE webSessions[s]]
  BY DEF WebStoresSession
<1> HIDE DEF r, sid, user
<1>5. webSessions' \in UNION {[ids -> [user : WebUsers, old : BOOLEAN]] : ids \in SUBSET Nat}
  <2>1. webSessions \in UNION {[ids -> [user : WebUsers, old : BOOLEAN]] : ids \in SUBSET Nat}
    BY DEF WebInv, WebTypes
  <2>2. [s \in DOMAIN webSessions \cup {sid} |->
          IF s = sid THEN [user |-> user, old |-> FALSE] ELSE webSessions[s]]
          \in UNION {[ids -> [user : WebUsers, old : BOOLEAN]] : ids \in SUBSET Nat}
    BY <1>2, <2>1, OneMoreSession
  <2> QED
    BY <1>4, <2>2, Zenon
<1>6. webSeed' \in [done : BOOLEAN, drawn : Nat] /\ webSeed'.drawn = sid /\ sid = webSeed.drawn + 1
      /\ webSeed'.done = webSeed.done
  BY <1>2, <1>4 DEF WebInv, WebTypes, sid
<1>7. /\ webBrowser'[b] = r
      /\ \A c \in WebBrowsers : c # b => webBrowser'[c] = webBrowser[c]
  BY <1>3, <1>4, StepValue DEF WebInv
<1>8. /\ DOMAIN webSessions' = DOMAIN webSessions \cup {sid} /\ webSessions'[sid].user = user
      /\ \A s \in DOMAIN webSessions : s # sid => webSessions'[s] = webSessions[s]
  BY <1>4
<1>9. \A c \in WebBrowsers : webBrowser'[c].pc \in {"seed", "draw"} => webBrowser'[c].user # 0
  BY <1>3, <1>7 DEF WebInv, Cookies
<1>10. ASSUME ~WebFirstLogin PROVE Owned'
  <2>1. Owned
    BY <1>10 DEF WebInv, Cookies
  <2>2. webSeed'.done /\ \A s \in DOMAIN webSessions' : s \in 1 .. webSeed'.drawn
    BY <1>2, <1>6, <1>8, <2>1 DEF Owned
  <2>3. ASSUME NEW c \in WebBrowsers
        PROVE  /\ webBrowser'[c].pc # "seed"
               /\ webBrowser'[c].cookie <= webSeed'.drawn
               /\ webBrowser'[c].cookie \in DOMAIN webSessions' =>
                    webSessions'[webBrowser'[c].cookie].user = webBrowser'[c].as
    <3>1. CASE c = b
      BY <1>2, <1>3, <1>6, <1>7, <1>8, <3>1
    <3>2. CASE c # b
      <4>1. /\ webBrowser[c].pc # "seed" /\ webBrowser[c].cookie <= webSeed.drawn
            /\ webBrowser[c].cookie \in DOMAIN webSessions =>
                 webSessions[webBrowser[c].cookie].user = webBrowser[c].as
        BY <2>1 DEF Owned
      <4>2. webBrowser[c].cookie \in Nat /\ webBrowser'[c] = webBrowser[c]
        BY <1>7, <3>2 DEF WebInv, WebTypes, Requests
      <4>3. webBrowser[c].cookie # sid /\ webBrowser[c].cookie <= sid
        BY <1>2, <1>6, <4>1, <4>2
      <4> QED
        BY <1>6, <1>8, <4>1, <4>2, <4>3
    <3> QED
      BY <3>1, <3>2
  <2> QED
    BY <2>2, <2>3 DEF Owned
<1>11. Cookies'
  BY <1>9, <1>10 DEF Cookies
<1> QED
  BY <1>1, <1>3, <1>4, <1>5, <1>6, <1>11, Served DEF Saving

LEMMA CallSteps ==
  ASSUME WebInv, NEW b \in WebBrowsers, ApiCall(b) \/ ApiCallBasic(b)
  PROVE  WebInv'
<1>1. /\ webMain = "serving" /\ webBrowser[b] \in Requests /\ webBrowser[b].pc = "idle"
      /\ webBrowser[b].pc \notin Saving
      /\ UNCHANGED <<usersFile, usersDb, webMain, usersLists, webSeed>>
  BY Begun DEF ApiCall, ApiCallBasic, WebBegins, WebDoes, Saving
<1>2. /\ webSeed' \in [done : BOOLEAN, drawn : Nat]
      /\ webSessions \in UNION {[ids -> [user : WebUsers, old : BOOLEAN]] : ids \in SUBSET Nat}
  BY <1>1 DEF WebInv, WebTypes
<1>3. ASSUME NEW r \in Requests, WebStep(b, r), r.pc \in {"idle", "act"}, r.pc \notin Saving,
             r.pc = "act" => ActsWell(r),
             r.cookie = webBrowser[b].cookie, r.as = webBrowser[b].as,
             webSessions' \in UNION {[ids -> [user : WebUsers, old : BOOLEAN]] : ids \in SUBSET Nat},
             DOMAIN webSessions' \subseteq DOMAIN webSessions,
             \A s \in DOMAIN webSessions' : webSessions'[s].user = webSessions[s].user
      PROVE  WebInv'
  <2>1. Cookies'
    BY <1>1, <1>3, CookiesKept
  <2> QED
    BY <1>1, <1>2, <1>3, <2>1, Served
<1>4. CASE ApiCallBasic(b)
  <2>1. PICK u \in DOMAIN usersDb, need \in WebNeeds : WebActs(b, u, need)
    BY <1>4 DEF ApiCallBasic
  <2>2. webBrowser[b].cookie = 0 /\ webSessions' = webSessions /\ u \in WebUsers \cup {0}
    BY <1>4 DEF ApiCallBasic, WebInv, WebTypes, Databases
  <2>3. PICK r \in Requests :
          /\ WebStep(b, r) /\ r.pc \in {"idle", "act"} /\ r.pc \notin Saving
          /\ r.pc = "act" => ActsWell(r)
          /\ r.cookie = webBrowser[b].cookie /\ r.as = webBrowser[b].as
    BY <1>1, <2>1, <2>2, LetIn
  <2> QED
    BY <1>2, <1>3, <2>2, <2>3
<1>5. CASE ApiCall(b)
  <2> DEFINE sid == webBrowser[b].cookie
  <2>1. CASE sid \notin DOMAIN webSessions \/ webSessions[sid].old
    <3>1. /\ webSessions' = [s \in DOMAIN webSessions \ {sid} |-> webSessions[s]]
          /\ WebReplies(b)
      BY <1>5, <2>1 DEF ApiCall
    <3>2. PICK r \in Requests :
            /\ WebStep(b, r) /\ r.pc = "idle" /\ r.pc \notin Saving
            /\ r.cookie = webBrowser[b].cookie /\ r.as = webBrowser[b].as
      BY <3>1, ReplyType DEF WebInv
    <3>3. webSessions' \in UNION {[ids -> [user : WebUsers, old : BOOLEAN]] : ids \in SUBSET Nat}
      <4>1. sid \in Nat
        BY <1>1 DEF Requests
      <4> QED
        BY <1>2, <3>1, <4>1, LessSessions
    <3> QED
      BY <1>3, <3>1, <3>2, <3>3
  <2>2. CASE ~(sid \notin DOMAIN webSessions \/ webSessions[sid].old)
    <3>1. /\ webSessions' = [webSessions EXCEPT ![sid].old = FALSE]
          /\ \E need \in WebNeeds : WebActs(b, webSessions[sid].user, need)
      BY <1>5, <2>2 DEF ApiCall
    <3>2. /\ webSessions[sid].user \in WebUsers \cup {0}
          /\ ~WebFirstLogin => webSessions[sid].user = webBrowser[b].as
      <4>1. PICK ids \in SUBSET Nat : webSessions \in [ids -> [user : WebUsers, old : BOOLEAN]]
        BY <1>2
      <4>2. webSessions[sid] \in [user : WebUsers, old : BOOLEAN]
        BY <2>2, <4>1
      <4>3. ~WebFirstLogin => webSessions[sid].user = webBrowser[b].as
        BY <2>2 DEF WebInv, Cookies, Owned
      <4> QED
        BY <4>2, <4>3
    <3>3. PICK r \in Requests :
            /\ WebStep(b, r) /\ r.pc \in {"idle", "act"} /\ r.pc \notin Saving
            /\ r.pc = "act" => ActsWell(r)
            /\ r.cookie = webBrowser[b].cookie /\ r.as = webBrowser[b].as
      BY <1>1, <3>1, <3>2, LetIn
    <3>4. /\ webSessions' \in UNION {[ids -> [user : WebUsers, old : BOOLEAN]] : ids \in SUBSET Nat}
          /\ DOMAIN webSessions' = DOMAIN webSessions
          /\ \A s \in DOMAIN webSessions : webSessions'[s].user = webSessions[s].user
      <4>1. PICK ids \in SUBSET Nat : webSessions \in [ids -> [user : WebUsers, old : BOOLEAN]]
        BY <1>2
      <4>2. webSessions' \in [ids -> [user : WebUsers, old : BOOLEAN]]
        BY <2>2, <3>1, <4>1
      <4> QED
        BY <2>2, <3>1, <4>1, <4>2
    <3> QED
      BY <1>3, <3>3, <3>4
  <2> QED
    BY <2>1, <2>2
<1> QED
  BY <1>4, <1>5

LEMMA ServesStep ==
  ASSUME WebInv, NEW b \in WebBrowsers, ApiAdminServes(b) \/ ApiDataServes(b)
  PROVE  WebInv'
<1>1. /\ webBrowser[b].pc = "act" /\ WebReplies(b)
      /\ UNCHANGED <<usersFile, usersDb, webSessions, webSeed, webMain, usersLists>>
  BY DEF ApiAdminServes, ApiDataServes, WebServes, WebDoes
<1>2. webMain = "serving" /\ webBrowser[b].pc \notin Saving
  BY <1>1, Begun DEF Saving
<1>3. PICK r \in Requests :
        /\ WebStep(b, r) /\ r.pc = "idle" /\ r.pc \notin Saving
        /\ r.cookie = webBrowser[b].cookie /\ r.as = webBrowser[b].as
  BY <1>1, ReplyType DEF WebInv
<1>4. Cookies'
  BY <1>1, <1>3, CookiesKept
<1>5. /\ webSeed' \in [done : BOOLEAN, drawn : Nat]
      /\ webSessions' \in UNION {[ids -> [user : WebUsers, old : BOOLEAN]] : ids \in SUBSET Nat}
  BY <1>1 DEF WebInv, WebTypes
<1> QED
  BY <1>1, <1>2, <1>3, <1>4, <1>5, Served

LEMMA HourStep ==
  ASSUME WebInv, WebHour
  PROVE  WebInv'
<1>1. /\ webSessions' = [s \in DOMAIN webSessions |-> [webSessions[s] EXCEPT !.old = TRUE]]
      /\ UNCHANGED <<usersFile, usersDb, webSeed, webMain, webBrowser, usersLists>>
  BY DEF WebHour
<1>2. /\ webSessions' \in UNION {[ids -> [user : WebUsers, old : BOOLEAN]] : ids \in SUBSET Nat}
      /\ DOMAIN webSessions' = DOMAIN webSessions
      /\ \A s \in DOMAIN webSessions : webSessions'[s].user = webSessions[s].user
  <2>1. PICK ids \in SUBSET Nat : webSessions \in [ids -> [user : WebUsers, old : BOOLEAN]]
    BY DEF WebInv, WebTypes
  <2>2. webSessions' \in [ids -> [user : WebUsers, old : BOOLEAN]]
    BY <1>1, <2>1
  <2> QED
    BY <1>1, <2>1, <2>2
<1>3. WebTypes' /\ Beginning' /\ UsersServed' /\ OneSaves'
  <2>1. WebTypes'
    BY <1>1, <1>2 DEF WebInv, WebTypes
  <2>2. WebSaving' = WebSaving
    BY <1>1 DEF WebSaving
  <2>3. FileRecords' = FileRecords
    BY <1>1 DEF FileRecords
  <2>4. Beginning' /\ UsersServed'
    BY <1>1, <2>2, <2>3 DEF WebInv, Beginning, UsersServed
  <2>5. OneSaves'
    BY <2>2 DEF WebInv, OneSaves
  <2> QED
    BY <2>1, <2>4, <2>5
<1>4. Cookies'
  <2>1. \A b \in WebBrowsers : webBrowser'[b].pc \in {"seed", "draw"} => webBrowser'[b].user # 0
    BY <1>1 DEF WebInv, Cookies
  <2>2. ASSUME ~WebFirstLogin PROVE Owned'
    <3>1. Owned
      BY <2>2 DEF WebInv, Cookies
    <3>2. webSeed'.done /\ \A s \in DOMAIN webSessions' : s \in 1 .. webSeed'.drawn
      BY <1>1, <1>2, <3>1 DEF Owned
    <3>3. \A b \in WebBrowsers :
            /\ webBrowser'[b].pc # "seed" /\ webBrowser'[b].cookie <= webSeed'.drawn
            /\ webBrowser'[b].cookie \in DOMAIN webSessions' =>
                 webSessions'[webBrowser'[b].cookie].user = webBrowser'[b].as
      BY <1>1, <1>2, <3>1 DEF Owned
    <3> QED
      BY <3>2, <3>3 DEF Owned
  <2> QED
    BY <2>1, <2>2 DEF Cookies
<1>5. OnItsWay'
  BY <1>1 DEF WebInv, OnItsWay, WebSaving
<1>6. LetInWell'
  BY <1>1 DEF WebInv, LetInWell
<1> QED
  BY <1>3, <1>4, <1>5, <1>6 DEF WebInv

(***************************************************************************)
(* The list that is on its way.                                            *)
(***************************************************************************)
(* What is known of the file and the database while it is.                  *)
IsOnItsWay(r) ==
  /\ Records(r.list) \in usersLists
  /\ r.pc = "write" => FileWritten(usersFile, r.list, r.pos)
  /\ r.pc \in {"clear", "load"} => usersFile = InFile(r.list)
  /\ r.pc \in {"write", "clear"} => Records(usersDb) \in usersLists
  /\ r.pc = "load" => FileLoaded(usersDb, usersFile, r.pos)

LEMMA SaverStep ==
  ASSUME WebInv, webMain = "serving", NEW b \in WebBrowsers, WebSaving \subseteq {b},
         NEW r, webBrowser'[b] = r,
         WebTypes', LetInWell', UNCHANGED <<webSessions, webSeed, webMain>>,
         \A c \in WebBrowsers : c # b =>
           webBrowser'[c].pc = webBrowser[c].pc /\ webBrowser'[c].user = webBrowser[c].user,
         \A c \in WebBrowsers :
           webBrowser'[c].cookie = webBrowser[c].cookie /\ webBrowser'[c].as = webBrowser[c].as,
         KeyedByName(usersDb'),
         \/ r.pc \in Saving /\ IsOnItsWay(r)'
         \/ r.pc = "idle" /\ usersLists' = {Records(usersDb')}
  PROVE  WebInv'
<1>1. Beginning'
  BY DEF WebInv, Beginning
<1>2. Cookies'
  <2>1. r.pc \notin {"seed", "draw"}
    BY DEF Saving
  <2> QED
    BY <2>1 DEF WebInv, Cookies, Owned
<1>3. WebSaving' = IF r.pc \in Saving THEN {b} ELSE {}
  BY DEF WebSaving, Saving
<1>4. OneSaves'
  BY <1>3 DEF OneSaves
<1>5. CASE r.pc \in Saving /\ IsOnItsWay(r)'
  <2>1. WebSaving' = {b}
    BY <1>3, <1>5
  <2>2. OnItsWay'
    BY <1>5, <2>1 DEF OnItsWay, IsOnItsWay
  <2>3. UsersServed'
    BY <2>1 DEF UsersServed
  <2> QED
    BY <1>1, <1>2, <1>4, <2>2, <2>3 DEF WebInv
<1>6. CASE r.pc = "idle" /\ usersLists' = {Records(usersDb')}
  <2>1. WebSaving' = {}
    BY <1>3, <1>6 DEF Saving
  <2>2. OnItsWay' /\ UsersServed'
    BY <1>6, <2>1 DEF OnItsWay, UsersServed
  <2> QED
    BY <1>1, <1>2, <1>4, <2>2 DEF WebInv
<1> QED
  BY <1>5, <1>6

(* The saver goes on, and the others do not.                                *)
LEMMA SaverGoesOn ==
  ASSUME WebInv, NEW b \in WebSaving, NEW r \in Requests, WebStep(b, r),
         UNCHANGED <<webSessions, webSeed, webMain>>,
         usersFile' \in Seq(UserRecords), usersDb' \in Lists,
         usersLists' \in SUBSET (SUBSET UserRecords),
         r.cookie = webBrowser[b].cookie, r.as = webBrowser[b].as,
         \/ r.pc \in Saving /\ IsOnItsWay(r)'
         \/ r.pc = "idle" /\ usersLists' = {Records(usersDb')}
  PROVE  WebInv'
<1>1. /\ b \in WebBrowsers /\ webBrowser[b].pc \in Saving /\ webMain = "serving"
      /\ WebSaving \subseteq {b}
  BY NotServing DEF WebSaving, Saving, WebInv, OneSaves
<1>2. /\ webBrowser' \in [WebBrowsers -> Requests] /\ webBrowser'[b] = r
      /\ \A c \in WebBrowsers : c # b => webBrowser'[c] = webBrowser[c]
  BY <1>1, StepValue DEF WebInv
<1>3. WebTypes'
  BY <1>2 DEF WebInv, WebTypes, Lists
<1>4. r.pc # "act"
  BY DEF Saving
<1>5. LetInWell'
  BY <1>1, <1>2, <1>4, ActsKept DEF WebInv
<1>6. KeyedByName(usersDb')
  BY DEF Lists
<1>7. \A c \in WebBrowsers :
        webBrowser'[c].cookie = webBrowser[c].cookie /\ webBrowser'[c].as = webBrowser[c].as
  BY <1>2
<1>8. \A c \in WebBrowsers : c # b =>
        webBrowser'[c].pc = webBrowser[c].pc /\ webBrowser'[c].user = webBrowser[c].user
  BY <1>2
<1> QED
  BY <1>1, <1>2, <1>3, <1>5, <1>6, <1>7, <1>8, SaverStep

LEMMA TruncatesStep ==
  ASSUME WebInv, ~webMixed', NEW b \in WebBrowsers, WebTruncates(b)
  PROVE  WebInv'
<1>1. /\ webBrowser[b].pc = "act" /\ WebSaving = {} /\ usersFile' = <<>>
      /\ UNCHANGED <<usersDb, webSessions, webSeed, webMain>>
  BY DEF WebTruncates, WebDoes
<1>2. webMain = "serving" /\ webBrowser[b] \in Requests
  BY <1>1, Begun
<1>3. PICK list \in UsersLists :
        /\ usersLists' = usersLists \cup {Records(list)}
        /\ webBrowser' = [c \in WebBrowsers |->
             IF c = b THEN [webBrowser[b] EXCEPT !.pc = "write", !.pos = 0, !.list = list, !.seen = {}]
             ELSE IF webBrowser[c].pc = "act"
                  THEN [webBrowser[c] EXCEPT !.seen = webBrowser[c].seen \cup usersLists']
             ELSE webBrowser[c]]
  BY DEF WebTruncates
<1>4. list \in Lists /\ list \in Databases /\ Records(list) \in SUBSET UserRecords
  BY <1>3, ListTypes DEF Lists
<1>5. usersDb \in Databases /\ KeyedByName(usersDb) /\ usersLists = {Records(usersDb)}
  BY <1>1, <1>2 DEF WebInv, WebTypes, UsersServed
<1>6. usersLists' \in SUBSET (SUBSET UserRecords) /\ usersLists \subseteq usersLists'
      /\ Records(list) \in usersLists' /\ Records(usersDb) \in usersLists'
  BY <1>3, <1>4, <1>5 DEF WebInv, WebTypes
<1>0. PICK r : r = [webBrowser[b] EXCEPT !.pc = "write", !.pos = 0, !.list = list, !.seen = {}]
  OBVIOUS
<1>7. /\ r \in Requests /\ r.pc = "write" /\ r.pos = 0 /\ r.list = list
      /\ r.cookie = webBrowser[b].cookie /\ r.as = webBrowser[b].as
  BY <1>0, <1>2, <1>4 DEF Requests
<1>8. webBrowser'[b] = r
  BY <1>0, <1>3
<1>9. ASSUME NEW c \in WebBrowsers, c # b
      PROVE  /\ webBrowser'[c] \in Requests
             /\ webBrowser'[c].pc = webBrowser[c].pc /\ webBrowser'[c].user = webBrowser[c].user
             /\ webBrowser'[c].cookie = webBrowser[c].cookie /\ webBrowser'[c].as = webBrowser[c].as
             /\ webBrowser'[c].need = webBrowser[c].need
             /\ webBrowser[c].seen \subseteq webBrowser'[c].seen
  <2>1. webBrowser[c] \in Requests
    BY DEF WebInv, WebTypes
  <2>2. CASE webBrowser[c].pc = "act"
    <3>1. webBrowser'[c] = [webBrowser[c] EXCEPT !.seen = webBrowser[c].seen \cup usersLists']
      BY <1>3, <1>9, <2>2
    <3> QED
      BY <1>6, <2>1, <3>1 DEF Requests
  <2>3. CASE webBrowser[c].pc # "act"
    <3>1. webBrowser'[c] = webBrowser[c]
      BY <1>3, <1>9, <2>3
    <3> QED
      BY <2>1, <3>1
  <2> QED
    BY <2>2, <2>3
<1>10. WebTypes'
  <2>1. webBrowser' \in [WebBrowsers -> Requests]
    <3>1. \A c \in WebBrowsers : webBrowser'[c] \in Requests
      BY <1>7, <1>8, <1>9
    <3> QED
      BY <1>3, <3>1
  <2>2. usersFile' \in Seq(UserRecords)
    BY <1>1
  <2> QED
    BY <1>1, <1>6, <2>1, <2>2 DEF WebInv, WebTypes
<1>11. LetInWell'
  <2> SUFFICES ASSUME NEW c \in WebBrowsers, webBrowser'[c].pc = "act"
               PROVE  ActsWell(webBrowser'[c])
    BY DEF LetInWell
  <2>1. c # b
    BY <1>7, <1>8
  <2>2. ActsWell(webBrowser[c])
    BY <1>9, <2>1 DEF WebInv, LetInWell
  <2> QED
    BY <1>9, <2>1, <2>2 DEF ActsWell
<1>12. IsOnItsWay(r)'
  <2>1. FileWritten(usersFile', list, 0)
    <3>1. PICK none : none = <<>>
      OBVIOUS
    <3>2. usersFile' = none /\ Len(none) = 0
      BY <1>1, <3>1
    <3>3. Len(InFile(list)) \in Nat
      BY <1>4, FileValue, LenProperties
    <3> QED
      BY <3>2, <3>3 DEF FileWritten
  <2> QED
    BY <1>1, <1>6, <1>7, <2>1 DEF IsOnItsWay
<1>13. \A c \in WebBrowsers :
         webBrowser'[c].cookie = webBrowser[c].cookie /\ webBrowser'[c].as = webBrowser[c].as
  BY <1>7, <1>8, <1>9
<1>14. r.pc \in Saving /\ WebSaving \subseteq {b} /\ KeyedByName(usersDb')
  BY <1>1, <1>5, <1>7 DEF Saving
<1> QED
  BY <1>1, <1>2, <1>8, <1>9, <1>10, <1>11, <1>12, <1>13, <1>14, SaverStep

(* What the saver knows.                                                    *)
LEMMA SaverKnows ==
  ASSUME WebInv, NEW b \in WebSaving
  PROVE  /\ webBrowser[b] \in Requests /\ webBrowser[b].pos \in Nat
         /\ webBrowser[b].list \in Lists /\ webBrowser[b].list \in Databases
         /\ IsOnItsWay(webBrowser[b])
         /\ usersFile \in Seq(UserRecords) /\ usersDb \in Lists
         /\ usersLists \in SUBSET (SUBSET UserRecords)
<1>1. b \in WebBrowsers /\ webBrowser[b].pc \in Saving
  BY DEF WebSaving, Saving
<1>2. webBrowser[b] \in Requests
  BY <1>1 DEF WebInv, WebTypes
<1>3. webBrowser[b].pos \in Nat /\ webBrowser[b].list \in Lists /\ webBrowser[b].list \in Databases
  BY <1>2 DEF Requests, Lists
<1>4. IsOnItsWay(webBrowser[b])
  BY DEF WebInv, OnItsWay, IsOnItsWay
<1>5. usersDb \in Lists
  <2>1. webMain = "serving"
    BY NotServing
  <2> QED
    BY <2>1 DEF WebInv, WebTypes, UsersServed, Lists
<1> QED
  BY <1>2, <1>3, <1>4, <1>5 DEF WebInv, WebTypes

LEMMA WritesStep ==
  ASSUME WebInv, NEW b \in WebBrowsers, WebWrites(b)
  PROVE  WebInv'
<1> DEFINE list == webBrowser[b].list
           pos == webBrowser[b].pos
<1>1. /\ webBrowser[b].pc = "write" /\ b \in WebSaving
      /\ UNCHANGED <<usersDb, webSessions, webSeed, webMain, usersLists>>
  BY DEF WebWrites, WebDoes, WebSaving
<1>2. /\ webBrowser[b] \in Requests /\ pos \in Nat /\ list \in Databases
      /\ IsOnItsWay(webBrowser[b]) /\ usersFile \in Seq(UserRecords)
      /\ usersDb \in Lists /\ usersLists \in SUBSET (SUBSET UserRecords)
  BY <1>1, SaverKnows
<1>3. /\ Records(list) \in usersLists /\ Records(usersDb) \in usersLists
      /\ pos = Len(usersFile) /\ Len(usersFile) <= Len(InFile(list))
      /\ \A i \in 1 .. Len(usersFile) : usersFile[i] = InFile(list)[i]
  BY <1>1, <1>2 DEF IsOnItsWay, FileWritten
<1>4. InFile(list) \in Seq(UserRecords) /\ Len(InFile(list)) \in Nat /\ Len(usersFile) \in Nat
  BY <1>2, FileValue, LenProperties
<1>5. CASE pos + 1 > Len(InFile(list))
  <2>0. PICK r : r = [webBrowser[b] EXCEPT !.pc = "clear"]
    OBVIOUS
  <2>1. WebStep(b, r) /\ usersFile' = usersFile
    BY <1>5, <2>0 DEF WebWrites
  <2>2. /\ r \in Requests /\ r.pc = "clear" /\ r.list = list
        /\ r.cookie = webBrowser[b].cookie /\ r.as = webBrowser[b].as
    BY <1>2, <2>0 DEF Requests
  <2>3. usersFile = InFile(list)
    <3>1. Len(usersFile) = Len(InFile(list))
      BY <1>3, <1>4, <1>5
    <3> QED
      BY <1>2, <1>3, <1>4, <3>1, SeqEqual
  <2>4. r.pc \in Saving /\ IsOnItsWay(r)'
    BY <1>1, <1>3, <2>1, <2>2, <2>3 DEF IsOnItsWay, Saving
  <2> QED
    BY <1>1, <1>2, <2>1, <2>2, <2>4, SaverGoesOn
<1>6. CASE ~(pos + 1 > Len(InFile(list)))
  <2>0. PICK r : r = [webBrowser[b] EXCEPT !.pos = pos + 1]
    OBVIOUS
  <2>1. WebStep(b, r)
    BY <1>6, <2>0 DEF WebWrites
  <2>2. usersFile' = Append(usersFile, InFile(list)[pos + 1])
    <3>1. pos + 1 > Len(usersFile)
      BY <1>3, <1>4
    <3> QED
      BY <1>6, <3>1 DEF WebWrites, PutsAt
  <2>3. InFile(list)[pos + 1] \in UserRecords
    BY <1>2, <1>4, <1>6, ElementOfSeq
  <2>4. /\ usersFile' \in Seq(UserRecords) /\ Len(usersFile') = pos + 1
        /\ \A i \in 1 .. pos : usersFile'[i] = usersFile[i]
        /\ usersFile'[pos + 1] = InFile(list)[pos + 1]
    BY <1>2, <1>3, <2>2, <2>3, AppendProperties
  <2>5. /\ r \in Requests /\ r.pc = "write" /\ r.list = list /\ r.pos = pos + 1
        /\ r.cookie = webBrowser[b].cookie /\ r.as = webBrowser[b].as
    BY <1>1, <1>2, <2>0 DEF Requests
  <2>6. FileWritten(usersFile', list, pos + 1)
    <3>1. \A i \in 1 .. pos + 1 : usersFile'[i] = InFile(list)[i]
      BY <1>2, <1>3, <2>4
    <3> QED
      BY <1>2, <1>4, <1>6, <2>4, <3>1 DEF FileWritten
  <2> HIDE DEF list, pos
  <2>7. r.pc \in Saving /\ IsOnItsWay(r)'
    BY <1>1, <1>3, <2>5, <2>6 DEF IsOnItsWay, Saving
  <2> QED
    BY <1>1, <1>2, <2>1, <2>4, <2>5, <2>7, SaverGoesOn
<1> QED
  BY <1>5, <1>6

LEMMA ClearsStep ==
  ASSUME WebInv, NEW b \in WebBrowsers, WebClears(b)
  PROVE  WebInv'
<1>0. PICK r : r = [webBrowser[b] EXCEPT !.pc = "load", !.pos = 0]
  OBVIOUS
<1>1. /\ webBrowser[b].pc = "clear" /\ b \in WebSaving /\ WebStep(b, r)
      /\ UNCHANGED <<usersFile, webSessions, webSeed, webMain, usersLists>>
  BY <1>0 DEF WebClears, WebDoes, WebSaving
<1>2. /\ webBrowser[b] \in Requests /\ IsOnItsWay(webBrowser[b]) /\ usersFile \in Seq(UserRecords)
      /\ usersLists \in SUBSET (SUBSET UserRecords)
  BY <1>1, SaverKnows
<1>3. /\ r \in Requests /\ r.pc = "load" /\ r.list = webBrowser[b].list /\ r.pos = 0
      /\ r.cookie = webBrowser[b].cookie /\ r.as = webBrowser[b].as
  BY <1>0, <1>2 DEF Requests
<1>4. PICK none : none = NoUsers
  OBVIOUS
<1>5. usersDb' = none /\ none \in Lists /\ DOMAIN none = {}
  BY <1>4, ListTypes DEF WebClears, NoUsers
<1>6. FileLoaded(none, usersFile, 0)
  <2>1. Len(usersFile) \in Nat
    BY <1>2, LenProperties
  <2>2. 1 .. 0 = {}
    OBVIOUS
  <2> QED
    BY <1>5, <2>1, <2>2 DEF FileLoaded
<1>7. r.pc \in Saving /\ IsOnItsWay(r)'
  BY <1>1, <1>2, <1>3, <1>5, <1>6 DEF IsOnItsWay, Saving
<1> QED
  BY <1>1, <1>2, <1>3, <1>5, <1>7, SaverGoesOn

LEMMA LoadsStep ==
  ASSUME WebInv, NEW b \in WebBrowsers, WebLoads(b)
  PROVE  WebInv'
<1> DEFINE list == webBrowser[b].list
           pos == webBrowser[b].pos
<1>1. /\ webBrowser[b].pc = "load" /\ b \in WebSaving
      /\ UNCHANGED <<usersFile, webSessions, webSeed, webMain>>
  BY DEF WebLoads, WebDoes, WebSaving
<1>2. /\ webBrowser[b] \in Requests /\ pos \in Nat /\ list \in Lists /\ list \in Databases
      /\ IsOnItsWay(webBrowser[b]) /\ usersFile \in Seq(UserRecords)
      /\ usersDb \in Lists /\ usersLists \in SUBSET (SUBSET UserRecords)
  BY <1>1, SaverKnows
<1>3. /\ Records(list) \in usersLists /\ usersFile = InFile(list)
      /\ pos <= Len(usersFile)
      /\ DOMAIN usersDb = {usersFile[i].name : i \in 1 .. pos}
      /\ \A i \in 1 .. pos : usersDb[usersFile[i].name] = usersFile[i]
  BY <1>1, <1>2 DEF IsOnItsWay, FileLoaded
<1>4. Len(usersFile) \in Nat
  BY <1>2, LenProperties
<1>5. /\ {usersFile[i] : i \in 1 .. Len(usersFile)} = Records(list)
      /\ \A i, j \in 1 .. Len(usersFile) : usersFile[i].name = usersFile[j].name => i = j
  BY <1>2, <1>3, FileValue DEF Lists
<1> HIDE DEF list, pos
<1>6. CASE pos + 1 > Len(usersFile)
  <2>1. /\ usersLists' = {Records(list)} /\ usersDb' = usersDb /\ WebReplies(b)
    BY <1>6 DEF WebLoads, list, pos
  <2>2. Records(usersDb) = Records(list)
    <3>1. pos = Len(usersFile)
      BY <1>2, <1>3, <1>4, <1>6
    <3>2. \A k \in DOMAIN usersDb : \E i \in 1 .. pos : usersDb[k] = usersFile[i]
      BY <1>3
    <3>3. \A i \in 1 .. pos : \E k \in DOMAIN usersDb : usersDb[k] = usersFile[i]
      BY <1>3
    <3>4. Records(usersDb) = {usersFile[i] : i \in 1 .. pos}
      BY <3>2, <3>3 DEF Records
    <3> QED
      BY <1>5, <3>1, <3>4, Zenon
  <2>3. PICK r \in Requests :
          /\ WebStep(b, r) /\ r.pc = "idle" /\ r.pc \notin Saving
          /\ r.cookie = webBrowser[b].cookie /\ r.as = webBrowser[b].as
    BY <1>1, <2>1, ReplyType DEF WebInv, WebSaving
  <2>4. usersLists' \in SUBSET (SUBSET UserRecords) /\ usersLists' = {Records(usersDb')}
    BY <1>2, <1>3, <2>1, <2>2
  <2> QED
    BY <1>1, <1>2, <2>1, <2>3, <2>4, SaverGoesOn
<1>7. CASE ~(pos + 1 > Len(usersFile))
  <2>1. pos + 1 \in 1 .. Len(usersFile)
    BY <1>2, <1>4, <1>7
  <2> DEFINE new == usersFile[pos + 1]
  <2>0. PICK r : r = [webBrowser[b] EXCEPT !.pos = pos + 1]
    OBVIOUS
  <2>2. new \in UserRecords /\ new.name \in WebUsers
    <3>1. new \in UserRecords
      BY <1>2, <2>1, ElementOfSeq
    <3> QED
      BY <3>1 DEF UserRecords
  <2>3. new.name \notin DOMAIN usersDb
    <3> SUFFICES ASSUME new.name \in DOMAIN usersDb PROVE FALSE
      OBVIOUS
    <3>1. PICK i \in 1 .. pos : new.name = usersFile[i].name
      BY <1>3
    <3>2. i \in 1 .. Len(usersFile) /\ i # pos + 1
      BY <1>2, <1>3, <1>4
    <3> QED
      BY <1>5, <2>1, <3>1, <3>2
  <2>4. WebStep(b, r) /\ usersDb' = AddRecord(usersDb, new.name, new) /\ usersLists' = usersLists
    BY <1>7, <2>0, <2>3 DEF WebLoads, list, pos
  <2>5. /\ r \in Requests /\ r.pc = "load" /\ r.list = list /\ r.pos = pos + 1
        /\ r.cookie = webBrowser[b].cookie /\ r.as = webBrowser[b].as
    BY <1>1, <1>2, <2>0 DEF Requests, list
  <2> HIDE DEF new
  <2>6. usersDb' = [k \in DOMAIN usersDb \cup {new.name} |-> IF k = new.name THEN new ELSE usersDb[k]]
    BY <2>3, <2>4 DEF AddRecord
  <2>7. usersDb' \in Lists
    <3>1. usersDb' \in Databases
      BY <1>2, <2>2, <2>4, DatabaseOps DEF Lists
    <3>2. KeyedByName(usersDb')
      BY <1>2, <2>6 DEF Lists, KeyedByName
    <3> QED
      BY <3>1, <3>2 DEF Lists
  <2>8. FileLoaded(usersDb', usersFile, pos + 1)
    <3>1. pos + 1 <= Len(usersFile) /\ \A i \in 1 .. pos + 1 : i \in 1 .. pos \/ i = pos + 1
      BY <1>2, <1>4, <2>1
    <3>2. DOMAIN usersDb' = {usersFile[i].name : i \in 1 .. pos + 1}
      <4>1. \A i \in 1 .. pos : i \in 1 .. pos + 1
        BY <1>2
      <4>2. pos + 1 \in 1 .. pos + 1
        BY <1>2
      <4> QED
        BY <1>3, <2>6, <3>1, <4>1, <4>2 DEF new
    <3>3. \A i \in 1 .. pos : usersDb'[usersFile[i].name] = usersFile[i]
      BY <1>3, <2>3, <2>6
    <3>4. usersDb'[usersFile[pos + 1].name] = usersFile[pos + 1]
      BY <2>6 DEF new
    <3> QED
      BY <3>1, <3>2, <3>3, <3>4 DEF FileLoaded
  <2>9. r.pc \in Saving /\ IsOnItsWay(r)'
    BY <1>1, <1>3, <2>4, <2>5, <2>8 DEF IsOnItsWay, Saving
  <2> QED
    BY <1>1, <1>2, <2>4, <2>5, <2>7, <2>9, SaverGoesOn
<1> QED
  BY <1>6, <1>7

(***************************************************************************)
(* Every step.                                                             *)
(***************************************************************************)
LEMMA WebStutters ==
  ASSUME WebInv, UNCHANGED webVars
  PROVE  WebInv'
<1>1. UNCHANGED <<usersFile, usersDb, webSessions, webSeed, webMain, webBrowser, usersLists>>
  BY DEF webVars
<1>2. WebTypes' /\ WebSaving' = WebSaving /\ FileRecords' = FileRecords
  BY <1>1 DEF WebInv, WebTypes, WebSaving, FileRecords
<1>3. Beginning' /\ Cookies' /\ OneSaves' /\ UsersServed'
  BY <1>1, <1>2 DEF WebInv, Beginning, Cookies, Owned, OneSaves, UsersServed
<1>4. OnItsWay'
  BY <1>1, <1>2 DEF WebInv, OnItsWay
<1>5. LetInWell'
  BY <1>1 DEF WebInv, LetInWell
<1> QED
  BY <1>2, <1>3, <1>4, <1>5 DEF WebInv

(***************************************************************************)
(* The file, while the server serves and while it is closed.               *)
(***************************************************************************)
LEMMA ClosesKept ==
  ASSUME ClosesWell, UNCHANGED <<usersFile, usersDb, webMain, webClosing>>,
         WebSaving' = WebSaving
  PROVE  ClosesWell'
BY DEF ClosesWell, FileHolds, LoadsWell

LEMMA SavingKept ==
  ASSUME WebTypes, NEW b \in WebBrowsers, NEW r, WebStep(b, r),
         webBrowser[b].pc \notin Saving, r.pc \notin Saving
  PROVE  WebSaving' = WebSaving
<1>1. webBrowser'[b] = r /\ \A c \in WebBrowsers : c # b => webBrowser'[c] = webBrowser[c]
  BY DEF WebTypes, WebStep
<1> QED
  BY <1>1 DEF WebSaving, Saving

LEMMA ReplySaves ==
  ASSUME WebTypes, NEW b \in WebBrowsers, webBrowser[b].pc \notin Saving, WebReplies(b)
  PROVE  WebSaving' = WebSaving
<1>1. PICK r \in Requests : WebStep(b, r) /\ r.pc \notin Saving
  BY ReplyType
<1> QED
  BY <1>1, SavingKept

LEMMA ActSaves ==
  ASSUME WebTypes, NEW b \in WebBrowsers, webBrowser[b].pc \notin Saving,
         NEW user, NEW need, WebActs(b, user, need)
  PROVE  WebSaving' = WebSaving
<1>1. CASE WebReplies(b)
  BY <1>1, ReplySaves
<1>2. CASE ~WebReplies(b)
  <2>1. PICK r : r = [webBrowser[b] EXCEPT !.pc = "act", !.user = user, !.need = need,
                                           !.seen = usersLists]
    OBVIOUS
  <2>2. WebStep(b, r)
    BY <1>2, <2>1 DEF WebActs
  <2>3. r.pc = "act"
    BY <2>1 DEF WebTypes, Requests
  <2> QED
    BY <2>2, <2>3, SavingKept DEF Saving
<1> QED
  BY <1>1, <1>2

LEMMA RequestsClose ==
  ASSUME WebInv, ClosesWell, NEW b \in WebBrowsers,
         \/ ApiLogin(b) \/ WebSeeds(b) \/ WebStoresSession(b) \/ ApiLogout(b)
         \/ ApiCall(b) \/ ApiCallBasic(b) \/ ApiAdminServes(b) \/ ApiDataServes(b)
  PROVE  ClosesWell'
<1>1. WebTypes /\ webBrowser[b] \in Requests
  BY DEF WebInv, WebTypes
<1>2. UNCHANGED <<usersFile, usersDb, webMain, webClosing>>
  BY DEF ApiLogin, WebSeeds, WebStoresSession, ApiLogout, ApiCall, ApiCallBasic, ApiAdminServes,
         ApiDataServes, WebServes, WebBegins, closeVars
<1>3. webBrowser[b].pc \notin Saving
  BY DEF ApiLogin, WebSeeds, WebStoresSession, ApiLogout, ApiCall, ApiCallBasic, ApiAdminServes,
         ApiDataServes, WebServes, WebBegins, WebDoes, Saving
<1>4. WebSaving' = WebSaving
  <2>1. CASE ApiLogin(b)
    <3>1. PICK u \in DOMAIN usersDb :
            WebStep(b, [webBrowser[b] EXCEPT !.pc = IF webSeed.done THEN "draw" ELSE "seed", !.user = u])
      BY <2>1 DEF ApiLogin
    <3>2. PICK r : r = [webBrowser[b] EXCEPT !.pc = IF webSeed.done THEN "draw" ELSE "seed", !.user = u]
      OBVIOUS
    <3>3. r.pc \in {"draw", "seed"}
      BY <1>1, <3>2 DEF Requests
    <3> QED
      BY <1>1, <1>3, <3>1, <3>2, <3>3, SavingKept DEF Saving
  <2>2. CASE WebSeeds(b)
    <3>1. PICK r : r = [webBrowser[b] EXCEPT !.pc = "draw"]
      OBVIOUS
    <3>2. r.pc = "draw" /\ WebStep(b, r)
      BY <1>1, <2>2, <3>1 DEF Requests, WebSeeds
    <3> QED
      BY <1>1, <1>3, <3>2, SavingKept DEF Saving
  <2>3. CASE WebStoresSession(b)
    <3>1. PICK r : r = [WebIdle EXCEPT !.cookie = webSeed.drawn + 1, !.as = webBrowser[b].user]
      OBVIOUS
    <3>2. r.pc = "idle" /\ WebStep(b, r)
      BY <2>3, <3>1 DEF WebStoresSession, WebIdle
    <3> QED
      BY <1>1, <1>3, <3>2, SavingKept DEF Saving
  <2>4. CASE ApiLogout(b)
    <3>1. WebStep(b, WebIdle)
      BY <2>4 DEF ApiLogout
    <3> QED
      BY <1>1, <1>3, <3>1, IdleType, SavingKept DEF Saving
  <2>5. CASE ApiCall(b)
    <3>1. WebReplies(b) \/ \E user, need : WebActs(b, user, need)
      BY <2>5 DEF ApiCall
    <3> QED
      BY <1>1, <1>3, <3>1, ReplySaves, ActSaves
  <2>6. CASE ApiCallBasic(b)
    <3>1. \E user, need : WebActs(b, user, need)
      BY <2>6 DEF ApiCallBasic
    <3> QED
      BY <1>1, <1>3, <3>1, ActSaves
  <2>7. CASE ApiAdminServes(b) \/ ApiDataServes(b)
    <3>1. WebReplies(b)
      BY <2>7 DEF ApiAdminServes, ApiDataServes, WebServes
    <3> QED
      BY <1>1, <1>3, <3>1, ReplySaves
  <2> QED
    BY <2>1, <2>2, <2>3, <2>4, <2>5, <2>6, <2>7
<1> QED
  BY <1>2, <1>4, ClosesKept

(* While somebody saves, the server does not; nothing is asked of the file. *)
LEMMA SaverCloses ==
  ASSUME WebInv, ClosesWell, webMain = "serving", webClosing.pc # "saves",
         UNCHANGED <<webMain, webClosing>>, WebSaving' # {}
  PROVE  ClosesWell'
BY DEF ClosesWell

LEMMA LoadsClose ==
  ASSUME WebInv, ClosesWell, NEW b \in WebBrowsers, WebLoads(b)
  PROVE  ClosesWell'
<1> DEFINE list == webBrowser[b].list
           pos == webBrowser[b].pos
<1>1. /\ webBrowser[b].pc = "load" /\ b \in WebSaving
      /\ UNCHANGED <<usersFile, webMain, webClosing>>
  BY DEF WebLoads, WebDoes, WebSaving, closeVars
<1>2. /\ webBrowser[b] \in Requests /\ pos \in Nat /\ list \in Lists /\ list \in Databases
      /\ IsOnItsWay(webBrowser[b]) /\ usersFile \in Seq(UserRecords)
      /\ usersDb \in Lists /\ usersLists \in SUBSET (SUBSET UserRecords)
  BY <1>1, SaverKnows
<1>3. webMain = "serving" /\ webClosing.pc # "saves"
  BY <1>1, NotServing DEF ClosesWell
<1>4. /\ usersFile = InFile(list) /\ pos <= Len(usersFile)
      /\ DOMAIN usersDb = {usersFile[i].name : i \in 1 .. pos}
      /\ \A i \in 1 .. pos : usersDb[usersFile[i].name] = usersFile[i]
  BY <1>1, <1>2 DEF IsOnItsWay, FileLoaded
<1>5. Len(usersFile) \in Nat
  BY <1>2, LenProperties
<1>6. /\ {usersFile[i] : i \in 1 .. Len(usersFile)} = Records(list)
      /\ \A i, j \in 1 .. Len(usersFile) : usersFile[i].name = usersFile[j].name => i = j
  BY <1>2, <1>4, FileValue DEF Lists
<1> HIDE DEF list, pos
<1>7. CASE pos + 1 > Len(usersFile)
  <2>1. usersDb' = usersDb
    BY <1>7 DEF WebLoads, list, pos
  <2>2. pos = Len(usersFile)
    BY <1>2, <1>4, <1>5, <1>7
  <2>3. \A k \in DOMAIN usersDb : \E i \in 1 .. pos : usersDb[k] = usersFile[i]
    BY <1>4
  <2>4. \A i \in 1 .. pos : \E k \in DOMAIN usersDb : usersDb[k] = usersFile[i]
    BY <1>4
  <2>5. Records(usersDb) = {usersFile[i] : i \in 1 .. pos}
    BY <2>3, <2>4 DEF Records
  <2>6. FileHolds(usersFile, usersDb)
    BY <1>6, <2>2, <2>5 DEF FileHolds, LoadsWell
  <2> QED
    BY <1>1, <1>3, <2>1, <2>6 DEF ClosesWell, FileHolds, LoadsWell
<1>8. CASE ~(pos + 1 > Len(usersFile))
  <2>1. pos + 1 \in 1 .. Len(usersFile)
    BY <1>2, <1>5, <1>8
  <2>2. usersFile[pos + 1].name \notin DOMAIN usersDb
    <3> SUFFICES ASSUME usersFile[pos + 1].name \in DOMAIN usersDb PROVE FALSE
      OBVIOUS
    <3>1. PICK i \in 1 .. pos : usersFile[pos + 1].name = usersFile[i].name
      BY <1>4
    <3>2. i \in 1 .. Len(usersFile) /\ i # pos + 1
      BY <1>2, <1>4, <1>5
    <3> QED
      BY <1>6, <2>1, <3>1, <3>2
  <2>3. PICK r : r = [webBrowser[b] EXCEPT !.pos = pos + 1]
    OBVIOUS
  <2>4. WebStep(b, r)
    BY <1>8, <2>2, <2>3 DEF WebLoads, list, pos
  <2>5. r \in Requests /\ r.pc = "load"
    BY <1>1, <1>2, <2>3 DEF Requests
  <2>6. b \in WebSaving'
    <3>1. b \in WebBrowsers /\ WebTypes
      BY DEF WebInv
    <3>2. WebSaving' = WebSaving \cup {b}
      BY <2>4, <2>5, <3>1, StepValue DEF Saving
    <3> QED
      BY <3>2
  <2> QED
    BY <1>1, <1>3, <2>6, SaverCloses
<1> QED
  BY <1>7, <1>8

(* A browser begins to save, or writes, or clears.                          *)
LEMMA SavesClose ==
  ASSUME WebInv, ClosesWell, ~webMixed', NEW b \in WebBrowsers,
         WebTruncates(b) \/ WebWrites(b) \/ WebClears(b)
  PROVE  ClosesWell'
<1>1. WebTypes /\ webBrowser[b] \in Requests
  BY DEF WebInv, WebTypes
<1>2. webBrowser[b].pc # "idle" /\ UNCHANGED <<webMain, webClosing>>
  BY DEF WebTruncates, WebWrites, WebClears, WebDoes, closeVars
<1>3. webMain = "serving"
  BY <1>2, Begun
<1>4. webClosing.pc # "saves"
  <2>1. CASE WebTruncates(b)
    BY <2>1 DEF WebTruncates
  <2>2. CASE ~WebTruncates(b)
    <3>1. b \in WebSaving
      BY <2>2 DEF WebWrites, WebClears, WebDoes, WebSaving
    <3> QED
      BY <3>1 DEF ClosesWell
  <2> QED
    BY <2>1, <2>2
<1>5. webBrowser'[b].pc \in Saving
  <2>1. CASE WebTruncates(b)
    <3>1. PICK list \in UsersLists :
            webBrowser' = [c \in WebBrowsers |->
              IF c = b THEN [webBrowser[b] EXCEPT !.pc = "write", !.pos = 0, !.list = list, !.seen = {}]
              ELSE IF webBrowser[c].pc = "act"
                   THEN [webBrowser[c] EXCEPT !.seen = webBrowser[c].seen \cup usersLists']
              ELSE webBrowser[c]]
      BY <2>1 DEF WebTruncates
    <3>2. webBrowser'[b] = [webBrowser[b] EXCEPT !.pc = "write", !.pos = 0, !.list = list, !.seen = {}]
      BY <3>1
    <3>3. webBrowser'[b].pc = "write"
      BY <1>1, <3>2 DEF Requests
    <3> QED
      BY <3>3 DEF Saving
  <2>2. CASE WebWrites(b)
    <3>1. PICK r, s : /\ r = [webBrowser[b] EXCEPT !.pc = "clear"]
                      /\ s = [webBrowser[b] EXCEPT !.pos = webBrowser[b].pos + 1]
      OBVIOUS
    <3>2. WebStep(b, r) \/ WebStep(b, s)
      BY <2>2, <3>1 DEF WebWrites
    <3>3. r.pc = "clear" /\ s.pc = "write"
      BY <1>1, <2>2, <3>1 DEF Requests, WebWrites, WebDoes
    <3>4. webBrowser'[b] = r \/ webBrowser'[b] = s
      BY <1>1, <3>2 DEF WebStep, WebTypes
    <3> QED
      BY <3>3, <3>4 DEF Saving
  <2>3. CASE WebClears(b)
    <3>1. PICK r : r = [webBrowser[b] EXCEPT !.pc = "load", !.pos = 0]
      OBVIOUS
    <3>2. WebStep(b, r) /\ r.pc = "load"
      BY <1>1, <2>3, <3>1 DEF WebClears, Requests
    <3>3. webBrowser'[b] = r
      BY <1>1, <3>2 DEF WebStep, WebTypes
    <3> QED
      BY <3>2, <3>3 DEF Saving
  <2> QED
    BY <2>1, <2>2, <2>3
<1>6. WebSaving' # {}
  BY <1>5 DEF WebSaving, Saving
<1> QED
  BY <1>2, <1>3, <1>4, <1>6, SaverCloses

LEMMA StartsClose ==
  ASSUME WebInv, ClosesWell, ServerStarts
  PROVE  ClosesWell'
<1>1. /\ webMain = "start" /\ webMain' \in {"serving", "failed"}
      /\ UNCHANGED <<usersFile, webBrowser, webClosing>>
  BY DEF ServerStarts, closeVars
<1>2. usersFile \in Seq(UserRecords) /\ webClosing.pc = "no"
  BY <1>1 DEF WebInv, WebTypes, ClosesWell
<1>3. CASE LoadsWell(usersFile)
  <2>1. usersDb' = Keyed(FileRecords)
    BY <1>3 DEF ServerStarts, LoadAll, FileRecords
  <2>2. FileRecords \in SUBSET UserRecords
    BY <1>2, ElementOfSeq DEF FileRecords
  <2>3. \A r, s \in FileRecords : r.name = s.name => r = s
    BY <1>3 DEF LoadsWell, FileRecords
  <2>4. Records(usersDb') = FileRecords
    BY <2>1, <2>2, <2>3, KeyedValue
  <2>5. FileHolds(usersFile', usersDb')
    BY <1>1, <1>3, <2>4 DEF FileHolds, FileRecords, LoadsWell
  <2> QED
    BY <1>1, <1>2, <2>5 DEF ClosesWell
<1>4. CASE ~LoadsWell(usersFile)
  <2>1. webMain' = "failed"
    BY <1>4 DEF ServerStarts
  <2> QED
    BY <1>1, <1>2, <2>1 DEF ClosesWell
<1> QED
  BY <1>3, <1>4

(* The server is closed while no browser saves, and none begins to.         *)
LEMMA CloseStep ==
  ASSUME WebInv, ClosesWell, ~webMixed', CloseTruncates \/ CloseWrites
  PROVE  WebInv' /\ ClosesWell'
<1>1. /\ UNCHANGED <<usersDb, webSessions, webSeed, webMain, webBrowser, usersLists>>
      /\ webMain = "serving" /\ WebSaving = {} /\ usersFile \in Seq(UserRecords)
      /\ usersDb \in Databases /\ KeyedByName(usersDb)
  <2>1. UNCHANGED <<usersDb, webSessions, webSeed, webMain, webBrowser, usersLists>>
    BY DEF CloseTruncates, CloseWrites, CloseStays
  <2>2. webMain = "serving" /\ WebSaving = {}
    BY DEF CloseTruncates, CloseWrites, ClosesWell
  <2> QED
    BY <2>1, <2>2 DEF WebInv, WebTypes, UsersServed
<1>2. WebSaving' = {}
  BY <1>1 DEF WebSaving
<1>3. InFile(usersDb) \in Seq(UserRecords) /\ Len(InFile(usersDb)) \in Nat /\ Len(usersFile) \in Nat
  BY <1>1, FileValue, LenProperties
<1>4. usersFile' \in Seq(UserRecords) /\ ClosesWell'
  <2>1. CASE CloseTruncates
    <3>1. PICK none : none = <<>>
      OBVIOUS
    <3>2. usersFile' = none /\ Len(none) = 0 /\ none \in Seq(UserRecords)
      BY <2>1, <3>1 DEF CloseTruncates
    <3>3. FileWritten(none, usersDb, 0)
      BY <1>3, <3>2 DEF FileWritten
    <3>4. webClosing' = [pc |-> "saves", place |-> 0]
      BY <2>1 DEF CloseTruncates
    <3> QED
      BY <1>1, <1>2, <3>2, <3>3, <3>4 DEF ClosesWell
  <2>2. CASE CloseWrites
    <3>1. /\ webClosing.pc = "saves" /\ webClosing.place \in Nat
          /\ webClosing.place = Len(usersFile) /\ Len(usersFile) <= Len(InFile(usersDb))
          /\ \A i \in 1 .. Len(usersFile) : usersFile[i] = InFile(usersDb)[i]
      BY <2>2 DEF CloseWrites, ClosesWell, FileWritten
    <3>2. PICK pos : pos = webClosing.place
      OBVIOUS
    <3>3. CASE pos + 1 > Len(InFile(usersDb))
      <4>1. webClosing' = [pc |-> "stops", place |-> 0] /\ usersFile' = usersFile
        BY <2>2, <3>2, <3>3 DEF CloseWrites
      <4>2. usersFile = InFile(usersDb)
        <5>1. Len(usersFile) = Len(InFile(usersDb))
          BY <1>3, <3>1, <3>2, <3>3
        <5> QED
          BY <1>1, <1>3, <3>1, <5>1, SeqEqual
      <4>3. FileHolds(usersFile, usersDb)
        BY <1>1, <4>2, FileValue DEF FileHolds, LoadsWell
      <4>4. FileHolds(usersFile', usersDb')
        BY <1>1, <4>1, <4>3
      <4> QED
        BY <1>1, <1>2, <4>1, <4>4 DEF ClosesWell
    <3>4. CASE ~(pos + 1 > Len(InFile(usersDb)))
      <4>1. webClosing' = [pc |-> "saves", place |-> pos + 1]
        BY <2>2, <3>2, <3>4 DEF CloseWrites
      <4>2. usersFile' = Append(usersFile, InFile(usersDb)[pos + 1])
        <5>1. pos + 1 > Len(usersFile)
          BY <1>3, <3>1, <3>2
        <5>2. PutsAt(pos + 1, InFile(usersDb)[pos + 1])
          BY <2>2, <3>2, <3>4 DEF CloseWrites
        <5> QED
          BY <5>1, <5>2 DEF PutsAt
      <4>3. InFile(usersDb)[pos + 1] \in UserRecords
        BY <1>3, <3>1, <3>2, <3>4, ElementOfSeq
      <4>4. /\ usersFile' \in Seq(UserRecords) /\ Len(usersFile') = pos + 1
            /\ \A i \in 1 .. pos : usersFile'[i] = usersFile[i]
            /\ usersFile'[pos + 1] = InFile(usersDb)[pos + 1]
        BY <1>1, <3>1, <3>2, <4>2, <4>3, AppendProperties
      <4>5. \A i \in 1 .. pos + 1 : usersFile'[i] = InFile(usersDb)[i]
        BY <3>1, <3>2, <4>4
      <4>6. FileWritten(usersFile', usersDb, pos + 1)
        BY <1>3, <3>1, <3>2, <3>4, <4>4, <4>5 DEF FileWritten
      <4>7. pos + 1 \in Nat
        BY <3>1, <3>2
      <4> QED
        BY <1>1, <1>2, <4>1, <4>4, <4>6, <4>7 DEF ClosesWell
    <3> QED
      BY <3>3, <3>4
  <2> QED
    BY <2>1, <2>2
<1>5. WebTypes'
  BY <1>1, <1>4 DEF WebInv, WebTypes
<1>6. Beginning' /\ Cookies' /\ LetInWell'
  BY <1>1 DEF WebInv, Beginning, Cookies, Owned, LetInWell
<1>7. OneSaves' /\ OnItsWay' /\ UsersServed'
  BY <1>1, <1>2 DEF WebInv, OneSaves, OnItsWay, UsersServed
<1> QED
  BY <1>4, <1>5, <1>6, <1>7 DEF WebInv

(***************************************************************************)
(* Every step.                                                             *)
(***************************************************************************)
LEMMA BrowserStep ==
  ASSUME WebInv, ClosesWell, ~webMixed', NEW b \in WebBrowsers,
         \/ ApiLogin(b) \/ WebSeeds(b) \/ WebStoresSession(b) \/ ApiLogout(b)
         \/ ApiCall(b) \/ ApiCallBasic(b) \/ ApiAdminServes(b) \/ ApiDataServes(b)
         \/ WebTruncates(b) \/ WebWrites(b) \/ WebClears(b) \/ WebLoads(b)
  PROVE  WebInv' /\ ClosesWell'
<1>1. CASE ApiLogin(b) \/ ApiLogout(b)
  BY <1>1, LoginSteps, RequestsClose
<1>2. CASE WebSeeds(b)
  BY <1>2, SeedsStep, RequestsClose
<1>3. CASE WebStoresSession(b)
  BY <1>3, StoresStep, RequestsClose
<1>4. CASE ApiCall(b) \/ ApiCallBasic(b)
  BY <1>4, CallSteps, RequestsClose
<1>5. CASE ApiAdminServes(b) \/ ApiDataServes(b)
  BY <1>5, ServesStep, RequestsClose
<1>6. CASE WebTruncates(b)
  BY <1>6, TruncatesStep, SavesClose
<1>7. CASE WebWrites(b)
  BY <1>7, WritesStep, SavesClose
<1>8. CASE WebClears(b)
  BY <1>8, ClearsStep, SavesClose
<1>9. CASE WebLoads(b)
  BY <1>9, LoadsStep, LoadsClose
<1> QED
  BY <1>1, <1>2, <1>3, <1>4, <1>5, <1>6, <1>7, <1>8, <1>9

LEMMA WebInvStep ==
  ASSUME WebInv, ClosesWell, ~webMixed', [WebNext]_webVars
  PROVE  WebInv' /\ ClosesWell'
<1>1. CASE AddUser \/ UpdateUser \/ DeleteUser \/ ConsoleSaves
  <2>1. WebInv'
    BY <1>1, ConsoleStep, SavesStep
  <2>2. webMain \in {"console"} /\ webMain' \in {"console", "start"} /\ webClosing' = webClosing
    BY <1>1 DEF AddUser, UpdateUser, DeleteUser, ConsoleEdits, ConsoleSaves, closeVars
  <2> QED
    BY <2>1, <2>2 DEF ClosesWell
<1>2. CASE ServerStarts
  BY <1>2, StartsStep, StartsClose
<1>3. CASE WebHour
  <2>1. UNCHANGED <<usersFile, usersDb, webMain, webClosing>> /\ WebSaving' = WebSaving
    BY <1>3 DEF WebHour, closeVars, WebSaving
  <2> QED
    BY <1>3, <2>1, HourStep, ClosesKept
<1>4. CASE UNCHANGED webVars
  <2>1. UNCHANGED <<usersFile, usersDb, webMain, webClosing>> /\ WebSaving' = WebSaving
    BY <1>4 DEF webVars, closeVars, WebSaving
  <2> QED
    BY <1>4, <2>1, WebStutters, ClosesKept
<1>5. CASE CloseTruncates \/ CloseWrites
  BY <1>5, CloseStep
<1>6. ASSUME NEW b \in WebBrowsers,
             \/ ApiLogin(b) \/ WebSeeds(b) \/ WebStoresSession(b) \/ ApiLogout(b)
             \/ ApiCall(b) \/ ApiCallBasic(b) \/ ApiAdminServes(b) \/ ApiDataServes(b)
             \/ WebTruncates(b) \/ WebWrites(b) \/ WebClears(b) \/ WebLoads(b)
      PROVE  WebInv' /\ ClosesWell'
  BY <1>6, BrowserStep
<1> QED
  BY <1>1, <1>2, <1>3, <1>4, <1>5, <1>6 DEF WebNext

(* Two who have saved at a time have, from then on.                         *)
LEMMA MixedStays ==
  ASSUME webMixed, [WebNext]_webVars
  PROVE  webMixed'
<1>1. CASE UNCHANGED webVars
  BY <1>1 DEF webVars, closeVars
<1>2. CASE AddUser \/ UpdateUser \/ DeleteUser \/ ConsoleSaves \/ ServerStarts \/ WebHour
           \/ CloseTruncates \/ CloseWrites
  BY <1>2 DEF AddUser, UpdateUser, DeleteUser, ConsoleEdits, ConsoleSaves, ServerStarts, WebHour,
              CloseTruncates, CloseWrites, closeVars
<1>3. ASSUME NEW b \in WebBrowsers,
             \/ ApiLogin(b) \/ WebSeeds(b) \/ WebStoresSession(b) \/ ApiLogout(b)
             \/ ApiCall(b) \/ ApiCallBasic(b) \/ ApiAdminServes(b) \/ ApiDataServes(b)
             \/ WebTruncates(b) \/ WebWrites(b) \/ WebClears(b) \/ WebLoads(b)
      PROVE  webMixed'
  BY <1>3 DEF ApiLogin, WebSeeds, WebStoresSession, ApiLogout, ApiCall, ApiCallBasic,
              ApiAdminServes, ApiDataServes, WebServes, WebBegins, WebTruncates, WebWrites,
              WebClears, WebLoads, closeVars
<1> QED
  BY <1>1, <1>2, <1>3 DEF WebNext

LEMMA WebWorksAlways == WebSpec => []WebWorks
<1>1. WebInit => WebWorks
  <2> SUFFICES ASSUME WebInit PROVE WebInv /\ ClosesWell
    BY DEF WebWorks
  <2>1. webClosing = [pc |-> "no", place |-> 0] /\ webMain = "console"
    BY DEF WebInit
  <2> QED
    BY <2>1, WebInitInv DEF ClosesWell
<1>2. WebWorks /\ [WebNext]_webVars => WebWorks'
  <2> SUFFICES ASSUME WebWorks, [WebNext]_webVars, ~webMixed'
               PROVE  WebInv' /\ ClosesWell'
    BY DEF WebWorks
  <2>1. ~webMixed
    BY MixedStays
  <2> QED
    BY <2>1, WebInvStep DEF WebWorks
<1> QED
  BY <1>1, <1>2, PTL DEF WebSpec

(* UsersTakeEffect, however many users and browsers there are: until two    *)
(* have saved at a time, SetConnectedClients and ReloadConfiguration leave  *)
(* the server with the list that was sent, each record under its name, and  *)
(* the file with what the next start loads - also when the server is closed.*)
THEOREM UsersAlwaysTakeEffect == WebSpec => []UsersTakeEffect
<1>1. WebWorks => UsersTakeEffect
  <2> SUFFICES ASSUME WebInv, ClosesWell, webMain = "serving", WebSaving = {}
               PROVE  /\ usersLists = {Records(usersDb)}
                      /\ \A k \in DOMAIN usersDb : usersDb[k].name = k
                      /\ webClosing.pc # "saves" =>
                           LoadsWell(usersFile) /\ LoadAll(usersFile) = usersDb
    BY DEF WebWorks, UsersTakeEffect
  <2>1. /\ usersLists = {Records(usersDb)} /\ usersDb \in Databases
        /\ \A k \in DOMAIN usersDb : usersDb[k].name = k
    BY DEF WebInv, WebTypes, UsersServed, KeyedByName
  <2>2. ASSUME webClosing.pc # "saves"
        PROVE  LoadsWell(usersFile) /\ LoadAll(usersFile) = usersDb
    <3>1. LoadsWell(usersFile) /\ LoadAll(usersFile) = Keyed(Records(usersDb))
      BY <2>2 DEF ClosesWell, FileHolds, LoadAll
    <3>2. Keyed(Records(usersDb)) = usersDb
      BY <2>1, KeyedRecords DEF KeyedByName
    <3> QED
      BY <3>1, <3>2
  <2> QED
    BY <2>1, <2>2
<1> QED
  BY <1>1, WebWorksAlways, PTL

(* WebActsWithRights, if the first login is over: what the sessions, the    *)
(* cookies and the database hold between a login and a call lets nobody in  *)
(* whose right was taken away before the call.                             *)
THEOREM WebAlwaysActsWithRights ==
  ~WebFirstLogin => (WebSpec => []WebActsWithRights)
<1> SUFFICES ASSUME ~WebFirstLogin PROVE WebSpec => []WebActsWithRights
  OBVIOUS
<1>1. WebWorks => WebActsWithRights
  BY DEF WebWorks, WebInv, LetInWell, ActsWell, WebActsWithRights, WebDoes
<1> QED
  BY <1>1, WebWorksAlways, PTL

(***************************************************************************)
(* The statistics.  Kept: a history has the newest values of its address,   *)
(* all but the frame that the reader has in hand, wherever it is between    *)
(* the drop and the push.  OnWay: as long as the node of a walk is in the   *)
(* map and its next element in the deque, the value read last is the one    *)
(* before it, and what is read is no more than what was pushed since; an     *)
(* address that was evicted and entered again has another node.             *)
(***************************************************************************)
Histories == Seq(Nat)
Answers == Seq(Nat \X Histories)
Nodes == [node : Nat, popped : Nat, values : Histories]
StatsPlaces == {"idle", "iterates", "compares", "reads", "moves", "counts", "copies",
                "answers", "astray"}
ReaderPlaces == {"reads", "evicts", "inserts", "records", "pushes"}
WalkRequests == [pc : StatsPlaces, at : Nat, node : Nat, eit : Nat, end : Nat,
             entries : Histories, answer : Answers]

StatsTypes ==
  /\ DOMAIN statsDb \subseteq StatsAddresses /\ statsDb \in [DOMAIN statsDb -> Nodes]
  /\ statsReader \in [pc : ReaderPlaces, of : Nat]
  /\ statsWeb \in [StatsBrowsers -> WalkRequests]
  /\ statsReceived \in Seq(StatsAddresses)

(* Where the reader is.                                                     *)
Recording ==
  statsReader.pc # "reads" =>
    /\ statsReceived # <<>> /\ statsReceived[Len(statsReceived)] = statsReader.of
    /\ statsReader.of \in DOMAIN statsDb <=> statsReader.pc \in {"records", "pushes"}

(* The frame that the reader has in hand is in nothing yet.                 *)
Stamped(n) == /\ n <= Len(statsReceived)
              /\ statsReader.pc # "reads" => n < Len(statsReceived)

(* A history of the map has the newest values, except for that frame, and   *)
(* has room for it once the oldest value is dropped.                        *)
Pushing(x) == statsReader.pc = "pushes" /\ statsReader.of = x
Newest(h, x) ==
  /\ StatsSuccessive(h, x) /\ Len(h) <= StatsMaxHistory
  /\ Pushing(x) => Len(h) < StatsMaxHistory
  /\ h = <<>> => Pushing(x)
  /\ h # <<>> =>
       /\ Stamped(h[1])
       /\ \A n \in h[1] + 1 .. Len(statsReceived) :
            statsReceived[n] = x => n = Len(statsReceived) /\ statsReader.pc # "reads"
Kept == \A x \in DOMAIN statsDb : Stamped(statsDb[x].node) /\ Newest(statsDb[x].values, x)

(* What a request has collected, and that the iterator of the map is beyond *)
(* it.                                                                     *)
Told(answer) ==
  /\ \A i \in DOMAIN answer :
       StatsSuccessive(answer[i][2], answer[i][1]) /\ Len(answer[i][2]) <= StatsMaxHistory
  /\ \A i, j \in DOMAIN answer : i < j => answer[i][1] < answer[j][1]
Beyond(r) ==
  r.pc \in {"iterates", "compares", "reads", "moves"} /\ r.at # 0 =>
    \A i \in DOMAIN r.answer : r.answer[i][1] < r.at

(* A request that walks over a node of the map: as long as its next element *)
(* is there, or the end, the one it read last is the one before it.         *)
Live(r) == r.at \in DOMAIN statsDb /\ statsDb[r.at].node = r.node
OnWay(r) ==
  r.pc \in {"compares", "reads", "moves", "counts", "copies"} /\ Live(r) =>
    /\ r.eit + Len(r.entries) <= Pushed(r.at)
    /\ r.entries # <<>> /\ r.eit >= statsDb[r.at].popped =>
         r.entries[Len(r.entries)] = statsDb[r.at].values[Pushed(r.at) - r.eit]
Fine(r) ==
  /\ r \in WalkRequests /\ Stamped(r.node)
  /\ StatsSuccessive(r.entries, r.at) /\ Len(r.entries) <= StatsMaxHistory
  /\ r.pc = "iterates" => r.entries = <<>>
  /\ Told(r.answer) /\ Beyond(r) /\ OnWay(r)
Collected == \A w \in StatsBrowsers : Fine(statsWeb[w])

(* The last frame, once it is recorded.                                     *)
Recorded ==
  statsReader.pc = "reads" /\ statsReceived # <<>> =>
    LET last == statsReceived[Len(statsReceived)]
    IN last \in DOMAIN statsDb /\ statsDb[last].values[1] = Len(statsReceived)

StatsInv == StatsTypes /\ Recording /\ Kept /\ Collected /\ Recorded

(* The iterator: an address of the map, or 0 past the end.                  *)
LEMMA LeastIsFirst ==
  ASSUME NEW S, S \subseteq Nat
  PROVE  Least(S) \in Nat /\ (S # {} => Least(S) \in S) /\ (S = {} => Least(S) = 0)
<1>1. CASE S = {}
  BY <1>1 DEF Least
<1>2. CASE S # {}
  <2>1. \E m \in S : \A n \in S : m <= n
    BY <1>2, LeastNumber
  <2>2. Least(S) \in S
    BY <1>2, <2>1, Zenon DEF Least
  <2> QED
    BY <1>2, <2>2
<1> QED
  BY <1>1, <1>2

LEMMA FollowingGoesUp ==
  ASSUME StatsAssumption, StatsTypes, NEW x \in Nat
  PROVE  Following(x) \in Nat /\ (Following(x) # 0 => Following(x) > x)
<1> DEFINE S == {y \in DOMAIN statsDb : y > x}
<1>1. S \subseteq Nat
  BY DEF StatsTypes, StatsAssumption
<1>2. Following(x) = Least(S)
  BY Zenon DEF Following
<1>3. \A y \in S : y > x
  OBVIOUS
<1> HIDE DEF S
<1> QED
  BY <1>1, <1>2, <1>3, LeastIsFirst

(* A node of the map, and a request, have their types.                      *)
LEMMA NodeHas ==
  ASSUME StatsAssumption, StatsTypes, NEW x \in DOMAIN statsDb
  PROVE  /\ x \in StatsAddresses /\ x \in Nat /\ x # 0
         /\ statsDb[x].node \in Nat /\ statsDb[x].popped \in Nat
         /\ statsDb[x].values \in Histories /\ statsDb[x] \in Nodes
         /\ statsDb[x] = [node |-> statsDb[x].node, popped |-> statsDb[x].popped,
                          values |-> statsDb[x].values]
<1>1. statsDb[x] \in Nodes /\ x \in StatsAddresses
  BY DEF StatsTypes
<1> QED
  BY <1>1 DEF Nodes, StatsAssumption

LEMMA HistoryHas ==
  ASSUME NEW h \in Histories
  PROVE  /\ h \in Seq(Nat) /\ Len(h) \in Nat /\ DOMAIN h = 1 .. Len(h)
         /\ \A i \in 1 .. Len(h) : h[i] \in Nat
         /\ h # <<>> <=> Len(h) >= 1
BY DEF Histories

LEMMA AnswerHas ==
  ASSUME StatsAssumption, NEW a \in Answers
  PROVE  /\ a \in Seq(Nat \X Histories) /\ Len(a) \in Nat
         /\ DOMAIN a = 1 .. Len(a)
         /\ \A i \in DOMAIN a : a[i][1] \in Nat /\ a[i][2] \in Histories
<1>1. a \in Seq(Nat \X Histories) /\ Len(a) \in Nat /\ DOMAIN a = 1 .. Len(a)
  BY DEF Answers
<1>2. ASSUME NEW i \in DOMAIN a PROVE a[i] \in Nat \X Histories
  BY <1>1, ElementOfSeq
<1> QED
  BY <1>1, <1>2 DEF StatsAssumption

LEMMA ReceivedHas ==
  ASSUME StatsTypes
  PROVE  /\ statsReceived \in Seq(StatsAddresses) /\ Len(statsReceived) \in Nat
         /\ DOMAIN statsReceived = 1 .. Len(statsReceived)
BY DEF StatsTypes

(* A history that fits the frames goes on fitting them when one more comes. *)
LEMMA SuccessiveStays ==
  ASSUME StatsTypes, NEW y \in StatsAddresses, statsReceived' = Append(statsReceived, y),
         NEW h \in Histories, NEW x, StatsSuccessive(h, x)
  PROVE  StatsSuccessive(h, x)'
<1>1. /\ Len(statsReceived) \in Nat /\ DOMAIN statsReceived = 1 .. Len(statsReceived)
      /\ DOMAIN statsReceived' = 1 .. Len(statsReceived) + 1
      /\ \A n \in 1 .. Len(statsReceived) : statsReceived'[n] = statsReceived[n]
  BY DEF StatsTypes
<1>2. DOMAIN h = 1 .. Len(h) /\ Len(h) \in Nat /\ \A i \in 1 .. Len(h) : h[i] \in Nat
  BY HistoryHas
<1> SUFFICES ASSUME NEW i \in DOMAIN h
             PROVE  /\ h[i] \in DOMAIN statsReceived' /\ statsReceived'[h[i]] = x
                    /\ i < Len(h) =>
                         /\ h[i + 1] < h[i]
                         /\ \A n \in h[i + 1] + 1 .. h[i] - 1 : statsReceived'[n] # x
  BY DEF StatsSuccessive
<1>3. h[i] \in DOMAIN statsReceived /\ statsReceived[h[i]] = x
  BY DEF StatsSuccessive
<1>4. i < Len(h) => h[i + 1] < h[i] /\ \A n \in h[i + 1] + 1 .. h[i] - 1 : statsReceived[n] # x
  BY DEF StatsSuccessive
<1>5. i < Len(h) => h[i + 1] \in Nat
  BY <1>2
<1> QED
  BY <1>1, <1>2, <1>3, <1>4, <1>5

(* pop_back: the values but the oldest.                                     *)
ButOldest(h) == SubSeq(h, 1, Len(h) - 1)

LEMMA PopKeeps ==
  ASSUME NEW h \in Histories, h # <<>>, NEW g, g = ButOldest(h),
         NEW x, StatsSuccessive(h, x)
  PROVE  /\ g \in Histories /\ Len(g) = Len(h) - 1 /\ \A i \in 1 .. Len(g) : g[i] = h[i]
         /\ StatsSuccessive(g, x)
<1>1. /\ h \in Seq(Nat) /\ Len(h) \in Nat /\ Len(h) >= 1 /\ DOMAIN h = 1 .. Len(h)
      /\ \A i \in 1 .. Len(h) - 1 : h[i] \in Nat
  BY HistoryHas
<1>2. /\ SubSeq(h, 1, Len(h) - 1) \in Seq(Nat)
      /\ Len(SubSeq(h, 1, Len(h) - 1)) = IF 1 <= Len(h) - 1 THEN (Len(h) - 1) - 1 + 1 ELSE 0
      /\ \A i \in 1 .. (Len(h) - 1) - 1 + 1 : SubSeq(h, 1, Len(h) - 1)[i] = h[1 + i - 1]
  BY <1>1, SubSeqProperties
<1>3. g \in Histories /\ Len(g) = Len(h) - 1 /\ \A i \in 1 .. Len(g) : g[i] = h[i]
  BY <1>1, <1>2 DEF Histories, ButOldest
<1>4. DOMAIN g = 1 .. Len(g) /\ Len(g) \in Nat
  BY <1>3, HistoryHas
<1>5. \A i \in DOMAIN g : /\ i \in DOMAIN h /\ g[i] = h[i]
                          /\ i < Len(g) => i < Len(h) /\ g[i + 1] = h[i + 1]
  BY <1>1, <1>3, <1>4
<1> QED
  BY <1>3, <1>5 DEF StatsSuccessive

(* push_front: the new value and then those that were there.                *)
WithNewest(v, h) == <<v>> \o h

IsWithNewest(g, v, h) == /\ g \in Histories /\ Len(g) = Len(h) + 1 /\ g[1] = v
                         /\ \A i \in 1 .. Len(h) : g[i + 1] = h[i]

LEMMA WithNewestIs ==
  ASSUME NEW h \in Histories, NEW v \in Nat, NEW g, g = WithNewest(v, h)
  PROVE  IsWithNewest(g, v, h)
<1>1. h \in Seq(Nat) /\ Len(h) \in Nat /\ DOMAIN h = 1 .. Len(h)
  BY HistoryHas
<1>2. <<v>> \in Seq(Nat) /\ Len(<<v>>) = 1 /\ <<v>>[1] = v
  OBVIOUS
<1>3. /\ <<v>> \o h \in Seq(Nat) /\ Len(<<v>> \o h) = 1 + Len(h)
      /\ \A i \in 1 .. 1 + Len(h) : (<<v>> \o h)[i] = IF i <= 1 THEN <<v>>[i] ELSE h[i - 1]
  BY <1>1, <1>2, ConcatProperties
<1>4. /\ g \in Histories /\ Len(g) = Len(h) + 1 /\ g[1] = v
      /\ \A i \in 2 .. Len(g) : g[i] = h[i - 1]
  BY <1>1, <1>2, <1>3 DEF Histories, WithNewest
<1> QED
  BY <1>1, <1>4 DEF IsWithNewest

LEMMA PushKeeps ==
  ASSUME NEW h \in Histories, NEW x, StatsSuccessive(h, x),
         NEW v \in Nat, v \in DOMAIN statsReceived, statsReceived[v] = x,
         h # <<>> => h[1] < v /\ \A n \in h[1] + 1 .. v - 1 : statsReceived[n] # x,
         NEW g, g = WithNewest(v, h)
  PROVE  /\ g \in Histories /\ Len(g) = Len(h) + 1 /\ g[1] = v
         /\ \A i \in 1 .. Len(h) : g[i + 1] = h[i]
         /\ StatsSuccessive(g, x)
<1>1. h \in Seq(Nat) /\ Len(h) \in Nat /\ DOMAIN h = 1 .. Len(h) /\ (h # <<>> <=> Len(h) >= 1)
  BY HistoryHas
<1>4. /\ g \in Histories /\ Len(g) = Len(h) + 1 /\ g[1] = v
      /\ \A i \in 1 .. Len(h) : g[i + 1] = h[i]
  <2>1. IsWithNewest(g, v, h)
    BY WithNewestIs
  <2> QED
    BY <2>1 DEF IsWithNewest
<1>5. \A i \in 1 .. Len(h) : g[i + 1] = h[i]
  BY <1>4
<1>6. DOMAIN g = 1 .. Len(g) /\ Len(g) \in Nat
  BY <1>4, HistoryHas
<1>7. StatsSuccessive(g, x)
  <2> SUFFICES ASSUME NEW i \in DOMAIN g
               PROVE  /\ g[i] \in DOMAIN statsReceived /\ statsReceived[g[i]] = x
                      /\ i < Len(g) =>
                           /\ g[i + 1] < g[i]
                           /\ \A n \in g[i + 1] + 1 .. g[i] - 1 : statsReceived[n] # x
    BY DEF StatsSuccessive
  <2>1. CASE i = 1
    <3>1. Len(g) > 1 => g[2] = h[1] /\ h # <<>>
      BY <1>1, <1>4, <1>6
    <3> QED
      BY <1>4, <2>1, <3>1
  <2>2. CASE i # 1
    <3>1. PICK j \in DOMAIN h : j = i - 1 /\ j + 1 = i
      BY <1>1, <1>4, <1>6, <2>2
    <3>2. g[i] = h[j] /\ (i < Len(g) => g[i + 1] = h[j + 1] /\ j < Len(h))
      BY <1>1, <1>4, <1>5, <1>6, <3>1
    <3>3. /\ h[j] \in DOMAIN statsReceived /\ statsReceived[h[j]] = x
          /\ j < Len(h) =>
               /\ h[j + 1] < h[j]
               /\ \A n \in h[j + 1] + 1 .. h[j] - 1 : statsReceived[n] # x
      BY DEF StatsSuccessive
    <3> QED
      BY <3>2, <3>3
  <2> QED
    BY <2>1, <2>2
<1> QED
  BY <1>4, <1>5, <1>7

(* A request reads one value more: the next one of the history.             *)
WithNext(e, h, k) == Append(e, h[k])
IsWithNext(g, e, h, k, x) ==
  /\ g \in Histories /\ Len(g) = Len(e) + 1 /\ g[Len(g)] = h[k] /\ g # <<>>
  /\ StatsSuccessive(g, x)
NextIn(e, h, k) == e # <<>> => k > 1 /\ e[Len(e)] = h[k - 1]

LEMMA AppendKeeps ==
  ASSUME NEW e \in Histories, NEW h \in Histories, NEW x,
         StatsSuccessive(e, x), StatsSuccessive(h, x), NEW k \in DOMAIN h,
         NextIn(e, h, k), NEW g, g = WithNext(e, h, k)
  PROVE  IsWithNext(g, e, h, k, x)
<1>1. /\ e \in Seq(Nat) /\ Len(e) \in Nat /\ DOMAIN e = 1 .. Len(e) /\ (e # <<>> <=> Len(e) >= 1)
      /\ Len(h) \in Nat /\ DOMAIN h = 1 .. Len(h) /\ h[k] \in Nat
  BY HistoryHas
<1>2. /\ g \in Seq(Nat) /\ Len(g) = Len(e) + 1 /\ g[Len(e) + 1] = h[k]
      /\ \A i \in 1 .. Len(e) : g[i] = e[i]
  BY <1>1 DEF WithNext
<1>3. DOMAIN g = 1 .. Len(e) + 1 /\ g # <<>> /\ g \in Histories
  BY <1>1, <1>2 DEF Histories
<1>4. h[k] \in DOMAIN statsReceived /\ statsReceived[h[k]] = x
  BY DEF StatsSuccessive
<1>5. e # <<>> => /\ h[k] < e[Len(e)]
                  /\ \A n \in h[k] + 1 .. e[Len(e)] - 1 : statsReceived[n] # x
  <2> SUFFICES ASSUME e # <<>>
               PROVE  /\ h[k] < h[k - 1]
                      /\ \A n \in h[k] + 1 .. h[k - 1] - 1 : statsReceived[n] # x
    BY DEF NextIn
  <2>1. PICK j \in DOMAIN h : j = k - 1 /\ j + 1 = k /\ j < Len(h)
    BY <1>1 DEF NextIn
  <2>2. /\ h[j + 1] < h[j]
        /\ \A n \in h[j + 1] + 1 .. h[j] - 1 : statsReceived[n] # x
    BY <2>1 DEF StatsSuccessive
  <2> QED
    BY <2>1, <2>2
<1>6. StatsSuccessive(g, x)
  <2> SUFFICES ASSUME NEW i \in DOMAIN g
               PROVE  /\ g[i] \in DOMAIN statsReceived /\ statsReceived[g[i]] = x
                      /\ i < Len(g) =>
                           /\ g[i + 1] < g[i]
                           /\ \A n \in g[i + 1] + 1 .. g[i] - 1 : statsReceived[n] # x
    BY DEF StatsSuccessive
  <2>1. CASE i = Len(e) + 1
    BY <1>1, <1>2, <1>4, <2>1
  <2>2. CASE i = Len(e)
    <3>1. i \in DOMAIN e /\ g[i] = e[Len(e)] /\ g[i + 1] = h[k] /\ e # <<>>
      BY <1>1, <1>2, <1>3, <2>2
    <3>2. e[i] \in DOMAIN statsReceived /\ statsReceived[e[i]] = x
      BY <3>1 DEF StatsSuccessive
    <3> QED
      BY <1>5, <2>2, <3>1, <3>2
  <2>3. CASE i < Len(e)
    <3>1. i \in DOMAIN e /\ g[i] = e[i] /\ g[i + 1] = e[i + 1]
      BY <1>1, <1>2, <1>3, <2>3
    <3> QED
      BY <2>3, <3>1 DEF StatsSuccessive
  <2> QED
    BY <1>1, <1>3, <2>1, <2>2, <2>3
<1> QED
  BY <1>2, <1>3, <1>6 DEF IsWithNext

(***************************************************************************)
(* What the steps of the reader do to the map.                             *)
(***************************************************************************)
LEMMA PopsDoes ==
  ASSUME StatsAssumption, StatsInv, StatsPops
  PROVE  /\ statsReader.of \in DOMAIN statsDb /\ DOMAIN statsDb' = DOMAIN statsDb
         /\ statsReader.pc = "records" /\ statsReader' = [statsReader EXCEPT !.pc = "pushes"]
         /\ statsReceived' = statsReceived /\ statsWeb' = statsWeb
         /\ \A x \in DOMAIN statsDb \ {statsReader.of} : statsDb'[x] = statsDb[x]
         /\ LET h == statsDb[statsReader.of]
                g == statsDb'[statsReader.of]
            IN \/ g = h /\ Len(h.values) # StatsMaxHistory
               \/ /\ h.values # <<>> /\ g.node = h.node /\ g.popped = h.popped + 1
                  /\ g.values = ButOldest(h.values)
                  /\ g = [node |-> g.node, popped |-> g.popped, values |-> g.values]
<1>1. /\ statsReader.pc = "records" /\ statsReader' = [statsReader EXCEPT !.pc = "pushes"]
      /\ statsReceived' = statsReceived /\ statsWeb' = statsWeb
  BY DEF StatsPops
<1>2. statsReader.of \in DOMAIN statsDb
  BY <1>1 DEF StatsInv, Recording
<1>3. PICK h : h = statsDb[statsReader.of]
  OBVIOUS
<1>4. h = [node |-> h.node, popped |-> h.popped, values |-> h.values] /\ h.values \in Histories
  BY <1>2, <1>3, NodeHas DEF StatsInv
<1>5. h.values # <<>>
  BY <1>1, <1>2, <1>3 DEF StatsInv, Kept, Newest, Pushing
<1>6. CASE Len(h.values) = StatsMaxHistory
  <2>1. PICK g : g = [h EXCEPT !.popped = @ + 1, !.values = SubSeq(@, 1, Len(@) - 1)]
    OBVIOUS
  <2>2. statsDb' = [statsDb EXCEPT ![statsReader.of] = g]
    BY <1>3, <1>6, <2>1 DEF StatsPops
  <2>3. /\ g.node = h.node /\ g.popped = h.popped + 1
        /\ g.values = ButOldest(h.values)
        /\ g = [node |-> g.node, popped |-> g.popped, values |-> g.values]
    BY <1>4, <2>1 DEF ButOldest
  <2>4. statsDb'[statsReader.of] = g /\ DOMAIN statsDb' = DOMAIN statsDb
        /\ \A x \in DOMAIN statsDb \ {statsReader.of} : statsDb'[x] = statsDb[x]
    BY <1>2, <2>2 DEF StatsInv, StatsTypes
  <2> QED
    BY <1>1, <1>2, <1>3, <1>5, <2>3, <2>4
<1>7. CASE Len(h.values) # StatsMaxHistory
  <2>1. statsDb' = statsDb
    BY <1>3, <1>7 DEF StatsPops
  <2> QED
    BY <1>1, <1>2, <1>3, <1>7, <2>1
<1> QED
  BY <1>6, <1>7

LEMMA PushesDoes ==
  ASSUME StatsAssumption, StatsInv, StatsPushes
  PROVE  /\ statsReader.of \in DOMAIN statsDb /\ DOMAIN statsDb' = DOMAIN statsDb
         /\ statsReader.pc = "pushes" /\ statsReader' = [statsReader EXCEPT !.pc = "reads"]
         /\ statsReceived' = statsReceived /\ statsWeb' = statsWeb
         /\ \A x \in DOMAIN statsDb \ {statsReader.of} : statsDb'[x] = statsDb[x]
         /\ LET h == statsDb[statsReader.of]
                g == statsDb'[statsReader.of]
            IN /\ g.node = h.node /\ g.popped = h.popped
               /\ g.values = WithNewest(Len(statsReceived), h.values)
               /\ g = [node |-> g.node, popped |-> g.popped, values |-> g.values]
<1>1. /\ statsReader.pc = "pushes" /\ statsReader' = [statsReader EXCEPT !.pc = "reads"]
      /\ statsReceived' = statsReceived /\ statsWeb' = statsWeb
  BY DEF StatsPushes
<1>2. statsReader.of \in DOMAIN statsDb
  BY <1>1 DEF StatsInv, Recording
<1>3. PICK h : h = statsDb[statsReader.of]
  OBVIOUS
<1>4. h = [node |-> h.node, popped |-> h.popped, values |-> h.values]
  BY <1>2, <1>3, NodeHas DEF StatsInv
<1>5. PICK v : v = WithNewest(Len(statsReceived), h.values)
  OBVIOUS
<1>6. PICK g : g = [h EXCEPT !.values = v]
  OBVIOUS
<1>7. statsDb' = [statsDb EXCEPT ![statsReader.of].values = v]
  BY <1>3, <1>5, Zenon DEF StatsPushes, WithNewest
<1>8. statsDb'[statsReader.of] = g /\ DOMAIN statsDb' = DOMAIN statsDb
      /\ \A x \in DOMAIN statsDb \ {statsReader.of} : statsDb'[x] = statsDb[x]
  BY <1>2, <1>3, <1>6, <1>7 DEF StatsInv, StatsTypes
<1>9. /\ g.node = h.node /\ g.popped = h.popped /\ g.values = v
      /\ g = [node |-> g.node, popped |-> g.popped, values |-> g.values]
  BY <1>4, <1>6
<1> QED
  BY <1>1, <1>2, <1>3, <1>5, <1>8, <1>9

LEMMA InsertsDoes ==
  ASSUME StatsAssumption, StatsInv, StatsInserts
  PROVE  /\ statsReader.of \notin DOMAIN statsDb /\ statsReader.of \in StatsAddresses
         /\ DOMAIN statsDb' = DOMAIN statsDb \cup {statsReader.of}
         /\ statsReader.pc = "inserts" /\ statsReader' = [statsReader EXCEPT !.pc = "reads"]
         /\ statsReceived' = statsReceived /\ statsWeb' = statsWeb
         /\ \A x \in DOMAIN statsDb : statsDb'[x] = statsDb[x]
         /\ statsDb'[statsReader.of] =
              [node |-> Len(statsReceived), popped |-> 0, values |-> <<Len(statsReceived)>>]
<1>1. statsReader.of \notin DOMAIN statsDb /\ statsReader.of \in StatsAddresses
  BY DEF StatsInv, Recording, StatsInserts, StatsTypes
<1> QED
  BY <1>1 DEF StatsInserts

LEMMA EvictsDoes ==
  ASSUME StatsEvicts
  PROVE  /\ DOMAIN statsDb' \subseteq DOMAIN statsDb
         /\ \A x \in DOMAIN statsDb' : statsDb'[x] = statsDb[x]
         /\ statsReader.pc = "evicts" /\ statsReader' = [statsReader EXCEPT !.pc = "inserts"]
         /\ statsReceived' = statsReceived /\ statsWeb' = statsWeb
         /\ statsDb' = [x \in DOMAIN statsDb \ {First} |-> statsDb[x]]
BY DEF StatsEvicts

LEMMA FrameDoes ==
  ASSUME StatsInv, NEW y \in StatsAddresses, StatsFrame(y)
  PROVE  /\ statsDb' = statsDb /\ statsWeb' = statsWeb /\ statsReceived' = Append(statsReceived, y)
         /\ statsReader.pc = "reads" /\ statsReader'.pc \in {"records", "evicts", "inserts"}
         /\ statsReader' = [pc |-> statsReader'.pc, of |-> y]
         /\ y \in DOMAIN statsDb <=> statsReader'.pc = "records"
         /\ Len(statsReceived') = Len(statsReceived) + 1
         /\ statsReceived'[Len(statsReceived')] = y
         /\ \A n \in 1 .. Len(statsReceived) : statsReceived'[n] = statsReceived[n]
<1>1. statsReceived \in Seq(StatsAddresses)
  BY DEF StatsInv, StatsTypes
<1>2. /\ statsDb' = statsDb /\ statsWeb' = statsWeb /\ statsReceived' = Append(statsReceived, y)
      /\ statsReader.pc = "reads" /\ statsReader'.pc \in {"records", "evicts", "inserts"}
      /\ statsReader' = [pc |-> statsReader'.pc, of |-> y]
      /\ y \in DOMAIN statsDb <=> statsReader'.pc = "records"
  BY DEF StatsFrame
<1> QED
  BY <1>1, <1>2

ReaderSteps == \/ \E y \in StatsAddresses : StatsFrame(y)
               \/ StatsEvicts \/ StatsInserts \/ StatsPops \/ StatsPushes

(* The types, and where the reader is.                                      *)
LEMMA ReaderStepTypes ==
  ASSUME StatsAssumption, StatsInv, ReaderSteps
  PROVE  StatsTypes' /\ Recording'
<1> USE DEF StatsInv
<1>1. /\ DOMAIN statsDb \subseteq StatsAddresses /\ statsDb \in [DOMAIN statsDb -> Nodes]
      /\ statsReader \in [pc : ReaderPlaces, of : Nat] /\ statsWeb \in [StatsBrowsers -> WalkRequests]
      /\ statsReceived \in Seq(StatsAddresses) /\ Len(statsReceived) \in Nat
  BY DEF StatsTypes
<1>2. ASSUME NEW y \in StatsAddresses, StatsFrame(y) PROVE StatsTypes' /\ Recording'
  <2>1. statsReceived' \in Seq(StatsAddresses) /\ statsReceived' # <<>>
    <3>1. statsReceived' = Append(statsReceived, y)
      BY <1>2, FrameDoes
    <3> QED
      BY <1>1, <3>1
  <2>2. statsReader' \in [pc : ReaderPlaces, of : Nat]
    BY <1>2, FrameDoes DEF ReaderPlaces, StatsAssumption
  <2>3. StatsTypes'
    BY <1>1, <1>2, <2>1, <2>2, FrameDoes DEF StatsTypes
  <2>4. /\ statsReader'.of = y
        /\ y \in DOMAIN statsDb' <=> statsReader'.pc \in {"records", "pushes"}
    BY <1>2, FrameDoes
  <2> QED
    BY <1>2, <2>1, <2>3, <2>4, FrameDoes DEF Recording
<1>3. CASE StatsEvicts
  <2>1. statsReader' \in [pc : ReaderPlaces, of : Nat]
    BY <1>1, <1>3, EvictsDoes DEF ReaderPlaces
  <2>2. statsDb' \in [DOMAIN statsDb' -> Nodes]
    BY <1>1, <1>3, EvictsDoes
  <2>3. StatsTypes'
    BY <1>1, <1>3, <2>1, <2>2, EvictsDoes DEF StatsTypes
  <2>4. statsReader'.of = statsReader.of /\ statsReader'.pc = "inserts"
    BY <1>1, <1>3, EvictsDoes
  <2> QED
    BY <1>3, <2>3, <2>4, EvictsDoes DEF Recording
<1>4. CASE StatsInserts
  <2>1. statsReader' \in [pc : ReaderPlaces, of : Nat] /\ statsReader'.pc = "reads"
    BY <1>1, <1>4, InsertsDoes DEF ReaderPlaces
  <2>2. PICK n \in Nat : n = Len(statsReceived)
    BY <1>1
  <2>3. PICK g : g = [node |-> n, popped |-> 0, values |-> <<n>>]
    OBVIOUS
  <2>4. g \in Nodes
    BY <2>3 DEF Nodes, Histories
  <2>5. statsDb'[statsReader.of] = g
    BY <1>4, <2>2, <2>3, InsertsDoes
  <2>6. \A x \in DOMAIN statsDb' : statsDb'[x] \in Nodes
    BY <1>1, <1>4, <2>4, <2>5, InsertsDoes
  <2>7. statsDb' \in [DOMAIN statsDb' -> Nodes]
    <3>1. statsDb' = [x \in DOMAIN statsDb' |-> statsDb'[x]]
      BY <1>4 DEF StatsInserts
    <3> QED
      BY <2>6, <3>1
  <2> QED
    BY <1>1, <1>4, <2>1, <2>7, InsertsDoes DEF StatsTypes, Recording
<1>5. CASE StatsPops \/ StatsPushes
  <2> DEFINE at == statsReader.of
  <2>1. /\ at \in DOMAIN statsDb /\ DOMAIN statsDb' = DOMAIN statsDb
        /\ statsReceived' = statsReceived /\ statsWeb' = statsWeb
        /\ \A x \in DOMAIN statsDb \ {at} : statsDb'[x] = statsDb[x]
    BY <1>5, PopsDoes, PushesDoes
  <2>2. /\ statsReader' \in [pc : ReaderPlaces, of : Nat] /\ statsReader'.of = at
        /\ statsReader'.pc \in {"pushes", "reads"}
    BY <1>1, <1>5, PopsDoes, PushesDoes DEF ReaderPlaces
  <2>3. statsReader.pc # "reads"
    BY <1>5, PopsDoes, PushesDoes
  <2>4. statsDb'[at] \in Nodes
    <3>1. PICK h \in Nodes : h = statsDb[at]
      BY <1>1, <2>1
    <3>2. h.node \in Nat /\ h.popped \in Nat /\ h.values \in Histories
      BY DEF Nodes
    <3>3. CASE StatsPops
      <4>1. PICK g : g = statsDb'[at]
        OBVIOUS
      <4>2. \/ g = h
            \/ /\ h.values # <<>> /\ g.node = h.node /\ g.popped = h.popped + 1
               /\ g.values = ButOldest(h.values)
               /\ g = [node |-> g.node, popped |-> g.popped, values |-> g.values]
        BY <3>1, <3>3, <4>1, PopsDoes
      <4>3. h.values # <<>> => ButOldest(h.values) \in Histories
        <5>1. StatsSuccessive(h.values, at)
          BY <2>1, <3>1 DEF Kept, Newest
        <5> QED
          BY <3>2, <5>1, PopKeeps
      <4>4. CASE g = h
        BY <4>1, <4>4
      <4>5. CASE g # h
        <5>1. g.node = h.node /\ g.popped = h.popped + 1
              /\ g.values = ButOldest(h.values)
              /\ ButOldest(h.values) \in Histories
              /\ g = [node |-> g.node, popped |-> g.popped, values |-> g.values]
          BY <4>2, <4>3, <4>5
        <5>2. g.node \in Nat /\ g.popped \in Nat /\ g.values \in Histories
          BY <3>2, <5>1
        <5>3. g \in Nodes
          BY <5>1, <5>2 DEF Nodes
        <5> QED
          BY <4>1, <5>3
      <4> QED
        BY <4>4, <4>5
    <3>4. CASE StatsPushes
      <4>1. PICK g : g = statsDb'[at]
        OBVIOUS
      <4>2. /\ g.node = h.node /\ g.popped = h.popped /\ g.values = WithNewest(Len(statsReceived), h.values)
            /\ g = [node |-> g.node, popped |-> g.popped, values |-> g.values]
        BY <3>1, <3>4, <4>1, PushesDoes
      <4>3. WithNewest(Len(statsReceived), h.values) \in Histories
        BY <1>1, <3>2 DEF Histories, WithNewest
      <4>4. g.node \in Nat /\ g.popped \in Nat /\ g.values \in Histories
        BY <3>2, <4>2, <4>3
      <4>5. g \in Nodes
        BY <4>2, <4>4 DEF Nodes
      <4> QED
        BY <4>1, <4>5
    <3> QED
      BY <1>5, <3>3, <3>4
  <2>5. statsDb' \in [DOMAIN statsDb -> Nodes]
    <3>1. statsDb' = [x \in DOMAIN statsDb |-> statsDb'[x]]
      BY <1>1, <1>5 DEF StatsPops, StatsPushes
    <3>2. \A x \in DOMAIN statsDb : statsDb'[x] \in Nodes
      BY <1>1, <2>1, <2>4
    <3> QED
      BY <3>1, <3>2
  <2>6. StatsTypes'
    BY <1>1, <2>1, <2>2, <2>5 DEF StatsTypes
  <2> QED
    BY <2>1, <2>2, <2>3, <2>6 DEF Recording
<1> QED
  BY <1>2, <1>3, <1>4, <1>5 DEF ReaderSteps

(* The histories, and the last frame.                                       *)
LEMMA ReaderStepKept ==
  ASSUME StatsAssumption, StatsInv, ReaderSteps
  PROVE  Kept' /\ Recorded'
<1> USE DEF StatsInv
<1>0. PICK last : last = Len(statsReceived)
  OBVIOUS
<1>1. /\ last \in Nat /\ statsReceived \in Seq(StatsAddresses)
      /\ DOMAIN statsReceived = 1 .. last
  BY <1>0, ReceivedHas
<1>2. ASSUME NEW x \in DOMAIN statsDb
      PROVE  Stamped(statsDb[x].node) /\ Newest(statsDb[x].values, x)
  BY DEF Kept
<1>3. ASSUME NEW y \in StatsAddresses, StatsFrame(y) PROVE Kept' /\ Recorded'
  <2>1. /\ statsDb' = statsDb /\ statsReader.pc = "reads"
        /\ statsReader'.pc \in {"records", "evicts", "inserts"}
        /\ statsReceived' = Append(statsReceived, y) /\ Len(statsReceived') = last + 1
        /\ \A n \in 1 .. last : statsReceived'[n] = statsReceived[n]
    BY <1>0, <1>3, FrameDoes
  <2>2. ASSUME NEW n, n <= last, n \in Nat PROVE Stamped(n)'
    BY <1>1, <2>1, <2>2 DEF Stamped
  <2>3. ASSUME NEW x \in DOMAIN statsDb
        PROVE  Stamped(statsDb[x].node)' /\ Newest(statsDb[x].values, x)'
    <3>1. PICK h : h = statsDb[x].values
      OBVIOUS
    <3>2. PICK k : k = statsDb[x].node
      OBVIOUS
    <3>3. k \in Nat /\ h \in Histories
      BY <3>1, <3>2, NodeHas
    <3>4. k <= last /\ Newest(h, x)
      BY <1>0, <1>2, <3>1, <3>2 DEF Stamped
    <3>5. Stamped(k)'
      BY <2>2, <3>3, <3>4
    <3>6. StatsSuccessive(h, x)'
      BY <2>1, <3>3, <3>4, SuccessiveStays DEF Newest
    <3>7. h # <<>> /\ Len(h) <= StatsMaxHistory
      BY <2>1, <3>4 DEF Newest, Pushing
    <3>8. h[1] \in Nat /\ h[1] <= last
      BY <1>0, <3>3, <3>4, <3>7, HistoryHas DEF Newest, Stamped
    <3>9. Stamped(h[1])'
      BY <2>2, <3>8
    <3>10. \A n \in h[1] + 1 .. last : statsReceived[n] # x
      BY <1>0, <2>1, <3>4, <3>7 DEF Newest
    <3>11. ASSUME NEW n \in h[1] + 1 .. last + 1, statsReceived'[n] = x PROVE n = last + 1
      <4>1. PICK m \in Nat : m = h[1]
        BY <3>8
      <4>2. n \in m + 1 .. last + 1
        BY <4>1
      <4>3. n <= last => n \in m + 1 .. last /\ statsReceived'[n] = statsReceived[n]
        BY <1>1, <2>1, <4>2
      <4>4. ~ (n <= last)
        BY <3>10, <3>11, <4>1, <4>3
      <4> QED
        BY <1>1, <4>2, <4>4
    <3>12. Newest(h, x)'
      BY <2>1, <3>6, <3>7, <3>9, <3>11 DEF Newest, Pushing
    <3> QED
      BY <2>1, <3>1, <3>2, <3>5, <3>12
  <2> QED
    BY <2>1, <2>3 DEF Kept, Recorded
(* The map changes, if at all, at the address of the frame.                 *)
<1>4. ASSUME statsReceived' = statsReceived, statsReader.pc # "reads",
             statsReader'.of = statsReader.of,
             NEW x \in DOMAIN statsDb, x # statsReader.of, statsDb'[x] = statsDb[x]
      PROVE  Stamped(statsDb[x].node)' /\ Newest(statsDb[x].values, x)'
  <2>1. PICK h : h = statsDb[x].values
    OBVIOUS
  <2>2. PICK k : k = statsDb[x].node
    OBVIOUS
  <2>3. Stamped(k) /\ Newest(h, x)
    BY <1>2, <2>1, <2>2
  <2>4. \A n : Stamped(n) => Stamped(n)'
    BY <1>4 DEF Stamped
  <2>5. h # <<>> /\ ~Pushing(x)'
    BY <1>4, <2>3 DEF Newest, Pushing
  <2>6. statsReceived[last] # x
    BY <1>0, <1>4 DEF Recording
  <2>7. StatsSuccessive(h, x)'
    BY <1>4, <2>3 DEF Newest, StatsSuccessive
  <2>8. \A n \in h[1] + 1 .. last : statsReceived[n] # x
    BY <1>0, <2>3, <2>5, <2>6 DEF Newest
  <2>9. Newest(h, x)'
    BY <1>0, <1>4, <2>3, <2>4, <2>5, <2>7, <2>8 DEF Newest
  <2> QED
    BY <1>4, <2>1, <2>2, <2>3, <2>4, <2>9
<1>5. CASE StatsEvicts
  <2>1. /\ DOMAIN statsDb' \subseteq DOMAIN statsDb /\ statsReceived' = statsReceived
        /\ \A x \in DOMAIN statsDb' : statsDb'[x] = statsDb[x]
        /\ statsReader.pc = "evicts" /\ statsReader'.pc = "inserts" /\ statsReader'.of = statsReader.of
    BY <1>5, EvictsDoes DEF StatsTypes
  <2>2. statsReader.of \notin DOMAIN statsDb
    BY <2>1 DEF Recording
  <2> QED
    BY <1>4, <2>1, <2>2 DEF Kept, Recorded
<1>6. ASSUME statsReader.pc # "reads"
      PROVE  /\ last \in DOMAIN statsReceived /\ last >= 1
             /\ statsReceived[last] = statsReader.of /\ statsReceived # <<>>
  BY <1>0, <1>1, <1>6 DEF Recording
<1>7. CASE StatsInserts
  <2> DEFINE at == statsReader.of
  <2>1. /\ at \notin DOMAIN statsDb /\ DOMAIN statsDb' = DOMAIN statsDb \cup {at}
        /\ statsReader.pc = "inserts" /\ statsReader'.pc = "reads" /\ statsReader'.of = at
        /\ statsReceived' = statsReceived
        /\ \A x \in DOMAIN statsDb : statsDb'[x] = statsDb[x]
    BY <1>7, InsertsDoes DEF StatsTypes
  <2>2. statsDb'[at].node = last /\ statsDb'[at].values = <<last>>
    BY <1>0, <1>7, InsertsDoes
  <2>3. Stamped(last)'
    BY <1>0, <1>1, <2>1 DEF Stamped
  <2>4. PICK h : h = <<last>>
    OBVIOUS
  <2>5. DOMAIN h = {1} /\ Len(h) = 1 /\ h[1] = last /\ h # <<>>
    BY <2>4
  <2>6. StatsSuccessive(h, at)'
    BY <1>6, <2>1, <2>5 DEF StatsSuccessive
  <2>7. 1 <= StatsMaxHistory /\ ~Pushing(at)'
    BY <2>1 DEF StatsAssumption, Pushing
  <2>8. Newest(h, at)'
    BY <1>0, <1>1, <2>1, <2>3, <2>5, <2>6, <2>7 DEF Newest
  <2>9. Kept'
    BY <1>4, <2>1, <2>2, <2>3, <2>4, <2>8 DEF Kept
  <2> QED
    BY <1>0, <1>6, <2>1, <2>2, <2>9 DEF Recorded
<1>8. CASE StatsPops
  <2>0. PICK at : at = statsReader.of
    OBVIOUS
  <2>1. /\ at \in DOMAIN statsDb /\ DOMAIN statsDb' = DOMAIN statsDb
        /\ statsReader.pc = "records" /\ statsReader'.pc = "pushes" /\ statsReader'.of = at
        /\ statsReceived' = statsReceived
        /\ \A x \in DOMAIN statsDb \ {at} : statsDb'[x] = statsDb[x]
    BY <1>8, <2>0, PopsDoes DEF StatsTypes
  <2>2. PICK h : h = statsDb[at].values
    OBVIOUS
  <2>3. PICK g : g = statsDb'[at].values
    OBVIOUS
  <2>4. h \in Histories /\ Newest(h, at) /\ Stamped(statsDb[at].node)
    BY <1>2, <2>1, <2>2, NodeHas
  <2>5. /\ statsDb'[at].node = statsDb[at].node /\ h # <<>>
        /\ \/ g = h /\ Len(h) # StatsMaxHistory
           \/ g = ButOldest(h)
    <3>1. h # <<>>
      BY <2>1, <2>4 DEF Newest, Pushing
    <3> QED
      BY <1>8, <2>0, <2>2, <2>3, <3>1, PopsDoes
  <2>6. Len(h) \in Nat /\ Len(h) >= 1 /\ Len(h) <= StatsMaxHistory /\ StatsMaxHistory \in Nat
    BY <2>4, <2>5, HistoryHas DEF Newest, StatsAssumption
  <2>7. /\ g \in Histories /\ StatsSuccessive(g, at) /\ Len(g) < StatsMaxHistory
        /\ g # <<>> => g[1] = h[1]
    <3>1. CASE g = h
      <4>1. Len(h) # StatsMaxHistory
        BY <2>4, <2>5, <3>1, PopKeeps DEF Newest
      <4> QED
        BY <2>4, <2>6, <3>1, <4>1 DEF Newest
    <3>2. CASE g = ButOldest(h)
      <4>0. StatsSuccessive(h, at)
        BY <2>4 DEF Newest
      <4>1. g \in Histories /\ Len(g) = Len(h) - 1 /\ (\A i \in 1 .. Len(g) : g[i] = h[i])
            /\ StatsSuccessive(g, at)
        BY <2>4, <2>5, <3>2, <4>0, PopKeeps
      <4>2. g # <<>> => 1 \in 1 .. Len(g)
        BY <4>1, HistoryHas
      <4> QED
        BY <2>6, <4>1, <4>2
    <3> QED
      BY <2>5, <3>1, <3>2
  <2>8. \A n : Stamped(n) => Stamped(n)'
    BY <2>1 DEF Stamped
  <2>9. StatsSuccessive(g, at)'
    BY <2>1, <2>7 DEF StatsSuccessive
  <2>10. Pushing(at)' /\ Len(g) <= StatsMaxHistory
    <3>1. Len(g) \in Nat
      BY <2>7, HistoryHas
    <3> QED
      BY <2>1, <2>6, <2>7, <3>1 DEF Pushing
  <2>11. Newest(g, at)'
    BY <2>1, <2>4, <2>5, <2>7, <2>8, <2>9, <2>10 DEF Newest
  <2>12. Stamped(statsDb[at].node)'
    BY <2>4, <2>5, <2>8
  <2>13. Kept'
    BY <1>4, <2>0, <2>1, <2>3, <2>11, <2>12 DEF Kept
  <2> QED
    BY <2>1, <2>13 DEF Recorded
<1>9. CASE StatsPushes
  <2>0. PICK at : at = statsReader.of
    OBVIOUS
  <2>1. /\ at \in DOMAIN statsDb /\ DOMAIN statsDb' = DOMAIN statsDb
        /\ statsReader.pc = "pushes" /\ statsReader'.pc = "reads" /\ statsReader'.of = at
        /\ statsReceived' = statsReceived
        /\ \A x \in DOMAIN statsDb \ {at} : statsDb'[x] = statsDb[x]
    BY <1>9, <2>0, PushesDoes DEF StatsTypes
  <2>2. PICK h : h = statsDb[at].values
    OBVIOUS
  <2>3. PICK g : g = statsDb'[at].values
    OBVIOUS
  <2>4. h \in Histories /\ Newest(h, at) /\ Stamped(statsDb[at].node)
    BY <1>2, <2>1, <2>2, NodeHas
  <2>5. statsDb'[at].node = statsDb[at].node /\ g = WithNewest(last, h)
    BY <1>0, <1>9, <2>0, <2>2, <2>3, PushesDoes
  <2>6. last \in DOMAIN statsReceived /\ statsReceived[last] = at /\ statsReceived # <<>>
    BY <1>6, <2>0, <2>1
  <2>7. h # <<>> => h[1] < last /\ \A n \in h[1] + 1 .. last - 1 : statsReceived[n] # at
    <3> SUFFICES ASSUME h # <<>>
                 PROVE  h[1] < last /\ \A n \in h[1] + 1 .. last - 1 : statsReceived[n] # at
      OBVIOUS
    <3>1. h[1] < last /\ \A n \in h[1] + 1 .. last : statsReceived[n] = at => n = last
      BY <1>0, <2>1, <2>4 DEF Newest, Stamped
    <3>2. h[1] \in Nat
      BY <2>4, HistoryHas
    <3> QED
      BY <1>1, <3>1, <3>2
  <2>8. StatsSuccessive(h, at)
    BY <2>4 DEF Newest
  <2>9. /\ g \in Histories /\ Len(g) = Len(h) + 1 /\ g[1] = last
        /\ StatsSuccessive(g, at)
    BY <1>1, <2>4, <2>5, <2>6, <2>7, <2>8, PushKeeps
  <2>10. Len(g) <= StatsMaxHistory /\ g # <<>>
    <3>1. Len(h) < StatsMaxHistory /\ Len(h) \in Nat /\ StatsMaxHistory \in Nat
      BY <2>0, <2>1, <2>4, HistoryHas DEF Newest, Pushing, StatsAssumption
    <3> QED
      BY <2>9, <3>1
  <2>11. \A n : n <= last => Stamped(n)'
    BY <1>0, <2>1 DEF Stamped
  <2>12. StatsSuccessive(g, at)' /\ ~Pushing(at)' /\ Stamped(last)'
    BY <1>1, <2>1, <2>9, <2>11 DEF StatsSuccessive, Pushing
  <2>13. Newest(g, at)'
    BY <1>0, <1>1, <2>1, <2>9, <2>10, <2>12 DEF Newest
  <2>14. Stamped(statsDb[at].node)'
    BY <1>0, <2>4, <2>5, <2>11 DEF Stamped
  <2>15. Kept'
    BY <1>4, <2>0, <2>1, <2>3, <2>13, <2>14 DEF Kept
  <2>16. statsDb'[at].values[1] = last
    BY <2>3, <2>9
  <2> QED
    BY <1>0, <2>1, <2>6, <2>15, <2>16 DEF Recorded
<1> QED
  BY <1>3, <1>5, <1>7, <1>8, <1>9 DEF ReaderSteps

(* The requests, while the reader does something.                           *)
LEMMA ReaderStepFine ==
  ASSUME StatsAssumption, StatsInv, ReaderSteps, NEW r, Fine(r)
  PROVE  Fine(r)'
<1> USE DEF StatsInv
<1>0. PICK last : last = Len(statsReceived)
  OBVIOUS
<1>1. /\ last \in Nat /\ statsReceived \in Seq(StatsAddresses)
  BY <1>0, ReceivedHas
<1>2. /\ r \in WalkRequests /\ r.eit \in Nat /\ r.node \in Nat /\ r.at \in Nat
      /\ r.entries \in Histories /\ r.answer \in Answers
  BY DEF Fine, WalkRequests
<1>3. PICK e, d : e = r.entries /\ d = statsDb
  OBVIOUS
<1>4. /\ Len(e) \in Nat /\ (e # <<>> <=> Len(e) >= 1)
  BY <1>2, <1>3, HistoryHas
<1>5. Beyond(r)'
  BY DEF Fine, Beyond
<1>6. ASSUME StatsSuccessive(r.entries, r.at)', Told(r.answer)', OnWay(r)', Stamped(r.node)'
      PROVE  Fine(r)'
  BY <1>5, <1>6 DEF Fine
<1>7. ASSUME statsReceived' = statsReceived
      PROVE  StatsSuccessive(r.entries, r.at)' /\ Told(r.answer)'
  <2>1. \A h, x : StatsSuccessive(h, x)' <=> StatsSuccessive(h, x)
    BY <1>7 DEF StatsSuccessive
  <2> QED
    BY <2>1 DEF Fine, Told
<1>8. ASSUME NEW y \in StatsAddresses, StatsFrame(y) PROVE Fine(r)'
  <2>1. /\ statsDb' = statsDb /\ statsReceived' = Append(statsReceived, y)
        /\ Len(statsReceived') = last + 1
    BY <1>0, <1>8, FrameDoes
  <2>2. StatsSuccessive(r.entries, r.at)'
    BY <1>2, <2>1, SuccessiveStays DEF Fine
  <2>3. ASSUME NEW i \in DOMAIN r.answer
        PROVE  StatsSuccessive(r.answer[i][2], r.answer[i][1])'
    <3>1. PICK h : h = r.answer[i][2]
      OBVIOUS
    <3>2. PICK x : x = r.answer[i][1]
      OBVIOUS
    <3>3. h \in Histories /\ StatsSuccessive(h, x)
      BY <1>2, <3>1, <3>2, AnswerHas DEF Fine, Told
    <3>4. StatsSuccessive(h, x)'
      BY <2>1, <3>3, SuccessiveStays
    <3> QED
      BY <3>1, <3>2, <3>4
  <2>4. Told(r.answer)'
    BY <2>3 DEF Fine, Told
  <2>5. OnWay(r)'
    BY <2>1 DEF Fine, OnWay, Live, Pushed
  <2>6. Stamped(r.node)'
    BY <1>0, <1>1, <1>2, <2>1 DEF Fine, Stamped
  <2> QED
    BY <1>6, <2>2, <2>4, <2>5, <2>6
<1>9. CASE StatsEvicts
  <2>1. /\ DOMAIN statsDb' \subseteq DOMAIN statsDb /\ statsReceived' = statsReceived
        /\ \A x \in DOMAIN statsDb' : statsDb'[x] = statsDb[x]
        /\ statsReader.pc = "evicts" /\ statsReader'.pc = "inserts"
    BY <1>9, EvictsDoes DEF StatsTypes
  <2>2. OnWay(r)'
    BY <2>1 DEF Fine, OnWay, Live, Pushed
  <2>3. Stamped(r.node)'
    BY <2>1 DEF Fine, Stamped
  <2> QED
    BY <1>6, <1>7, <2>1, <2>2, <2>3
<1>10. CASE StatsInserts
  <2>1. /\ DOMAIN statsDb' = DOMAIN statsDb \cup {statsReader.of}
        /\ statsReader.pc = "inserts" /\ statsReader'.pc = "reads"
        /\ statsReceived' = statsReceived
        /\ \A x \in DOMAIN statsDb : statsDb'[x] = statsDb[x]
        /\ statsReader.of \notin DOMAIN statsDb
    BY <1>10, InsertsDoes DEF StatsTypes
  <2>2. statsDb'[statsReader.of].node = last
    BY <1>0, <1>10, InsertsDoes
  <2>3. Stamped(r.node)' /\ r.node < last
    BY <1>0, <1>1, <1>2, <2>1 DEF Fine, Stamped
  <2>4. r.node # last
    BY <1>1, <1>2, <2>3
  <2>5. Live(r)' => Live(r) /\ statsDb'[r.at] = statsDb[r.at]
    BY <2>1, <2>2, <2>4 DEF Live
  <2>6. OnWay(r)'
    BY <2>5 DEF Fine, OnWay, Pushed
  <2> QED
    BY <1>6, <1>7, <2>1, <2>3, <2>6
<1>11. CASE StatsPops \/ StatsPushes
  <2>0. PICK at : at = statsReader.of
    OBVIOUS
  <2>1. /\ at \in DOMAIN statsDb /\ DOMAIN statsDb' = DOMAIN statsDb
        /\ statsReader.pc # "reads" /\ statsReceived' = statsReceived
        /\ \A x \in DOMAIN statsDb \ {at} : statsDb'[x] = statsDb[x]
        /\ statsDb'[at].node = statsDb[at].node
    BY <1>11, <2>0, PopsDoes, PushesDoes DEF StatsTypes
  <2>2. Stamped(r.node)'
    BY <2>1 DEF Fine, Stamped
  <2>3. Live(r)' => Live(r)
    BY <2>1 DEF Live
  <2>4. ASSUME r.pc \in {"compares", "reads", "moves", "counts", "copies"}, Live(r), r.at = at
        PROVE  /\ r.eit + Len(e) <= Pushed(at)'
               /\ e # <<>> /\ r.eit >= statsDb'[at].popped =>
                    e[Len(e)] = statsDb'[at].values[Pushed(at)' - r.eit]
    <3>1. PICK h : h = statsDb[at].values
      OBVIOUS
    <3>2. PICK g : g = statsDb'[at].values
      OBVIOUS
    <3>3. PICK p : p = statsDb[at].popped
      OBVIOUS
    <3>4. PICK q : q = statsDb'[at].popped
      OBVIOUS
    <3>5. PICK k : k = r.eit
      OBVIOUS
    <3>6. PICK m, n, l : m = Len(h) /\ n = Len(g) /\ l = Len(e)
      OBVIOUS
    <3>7. /\ h \in Histories /\ p \in Nat /\ k \in Nat /\ m \in Nat /\ l \in Nat
          /\ Pushed(at) = p + m /\ Pushed(at)' = q + n
          /\ StatsSuccessive(h, at)
      BY <1>2, <1>4, <2>1, <3>1, <3>2, <3>3, <3>4, <3>5, <3>6, NodeHas, HistoryHas
      DEF Pushed, Kept, Newest
    <3>8. e # <<>> => l >= 1
      BY <1>4, <3>6
    <3>9. k + l <= p + m
      BY <1>3, <2>4, <3>5, <3>6, <3>7 DEF Fine, OnWay
    <3>10. e # <<>> /\ k >= p => e[l] = h[(p + m) - k]
      BY <1>3, <2>4, <3>1, <3>3, <3>5, <3>6, <3>7 DEF Fine, OnWay
    <3>11. SUFFICES /\ k + l <= q + n
                    /\ e # <<>> /\ k >= q => e[l] = g[(q + n) - k]
      BY <3>2, <3>4, <3>5, <3>6, <3>7
    <3>12. CASE g = h /\ q = p
      BY <3>6, <3>9, <3>10, <3>12
    <3>13. CASE StatsPops /\ ~ (g = h /\ q = p)
      <4>1. h # <<>> /\ q = p + 1 /\ g = ButOldest(h)
        BY <2>0, <3>1, <3>2, <3>3, <3>4, <3>13, PopsDoes
      <4>2. n = m - 1 /\ \A i \in 1 .. n : g[i] = h[i]
        BY <3>6, <3>7, <4>1, PopKeeps
      <4>3. q + n = p + m /\ q = p + 1
        BY <3>7, <4>1, <4>2
      <4>4. CASE e # <<>> /\ k >= q
        <5>1. (p + m) - k \in 1 .. n /\ k >= p
          BY <3>7, <3>8, <3>9, <4>2, <4>3, <4>4
        <5> QED
          BY <3>9, <3>10, <4>2, <4>3, <4>4, <5>1
      <4> QED
        BY <3>9, <4>3, <4>4
    <3>14. CASE StatsPushes
      <4>1. g = WithNewest(last, h) /\ q = p
        BY <1>0, <2>0, <3>1, <3>2, <3>3, <3>4, <3>14, PushesDoes
      <4>2. n = m + 1 /\ \A i \in 1 .. m : g[i + 1] = h[i]
        <5>1. IsWithNewest(g, last, h)
          BY <1>1, <3>7, <4>1, WithNewestIs
        <5> QED
          BY <3>6, <5>1 DEF IsWithNewest
      <4>3. q + n = (p + m) + 1 /\ q = p
        BY <3>7, <4>1, <4>2
      <4>4. CASE e # <<>> /\ k >= q
        <5>1. (p + m) - k \in 1 .. m /\ (q + n) - k = ((p + m) - k) + 1
          BY <3>7, <3>8, <3>9, <4>3, <4>4
        <5> QED
          BY <3>7, <3>9, <3>10, <4>2, <4>3, <4>4, <5>1
      <4> QED
        BY <3>7, <3>9, <4>3, <4>4
    <3> QED
      BY <1>11, <3>12, <3>13, <3>14
  <2>5. OnWay(r)'
    <3>1. CASE r.at = at
      BY <1>3, <2>3, <2>4, <3>1 DEF OnWay
    <3>2. CASE r.at # at
      BY <2>1, <2>3, <3>2 DEF Fine, OnWay, Live, Pushed
    <3> QED
      BY <3>1, <3>2
  <2> QED
    BY <1>6, <1>7, <2>1, <2>2, <2>5
<1> QED
  BY <1>8, <1>9, <1>10, <1>11 DEF ReaderSteps

(***************************************************************************)
(* What the steps of the requests do.                                      *)
(***************************************************************************)
StatsStands == UNCHANGED <<statsDb, statsReader, statsReceived>>

LEMMA RequestStep ==
  ASSUME StatsAssumption, StatsInv, StatsStands, NEW w \in StatsBrowsers,
         NEW r, Fine(r), statsWeb' = [statsWeb EXCEPT ![w] = r]
  PROVE  StatsInv'
<1>1. /\ statsDb' = statsDb /\ statsReader' = statsReader /\ statsReceived' = statsReceived
  BY DEF StatsStands
<1>2. r \in WalkRequests /\ statsWeb \in [StatsBrowsers -> WalkRequests]
  BY DEF Fine, StatsInv, StatsTypes
<1>3. StatsTypes' /\ Recording' /\ Kept' /\ Recorded'
  <2>1. StatsTypes'
    BY <1>1, <1>2 DEF StatsInv, StatsTypes
  <2>2. Recording' /\ Recorded'
    BY <1>1 DEF StatsInv, Recording, Recorded
  <2>3. Kept'
    BY <1>1 DEF StatsInv, Kept, Newest, Pushing, Stamped, StatsSuccessive
  <2> QED
    BY <2>1, <2>2, <2>3
<1>4. \A q : Fine(q) => Fine(q)'
  BY <1>1 DEF Fine, Stamped, StatsSuccessive, Told, Beyond, OnWay, Live, Pushed
<1>5. Collected'
  BY <1>2, <1>4 DEF StatsInv, Collected
<1> QED
  BY <1>3, <1>5 DEF StatsInv

(* A place of the iterator of the map: its node is of a frame before.       *)
LEMMA NodeStamped ==
  ASSUME StatsAssumption, StatsInv, NEW x
  PROVE  NodeOf(x) \in Nat /\ Stamped(NodeOf(x))
<1>1. CASE x \in DOMAIN statsDb
  BY <1>1, NodeHas DEF NodeOf, StatsInv, Kept
<1>2. CASE x \notin DOMAIN statsDb
  <2>1. Len(statsReceived) \in Nat /\ (statsReceived # <<>> => 0 < Len(statsReceived))
    BY ReceivedHas DEF StatsInv
  <2> QED
    BY <1>2, <2>1 DEF NodeOf, Stamped, StatsInv, Recording
<1> QED
  BY <1>1, <1>2

(* A request that has collected nothing.                                    *)
LEMMA NothingYet ==
  /\ <<>> \in Histories /\ Len(<<>>) = 0 /\ <<>> \in Answers /\ Told(<<>>)
  /\ \A x : StatsSuccessive(<<>>, x)
BY DEF Histories, Answers, Told, StatsSuccessive

LEMMA FreshFine ==
  ASSUME StatsAssumption, StatsInv, NEW r \in WalkRequests, Stamped(r.node),
         r.entries = <<>>, r.answer = <<>>,
         r.pc \in {"compares", "reads", "moves", "counts", "copies"} /\ Live(r) =>
           r.eit = Pushed(r.at)
  PROVE  Fine(r)
<1>1. StatsSuccessive(r.entries, r.at) /\ Len(r.entries) <= StatsMaxHistory /\ Told(r.answer)
  BY NothingYet DEF StatsAssumption
<1>2. Beyond(r)
  BY DEF Beyond
<1>3. r.eit \in Nat
  BY DEF WalkRequests
<1>4. OnWay(r)
  <2> SUFFICES ASSUME r.eit = Pushed(r.at)
               PROVE  r.eit + Len(r.entries) <= Pushed(r.at)
    BY DEF OnWay
  <2> QED
    BY <1>3
<1> QED
  BY <1>1, <1>2, <1>4 DEF Fine

(* The request at a node that is there.                                     *)
LEMMA RequestHas ==
  ASSUME StatsAssumption, StatsInv, NEW w \in StatsBrowsers, NEW q, q = statsWeb[w]
  PROVE  /\ Fine(q) /\ q \in WalkRequests /\ q.pc \in StatsPlaces
         /\ q.at \in Nat /\ q.node \in Nat /\ q.eit \in Nat /\ q.end \in Nat
         /\ q.entries \in Histories /\ q.answer \in Answers
         /\ LiveNode(w) <=> Live(q)
<1>1. Fine(q) /\ q \in WalkRequests
  BY DEF StatsInv, Collected, Fine
<1> QED
  BY <1>1 DEF WalkRequests, LiveNode, Live

LEMMA PushedHas ==
  ASSUME StatsAssumption, StatsInv, NEW x \in DOMAIN statsDb
  PROVE  Pushed(x) \in Nat
<1>1. statsDb[x].popped \in Nat /\ statsDb[x].values \in Histories
  BY NodeHas DEF StatsInv
<1> QED
  BY <1>1, HistoryHas DEF Pushed

(* A request that only goes on to another place: nothing it has is undone.  *)
LEMMA PlaceFine ==
  ASSUME StatsAssumption, StatsInv, NEW q \in WalkRequests, Fine(q), NEW r \in WalkRequests,
         r.at = q.at, r.node = q.node, r.eit = q.eit, r.entries = q.entries,
         r.answer = q.answer, r.pc = "iterates" => r.entries = <<>>,
         \/ r.pc \in {"answers", "astray"}
         \/ q.pc \in {"compares", "reads"} /\ r.pc \in {"moves", "reads", "compares"}
         \/ q.pc = "counts" /\ r.pc = "copies"
  PROVE  Fine(r)
<1>1. Beyond(r)
  BY DEF Fine, Beyond
<1>2. OnWay(r)
  BY DEF Fine, OnWay, Live
<1> QED
  BY <1>1, <1>2 DEF Fine

LEMMA ReadsFine ==
  ASSUME StatsAssumption, StatsInv, NEW w \in StatsBrowsers, StatsReads(w)
  PROVE  StatsInv'
<1>1. PICK q : q = statsWeb[w]
  OBVIOUS
<1>2. /\ Fine(q) /\ q \in WalkRequests /\ q.pc \in StatsPlaces
      /\ q.at \in Nat /\ q.node \in Nat /\ q.eit \in Nat /\ q.end \in Nat
      /\ q.entries \in Histories /\ q.answer \in Answers /\ (LiveNode(w) <=> Live(q))
  BY <1>1, RequestHas
<1>3. /\ q.pc \in {"reads", "copies"} /\ Live(q) /\ q.at \in DOMAIN statsDb
  BY <1>1, <1>2 DEF StatsReads, AtEntry, LiveEntry, Live
<1>4. PICK h, p, m, u : /\ h = statsDb[q.at].values /\ p = statsDb[q.at].popped
                        /\ m = Len(h) /\ u = Pushed(q.at)
  OBVIOUS
<1>5. /\ h \in Histories /\ p \in Nat /\ m \in Nat /\ DOMAIN h = 1 .. m /\ u = p + m
      /\ StatsSuccessive(h, q.at) /\ m <= StatsMaxHistory
  <2>1. h \in Histories /\ p \in Nat
    BY <1>3, <1>4, NodeHas DEF StatsInv
  <2>2. m \in Nat /\ DOMAIN h = 1 .. m
    BY <1>4, <2>1, HistoryHas
  <2>3. u = p + m
    BY <1>4 DEF Pushed
  <2>4. Newest(h, q.at)
    BY <1>3, <1>4 DEF StatsInv, Kept
  <2> QED
    BY <1>4, <2>1, <2>2, <2>3, <2>4 DEF Newest
<1>6. PICK e, l, k : e = q.entries /\ l = Len(e) /\ k = q.eit
  OBVIOUS
<1>7. /\ e \in Histories /\ l \in Nat /\ k \in Nat /\ (e # <<>> <=> l >= 1)
      /\ StatsSuccessive(e, q.at)
  BY <1>2, <1>6, HistoryHas DEF Fine
<1>8. p < k /\ k <= u
  BY <1>1, <1>4, <1>6 DEF StatsReads, LiveEntry
<1>9. k + l <= u /\ (e # <<>> => e[l] = h[u - k])
  <2>1. k >= p
    BY <1>5, <1>7, <1>8
  <2> QED
    BY <1>2, <1>3, <1>4, <1>6, <2>1 DEF Fine, OnWay
<1>10. PICK i : i = (u + 1) - k
  OBVIOUS
<1>11. i \in DOMAIN h /\ (e # <<>> => i > 1 /\ u - k = i - 1)
  BY <1>5, <1>7, <1>8, <1>9, <1>10
<1>12. PICK g : g = WithNext(e, h, i)
  OBVIOUS
<1>13. /\ g \in Histories /\ Len(g) = Len(e) + 1 /\ g[Len(g)] = h[i] /\ g # <<>>
       /\ StatsSuccessive(g, q.at)
  <2>1. NextIn(e, h, i)
    BY <1>6, <1>9, <1>11 DEF NextIn
  <2>2. IsWithNext(g, e, h, i, q.at)
    BY <1>5, <1>7, <1>11, <1>12, <2>1, AppendKeeps
  <2> QED
    BY <2>2 DEF IsWithNext
<1>14. PICK c : c = IF q.pc = "reads" THEN "compares" ELSE q.pc
  OBVIOUS
<1>15. PICK r : r = [q EXCEPT !.pc = c, !.eit = k - 1, !.entries = g]
  OBVIOUS
<1>16. statsWeb' = [statsWeb EXCEPT ![w] = r] /\ StatsStands
  <2>1. Pushed(statsWeb[w].at) = u /\ statsWeb[w].eit = k
    BY <1>1, <1>4, <1>6
  <2>3. u + (1 - k) = (u + 1) - k
    BY <1>5, <1>7
  <2>4. Pushed(statsWeb[w].at) + 1 - statsWeb[w].eit = i
    BY <1>10, <2>1, <2>3
  <2>2. r = [statsWeb[w] EXCEPT !.pc = IF @ = "reads" THEN "compares" ELSE @,
                                !.eit = @ - 1, !.entries = Append(@, h[i])]
    BY <1>1, <1>2, <1>6, <1>12, <1>14, <1>15 DEF WalkRequests, WithNext
  <2> QED
    BY <1>1, <1>4, <2>4, <2>2 DEF StatsReads, StatsGoesOn, StatsStands
<1>17. /\ r \in WalkRequests /\ r.pc = c /\ r.at = q.at /\ r.node = q.node /\ r.eit = k - 1
       /\ r.entries = g /\ r.answer = q.answer
  <2>1. k - 1 \in Nat /\ c \in StatsPlaces
    BY <1>2, <1>5, <1>7, <1>8, <1>14 DEF StatsPlaces
  <2> QED
    BY <1>2, <1>13, <1>15, <2>1 DEF WalkRequests
<1>18. Len(r.entries) <= StatsMaxHistory
  BY <1>5, <1>6, <1>7, <1>8, <1>9, <1>13, <1>17 DEF StatsAssumption
<1>19. OnWay(r)
  <2>1. r.eit + Len(r.entries) <= Pushed(r.at)
    <3>1. PICK n : n = Len(r.entries)
      OBVIOUS
    <3>2. n = l + 1 /\ r.eit = k - 1 /\ Pushed(r.at) = u
      BY <1>4, <1>6, <1>13, <1>17, <3>1
    <3>3. (k - 1) + (l + 1) <= u
      BY <1>5, <1>7, <1>9
    <3> QED
      BY <3>1, <3>2, <3>3
  <2>2. r.entries[Len(r.entries)] = statsDb[r.at].values[Pushed(r.at) - r.eit]
    <3>1. u - (k - 1) = i
      BY <1>5, <1>7, <1>10
    <3> QED
      BY <1>4, <1>13, <1>17, <3>1
  <2> QED
    BY <2>1, <2>2 DEF OnWay
<1>20. Beyond(r) /\ r.pc # "iterates"
  BY <1>2, <1>3, <1>14, <1>17 DEF Fine, Beyond
<1>21. Fine(r)
  BY <1>2, <1>13, <1>17, <1>18, <1>19, <1>20 DEF Fine
<1> QED
  BY <1>16, <1>21, RequestStep

LEMMA MovesFine ==
  ASSUME StatsAssumption, StatsInv, NEW w \in StatsBrowsers, StatsMoves(w)
  PROVE  StatsInv'
<1>1. PICK q : q = statsWeb[w]
  OBVIOUS
<1>2. /\ Fine(q) /\ q \in WalkRequests
      /\ q.at \in Nat /\ q.node \in Nat /\ q.eit \in Nat /\ q.end \in Nat
      /\ q.entries \in Histories /\ q.answer \in Answers /\ (LiveNode(w) <=> Live(q))
  BY <1>1, RequestHas
<1>3. q.pc = "moves" /\ q.at # 0
  <2>1. q.pc = "moves" /\ q.at \in DOMAIN statsDb
    BY <1>1 DEF StatsMoves, LiveNode
  <2> QED
    BY <2>1, NodeHas DEF StatsInv
<1>4. PICK y, k : y = Following(q.at) /\ k = NodeOf(y)
  OBVIOUS
<1>5. y \in Nat /\ (y # 0 => q.at < y) /\ k \in Nat /\ Stamped(k)
  BY <1>2, <1>4, FollowingGoesUp, NodeStamped DEF StatsInv
<1>6. PICK t, a, n : t = <<q.at, q.entries>> /\ a = Append(q.answer, t) /\ n = Len(q.answer)
  OBVIOUS
<1>7. /\ n \in Nat /\ DOMAIN q.answer = 1 .. n /\ a \in Answers
      /\ DOMAIN a = 1 .. n + 1 /\ a[n + 1] = t /\ \A i \in 1 .. n : a[i] = q.answer[i]
  <2>1. q.answer \in Seq(Nat \X Histories)
    BY <1>2 DEF Answers
  <2>2. t \in Nat \X Histories
    BY <1>2, <1>3, <1>6
  <2> QED
    BY <1>6, <2>1, <2>2 DEF Answers
<1>8. t[1] = q.at /\ t[2] = q.entries
  BY <1>6
<1>9. \A i \in 1 .. n : q.answer[i][1] < q.at /\ q.answer[i][1] \in Nat
  BY <1>2, <1>3, <1>7, AnswerHas DEF Fine, Beyond
<1>10. \A i \in DOMAIN a : i # n + 1 => i \in 1 .. n
  BY <1>7
<1>11. Told(a)
  <2>1. ASSUME NEW i \in DOMAIN a
        PROVE  StatsSuccessive(a[i][2], a[i][1]) /\ Len(a[i][2]) <= StatsMaxHistory
    <3>1. CASE i = n + 1
      BY <1>2, <1>7, <1>8, <3>1 DEF Fine
    <3>2. CASE i # n + 1
      BY <1>2, <1>7, <1>10, <3>2 DEF Fine, Told
    <3> QED
      BY <3>1, <3>2
  <2>2. ASSUME NEW i \in DOMAIN a, NEW j \in DOMAIN a, i < j PROVE a[i][1] < a[j][1]
    <3>0. i # n + 1 /\ i \in 1 .. n
      BY <1>7, <2>2
    <3>1. CASE j = n + 1
      BY <1>7, <1>8, <1>9, <3>0, <3>1
    <3>2. CASE j # n + 1
      <4>1. q.answer[i][1] < q.answer[j][1]
        BY <1>2, <1>7, <1>10, <2>2, <3>0, <3>2 DEF Fine, Told
      <4> QED
        BY <1>7, <1>10, <3>0, <3>2, <4>1
    <3> QED
      BY <3>1, <3>2
  <2> QED
    BY <2>1, <2>2 DEF Told
<1>12. ASSUME y # 0 PROVE \A i \in DOMAIN a : a[i][1] < y
  <2> SUFFICES ASSUME NEW i \in DOMAIN a PROVE a[i][1] < y
    OBVIOUS
  <2>1. CASE i = n + 1
    BY <1>5, <1>7, <1>8, <1>12, <2>1
  <2>2. CASE i # n + 1
    <3>1. i \in 1 .. n /\ a[i] = q.answer[i]
      BY <1>7, <1>10, <2>2
    <3>2. q.answer[i][1] < q.at /\ q.answer[i][1] \in Nat
      BY <1>9, <3>1
    <3> QED
      BY <1>2, <1>5, <1>12, <3>1, <3>2
  <2> QED
    BY <2>1, <2>2
<1>13. PICK r : r = [q EXCEPT !.pc = "iterates", !.at = y, !.node = k,
                              !.entries = <<>>, !.answer = a]
  OBVIOUS
<1>14. statsWeb' = [statsWeb EXCEPT ![w] = r] /\ StatsStands
  <2>1. r = [statsWeb[w] EXCEPT !.pc = "iterates", !.at = y, !.node = k,
                                !.entries = <<>>, !.answer = Append(@, t)]
    BY <1>1, <1>2, <1>6, <1>13 DEF WalkRequests
  <2> QED
    BY <1>1, <1>4, <1>6, <2>1 DEF StatsMoves, StatsGoesOn, StatsStands
<1>15. /\ r \in WalkRequests /\ r.pc = "iterates" /\ r.at = y /\ r.node = k
       /\ r.entries = <<>> /\ r.answer = a
  BY <1>2, <1>5, <1>7, <1>13, NothingYet DEF WalkRequests, StatsPlaces
<1>16. Beyond(r) /\ OnWay(r)
  BY <1>12, <1>15 DEF Beyond, OnWay
<1>17. StatsSuccessive(r.entries, r.at) /\ Len(r.entries) <= StatsMaxHistory
  BY <1>15, NothingYet DEF StatsAssumption
<1>18. Fine(r)
  BY <1>5, <1>11, <1>15, <1>16, <1>17 DEF Fine
<1> QED
  BY <1>14, <1>18, RequestStep

LEMMA CopiedFine ==
  ASSUME StatsAssumption, StatsInv, NEW w \in StatsBrowsers, StatsCopied(w)
  PROVE  StatsInv'
<1>1. PICK q : q = statsWeb[w]
  OBVIOUS
<1>2. /\ Fine(q) /\ q \in WalkRequests /\ q.at \in Nat /\ q.entries \in Histories
  BY <1>1, RequestHas
<1>3. PICK t, a : t = <<q.at, q.entries>> /\ a = <<t>>
  OBVIOUS
<1>4. t[1] = q.at /\ t[2] = q.entries /\ DOMAIN a = {1} /\ a[1] = t
  BY <1>3
<1>5. Told(a)
  BY <1>2, <1>4 DEF Told, Fine
<1>6. PICK r : r = [q EXCEPT !.pc = "answers", !.answer = a]
  OBVIOUS
<1>7. statsWeb' = [statsWeb EXCEPT ![w] = r] /\ StatsStands
  BY <1>1, <1>3, <1>6 DEF StatsCopied, StatsGoesOn, StatsStands
<1>8. /\ r \in WalkRequests /\ r.pc = "answers" /\ r.at = q.at /\ r.node = q.node
      /\ r.entries = q.entries /\ r.answer = a
  <2>1. a \in Answers
    BY <1>2, <1>3 DEF Answers
  <2> QED
    BY <1>2, <1>6, <2>1 DEF WalkRequests, StatsPlaces
<1>9. Beyond(r) /\ OnWay(r)
  BY <1>8 DEF Beyond, OnWay
<1>10. Fine(r)
  BY <1>2, <1>5, <1>8, <1>9 DEF Fine
<1> QED
  BY <1>7, <1>10, RequestStep

(* The steps that collect nothing and tell nothing.                         *)
LEMMA PlacesFine ==
  ASSUME StatsAssumption, StatsInv, NEW w \in StatsBrowsers,
         \/ StatsEnters(w) \/ StatsCompares(w) \/ StatsAnswers(w)
         \/ StatsCounts(w) \/ StatsStrays(w)
  PROVE  StatsInv'
<1>1. PICK q : q = statsWeb[w]
  OBVIOUS
<1>2. /\ Fine(q) /\ q \in WalkRequests
      /\ q.at \in Nat /\ q.node \in Nat /\ q.eit \in Nat /\ q.end \in Nat
      /\ q.entries \in Histories /\ q.answer \in Answers /\ (LiveNode(w) <=> Live(q))
  BY <1>1, RequestHas
<1>3. CASE StatsEnters(w)
  <2>1. q.pc = "iterates" /\ q.at \in DOMAIN statsDb /\ q.entries = <<>>
    BY <1>1, <1>2, <1>3 DEF StatsEnters, LiveNode, Fine
  <2>2. PICK u : u = Pushed(q.at)
    OBVIOUS
  <2>3. u \in Nat
    BY <2>1, <2>2, PushedHas
  <2>4. PICK r : r = [q EXCEPT !.pc = "compares", !.eit = u]
    OBVIOUS
  <2>5. statsWeb' = [statsWeb EXCEPT ![w] = r] /\ StatsStands
    BY <1>1, <1>3, <2>2, <2>4 DEF StatsEnters, StatsGoesOn, StatsStands
  <2>6. /\ r \in WalkRequests /\ r.pc = "compares" /\ r.at = q.at /\ r.node = q.node
        /\ r.eit = u /\ r.entries = <<>> /\ r.answer = q.answer
    BY <1>2, <2>1, <2>3, <2>4 DEF WalkRequests, StatsPlaces
  <2>7. u + Len(<<>>) <= u
    BY <2>3, NothingYet
  <2>8. Beyond(r) /\ OnWay(r)
    BY <1>2, <2>1, <2>2, <2>6, <2>7 DEF Fine, Beyond, OnWay
  <2>9. Fine(r)
    BY <1>2, <2>1, <2>6, <2>8 DEF Fine
  <2> QED
    BY <2>5, <2>9, RequestStep
<1>4. CASE StatsCompares(w)
  <2>1. q.pc = "compares"
    BY <1>1, <1>4 DEF StatsCompares
  <2>2. PICK c \in {"moves", "reads"} :
          StatsGoesOn(w, [q EXCEPT !.pc = c])
    BY <1>1, <1>4 DEF StatsCompares
  <2>3. PICK r : r = [q EXCEPT !.pc = c]
    OBVIOUS
  <2>4. /\ r \in WalkRequests /\ r.pc = c /\ r.at = q.at /\ r.node = q.node
        /\ r.eit = q.eit /\ r.entries = q.entries /\ r.answer = q.answer
    BY <1>2, <2>2, <2>3 DEF WalkRequests, StatsPlaces
  <2>5. Fine(r)
    BY <1>2, <2>1, <2>2, <2>4, PlaceFine
  <2> QED
    BY <2>2, <2>3, <2>5, RequestStep DEF StatsGoesOn, StatsStands
<1>5. CASE StatsAnswers(w) \/ StatsStrays(w)
  <2>1. PICK c \in {"answers", "astray"} :
          StatsGoesOn(w, [q EXCEPT !.pc = c])
    BY <1>1, <1>5 DEF StatsAnswers, StatsStrays
  <2>2. PICK r : r = [q EXCEPT !.pc = c]
    OBVIOUS
  <2>3. /\ r \in WalkRequests /\ r.pc = c /\ r.at = q.at /\ r.node = q.node
        /\ r.eit = q.eit /\ r.entries = q.entries /\ r.answer = q.answer
    BY <1>2, <2>1, <2>2 DEF WalkRequests, StatsPlaces
  <2>4. Fine(r)
    BY <1>2, <2>1, <2>3, PlaceFine
  <2> QED
    BY <2>1, <2>2, <2>4, RequestStep DEF StatsGoesOn, StatsStands
<1>6. CASE StatsCounts(w)
  <2>1. q.pc = "counts" /\ q.at \in DOMAIN statsDb
    BY <1>1, <1>6 DEF StatsCounts, LiveNode
  <2>2. PICK p : p = statsDb[q.at].popped
    OBVIOUS
  <2>3. p \in Nat
    BY <2>1, <2>2, NodeHas DEF StatsInv
  <2>4. PICK r : r = [q EXCEPT !.pc = "copies", !.end = p]
    OBVIOUS
  <2>5. statsWeb' = [statsWeb EXCEPT ![w] = r] /\ StatsStands
    BY <1>1, <1>6, <2>2, <2>4 DEF StatsCounts, StatsGoesOn, StatsStands
  <2>6. /\ r \in WalkRequests /\ r.pc = "copies" /\ r.at = q.at /\ r.node = q.node
        /\ r.eit = q.eit /\ r.entries = q.entries /\ r.answer = q.answer
    BY <1>2, <2>3, <2>4 DEF WalkRequests, StatsPlaces
  <2>7. Fine(r)
    BY <1>2, <2>1, <2>6, PlaceFine
  <2> QED
    BY <2>5, <2>7, RequestStep
<1> QED
  BY <1>3, <1>4, <1>5, <1>6

(* A request ends, or begins.                                               *)
LEMMA IdleFine ==
  ASSUME StatsAssumption, StatsInv
  PROVE  Fine(StatsIdle) /\ StatsIdle \in WalkRequests
<1>1. /\ StatsIdle \in WalkRequests /\ StatsIdle.node = 0 /\ StatsIdle.entries = <<>>
      /\ StatsIdle.answer = <<>> /\ StatsIdle.pc = "idle"
  BY NothingYet DEF StatsIdle, WalkRequests, StatsPlaces
<1>2. Stamped(0)
  <2>1. 0 \notin DOMAIN statsDb
    BY NodeHas DEF StatsInv
  <2> QED
    BY <2>1, NodeStamped DEF NodeOf
<1> QED
  BY <1>1, <1>2, FreshFine

LEMMA EndsFine ==
  ASSUME StatsAssumption, StatsInv, NEW w \in StatsBrowsers,
         \/ ApiGetGlobalHistory(w) \/ StatsReplies(w)
         \/ \E x \in StatsAddresses : ApiGetAddressHistory(w, x)
  PROVE  StatsInv'
<1>0. /\ StatsIdle.node = 0 /\ StatsIdle.entries = <<>> /\ StatsIdle.answer = <<>>
      /\ StatsIdle \in WalkRequests
  BY IdleFine DEF StatsIdle
<1>1. CASE StatsReplies(w)
  BY <1>1, IdleFine, RequestStep DEF StatsReplies, StatsGoesOn, StatsStands
<1>2. CASE ApiGetGlobalHistory(w)
  <2>1. PICK x, k : x = First /\ k = NodeOf(x)
    OBVIOUS
  <2>2. x \in Nat /\ k \in Nat /\ Stamped(k)
    <3>1. DOMAIN statsDb \subseteq Nat
      BY NodeHas DEF StatsInv
    <3> QED
      BY <2>1, <3>1, LeastIsFirst, NodeStamped DEF First
  <2>3. PICK r : r = [StatsIdle EXCEPT !.pc = "iterates", !.at = x, !.node = k]
    OBVIOUS
  <2>4. /\ r \in WalkRequests /\ r.pc = "iterates" /\ r.node = k /\ r.entries = <<>>
        /\ r.answer = <<>>
    BY <1>0, <2>2, <2>3 DEF WalkRequests, StatsPlaces
  <2>5. Fine(r)
    BY <2>2, <2>4, FreshFine
  <2>6. statsWeb' = [statsWeb EXCEPT ![w] = r] /\ StatsStands
    BY <1>2, <2>1, <2>3 DEF ApiGetGlobalHistory, StatsBegins, StatsStands
  <2> QED
    BY <2>5, <2>6, RequestStep
<1>3. ASSUME NEW x \in StatsAddresses, ApiGetAddressHistory(w, x) PROVE StatsInv'
  <2>0. StatsStands
    BY <1>3 DEF ApiGetAddressHistory, StatsBegins, StatsStands
  <2>1. CASE x \in DOMAIN statsDb
    <3>1. PICK k, u : k = NodeOf(x) /\ u = Pushed(x)
      OBVIOUS
    <3>2. k \in Nat /\ Stamped(k) /\ u \in Nat /\ x \in Nat
      BY <2>1, <3>1, NodeStamped, PushedHas, NodeHas DEF StatsInv
    <3>3. PICK r : r = [StatsIdle EXCEPT !.pc = "counts", !.at = x, !.node = k, !.eit = u]
      OBVIOUS
    <3>4. /\ r \in WalkRequests /\ r.pc = "counts" /\ r.at = x /\ r.node = k /\ r.eit = u
          /\ r.entries = <<>> /\ r.answer = <<>>
      BY <1>0, <3>2, <3>3 DEF WalkRequests, StatsPlaces
    <3>5. Fine(r)
      BY <3>1, <3>2, <3>4, FreshFine
    <3>6. statsWeb' = [statsWeb EXCEPT ![w] = r]
      BY <1>3, <2>1, <3>1, <3>3 DEF ApiGetAddressHistory
    <3> QED
      BY <2>0, <3>5, <3>6, RequestStep
  <2>2. CASE x \notin DOMAIN statsDb
    <3>1. PICK r : r = [StatsIdle EXCEPT !.pc = "answers"]
      OBVIOUS
    <3>2. /\ r \in WalkRequests /\ r.pc = "answers" /\ r.at = StatsIdle.at
          /\ r.node = StatsIdle.node /\ r.eit = StatsIdle.eit
          /\ r.entries = StatsIdle.entries /\ r.answer = StatsIdle.answer
      BY <1>0, <3>1 DEF WalkRequests, StatsPlaces
    <3>3. Fine(r)
      BY <3>2, IdleFine, PlaceFine
    <3>4. statsWeb' = [statsWeb EXCEPT ![w] = r]
      BY <1>3, <2>2, <3>1 DEF ApiGetAddressHistory
    <3> QED
      BY <2>0, <3>3, <3>4, RequestStep
  <2> QED
    BY <2>1, <2>2
<1> QED
  BY <1>1, <1>2, <1>3

LEMMA StatsInvStays ==
  ASSUME StatsAssumption, StatsInv, StatsNext
  PROVE  StatsInv'
<1>1. CASE ReaderSteps
  <2>1. statsWeb' = statsWeb
    BY <1>1, FrameDoes, EvictsDoes, InsertsDoes, PopsDoes, PushesDoes DEF ReaderSteps
  <2>2. \A q : Fine(q) => Fine(q)'
    BY <1>1, ReaderStepFine
  <2>3. Collected'
    BY <2>1, <2>2 DEF StatsInv, Collected
  <2> QED
    BY <1>1, <2>3, ReaderStepTypes, ReaderStepKept DEF StatsInv
<1>2. ASSUME NEW w \in StatsBrowsers,
             \/ ApiGetGlobalHistory(w) \/ StatsEnters(w) \/ StatsCompares(w) \/ StatsReads(w)
             \/ StatsMoves(w) \/ StatsAnswers(w) \/ StatsCounts(w) \/ StatsCopied(w)
             \/ StatsStrays(w) \/ StatsReplies(w)
             \/ \E x \in StatsAddresses : ApiGetAddressHistory(w, x)
      PROVE  StatsInv'
  BY <1>2, ReadsFine, MovesFine, CopiedFine, PlacesFine, EndsFine
<1> QED
  BY <1>1, <1>2 DEF StatsNext, ReaderSteps

(* Whatever frames arrive and whoever asks, and wherever the reader is while *)
(* a request walks: what a browser reads of an address are values that came  *)
(* for it one after the other, the newest first and none missing between     *)
(* them, the addresses going up, unless it uses what is gone; and what the   *)
(* reader has recorded is there (CStatsDB::AddRecord,                        *)
(* CEIBObjectRecord::AddRecord, CWebHandler::ApiGetGlobalHistory).           *)
THEOREM StatsAlwaysNewestFirst ==
  StatsInit /\ [][StatsNext]_statsVars => []StatsNewestFirst
<1>1. StatsInit => StatsInv
  <2> SUFFICES ASSUME StatsInit PROVE StatsInv
    OBVIOUS
  <2>1. /\ statsDb = [a \in {} |-> <<>>] /\ statsReader = [pc |-> "reads", of |-> 0]
        /\ statsWeb = [w \in StatsBrowsers |-> StatsIdle] /\ statsReceived = <<>>
    BY DEF StatsInit
  <2>2. /\ StatsIdle \in WalkRequests /\ StatsIdle.node = 0 /\ StatsIdle.entries = <<>>
        /\ StatsIdle.answer = <<>> /\ StatsIdle.pc = "idle"
    BY NothingYet DEF StatsIdle, WalkRequests, StatsPlaces
  <2>3. StatsTypes
    BY <2>1, <2>2 DEF StatsTypes, ReaderPlaces
  <2>4. Recording /\ Kept /\ Recorded
    BY <2>1 DEF Recording, Kept, Recorded
  <2>5. Fine(StatsIdle)
    <3>1. Stamped(0)
      BY <2>1 DEF Stamped
    <3>2. Beyond(StatsIdle) /\ OnWay(StatsIdle)
      BY <2>2 DEF Beyond, OnWay
    <3> QED
      BY <2>2, <3>1, <3>2, NothingYet, StatsAssumption DEF Fine, StatsAssumption
  <2>6. Collected
    BY <2>1, <2>5 DEF Collected
  <2> QED
    BY <2>3, <2>4, <2>6 DEF StatsInv
<1>2. StatsInv /\ [StatsNext]_statsVars => StatsInv'
  <2>1. StatsInv /\ UNCHANGED statsVars => StatsInv'
    <3> SUFFICES ASSUME StatsInv, UNCHANGED statsVars PROVE StatsInv'
      OBVIOUS
    <3>1. /\ statsDb' = statsDb /\ statsReader' = statsReader
          /\ statsReceived' = statsReceived /\ statsWeb' = statsWeb
      BY DEF statsVars
    <3>2. StatsTypes' /\ Recording' /\ Recorded'
      BY <3>1 DEF StatsInv, StatsTypes, Recording, Recorded
    <3>3. Kept'
      BY <3>1 DEF StatsInv, Kept, Newest, Pushing, Stamped, StatsSuccessive
    <3>4. \A q : Fine(q) => Fine(q)'
      BY <3>1 DEF Fine, Stamped, StatsSuccessive, Told, Beyond, OnWay, Live, Pushed
    <3>5. Collected'
      BY <3>1, <3>4 DEF StatsInv, Collected
    <3> QED
      BY <3>2, <3>3, <3>5 DEF StatsInv
  <2> QED
    BY <2>1, StatsAssumption, StatsInvStays
<1>3. StatsInv => StatsNewestFirst
  BY DEF StatsInv, Collected, Fine, Told, Recorded, StatsNewestFirst
<1> QED
  BY <1>1, <1>2, <1>3, PTL

(***************************************************************************)
(* The monitor of the threads library: a recursive mutex over two pthread   *)
(* mutexes, with the condition variable, has Mesa semantics.                *)
(*                                                                         *)
(* The inductive invariant says who is where: the owner of the count is in *)
(* one of the places between taking and giving it up (Owns); m_lock is held*)
(* by the owner, except while it still waits for it, or by a thread on its *)
(* way to or from sleep (Locks); m_internal is held by a thread that has   *)
(* the count and waits for m_lock.  It follows that only one thread sends  *)
(* notifications, and that nobody is on its way to sleep meanwhile.        *)
(***************************************************************************)
JtcOwned   == {"take", "in", "unlock", "send", "send and wait", "reset"}
JtcSending == {"send", "send and wait"}
JtcPlaces  == JtcOwned \cup {"out", "lock", "spin", "sleep", "asleep", "woken", "helper"}

JtcState == [pc : JtcPlaces, count : Nat \ {0}, send : Nat \cup {-1}]

JtcTypes ==
  /\ jtcInternal \in JtcThreads \cup {JtcNone}
  /\ jtcLock \in JtcThreads \cup {JtcNone}
  /\ jtcOwner \in JtcThreads \cup {JtcNone}
  /\ jtcCount \in Nat
  /\ jtcNotify \in Nat \cup {-1}
  /\ jtcThread \in [JtcThreads -> JtcState]

Owns ==
  /\ jtcCount = 0 <=> jtcOwner = JtcNone
  /\ \A t \in JtcThreads : /\ jtcThread[t].pc \in JtcOwned => jtcOwner = t
                           /\ jtcOwner = t => jtcThread[t].pc \in JtcOwned \cup {"lock"}
                           /\ jtcThread[t].pc = "send" => jtcCount = 1

Locks ==
  /\ \A t \in JtcThreads : jtcInternal = t <=> jtcThread[t].pc = "take"
  /\ \A t \in JtcThreads :
       jtcLock = t <=> \/ jtcOwner = t /\ jtcThread[t].pc # "take"
                       \/ jtcThread[t].pc \in {"sleep", "helper"}

Sleeps == jtcCond = {t \in JtcThreads : jtcThread[t].pc = "asleep"}

JtcInv == JtcTypes /\ Owns /\ Locks /\ Sleeps

LEMMA JtcInitInv == JtcInit => JtcInv
<1> SUFFICES ASSUME JtcInit PROVE JtcInv
  OBVIOUS
<1> USE JtcAssumption DEF JtcInit
<1>1. \A t \in JtcThreads : jtcThread[t].pc = "out"
  OBVIOUS
<1>2. JtcTypes
  BY DEF JtcTypes, JtcState, JtcPlaces
<1>3. Owns /\ Locks /\ Sleeps
  BY <1>1 DEF Owns, Locks, Sleeps, JtcOwned
<1> QED
  BY <1>2, <1>3 DEF JtcInv

(***************************************************************************)
(* One lemma per action.                                                   *)
(***************************************************************************)
LEMMA JtcTakesInv ==
  ASSUME JtcInv, NEW t \in JtcThreads, JtcTakes(t)
  PROVE  JtcInv'
<1> USE JtcAssumption DEF JtcInv, JtcAt, JtcGoes
<1>1. /\ jtcThread[t].pc = "lock" /\ jtcInternal = JtcNone
      /\ UNCHANGED <<jtcLock, jtcNotify, jtcCond>>
  BY DEF JtcTakes
<1>2. CASE jtcCount = 0
  <2>1. /\ jtcCount' = jtcThread[t].count /\ jtcOwner' = t /\ jtcInternal' = t
        /\ jtcThread' = [jtcThread EXCEPT ![t] = [@ EXCEPT !.pc = "take", !.count = 1]]
    BY <1>2 DEF JtcTakes
  <2>2. /\ jtcThread'[t].pc = "take" /\ \A u \in JtcThreads \ {t} : jtcThread'[u] = jtcThread[u]
        /\ jtcCount' \in Nat \ {0}
    BY <2>1 DEF JtcTypes, JtcState
  <2>3. JtcTypes'
    <3>1. [jtcThread[t] EXCEPT !.pc = "take", !.count = 1] \in JtcState
      <4>1. jtcThread[t] \in JtcState
        BY DEF JtcTypes
      <4>2. "take" \in JtcPlaces /\ 1 \in Nat \ {0}
        BY DEF JtcPlaces, JtcOwned
      <4> QED
        BY <4>1, <4>2 DEF JtcState
    <3>2. jtcThread' \in [JtcThreads -> JtcState]
      BY <2>1, <3>1 DEF JtcTypes, JtcState
    <3> QED
      BY <1>1, <2>1, <2>2, <3>2 DEF JtcTypes, JtcState
  <2>4. Owns'
    BY <1>1, <1>2, <2>1, <2>2 DEF JtcTypes, JtcState, Owns, JtcOwned
  <2>5. Locks'
    BY <1>1, <1>2, <2>1, <2>2 DEF JtcTypes, JtcState, Owns, Locks, JtcOwned
  <2>6. Sleeps'
    BY <1>1, <2>2 DEF Sleeps
  <2> QED
    BY <2>3, <2>4, <2>5, <2>6
<1>3. CASE jtcCount # 0 /\ jtcOwner = t
  <2>1. /\ jtcCount' = jtcCount + 1 /\ UNCHANGED <<jtcOwner, jtcInternal>>
        /\ jtcThread' = [jtcThread EXCEPT ![t].pc = "in"]
    BY <1>3 DEF JtcTakes
  <2>2. JtcTypes'
    <3>1. jtcCount' \in Nat
      BY <2>1 DEF JtcTypes, JtcState
    <3> QED
      BY <1>1, <2>1, <3>1 DEF JtcTypes, JtcState, JtcPlaces, JtcOwned
  <2>3. Owns'
    <3>1. jtcCount' # 0
      BY <2>1 DEF JtcTypes, JtcState
    <3>2. /\ jtcThread'[t].pc = "in" /\ t \in JtcThreads
          /\ \A u \in JtcThreads \ {t} : jtcThread'[u] = jtcThread[u]
      BY <2>1 DEF JtcTypes, JtcState
    <3> QED
      BY <1>3, <2>1, <3>1, <3>2 DEF Owns, JtcOwned
  <2>4. Locks'
    BY <1>1, <1>3, <2>1 DEF JtcTypes, JtcState, Owns, Locks, JtcOwned
  <2>5. Sleeps'
    BY <1>1, <2>1 DEF JtcTypes, JtcState, Sleeps
  <2> QED
    BY <2>2, <2>3, <2>4, <2>5
<1>4. CASE jtcCount # 0 /\ jtcOwner # t
  <2>1. /\ UNCHANGED <<jtcCount, jtcOwner, jtcInternal>>
        /\ jtcThread' = [jtcThread EXCEPT ![t].pc = "spin"]
    BY <1>4 DEF JtcTakes
  <2>2. JtcTypes'
    BY <1>1, <2>1 DEF JtcTypes, JtcState, JtcPlaces, JtcOwned
  <2>3. Owns'
    BY <1>1, <1>4, <2>1 DEF JtcTypes, JtcState, Owns, JtcOwned
  <2>4. Locks'
    BY <1>1, <1>4, <2>1 DEF JtcTypes, JtcState, Owns, Locks, JtcOwned
  <2>5. Sleeps'
    BY <1>1, <2>1 DEF JtcTypes, JtcState, Sleeps
  <2> QED
    BY <2>2, <2>3, <2>4, <2>5
<1> QED
  BY <1>2, <1>3, <1>4

LEMMA JtcSpinsInv ==
  ASSUME JtcInv, NEW t \in JtcThreads, JtcSpins(t)
  PROVE  JtcInv'
<1> USE JtcAssumption DEF JtcInv, JtcSpins, JtcAt, JtcGoes
<1>1. JtcTypes'
  BY DEF JtcTypes, JtcState, JtcPlaces, JtcOwned
<1>2. Owns'
  BY DEF JtcTypes, JtcState, Owns, JtcOwned
<1>3. Locks'
  BY DEF JtcTypes, JtcState, Owns, Locks, JtcOwned
<1>4. Sleeps'
  BY DEF JtcTypes, JtcState, Sleeps
<1> QED
  BY <1>1, <1>2, <1>3, <1>4

LEMMA JtcGetsInv ==
  ASSUME JtcInv, NEW t \in JtcThreads, JtcGets(t)
  PROVE  JtcInv'
<1> USE JtcAssumption DEF JtcInv, JtcGets, JtcAt, JtcGoes
<1>1. JtcTypes'
  BY DEF JtcTypes, JtcState, JtcPlaces, JtcOwned
<1>2. Owns'
  BY DEF JtcTypes, JtcState, Owns, JtcOwned
<1>3. Locks'
  BY DEF JtcTypes, JtcState, Owns, Locks, JtcOwned
<1>4. Sleeps'
  BY DEF JtcTypes, JtcState, Sleeps
<1> QED
  BY <1>1, <1>2, <1>3, <1>4

LEMMA JtcUnlocksInv ==
  ASSUME JtcInv, NEW t \in JtcThreads, JtcUnlocks(t)
  PROVE  JtcInv'
<1> USE JtcAssumption DEF JtcInv, JtcAt, JtcGoes
<1>1. /\ jtcThread[t].pc = "unlock" /\ jtcInternal = JtcNone /\ jtcCount' = jtcCount - 1
      /\ UNCHANGED <<jtcInternal, jtcNotify, jtcCond>>
  BY DEF JtcUnlocks
<1>2. jtcOwner = t /\ jtcLock = t /\ jtcCount \in Nat \ {0}
  BY <1>1 DEF JtcTypes, JtcState, Owns, Locks, JtcOwned
<1>3. CASE jtcCount = 1
  <2>1. /\ jtcCount' = 0 /\ jtcOwner' = JtcNone /\ jtcLock' = JtcNone
        /\ jtcThread' = [jtcThread EXCEPT ![t].pc = "out"]
    BY <1>1, <1>3 DEF JtcUnlocks
  <2>2. JtcTypes'
    BY <1>1, <2>1 DEF JtcTypes, JtcState, JtcPlaces
  <2>3. Owns'
    BY <1>1, <1>2, <2>1 DEF JtcTypes, JtcState, Owns, JtcOwned
  <2>4. Locks'
    BY <1>1, <1>2, <2>1 DEF JtcTypes, JtcState, Owns, Locks
  <2>5. Sleeps'
    BY <1>1, <2>1 DEF JtcTypes, JtcState, Sleeps
  <2> QED
    BY <2>2, <2>3, <2>4, <2>5
<1>4. CASE jtcCount # 1
  <2>1. /\ jtcCount' \in Nat \ {0} /\ UNCHANGED <<jtcOwner, jtcLock>>
        /\ jtcThread' = [jtcThread EXCEPT ![t].pc = "in"]
    BY <1>1, <1>2, <1>4 DEF JtcUnlocks
  <2>2. JtcTypes'
    BY <1>1, <2>1 DEF JtcTypes, JtcState, JtcPlaces, JtcOwned
  <2>3. Owns'
    BY <1>1, <1>2, <2>1 DEF JtcTypes, JtcState, Owns, JtcOwned
  <2>4. Locks'
    BY <1>1, <1>2, <2>1 DEF JtcTypes, JtcState, Owns, Locks
  <2>5. Sleeps'
    BY <1>1, <2>1 DEF JtcTypes, JtcState, Sleeps
  <2> QED
    BY <2>2, <2>3, <2>4, <2>5
<1> QED
  BY <1>3, <1>4

LEMMA JtcEntersInv ==
  ASSUME JtcInv, NEW t \in JtcThreads, JtcEnters(t)
  PROVE  JtcInv'
<1> USE JtcAssumption DEF JtcInv, JtcEnters, JtcAt, JtcGoes
<1>1. JtcTypes'
  BY DEF JtcTypes, JtcState, JtcPlaces, JtcOwned
<1>2. Owns'
  BY DEF JtcTypes, JtcState, Owns, JtcOwned
<1>3. Locks'
  BY DEF JtcTypes, JtcState, Owns, Locks, JtcOwned
<1>4. Sleeps'
  BY DEF JtcTypes, JtcState, Sleeps
<1> QED
  BY <1>1, <1>2, <1>3, <1>4

LEMMA JtcNotifiesInv ==
  ASSUME JtcInv, NEW t \in JtcThreads, JtcNotifies(t)
  PROVE  JtcInv'
<1> USE JtcAssumption DEF JtcInv, JtcNotifies, JtcAt
<1>1. JtcTypes'
  <2>1. jtcNotify' \in Nat \cup {-1}
    BY DEF JtcTypes, JtcState
  <2> QED
    BY <2>1 DEF JtcTypes, JtcState
<1>2. Owns'
  BY DEF JtcTypes, JtcState, Owns, JtcOwned
<1>3. Locks'
  BY DEF JtcTypes, JtcState, Owns, Locks, JtcOwned
<1>4. Sleeps'
  BY DEF JtcTypes, JtcState, Sleeps
<1> QED
  BY <1>1, <1>2, <1>3, <1>4

LEMMA JtcLeavesInv ==
  ASSUME JtcInv, NEW t \in JtcThreads, JtcLeaves(t)
  PROVE  JtcInv'
<1> USE JtcAssumption DEF JtcInv, JtcLeaves, JtcAt
<1>1. JtcTypes'
  BY DEF JtcTypes, JtcState, JtcPlaces, JtcOwned
<1>2. Owns'
  BY DEF JtcTypes, JtcState, Owns, JtcOwned
<1>3. Locks'
  <2>1. /\ jtcThread'[t].pc \in {"send", "unlock"} /\ jtcOwner = t
        /\ \A u \in JtcThreads \ {t} : jtcThread'[u] = jtcThread[u]
    BY DEF JtcTypes, JtcState, Owns, JtcOwned
  <2> QED
    BY <2>1 DEF Locks
<1>4. Sleeps'
  BY DEF JtcTypes, JtcState, Sleeps
<1> QED
  BY <1>1, <1>2, <1>3, <1>4

LEMMA JtcWaitsInv ==
  ASSUME JtcInv, NEW t \in JtcThreads, JtcWaits(t)
  PROVE  JtcInv'
<1> USE JtcAssumption DEF JtcInv, JtcWaits, JtcAt
<1>1. JtcTypes'
  BY DEF JtcTypes, JtcState, JtcPlaces, JtcOwned
<1>2. Owns'
  BY DEF JtcTypes, JtcState, Owns, JtcOwned
<1>3. Locks'
  BY DEF JtcTypes, JtcState, Owns, Locks, JtcOwned
<1>4. Sleeps'
  BY DEF JtcTypes, JtcState, Sleeps
<1> QED
  BY <1>1, <1>2, <1>3, <1>4

LEMMA JtcWakesSome ==
  ASSUME NEW n \in Nat \cup {-1}
  PROVE  /\ JtcWoken(n) \subseteq SUBSET jtcCond
         /\ n = 0 => JtcWoken(n) = {{}}
         /\ n = -1 => JtcWoken(n) = {jtcCond}
         /\ n > 0 /\ jtcCond = {} => JtcWoken(n) = {{}}
         /\ n > 0 /\ jtcCond # {} => JtcWoken(n) = {{w} : w \in jtcCond}
BY DEF JtcWoken

LEMMA JtcMoved ==
  ASSUME NEW r \in JtcState, NEW p \in JtcPlaces
  PROVE  /\ [r EXCEPT !.pc = p] \in JtcState
         /\ [r EXCEPT !.pc = p].pc = p /\ [r EXCEPT !.pc = p].count = r.count
         /\ [r EXCEPT !.pc = p].send = r.send
BY DEF JtcState

LEMMA JtcSentState ==
  ASSUME NEW r \in JtcState, r.pc \in JtcSending
  PROVE  /\ JtcSent(r) \in JtcState
         /\ JtcSent(r).count = r.count
         /\ r.send > 0 => JtcSent(r).pc = r.pc /\ JtcSent(r).send = r.send - 1
         /\ ~(r.send > 0) => JtcSent(r).pc = IF r.pc = "send" THEN "unlock" ELSE "reset"
<1>1. CASE r.send > 0
  BY <1>1 DEF JtcSent, JtcState
<1>2. CASE ~(r.send > 0)
  <2>1. JtcSent(r) = [r EXCEPT !.send = 0, !.pc = IF r.pc = "send" THEN "unlock" ELSE "reset"]
    BY <1>2 DEF JtcSent
  <2>2. {"unlock", "reset"} \subseteq JtcPlaces
    BY DEF JtcPlaces, JtcOwned
  <2> DEFINE place == IF r.pc = "send" THEN "unlock" ELSE "reset"
             quiet == [r EXCEPT !.send = 0]
  <2>3. quiet \in JtcState /\ quiet.count = r.count /\ quiet.pc = r.pc
    BY DEF JtcState
  <2>4. JtcSent(r) = [quiet EXCEPT !.pc = place]
    BY <2>1
  <2>5. place \in JtcPlaces
    BY <2>2
  <2> HIDE DEF quiet, place
  <2>6. JtcSent(r) \in JtcState /\ JtcSent(r).count = r.count /\ JtcSent(r).pc = place
    BY <2>3, <2>4, <2>5, JtcMoved
  <2>7. /\ JtcSent(r) \in JtcState /\ JtcSent(r).count = r.count
        /\ JtcSent(r).pc = IF r.pc = "send" THEN "unlock" ELSE "reset"
    BY <2>6 DEF place
  <2> QED
    BY <1>2, <2>7
<1> QED
  BY <1>1, <1>2

(* A sender lets some of the sleepers go, which is all it changes of others.*)
LEMMA JtcSendsCases ==
  ASSUME JtcInv, NEW t \in JtcThreads, JtcSends(t)
  PROVE  /\ jtcThread[t] \in JtcState /\ jtcThread[t].pc \in JtcSending
         /\ \E woken \in JtcWoken(jtcThread[t].send) :
              /\ jtcCond' = jtcCond \ woken
              /\ jtcThread'[t] = JtcSent(jtcThread[t])
              /\ \A w \in woken : /\ w \in JtcThreads \ {t} /\ jtcThread[w].pc = "asleep"
                                  /\ jtcThread'[w] = [jtcThread[w] EXCEPT !.pc = "woken"]
              /\ \A w \in JtcThreads : w # t /\ w \notin woken => jtcThread'[w] = jtcThread[w]
              /\ jtcThread' = [w \in JtcThreads |-> jtcThread'[w]]
<1>1. jtcThread[t] \in JtcState /\ jtcThread[t].pc \in JtcSending
  BY DEF JtcInv, JtcTypes, JtcSends, JtcSending
<1>2. PICK woken \in JtcWoken(jtcThread[t].send) :
        /\ jtcCond' = jtcCond \ woken
        /\ jtcThread' = [w \in JtcThreads |->
             IF w = t THEN JtcSent(jtcThread[t])
             ELSE IF w \in woken THEN [jtcThread[w] EXCEPT !.pc = "woken"] ELSE jtcThread[w]]
  BY DEF JtcSends
<1>3. woken \subseteq jtcCond
  BY <1>1, JtcWakesSome DEF JtcState
<1>4. \A w \in woken : w \in JtcThreads \ {t} /\ jtcThread[w].pc = "asleep"
  BY <1>1, <1>3 DEF JtcInv, Sleeps, JtcSending
<1> QED
  BY <1>1, <1>2, <1>4

LEMMA JtcSendsInv ==
  ASSUME JtcInv, NEW t \in JtcThreads, JtcSends(t)
  PROVE  JtcInv'
<1> USE JtcAssumption DEF JtcInv
<1>1. jtcThread[t] \in JtcState /\ jtcThread[t].pc \in JtcSending
  BY JtcSendsCases
<1>2. PICK woken \in JtcWoken(jtcThread[t].send) :
              /\ jtcCond' = jtcCond \ woken
              /\ jtcThread'[t] = JtcSent(jtcThread[t])
              /\ \A w \in woken : /\ w \in JtcThreads \ {t} /\ jtcThread[w].pc = "asleep"
                                  /\ jtcThread'[w] = [jtcThread[w] EXCEPT !.pc = "woken"]
              /\ \A w \in JtcThreads : w # t /\ w \notin woken => jtcThread'[w] = jtcThread[w]
              /\ jtcThread' = [w \in JtcThreads |-> jtcThread'[w]]
  BY JtcSendsCases
<1>3. UNCHANGED <<jtcInternal, jtcLock, jtcCount, jtcOwner, jtcNotify>>
  BY DEF JtcSends
<1>4. JtcSent(jtcThread[t]) \in JtcState
  BY <1>1, JtcSentState
<1>5. \A w \in woken : jtcThread'[w] \in JtcState /\ jtcThread'[w].pc = "woken"
  <2> SUFFICES ASSUME NEW w \in woken
               PROVE  jtcThread'[w] \in JtcState /\ jtcThread'[w].pc = "woken"
    OBVIOUS
  <2>1. "woken" \in JtcPlaces
    BY DEF JtcPlaces
  <2>2. jtcThread[w] \in JtcState /\ jtcThread'[w] = [jtcThread[w] EXCEPT !.pc = "woken"]
    BY <1>2 DEF JtcTypes
  <2> QED
    BY <2>1, <2>2, JtcMoved
<1>6. JtcTypes'
  <2>1. \A w \in JtcThreads : jtcThread'[w] \in JtcState
    BY <1>2, <1>4, <1>5 DEF JtcTypes
  <2> QED
    BY <1>2, <1>3, <2>1 DEF JtcTypes
<1>7. /\ jtcThread'[t].pc \in JtcSending \cup {"unlock", "reset"}
      /\ jtcThread'[t].pc = "send" => jtcThread[t].pc = "send"
  BY <1>1, <1>2, JtcSentState DEF JtcSending
<1>8. Owns'
  BY <1>1, <1>2, <1>3, <1>5, <1>7 DEF Owns, JtcOwned, JtcSending
<1>9. Locks'
  BY <1>1, <1>2, <1>3, <1>5, <1>7 DEF Owns, Locks, JtcOwned, JtcSending
<1>10. Sleeps'
  BY <1>1, <1>2, <1>5, <1>7 DEF Sleeps, JtcSending
<1> QED
  BY <1>6, <1>8, <1>9, <1>10

LEMMA JtcResetsInv ==
  ASSUME JtcInv, NEW t \in JtcThreads, JtcResets(t)
  PROVE  JtcInv'
<1> USE JtcAssumption DEF JtcInv, JtcResets, JtcAt
<1>1. JtcTypes'
  <2>1. jtcCount \in Nat \ {0}
    BY DEF JtcTypes, JtcState, Owns, JtcOwned
  <2> QED
    BY <2>1 DEF JtcTypes, JtcState, JtcPlaces
<1>2. Owns'
  BY DEF JtcTypes, JtcState, Owns, JtcOwned
<1>3. Locks'
  BY DEF JtcTypes, JtcState, Owns, Locks, JtcOwned
<1>4. Sleeps'
  BY DEF JtcTypes, JtcState, Sleeps
<1> QED
  BY <1>1, <1>2, <1>3, <1>4

LEMMA JtcSleepsInv ==
  ASSUME JtcInv, NEW t \in JtcThreads, JtcSleeps(t)
  PROVE  JtcInv'
<1> USE JtcAssumption DEF JtcInv, JtcSleeps, JtcAt, JtcGoes
<1>1. JtcTypes'
  BY DEF JtcTypes, JtcState, JtcPlaces, JtcOwned
<1>2. Owns'
  BY DEF JtcTypes, JtcState, Owns, JtcOwned
<1>3. Locks'
  BY DEF JtcTypes, JtcState, Owns, Locks, JtcOwned
<1>4. Sleeps'
  BY DEF JtcTypes, JtcState, Sleeps
<1> QED
  BY <1>1, <1>2, <1>3, <1>4

LEMMA JtcWakesUpInv ==
  ASSUME JtcInv, NEW t \in JtcThreads, JtcWakesUp(t)
  PROVE  JtcInv'
<1> USE JtcAssumption DEF JtcInv, JtcWakesUp, JtcAt, JtcGoes
<1>1. JtcTypes'
  BY DEF JtcTypes, JtcState, JtcPlaces, JtcOwned
<1>2. Owns'
  BY DEF JtcTypes, JtcState, Owns, Sleeps, JtcOwned
<1>3. Locks'
  BY DEF JtcTypes, JtcState, Owns, Locks, Sleeps, JtcOwned
<1>4. Sleeps'
  BY DEF JtcTypes, JtcState, Sleeps
<1> QED
  BY <1>1, <1>2, <1>3, <1>4

LEMMA JtcReturnsInv ==
  ASSUME JtcInv, NEW t \in JtcThreads, JtcReturns(t)
  PROVE  JtcInv'
<1> USE JtcAssumption DEF JtcInv, JtcReturns, JtcAt, JtcGoes
<1>1. JtcTypes'
  BY DEF JtcTypes, JtcState, JtcPlaces, JtcOwned
<1>2. Owns'
  BY DEF JtcTypes, JtcState, Owns, JtcOwned
<1>3. Locks'
  BY DEF JtcTypes, JtcState, Owns, Locks, JtcOwned
<1>4. Sleeps'
  BY DEF JtcTypes, JtcState, Sleeps
<1> QED
  BY <1>1, <1>2, <1>3, <1>4

LEMMA JtcHelperInv ==
  ASSUME JtcInv, NEW t \in JtcThreads, JtcHelper(t)
  PROVE  JtcInv'
<1> USE JtcAssumption DEF JtcInv, JtcHelper, JtcAt, JtcGoes
<1>1. JtcTypes'
  BY DEF JtcTypes, JtcState, JtcPlaces, JtcOwned
<1>2. Owns'
  BY DEF JtcTypes, JtcState, Owns, JtcOwned
<1>3. Locks'
  BY DEF JtcTypes, JtcState, Owns, Locks, JtcOwned
<1>4. Sleeps'
  BY DEF JtcTypes, JtcState, Sleeps
<1> QED
  BY <1>1, <1>2, <1>3, <1>4

LEMMA JtcStepInv == JtcInv /\ [JtcNext]_jtcVars => JtcInv'
<1> SUFFICES ASSUME JtcInv, [JtcNext]_jtcVars PROVE JtcInv'
  OBVIOUS
<1>1. CASE UNCHANGED jtcVars
  BY <1>1 DEF jtcVars, JtcInv, JtcTypes, Owns, Locks, Sleeps
<1>2. CASE JtcNext
  BY <1>2, JtcTakesInv, JtcSpinsInv, JtcGetsInv, JtcUnlocksInv, JtcEntersInv, JtcNotifiesInv,
     JtcLeavesInv, JtcWaitsInv, JtcSendsInv, JtcResetsInv, JtcSleepsInv, JtcWakesUpInv,
     JtcReturnsInv, JtcHelperInv DEF JtcNext
<1> QED
  BY <1>1, <1>2

LEMMA AlwaysJtcInv == JtcSpec => []JtcInv
BY JtcInitInv, JtcStepInv, PTL DEF JtcSpec

-----------------------------------------------------------------------------
(***************************************************************************)
(* The steps in terms of the monitor.                                      *)
(***************************************************************************)
Same == UNCHANGED <<jtcOwner, jtcCount, JtcWaiting, JtcPending, JtcSaved>>

(* One thread moves, and its count is kept.                                 *)
Moves(t) == /\ jtcThread'[t].count = jtcThread[t].count
            /\ \A u \in JtcThreads \ {t} : jtcThread'[u] = jtcThread[u]

LEMMA SavedKept ==
  ASSUME NEW t \in JtcThreads, Moves(t)
  PROVE  JtcSaved' = JtcSaved
BY DEF Moves, JtcSaved

(* A thread moves that does not own the count.                              *)
LEMMA OtherMoves ==
  ASSUME JtcInv, NEW t \in JtcThreads, Moves(t), jtcOwner # t,
         UNCHANGED <<jtcOwner, jtcCount, jtcNotify>>
  PROVE  JtcPending' = JtcPending
<1>1. jtcOwner # JtcNone => jtcThread'[jtcOwner] = jtcThread[jtcOwner]
  BY DEF JtcInv, JtcTypes, Moves
<1> QED
  BY <1>1 DEF JtcPending

(* A thread moves that is neither on its way to sleep nor asleep.           *)
LEMMA WaitingKept ==
  ASSUME NEW t \in JtcThreads, Moves(t), jtcCond' = jtcCond,
         jtcThread[t].pc # "sleep", jtcThread'[t].pc # "sleep"
  PROVE  JtcWaiting' = JtcWaiting
BY DEF Moves, JtcWaiting, JtcAt

LEMMA TakesRefines ==
  ASSUME JtcInv, NEW t \in JtcThreads, JtcTakes(t)
  PROVE  Mesa!Enter(t) \/ Mesa!EnterAgain(t) \/ Same
<1>1. jtcThread[t].pc = "lock" /\ jtcThread[t] \in JtcState /\ UNCHANGED <<jtcNotify, jtcCond>>
  BY DEF JtcTakes, JtcAt, JtcInv, JtcTypes
<1>2. t \notin JtcWaiting
  BY <1>1 DEF JtcInv, Sleeps, JtcWaiting, JtcAt
<1>3. CASE jtcCount = 0
  <2>1. /\ jtcCount' = jtcThread[t].count /\ jtcOwner' = t
        /\ jtcThread' = [jtcThread EXCEPT ![t] = [@ EXCEPT !.pc = "take", !.count = 1]]
    BY <1>3 DEF JtcTakes
  <2>2. /\ jtcThread'[t].pc = "take" /\ jtcThread'[t].count = 1
        /\ \A u \in JtcThreads \ {t} : jtcThread'[u] = jtcThread[u]
    BY <1>1, <2>1 DEF JtcInv, JtcTypes, JtcState
  <2>3. jtcOwner = JtcNone
    BY <1>3 DEF JtcInv, Owns
  <2>4. JtcSaved' = [JtcSaved EXCEPT ![t] = 1] /\ JtcSaved[t] = jtcThread[t].count
    BY <2>2 DEF JtcSaved
  <2>5. JtcWaiting' = JtcWaiting
    BY <1>1, <2>2 DEF JtcWaiting, JtcAt
  <2>6. JtcPending' = 0
    BY <2>1, <2>2, JtcAssumption DEF JtcPending
  <2> QED
    BY <1>2, <2>1, <2>3, <2>4, <2>5, <2>6 DEF Mesa!Enter
<1>4. CASE jtcCount # 0 /\ jtcOwner = t
  <2>1. /\ jtcCount' = jtcCount + 1 /\ UNCHANGED jtcOwner
        /\ jtcThread' = [jtcThread EXCEPT ![t].pc = "in"]
    BY <1>4 DEF JtcTakes, JtcGoes
  <2>2. jtcThread'[t].pc = "in" /\ Moves(t)
    BY <1>1, <2>1 DEF JtcInv, JtcTypes, JtcState, Moves
  <2>3. JtcPending' = JtcPending
    BY <1>1, <1>4, <2>1, <2>2, JtcAssumption DEF JtcPending
  <2> QED
    BY <1>1, <1>4, <2>1, <2>2, <2>3, SavedKept, WaitingKept DEF Mesa!EnterAgain
<1>5. CASE jtcCount # 0 /\ jtcOwner # t
  <2>1. UNCHANGED <<jtcOwner, jtcCount>> /\ jtcThread' = [jtcThread EXCEPT ![t].pc = "spin"]
    BY <1>5 DEF JtcTakes, JtcGoes
  <2>2. jtcThread'[t].pc = "spin" /\ Moves(t)
    BY <1>1, <2>1 DEF JtcInv, JtcTypes, JtcState, Moves
  <2> QED
    BY <1>1, <1>5, <2>1, <2>2, OtherMoves, SavedKept, WaitingKept DEF Same
<1> QED
  BY <1>3, <1>4, <1>5

(* The steps that a thread without the count takes on its way back in.      *)
LEMMA WaysInRefine ==
  ASSUME JtcInv, NEW t \in JtcThreads, JtcSpins(t) \/ JtcReturns(t) \/ JtcHelper(t)
  PROVE  Same
<1>1. jtcThread[t] \in JtcState /\ jtcThread[t].pc \in {"spin", "woken", "helper"}
  BY DEF JtcInv, JtcTypes, JtcSpins, JtcReturns, JtcHelper, JtcAt
<1>2. /\ UNCHANGED <<jtcOwner, jtcCount, jtcNotify, jtcCond>>
      /\ \E place \in {"lock", "helper"} : jtcThread' = [jtcThread EXCEPT ![t].pc = place]
  BY DEF JtcSpins, JtcReturns, JtcHelper, JtcGoes
<1>3. jtcThread'[t].pc \in {"lock", "helper"} /\ Moves(t)
  BY <1>1, <1>2 DEF JtcInv, JtcTypes, JtcState, Moves
<1>4. jtcOwner # t
  BY <1>1 DEF JtcInv, Owns, JtcOwned
<1> QED
  BY <1>1, <1>2, <1>3, <1>4, OtherMoves, SavedKept, WaitingKept DEF Same
(* m_lock is had, and the notifications begin at none.                      *)
LEMMA GetsRefines ==
  ASSUME JtcInv, NEW t \in JtcThreads, JtcGets(t)
  PROVE  Same
<1>1. jtcThread[t] \in JtcState /\ jtcThread[t].pc = "take" /\ jtcOwner = t
  BY DEF JtcInv, JtcTypes, Owns, JtcOwned, JtcGets, JtcAt
<1>2. /\ UNCHANGED <<jtcOwner, jtcCount, jtcCond>> /\ jtcNotify' = 0
      /\ jtcThread' = [jtcThread EXCEPT ![t].pc = "in"]
  BY DEF JtcGets, JtcGoes
<1>3. jtcThread'[t].pc = "in" /\ Moves(t)
  BY <1>1, <1>2 DEF JtcInv, JtcTypes, JtcState, Moves
<1>4. JtcPending = 0 /\ JtcPending' = 0
  BY <1>1, <1>2, <1>3 DEF JtcPending
<1> QED
  BY <1>1, <1>2, <1>3, <1>4, SavedKept, WaitingKept DEF Same

LEMMA UnlocksRefines ==
  ASSUME JtcInv, NEW t \in JtcThreads, JtcUnlocks(t)
  PROVE  Mesa!Leave(t) \/ Mesa!LeaveOnce(t)
<1>1. /\ jtcThread[t] \in JtcState /\ jtcThread[t].pc = "unlock" /\ jtcOwner = t
      /\ jtcCount \in Nat \ {0} /\ jtcCount' = jtcCount - 1
  BY JtcAssumption DEF JtcInv, JtcTypes, Owns, JtcOwned, JtcUnlocks, JtcAt
<1>2. /\ UNCHANGED <<jtcNotify, jtcCond>>
      /\ \E place \in {"out", "in"} : jtcThread' = [jtcThread EXCEPT ![t].pc = place]
  BY DEF JtcUnlocks, JtcGoes
<1>3. jtcThread'[t].pc \in {"out", "in"} /\ Moves(t)
  BY <1>1, <1>2 DEF JtcInv, JtcTypes, JtcState, Moves
<1>4. JtcWaiting' = JtcWaiting /\ JtcSaved' = JtcSaved
  BY <1>1, <1>2, <1>3, SavedKept, WaitingKept
<1>5. CASE jtcCount = 1
  <2>1. jtcCount' = 0 /\ jtcOwner' = JtcNone
    BY <1>1, <1>5 DEF JtcUnlocks
  <2>2. JtcPending = 0 /\ JtcPending' = 0
    BY <1>1, <1>5, <2>1 DEF JtcPending
  <2> QED
    BY <1>1, <1>4, <1>5, <2>1, <2>2 DEF Mesa!Leave
<1>6. CASE jtcCount # 1
  <2>1. /\ jtcCount > 1 /\ jtcOwner' = jtcOwner
        /\ jtcThread' = [jtcThread EXCEPT ![t].pc = "in"]
    BY <1>1, <1>6 DEF JtcUnlocks, JtcGoes
  <2>2. jtcThread'[t].pc = "in"
    BY <1>1, <2>1 DEF JtcInv, JtcTypes, JtcState
  <2>3. JtcPending' = JtcPending
    BY <1>1, <1>2, <1>6, <2>1, <2>2 DEF JtcPending
  <2> QED
    BY <1>1, <1>4, <2>1, <2>3 DEF Mesa!LeaveOnce
<1> QED
  BY <1>5, <1>6

LEMMA EntersRefines ==
  ASSUME JtcInv, NEW t \in JtcThreads, JtcEnters(t)
  PROVE  Same
<1>1. /\ jtcThread[t] \in JtcState /\ jtcThread[t].pc \in {"out", "in"}
      /\ UNCHANGED <<jtcOwner, jtcCount, jtcNotify, jtcCond>>
      /\ jtcThread' = [jtcThread EXCEPT ![t].pc = "lock"]
  BY DEF JtcInv, JtcTypes, JtcEnters, JtcAt, JtcGoes
<1>2. jtcThread'[t].pc = "lock" /\ Moves(t)
  BY <1>1 DEF JtcInv, JtcTypes, JtcState, Moves
<1>3. CASE jtcThread[t].pc = "out"
  <2>1. jtcOwner # t
    BY <1>3 DEF JtcInv, Owns, JtcOwned
  <2> QED
    BY <1>1, <1>2, <2>1, OtherMoves, SavedKept, WaitingKept DEF Same
<1>4. CASE jtcThread[t].pc = "in"
  <2>1. jtcOwner = t
    BY <1>4 DEF JtcInv, Owns, JtcOwned
  <2>2. JtcPending' = JtcPending
    BY <1>1, <1>2, <1>4, <2>1 DEF JtcPending
  <2> QED
    BY <1>1, <1>2, <2>2, SavedKept, WaitingKept DEF Same
<1> QED
  BY <1>1, <1>3, <1>4

LEMMA NotifiesRefines ==
  ASSUME JtcInv, NEW t \in JtcThreads, JtcNotifies(t)
  PROVE  Mesa!Notify(t) \/ Mesa!NotifyAll(t)
<1>1. /\ jtcThread[t].pc = "in" /\ jtcOwner = t
      /\ UNCHANGED <<jtcOwner, jtcCount, jtcCond, jtcThread>>
  BY DEF JtcInv, Owns, JtcOwned, JtcNotifies, JtcAt
<1>2. JtcPending = jtcNotify /\ JtcPending' = jtcNotify'
  BY <1>1, JtcAssumption DEF JtcPending
<1>3. JtcWaiting' = JtcWaiting /\ JtcSaved' = JtcSaved
  BY <1>1 DEF JtcWaiting, JtcSaved, JtcAt
<1>4. CASE jtcNotify \in 0 .. JtcMaxNotify - 1 /\ jtcNotify' = jtcNotify + 1
  <2>1. jtcNotify # -1
    BY <1>4, JtcAssumption
  <2> QED
    BY <1>1, <1>2, <1>3, <1>4, <2>1 DEF Mesa!Notify, Mesa!All
<1>5. CASE jtcNotify' = -1
  BY <1>1, <1>2, <1>3, <1>5 DEF Mesa!NotifyAll, Mesa!All
<1> QED
  BY <1>4, <1>5 DEF JtcNotifies

(* unlock() and wait() begin: what is pending is in the thread's hand.      *)
LEMMA LeavesRefine ==
  ASSUME JtcInv, NEW t \in JtcThreads, JtcLeaves(t) \/ JtcWaits(t)
  PROVE  Same
<1>1. /\ jtcThread[t] \in JtcState /\ jtcThread[t].pc = "in" /\ jtcOwner = t
      /\ UNCHANGED <<jtcOwner, jtcCount, jtcNotify, jtcCond>>
  BY DEF JtcInv, JtcTypes, Owns, JtcOwned, JtcLeaves, JtcWaits, JtcAt
<1>2. JtcPending = jtcNotify
  BY <1>1, JtcAssumption DEF JtcPending
<1>3. Moves(t) /\ \/ jtcThread'[t].pc \in JtcSending /\ jtcThread'[t].send = jtcNotify
                  \/ jtcThread'[t].pc = "unlock" /\ jtcCount # 1
  <2>1. CASE JtcWaits(t)
    BY <1>1, <2>1 DEF JtcInv, JtcTypes, JtcState, JtcWaits, Moves, JtcSending
  <2>2. CASE JtcLeaves(t) /\ jtcCount = 1
    BY <1>1, <2>2 DEF JtcInv, JtcTypes, JtcState, JtcLeaves, Moves, JtcSending
  <2>3. CASE JtcLeaves(t) /\ jtcCount # 1
    BY <1>1, <2>3 DEF JtcInv, JtcTypes, JtcState, JtcLeaves, Moves
  <2> QED
    BY <2>1, <2>2, <2>3
<1>4. JtcPending' = jtcNotify
  BY <1>1, <1>3, JtcAssumption DEF JtcPending, JtcSending
<1>5. jtcThread[t].pc # "sleep" /\ jtcThread'[t].pc # "sleep"
  BY <1>1, <1>3 DEF JtcSending
<1> QED
  BY <1>1, <1>2, <1>3, <1>4, <1>5, SavedKept, WaitingKept DEF Same

(* Nobody is on its way to sleep while notifications are sent: it would hold*)
(* the m_lock that the sender has.                                          *)
LEMMA SleepersOnly ==
  ASSUME JtcInv, NEW t \in JtcThreads, jtcThread[t].pc \in JtcSending
  PROVE  /\ JtcWaiting = jtcCond /\ jtcOwner = t
         /\ \A u \in JtcThreads : jtcThread[u].pc # "sleep"
<1>1. jtcOwner = t /\ jtcLock = t
  BY DEF JtcInv, Owns, Locks, JtcOwned, JtcSending
<1>2. \A u \in JtcThreads : jtcThread[u].pc # "sleep"
  BY <1>1 DEF JtcInv, Locks, JtcSending
<1> QED
  BY <1>1, <1>2 DEF JtcWaiting, JtcAt

LEMMA SendsRefines ==
  ASSUME JtcInv, NEW t \in JtcThreads, JtcSends(t)
  PROVE  Mesa!Deliver \/ Same
<1>1. jtcThread[t] \in JtcState /\ jtcThread[t].pc \in JtcSending
  BY JtcSendsCases
<1>2. PICK woken \in JtcWoken(jtcThread[t].send) :
              /\ jtcCond' = jtcCond \ woken
              /\ jtcThread'[t] = JtcSent(jtcThread[t])
              /\ \A w \in woken : /\ w \in JtcThreads \ {t} /\ jtcThread[w].pc = "asleep"
                                  /\ jtcThread'[w] = [jtcThread[w] EXCEPT !.pc = "woken"]
              /\ \A w \in JtcThreads : w # t /\ w \notin woken => jtcThread'[w] = jtcThread[w]
              /\ jtcThread' = [w \in JtcThreads |-> jtcThread'[w]]
  BY JtcSendsCases
<1>3. UNCHANGED <<jtcCount, jtcOwner, jtcNotify>>
  BY DEF JtcSends
<1>4. JtcWaiting = jtcCond /\ jtcOwner = t /\ t # JtcNone
  BY <1>1, SleepersOnly, JtcAssumption
<1>5. \A w \in woken : jtcThread'[w].count = jtcThread[w].count /\ jtcThread'[w].pc = "woken"
  <2> SUFFICES ASSUME NEW w \in woken
               PROVE  jtcThread'[w].count = jtcThread[w].count /\ jtcThread'[w].pc = "woken"
    OBVIOUS
  <2>1. "woken" \in JtcPlaces
    BY DEF JtcPlaces
  <2>2. jtcThread[w] \in JtcState /\ jtcThread'[w] = [jtcThread[w] EXCEPT !.pc = "woken"]
    BY <1>2 DEF JtcInv, JtcTypes
  <2> QED
    BY <2>1, <2>2, JtcMoved
<1>6. jtcThread'[t].count = jtcThread[t].count /\ jtcThread'[t].pc # "sleep"
  BY <1>1, <1>2, JtcSentState DEF JtcSending
<1>7. JtcSaved' = JtcSaved
  BY <1>2, <1>5, <1>6 DEF JtcSaved
<1>8. JtcWaiting' = jtcCond \ woken
  <2>1. \A w \in JtcThreads : jtcThread'[w].pc # "sleep"
    <3>1. \A w \in JtcThreads : jtcThread[w].pc # "sleep"
      BY <1>1, SleepersOnly
    <3> QED
      BY <1>2, <1>5, <1>6, <3>1
  <2> QED
    BY <1>2, <2>1 DEF JtcWaiting, JtcAt
<1>9. JtcPending = jtcThread[t].send /\ jtcThread[t].send \in Nat \cup {-1}
  BY <1>1, <1>4 DEF JtcPending, JtcSending, JtcState
<1>10. CASE jtcThread[t].send > 0
  <2>1. jtcThread'[t].pc = jtcThread[t].pc /\ jtcThread'[t].send = jtcThread[t].send - 1
    BY <1>1, <1>2, <1>10, JtcSentState
  <2>2. JtcPending' = JtcPending - 1
    BY <1>1, <1>3, <1>4, <1>9, <2>1 DEF JtcPending, JtcSending
  <2>3. IF JtcWaiting = {} THEN UNCHANGED JtcWaiting
        ELSE \E w \in JtcWaiting : JtcWaiting' = JtcWaiting \ {w}
    BY <1>2, <1>4, <1>8, <1>9, <1>10, JtcWakesSome
  <2> QED
    BY <1>3, <1>4, <1>7, <1>9, <1>10, <2>2, <2>3 DEF Mesa!Deliver
<1>11. CASE ~(jtcThread[t].send > 0)
  <2>1. jtcThread'[t].pc = IF jtcThread[t].pc = "send" THEN "unlock" ELSE "reset"
    BY <1>1, <1>2, <1>11, JtcSentState
  <2>2. jtcThread[t].pc = "send" => jtcCount = 1
    BY DEF JtcInv, Owns
  <2>3. JtcPending' = 0
    BY <1>3, <1>4, <2>1, <2>2 DEF JtcPending
  <2>4. CASE jtcThread[t].send = 0
    <3>1. JtcWaiting' = JtcWaiting
      BY <1>2, <1>4, <1>8, <2>4, JtcWakesSome
    <3> QED
      BY <1>3, <1>7, <1>9, <2>3, <2>4, <3>1 DEF Same
  <2>5. CASE jtcThread[t].send = -1
    <3>1. JtcWaiting' = {}
      BY <1>2, <1>8, <2>5, JtcWakesSome
    <3> QED
      BY <1>3, <1>4, <1>7, <1>9, <2>3, <2>5, <3>1 DEF Mesa!Deliver, Mesa!All
  <2> QED
    BY <1>9, <1>11, <2>4, <2>5
<1> QED
  BY <1>10, <1>11

(* The count is given up, and from now on the thread counts as waiting.     *)
LEMMA ResetsRefines ==
  ASSUME JtcInv, NEW t \in JtcThreads, JtcResets(t)
  PROVE  Mesa!Wait(t)
<1>1. /\ jtcThread[t] \in JtcState /\ jtcThread[t].pc = "reset" /\ jtcOwner = t
      /\ jtcCount' = 0 /\ jtcOwner' = JtcNone /\ UNCHANGED jtcCond
      /\ jtcThread' = [jtcThread EXCEPT ![t] = [@ EXCEPT !.pc = "sleep", !.count = jtcCount]]
  BY DEF JtcInv, JtcTypes, Owns, JtcOwned, JtcResets, JtcAt
<1>2. /\ jtcThread'[t].pc = "sleep" /\ jtcThread'[t].count = jtcCount
      /\ \A u \in JtcThreads \ {t} : jtcThread'[u] = jtcThread[u]
  BY <1>1 DEF JtcInv, JtcTypes, JtcState
<1>3. JtcWaiting' = JtcWaiting \cup {t}
  BY <1>1, <1>2 DEF JtcWaiting, JtcAt
<1>4. JtcSaved' = [JtcSaved EXCEPT ![t] = jtcCount]
  BY <1>2 DEF JtcSaved
<1>5. JtcPending = 0 /\ JtcPending' = 0
  BY <1>1, JtcAssumption DEF JtcPending
<1> QED
  BY <1>1, <1>3, <1>4, <1>5 DEF Mesa!Wait

LEMMA SleepsRefines ==
  ASSUME JtcInv, NEW t \in JtcThreads, JtcSleeps(t)
  PROVE  Same
<1>1. /\ jtcThread[t] \in JtcState /\ jtcThread[t].pc = "sleep" /\ jtcOwner # t
      /\ jtcCond' = jtcCond \cup {t} /\ UNCHANGED <<jtcOwner, jtcCount, jtcNotify>>
      /\ jtcThread' = [jtcThread EXCEPT ![t].pc = "asleep"]
  BY DEF JtcInv, JtcTypes, Owns, JtcOwned, JtcSleeps, JtcAt, JtcGoes
<1>2. jtcThread'[t].pc = "asleep" /\ Moves(t)
  BY <1>1 DEF JtcInv, JtcTypes, JtcState, Moves
<1>3. JtcWaiting' = JtcWaiting
  BY <1>1, <1>2 DEF JtcWaiting, JtcAt, Moves
<1> QED
  BY <1>1, <1>2, <1>3, OtherMoves, SavedKept DEF Same

LEMMA WakesUpRefines ==
  ASSUME JtcInv, NEW t \in JtcThreads, JtcWakesUp(t)
  PROVE  Mesa!WakeUp(t)
<1>1. /\ jtcThread[t] \in JtcState /\ jtcThread[t].pc = "asleep" /\ jtcOwner # t
      /\ t \in jtcCond /\ jtcCond' = jtcCond \ {t}
      /\ UNCHANGED <<jtcOwner, jtcCount, jtcNotify>>
      /\ jtcThread' = [jtcThread EXCEPT ![t].pc = "woken"]
  BY DEF JtcInv, JtcTypes, Owns, Sleeps, JtcOwned, JtcWakesUp, JtcGoes
<1>2. jtcThread'[t].pc = "woken" /\ Moves(t)
  BY <1>1 DEF JtcInv, JtcTypes, JtcState, Moves
<1>3. t \in JtcWaiting /\ JtcWaiting' = JtcWaiting \ {t}
  BY <1>1, <1>2 DEF JtcWaiting, JtcAt, Moves
<1> QED
  BY <1>1, <1>2, <1>3, OtherMoves, SavedKept DEF Mesa!WakeUp

-----------------------------------------------------------------------------
LEMMA JtcInitRefines == JtcInit => Mesa!MesaInit
BY DEF JtcInit, JtcPending, JtcWaiting, JtcSaved, JtcAt, Mesa!MesaInit

LEMMA JtcStepRefines == JtcInv /\ [JtcNext]_jtcVars => [Mesa!MesaNext]_(Mesa!mesaVars)
<1> SUFFICES ASSUME JtcInv, [JtcNext]_jtcVars PROVE [Mesa!MesaNext]_(Mesa!mesaVars)
  OBVIOUS
<1>1. CASE UNCHANGED jtcVars
  BY <1>1 DEF jtcVars, JtcPending, JtcWaiting, JtcSaved, JtcAt, Mesa!mesaVars
<1>2. ASSUME NEW t \in JtcThreads,
             \/ JtcSpins(t) \/ JtcGets(t) \/ JtcEnters(t) \/ JtcLeaves(t) \/ JtcWaits(t)
             \/ JtcSleeps(t) \/ JtcReturns(t) \/ JtcHelper(t)
      PROVE  Same
  BY <1>2, WaysInRefine, GetsRefines, EntersRefines, LeavesRefine, SleepsRefines
<1>3. ASSUME NEW t \in JtcThreads,
             \/ JtcTakes(t) \/ JtcUnlocks(t) \/ JtcNotifies(t) \/ JtcSends(t)
             \/ JtcResets(t) \/ JtcWakesUp(t)
      PROVE  Mesa!MesaNext \/ Same
  BY <1>3, TakesRefines, UnlocksRefines, NotifiesRefines, SendsRefines, ResetsRefines,
     WakesUpRefines DEF Mesa!MesaNext
<1>4. Same => UNCHANGED Mesa!mesaVars
  BY DEF Same, Mesa!mesaVars
<1> QED
  BY <1>1, <1>2, <1>3, <1>4 DEF JtcNext

(* For any number of threads: JTCMonitor over JTCRecursiveMutex and JTCCond *)
(* is a Mesa monitor (Monitor.cpp, Mutex.cpp, Cond.cpp).                    *)
THEOREM JtcMonitorIsMesa == JtcSpec => JtcImplementsMesa
<1>1. JtcInv /\ JtcInv' /\ [JtcNext]_jtcVars => [Mesa!MesaNext]_(Mesa!mesaVars)
  BY JtcStepRefines
<1> QED
  BY <1>1, JtcInitRefines, AlwaysJtcInv, PTL DEF JtcSpec, JtcImplementsMesa, Mesa!MesaSpec
=============================================================================
