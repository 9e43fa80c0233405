--------------------------- MODULE CircularBuffer --------------------------
(***************************************************************************)
(* yamb/src/CircularBuffer.h: a ring over a fixed array.  put, get, reset  *)
(* and isExists each hold mutex_ from their first line to their last, so   *)
(* each is one step.  The rings of the program are the two message hash    *)
(* windows of a room (N = 500, put and isExists only) and the console's    *)
(* message queues (N = 10, put and get).                                   *)
(*                                                                         *)
(* The array is not initialised by the constructor: Garbage stands for a   *)
(* slot nothing was put in, and is no item.                                *)
(***************************************************************************)
EXTENDS Integers, Sequences

CONSTANTS N, Item, Default, Garbage

ASSUME NAssumption == N \in Nat \ {0}
ASSUME GarbageAssumption == Garbage \notin Item \cup {Default}

VARIABLES buf, head, tail, full,
          got         \* the value the last get() returned

vars == <<buf, head, tail, full, got>>

Slots == 0 .. N - 1

\* (i + 1) % max_size_
SuccNoWrap(i) == i + 1                    \* slip: no wrap-around
Succ(i) == (i + 1) % N

Empty == ~full /\ head = tail

Size ==
  IF full THEN N
  ELSE IF head >= tail THEN head - tail ELSE N + head - tail

\* The slots that hold an item, and the items they hold, oldest first.
SlotAt(k) == IF tail + k < N THEN tail + k ELSE tail + k - N
LiveSlots == {SlotAt(k) : k \in 0 .. Size - 1}
Contents == [k \in 1 .. Size |-> buf[SlotAt(k - 1)]]

\* for (int i = size; --i;): the scan runs down from size - 1 and stops at 0
\* without looking there.  It compares slots of the array, not items.
ScannedTooHigh == 1 .. Size               \* slip: starts at size
ScannedTooShort == 1 .. Size - 2          \* slip: starts at size - 2
Scanned == 1 .. Size - 1
IsExists(x) == \E i \in Scanned : buf[i] = x

----------------------------------------------------------------------------
Init ==
  /\ buf = [i \in Slots |-> Garbage]
  /\ head = 0
  /\ tail = 0
  /\ full = FALSE
  /\ got = Default

PutKeepsOldest(x) ==                      \* slip: full_ is not looked at
  /\ buf' = [buf EXCEPT ![head] = x]
  /\ tail' = tail
  /\ head' = Succ(head)
  /\ full' = (head' = tail')
  /\ UNCHANGED got

Put(x) ==
  /\ buf' = [buf EXCEPT ![head] = x]
  /\ tail' = IF full THEN Succ(tail) ELSE tail
  /\ head' = Succ(head)
  /\ full' = (head' = tail')
  /\ UNCHANGED got

Get ==
  IF Empty
  THEN /\ got' = Default
       /\ UNCHANGED <<buf, head, tail, full>>
  ELSE /\ got' = buf[tail]
       /\ full' = FALSE
       /\ tail' = Succ(tail)
       /\ UNCHANGED <<buf, head>>

Reset ==
  /\ head' = tail
  /\ full' = FALSE
  /\ UNCHANGED <<buf, tail, got>>

Next ==
  \/ \E x \in Item : Put(x)
  \/ Get
  \/ Reset

Spec == Init /\ [][Next]_vars

----------------------------------------------------------------------------
(* Every index stays inside the array and full_ is only set when head and  *)
(* tail meet, the one configuration in which size() and empty() disagree   *)
(* without it.                                                             *)
TypeOK ==
  /\ buf \in [Slots -> Item \cup {Garbage}]
  /\ head \in Slots
  /\ tail \in Slots
  /\ full \in BOOLEAN
  /\ full => head = tail
  /\ got \in Item \cup {Default}

(* No slot get() or isExists() may read is one of the uninitialised slots  *)
(* of the array, whatever sequence of put, get and reset came before:      *)
(* got never becomes garbage and no comparison of the scan reads garbage.  *)
ReadsOnlyWritten ==
  \A i \in Scanned \cup LiveSlots : buf[i] # Garbage

(* As long as nothing was removed from the front - the message hash        *)
(* windows never call get() - isExists finds an item exactly when some     *)
(* slot other than slot 0 holds it: it has no false positives, and its     *)
(* one false negative is the item in slot 0.                               *)
ScanMissesOnlySlotZero ==
  (full \/ tail = 0) =>
    \A x \in Item :
      IsExists(x) <=> \E i \in LiveSlots \ {0} : buf[i] = x

(* The ring implements the abstract window: every put, get and reset of    *)
(* the code is the same operation on the sequence of items it holds.       *)
Window == INSTANCE SlidingWindow WITH window <- Contents
WindowSpec == Window!Spec
============================================================================
