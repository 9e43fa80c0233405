------------------------ MODULE CircularBufferProofs -----------------------
(***************************************************************************)
(* The ring for every capacity N and every set of items.                   *)
(***************************************************************************)
EXTENDS CircularBuffer, SequenceTheorems, TLAPS

(* The slots put() has reached: everything below head, and the whole array *)
(* once head has wrapped around and not been caught up by tail.            *)
WrittenPrefix ==
  /\ \A i \in Slots : i < head => buf[i] \in Item
  /\ (full \/ head < tail) => \A i \in Slots : buf[i] \in Item

IInv == TypeOK /\ WrittenPrefix

(* The index arithmetic of the ring, without the modulus.                  *)
LEMMA SuccIs ==
  ASSUME NEW i \in Slots
  PROVE  Succ(i) = IF i = N - 1 THEN 0 ELSE i + 1
  BY NAssumption DEF Slots, Succ

LEMMA InitInv == Init => IInv
<1> SUFFICES ASSUME Init PROVE IInv
  OBVIOUS
<1>1. 0 \in Slots /\ \A i \in Slots : ~(i < 0)
  BY NAssumption DEF Slots
<1>2. TypeOK
  BY <1>1 DEF Init, TypeOK
<1>3. WrittenPrefix
  BY <1>1, NAssumption DEF Init, WrittenPrefix
<1>4. QED
  BY <1>2, <1>3 DEF IInv

(* One put() keeps the indices in the array and extends the written slots. *)
LEMMA PutInv ==
  ASSUME IInv, NEW x \in Item, Put(x)
  PROVE  IInv'
<1> USE DEF IInv, Put
<1>1. /\ Succ(head) = IF head = N - 1 THEN 0 ELSE head + 1
      /\ Succ(tail) = IF tail = N - 1 THEN 0 ELSE tail + 1
  BY SuccIs DEF TypeOK
<1>2. TypeOK'
  BY <1>1, NAssumption DEF TypeOK, Slots
<1>3. WrittenPrefix'
  BY <1>1, NAssumption DEF TypeOK, WrittenPrefix, Slots
<1>4. QED
  BY <1>2, <1>3

(* One get() frees a slot; what it returns had been put there.             *)
LEMMA GetInv ==
  ASSUME IInv, Get
  PROVE  IInv'
<1> USE DEF IInv, Get
<1>1. /\ Succ(tail) = IF tail = N - 1 THEN 0 ELSE tail + 1
      /\ Succ(tail) \in Slots
  BY SuccIs, NAssumption DEF TypeOK, Slots
<1>2. ~Empty => buf[tail] \in Item
  <2>1. tail \in Slots /\ (~Empty => full \/ head < tail \/ tail < head)
    BY NAssumption DEF TypeOK, Slots, Empty
  <2>2. QED
    BY <2>1 DEF WrittenPrefix
<1>3. TypeOK'
  <2>1. CASE Empty
    BY <2>1 DEF TypeOK
  <2>2. CASE ~Empty
    BY <2>2, <1>1, <1>2 DEF TypeOK
  <2>3. QED
    BY <2>1, <2>2
<1>4. WrittenPrefix'
  BY <1>1, NAssumption DEF TypeOK, WrittenPrefix, Slots, Empty
<1>5. QED
  BY <1>3, <1>4

LEMMA ResetInv ==
  ASSUME IInv, Reset
  PROVE  IInv'
<1>1. TypeOK'
  BY DEF IInv, Reset, TypeOK
<1>2. WrittenPrefix'
  <2>1. \A i \in Slots : i < tail => i < head \/ head < tail
    BY NAssumption DEF IInv, TypeOK, Slots
  <2>2. ~(tail < tail)
    BY NAssumption DEF IInv, TypeOK, Slots
  <2>3. QED
    BY <2>1, <2>2 DEF IInv, Reset, WrittenPrefix
<1>3. QED
  BY <1>1, <1>2 DEF IInv

LEMMA StepInv == IInv /\ [Next]_vars => IInv'
<1> SUFFICES ASSUME IInv, [Next]_vars PROVE IInv'
  OBVIOUS
<1>1. ASSUME NEW x \in Item, Put(x) PROVE IInv'
  BY <1>1, PutInv
<1>2. CASE Get
  BY <1>2, GetInv
<1>3. CASE Reset
  BY <1>3, ResetInv
<1>4. CASE UNCHANGED vars
  BY <1>4 DEF vars, IInv, TypeOK, WrittenPrefix
<1>5. QED
  BY <1>1, <1>2, <1>3, <1>4 DEF Next

(* The indices never leave the array and full_ never contradicts them.     *)
THEOREM TypeCorrect == Spec => []TypeOK
<1>1. IInv => TypeOK
  BY DEF IInv
<1>2. QED
  BY InitInv, StepInv, <1>1, PTL DEF Spec

(* Neither get() nor isExists() ever reads an uninitialised slot.          *)
LEMMA InvReads == IInv => ReadsOnlyWritten
<1> SUFFICES ASSUME IInv, NEW i \in Scanned \cup LiveSlots
             PROVE  buf[i] # Garbage
  BY DEF ReadsOnlyWritten
<1>1. i \in Slots /\ (full \/ head < tail \/ i < head)
  <2>1. CASE i \in Scanned
    BY <2>1, NAssumption DEF IInv, TypeOK, Scanned, Size, Slots
  <2>2. CASE i \in LiveSlots
    <3>1. PICK k \in 0 .. Size - 1 : i = SlotAt(k)
      BY <2>2 DEF LiveSlots
    <3>2. QED
      BY <3>1, NAssumption DEF IInv, TypeOK, SlotAt, Size, Slots
  <2>3. QED
    BY <2>1, <2>2
<1>2. buf[i] \in Item
  BY <1>1 DEF IInv, WrittenPrefix
<1>3. QED
  BY <1>2, GarbageAssumption

THEOREM NoUninitialisedRead == Spec => []ReadsOnlyWritten
  BY InitInv, StepInv, InvReads, PTL DEF Spec

(* In a ring nothing was removed from, the live slots are 0 .. Size - 1.   *)
LEMMA LiveFromZero ==
  ASSUME IInv, full \/ tail = 0
  PROVE  LiveSlots = 0 .. Size - 1
<1>1. Size \in 0 .. N /\ (full => Size = N) /\ tail \in Slots
  BY NAssumption DEF IInv, TypeOK, Size, Slots
<1>2. ASSUME NEW k \in 0 .. Size - 1
      PROVE  SlotAt(k) \in 0 .. Size - 1
  BY <1>1, NAssumption DEF SlotAt, Slots
<1>3. ASSUME NEW i \in 0 .. Size - 1
      PROVE  \E k \in 0 .. Size - 1 : i = SlotAt(k)
  <2> DEFINE k == IF i >= tail THEN i - tail ELSE N + i - tail
  <2>1. k \in 0 .. Size - 1 /\ i = SlotAt(k)
    BY <1>1, NAssumption DEF SlotAt, Slots
  <2>2. QED
    BY <2>1
<1>4. QED
  BY <1>2, <1>3 DEF LiveSlots

(* isExists in a window that is only put to: no false positive, and slot 0 *)
(* its only blind spot.                                                    *)
THEOREM BlindSpotIsSlotZero == Spec => []ScanMissesOnlySlotZero
<1>1. IInv => ScanMissesOnlySlotZero
  <2> SUFFICES ASSUME IInv, full \/ tail = 0, NEW x \in Item
               PROVE  IsExists(x) <=> \E i \in LiveSlots \ {0} : buf[i] = x
    BY DEF ScanMissesOnlySlotZero
  <2>1. Size \in Nat
    BY NAssumption DEF IInv, TypeOK, Size, Slots
  <2>2. LiveSlots \ {0} = Scanned
    BY <2>1, LiveFromZero DEF Scanned
  <2>3. QED
    BY <2>2 DEF IsExists
<1>2. QED
  BY InitInv, StepInv, <1>1, PTL DEF Spec

----------------------------------------------------------------------------
(* The ring implements the window.                                         *)

Any == Item \cup {Default, Garbage}

(* The items held form a sequence of Size items, the k-th in its slot.     *)
ContentsSeq ==
  /\ Size \in 0 .. N
  /\ Contents \in Seq(Any)
  /\ Len(Contents) = Size
  /\ \A k \in 1 .. Size : Contents[k] = buf[SlotAt(k - 1)]

LEMMA ContentsIs == IInv => ContentsSeq
<1> SUFFICES ASSUME IInv PROVE ContentsSeq
  OBVIOUS
<1>1. Size \in Nat /\ Size <= N
  BY NAssumption DEF IInv, TypeOK, Size, Slots
<1>2. ASSUME NEW k \in 1 .. Size PROVE SlotAt(k - 1) \in Slots
  BY <1>1, NAssumption DEF IInv, TypeOK, SlotAt, Slots
<1>3. ASSUME NEW k \in 1 .. Size PROVE buf[SlotAt(k - 1)] \in Any
  BY <1>2 DEF IInv, TypeOK, Any
<1>4. QED
  BY <1>1, <1>3, IsASeq, NAssumption DEF Contents, ContentsSeq

(* The same of the state a step ends in.                                   *)
LEMMA ContentsIsAfter == IInv' => ContentsSeq'
  BY ContentsIs, PTL

(* put() appends, after dropping the oldest item of a full ring.           *)
LEMMA PutRefines ==
  ASSUME IInv, NEW x \in Item, Put(x)
  PROVE  Window!Put(x)
<1>1. ContentsSeq /\ ContentsSeq'
  BY PutInv, ContentsIs, ContentsIsAfter
<1>2. /\ head' = IF head = N - 1 THEN 0 ELSE head + 1
      /\ tail' = IF ~full THEN tail ELSE IF tail = N - 1 THEN 0 ELSE tail + 1
      /\ head \in Slots /\ tail \in Slots /\ (full => head = tail)
  BY SuccIs DEF Put, IInv, TypeOK
<1>3. full' <=> head' = tail'
  BY DEF Put
<1>4. x \in Any /\ Size \in Nat /\ Size <= N /\ Size' \in Nat
  BY <1>1, NAssumption DEF ContentsSeq, Any
<1>5. CASE Size < N
  <2>1. ~full /\ tail' = tail
    BY <1>2, <1>5, NAssumption DEF Size
  <2>2. Size' = Size + 1
    BY <1>2, <1>3, <2>1, NAssumption DEF Size, Slots
  <2>3. SlotAt(Size) = head /\ \A k \in 0 .. Size - 1 : SlotAt(k) # head
    BY <1>2, <1>5, <2>1, NAssumption DEF SlotAt, Size, Slots
  <2>4. Contents' = Append(Contents, x)
    <3>1. /\ Append(Contents, x) \in Seq(Any)
          /\ Len(Append(Contents, x)) = Size + 1
          /\ \A k \in 1 .. Size : Append(Contents, x)[k] = buf[SlotAt(k - 1)]
          /\ Append(Contents, x)[Size + 1] = x
      BY <1>1, AppendProperties, <1>4 DEF ContentsSeq
    <3>2. /\ Contents' \in Seq(Any)
          /\ Len(Contents') = Size + 1
          /\ \A k \in 1 .. Size + 1 : Contents'[k] = buf'[SlotAt(k - 1)]
      <4>1. \A k : SlotAt(k)' = SlotAt(k)
        BY <2>1 DEF SlotAt
      <4>2. QED
        BY <1>1, <2>2, <4>1 DEF ContentsSeq, Any
    <3>3. ASSUME NEW k \in 1 .. Size + 1
          PROVE  Contents'[k] = Append(Contents, x)[k]
      <4>1. CASE k = Size + 1
        BY <4>1, <3>1, <3>2, <2>3, <1>2, <1>4 DEF Put, IInv, TypeOK
      <4>2. CASE k \in 1 .. Size
        <5>1. SlotAt(k - 1) # head
          BY <4>2, <2>3, <1>4
        <5>2. SlotAt(k - 1) \in Slots
          BY <4>2, <1>2, <1>4, NAssumption DEF SlotAt, Slots
        <5>3. QED
          BY <4>2, <3>1, <3>2, <5>1, <5>2 DEF Put, IInv, TypeOK
      <4>3. k = Size + 1 \/ k \in 1 .. Size
        BY <1>4
      <4>4. QED
        BY <4>1, <4>2, <4>3
    <3>4. QED
      BY <3>1, <3>2, <3>3, SeqEqual
  <2>5. QED
    BY <2>4, <1>5, <1>1 DEF ContentsSeq, Put, Window!Put
<1>6. CASE Size = N
  <2>1. full /\ head = tail /\ Size' = N /\ tail' = head'
    BY <1>2, <1>3, <1>6, NAssumption DEF IInv, TypeOK, Size, Slots
  <2>2. ASSUME NEW k \in 0 .. N - 2
        PROVE  SlotAt(k)' = SlotAt(k + 1) /\ SlotAt(k + 1) \in Slots \ {head}
    BY <1>2, <2>1, NAssumption DEF SlotAt, Slots
  <2>3. SlotAt(N - 1)' = head
    BY <1>2, <2>1, NAssumption DEF SlotAt, Slots
  <2>4. Contents' = Append(Tail(Contents), x)
    <3>1. Contents # << >>
      BY <1>1, <1>6, NAssumption DEF ContentsSeq
    <3>2. /\ Tail(Contents) \in Seq(Any)
          /\ Len(Tail(Contents)) = N - 1
          /\ \A k \in 1 .. N - 1 : Tail(Contents)[k] = buf[SlotAt(k)]
      BY <1>1, HeadTailProperties, <3>1, <1>6, NAssumption DEF ContentsSeq
    <3>3. /\ Append(Tail(Contents), x) \in Seq(Any)
          /\ Len(Append(Tail(Contents), x)) = N
          /\ \A k \in 1 .. N - 1 : Append(Tail(Contents), x)[k] = buf[SlotAt(k)]
          /\ Append(Tail(Contents), x)[N] = x
      BY <3>2, AppendProperties, <1>4, NAssumption
    <3>4. /\ Contents' \in Seq(Any)
          /\ Len(Contents') = N
          /\ \A k \in 1 .. N : Contents'[k] = buf'[SlotAt(k - 1)']
      BY <1>1, <2>1 DEF ContentsSeq, Any
    <3>5. ASSUME NEW k \in 1 .. N
          PROVE  Contents'[k] = Append(Tail(Contents), x)[k]
      <4>1. CASE k = N
        BY <4>1, <3>3, <3>4, <2>3, <1>2 DEF Put, IInv, TypeOK
      <4>2. CASE k \in 1 .. N - 1
        <5>1. SlotAt(k - 1)' = SlotAt(k) /\ SlotAt(k) \in Slots \ {head}
          BY <4>2, <2>2, NAssumption
        <5>2. QED
          BY <4>2, <3>3, <3>4, <5>1 DEF Put, IInv, TypeOK
      <4>3. k = N \/ k \in 1 .. N - 1
        BY NAssumption
      <4>4. QED
        BY <4>1, <4>2, <4>3
    <3>6. QED
      BY <3>3, <3>4, <3>5, SeqEqual
  <2>5. QED
    BY <2>4, <1>6, <1>1, NAssumption DEF ContentsSeq, Put, Window!Put
<1>7. QED
  BY <1>4, <1>5, <1>6, NAssumption

(* get() returns and removes the oldest item.                              *)
LEMMA GetRefines ==
  ASSUME IInv, Get
  PROVE  Window!Get
<1>1. ContentsSeq /\ ContentsSeq'
  BY GetInv, ContentsIs, ContentsIsAfter
<1>2. CASE Empty
  <2>1. Contents = << >> /\ Contents' = Contents
    <3>1. Size = 0
      BY <1>2, NAssumption DEF Empty, Size, IInv, TypeOK, Slots
    <3>2. Contents = << >>
      BY <3>1, <1>1 DEF ContentsSeq
    <3>3. Contents' = Contents
      BY <1>2 DEF Get, Contents, Size, SlotAt
    <3>4. QED
      BY <3>2, <3>3
  <2>2. QED
    BY <1>2, <2>1 DEF Get, Window!Get
<1>3. CASE ~Empty
  <2>1. /\ tail' = IF tail = N - 1 THEN 0 ELSE tail + 1
        /\ head \in Slots /\ tail \in Slots /\ (full => head = tail)
        /\ head' = head /\ buf' = buf /\ ~full'
    BY <1>3, SuccIs DEF Get, IInv, TypeOK
  <2>2. Size \in 1 .. N /\ Size' = Size - 1
    BY <1>3, <2>1, NAssumption DEF Empty, Size, Slots
  <2>3. Contents # << >> /\ Head(Contents) = buf[tail]
    <3>1. SlotAt(0) = tail
      BY <2>1, NAssumption DEF SlotAt, Slots
    <3>2. QED
      BY <3>1, <2>2, <1>1, HeadTailProperties, NAssumption DEF ContentsSeq
  <2>4. Contents' = Tail(Contents)
    <3>1. /\ Tail(Contents) \in Seq(Any)
          /\ Len(Tail(Contents)) = Size - 1
          /\ \A k \in 1 .. Size - 1 : Tail(Contents)[k] = buf[SlotAt(k)]
      BY <1>1, HeadTailProperties, <2>2, <2>3, NAssumption DEF ContentsSeq
    <3>2. /\ Contents' \in Seq(Any)
          /\ Len(Contents') = Size - 1
          /\ \A k \in 1 .. Size - 1 : Contents'[k] = buf[SlotAt(k - 1)']
      BY <1>1, <2>1, <2>2 DEF ContentsSeq, Any
    <3>3. ASSUME NEW k \in 1 .. Size - 1
          PROVE  SlotAt(k - 1)' = SlotAt(k)
      BY <2>1, <2>2, NAssumption DEF SlotAt, Slots
    <3>4. QED
      BY <3>1, <3>2, <3>3, SeqEqual
  <2>5. QED
    BY <1>3, <2>3, <2>4 DEF Get, Window!Get
<1>4. QED
  BY <1>2, <1>3

(* reset() empties the window.                                             *)
LEMMA ResetRefines ==
  ASSUME IInv, Reset
  PROVE  Window!Reset
<1>1. Size' = 0
  BY NAssumption DEF Reset, Size, IInv, TypeOK, Slots
<1>2. Contents' = << >>
  BY <1>1, ResetInv, ContentsIsAfter DEF ContentsSeq
<1>3. QED
  BY <1>2 DEF Reset, Window!Reset

(* The ring is the drop-oldest first-in first-out window of SlidingWindow. *)
THEOREM ImplementsWindow == Spec => WindowSpec
<1>1. Init => Window!Init
  BY InitInv, ContentsIs DEF ContentsSeq, Init, Size, Window!Init
<1>2. ASSUME IInv, [Next]_vars
      PROVE  [Window!Next]_(Window!vars)
  <2>1. ASSUME NEW x \in Item, Put(x) PROVE Window!Next
    BY <1>2, <2>1, PutRefines DEF Window!Next
  <2>2. CASE Get
    BY <1>2, <2>2, GetRefines DEF Window!Next
  <2>3. CASE Reset
    BY <1>2, <2>3, ResetRefines DEF Window!Next
  <2>4. CASE UNCHANGED vars
    BY <2>4 DEF vars, Window!vars, Contents, Size, SlotAt
  <2>5. QED
    BY <1>2, <2>1, <2>2, <2>3, <2>4 DEF Next
<1>3. QED
  BY InitInv, StepInv, <1>1, <1>2, PTL DEF Spec, WindowSpec, Window!Spec
============================================================================
