-------------------------- MODULE BlobReaderProofs --------------------------
(***************************************************************************)
(* Proofs about BlobReader for every pool of handles, every number of     *)
(* buffer slots, every stream length and every count bound.                *)
(*                                                                         *)
(* Neither TypeOK nor the two safety invariants is inductive by itself:    *)
(* readBytes keeps _offset a natural number only because _offset <= _size *)
(* (ReaderWithinBlob), and the finalizer keeps buffers backed only because *)
(* every buffer readBytes returns holds the sentinel (SentinelHeld).       *)
(***************************************************************************)
EXTENDS BlobReader, TLAPS

(* Every ArrayBuffer the application still holds carries the sentinel that *)
(* readBytes copied into it (blob.js line 31).                             *)
SentinelHeld == \A k \in BufIds : bufs[k].live => bufs[k].sentinel

IInv == TypeOK /\ ReaderWithinBlob /\ BufferBacked /\ SentinelHeld

(* Min of two naturals is a natural no larger than either. *)
LEMMA MinNat ==
  ASSUME NEW a \in Nat, NEW b \in Nat
  PROVE  Min(a, b) \in Nat /\ Min(a, b) <= a /\ Min(a, b) <= b
BY DEF Min

LEMMA InitIInv == Init => IInv
<1> SUFFICES ASSUME Init PROVE IInv
  OBVIOUS
<1>1. (CHOOSE h \in Handles : TRUE) \in Handles
  BY BlobAssumption
<1>2. TypeOK
  <2>1. bufs \in [BufIds -> Buffer]
    BY <1>1 DEF Init, Buffer
  <2>2. /\ avail = 0 /\ taken = 0
        /\ hstate = [h \in Handles |-> "free"]
        /\ blob = [h \in Handles |-> [start |-> 1, len |-> 0]]
        /\ reader = [h \in Handles |-> [live |-> FALSE, offset |-> 0, size |-> 0]]
    BY DEF Init
  <2>3. QED
    BY <2>1, <2>2, BlobAssumption DEF TypeOK, Run, Reader
<1>3. ReaderWithinBlob /\ BufferBacked /\ SentinelHeld
  BY DEF Init, ReaderWithinBlob, BufferBacked, SentinelHeld
<1>4. QED
  BY <1>2, <1>3 DEF IInv

LEMMA NextIInv == IInv /\ [Next]_vars => IInv'
<1> SUFFICES ASSUME IInv, [Next]_vars PROVE IInv'
  OBVIOUS
<1> USE DEF IInv
<1>1. CASE Arrive
  BY <1>1, BlobAssumption DEF Arrive, TypeOK, ReaderWithinBlob, BufferBacked, SentinelHeld
<1>2. ASSUME NEW h \in Handles, NEW count \in 0..MaxCount, PipeRead(h, count)
      PROVE  IInv'
  <2> DEFINE n == Min(count, avail - taken)
  <2>1. n \in Nat /\ n <= avail - taken
    BY MinNat, BlobAssumption DEF TypeOK
  <2>2. TypeOK'
    BY <1>2, <2>1 DEF PipeRead, TypeOK, Run, Reader
  <2>3. ReaderWithinBlob'
    BY <1>2, <2>1 DEF PipeRead, TypeOK, Reader, Run, ReaderWithinBlob
  <2>4. BufferBacked'
    \* h was free, so no buffer held is cut from its blob.
    BY <1>2 DEF PipeRead, TypeOK, BufferBacked
  <2>5. SentinelHeld'
    BY <1>2 DEF PipeRead, SentinelHeld
  <2>6. QED
    BY <2>2, <2>3, <2>4, <2>5
<1>3. ASSUME NEW h \in Handles, NEW k \in BufIds, NEW n \in 0..MaxCount, ReadBytes(h, k, n)
      PROVE  IInv'
  <2> DEFINE r == reader[h]
             m == IF r.size <= r.offset + n THEN r.size - r.offset ELSE n
  <2>1. r.live /\ hstate[h] = "live" /\ r.size = blob[h].len /\ r.offset <= r.size
    BY <1>3 DEF ReadBytes, ReaderWithinBlob
  <2>2. m \in Nat /\ r.offset + m <= r.size
    BY <2>1 DEF TypeOK, Reader
  <2>3. TypeOK'
    BY <1>3, <2>2 DEF ReadBytes, TypeOK, Reader, Buffer, Run
  <2>4. ReaderWithinBlob'
    BY <1>3, <2>1, <2>2 DEF ReadBytes, TypeOK, ReaderWithinBlob
  <2>5. BufferBacked'
    BY <1>3, <2>1, <2>2 DEF ReadBytes, TypeOK, Run, Reader, BufferBacked
  <2>6. SentinelHeld'
    BY <1>3 DEF ReadBytes, TypeOK, SentinelHeld
  <2>7. QED
    BY <2>3, <2>4, <2>5, <2>6
<1>4. ASSUME NEW h \in Handles, NEW n \in 0..MaxCount, ReadString(h, n)
      PROVE  IInv'
  <2> DEFINE r == reader[h]
             m == IF r.size <= r.offset + n THEN r.size - r.offset ELSE n
  <2>1. m \in Nat /\ r.offset + m <= r.size
    BY <1>4 DEF ReadString, ReaderWithinBlob, TypeOK, Reader
  <2>2. QED
    BY <1>4, <2>1 DEF ReadString, TypeOK, Reader, ReaderWithinBlob, BufferBacked, SentinelHeld
<1>5. ASSUME NEW h \in Handles, NEW n \in 0..MaxCount, Skip(h, n)
      PROVE  IInv'
  <2>1. Min(reader[h].offset + n, reader[h].size) \in Nat
        /\ Min(reader[h].offset + n, reader[h].size) <= reader[h].size
    BY DEF Min, TypeOK, Reader
  <2>2. QED
    BY <1>5, <2>1 DEF Skip, TypeOK, Reader, ReaderWithinBlob, BufferBacked, SentinelHeld
<1>6. ASSUME NEW h \in Handles, Reset(h)
      PROVE  IInv'
  BY <1>6 DEF Reset, TypeOK, Reader, ReaderWithinBlob, BufferBacked, SentinelHeld
<1>7. ASSUME NEW h \in Handles, DropReader(h)
      PROVE  IInv'
  BY <1>7 DEF DropReader, TypeOK, Reader, ReaderWithinBlob, BufferBacked, SentinelHeld
<1>8. ASSUME NEW h \in Handles, Finalize(h)
      PROVE  IInv'
  <2>1. TypeOK'
    BY <1>8 DEF Finalize, TypeOK
  <2>2. ReaderWithinBlob'
    BY <1>8 DEF Finalize, TypeOK, ReaderWithinBlob
  <2>3. BufferBacked'
    \* a buffer held on h would carry the sentinel, which Finalize excludes
    BY <1>8 DEF Finalize, TypeOK, BufferBacked, SentinelHeld
  <2>4. QED
    BY <1>8, <2>1, <2>2, <2>3 DEF Finalize, SentinelHeld
<1>9. ASSUME NEW k \in BufIds, DropBuffer(k)
      PROVE  IInv'
  <2>1. TypeOK'
    BY <1>9 DEF DropBuffer, TypeOK, Buffer
  <2>2. ReaderWithinBlob'
    BY <1>9 DEF DropBuffer, ReaderWithinBlob
  <2>3. BufferBacked' /\ SentinelHeld'
    BY <1>9 DEF DropBuffer, TypeOK, Buffer, BufferBacked, SentinelHeld
  <2>4. QED
    BY <2>1, <2>2, <2>3
<1>10. CASE UNCHANGED vars
  BY <1>10 DEF vars, TypeOK, ReaderWithinBlob, BufferBacked, SentinelHeld
<1>11. QED
  BY <1>1, <1>2, <1>3, <1>4, <1>5, <1>6, <1>7, <1>8, <1>9, <1>10 DEF Next

(* The strengthened invariant holds in every reachable state. *)
THEOREM Invariance == Spec => []IInv
BY InitIInv, NextIInv, PTL DEF Spec

(* Every state of the specification is well typed, for every pool of      *)
(* handles, stream length and count bound: the buffers readBytes returns   *)
(* have a natural length and no reader _offset goes negative, because      *)
(* readBytes and readString cut n and skip stops at _size.                 *)
THEOREM TypeCorrect == Spec => []TypeOK
BY Invariance, PTL DEF IInv

(* A live BlobReader's _offset stays within its blob and its handle stays  *)
(* allocated (readBytes/readString clamp n, skip stops at _size).          *)
THEOREM ReaderSafe == Spec => []ReaderWithinBlob
BY Invariance, PTL DEF IInv

(* Every ArrayBuffer readBytes returned lies over memory of a live handle  *)
(* while the application holds it: the copied sentinel keeps the           *)
(* finalizer of HandleBase from disposing the blob under the buffer.       *)
THEOREM BufferSafe == Spec => []BufferBacked
BY Invariance, PTL DEF IInv

=============================================================================
