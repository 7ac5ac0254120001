----------------------------- MODULE BlobReader -----------------------------
(***************************************************************************)
(* The blob reader of servlets/javascript/lib/pservlet/blob.js over the    *)
(* pipe read of pservlet/pipe.js and the disposable handle of handle.js.   *)
(*                                                                         *)
(* pipe.read(pipe, count) asks the runtime (__read) for up to count bytes  *)
(* of the pipe; the runtime answers with a handle to a pooled blob holding *)
(* the bytes that have arrived, and makeBlobReader wraps the handle in a   *)
(* BlobReader.  The HandleBase constructor registers a sentinel whose      *)
(* finalizer disposes the handle once the garbage collector finds the      *)
(* sentinel unreachable.  readBytes returns an ArrayBuffer over the blob's *)
(* memory and copies the sentinel into it, so the blob outlives the        *)
(* buffer; readString returns a copied string.                             *)
(*                                                                         *)
(* Stream bytes are named by their position 1, 2, ... in the pipe.  A      *)
(* blob is the run [start, start + len) of positions it holds.             *)
(***************************************************************************)
EXTENDS Naturals

CONSTANTS
  Handles,    \* the runtime's pool of blob handles
  BufIds,     \* slots for the ArrayBuffers the application holds at once
  StreamLen,  \* the number of bytes that ever arrive on the pipe
  MaxCount    \* the largest count passed to read, readBytes, readString, skip

ASSUME BlobAssumption ==
  /\ Handles # {}
  /\ StreamLen \in Nat
  /\ MaxCount \in Nat

VARIABLES
  avail,    \* bytes arrived on the pipe so far
  taken,    \* bytes handed out in blobs so far
  hstate,   \* hstate[h]: "free" or "live" (allocated and not yet disposed)
  blob,     \* blob[h]: the stream positions the blob of handle h holds
  reader,   \* reader[h]: the BlobReader of handle h (live, _offset, _size)
  bufs      \* bufs[k]: an ArrayBuffer returned by readBytes

vars == <<avail, taken, hstate, blob, reader, bufs>>

Run == [start : Nat, len : Nat]
Reader == [live : BOOLEAN, offset : Nat, size : Nat]
Buffer == [live : BOOLEAN, h : Handles, start : Nat, len : Nat, sentinel : BOOLEAN]

Min(a, b) == IF a < b THEN a ELSE b

Init ==
  /\ avail = 0
  /\ taken = 0
  /\ hstate = [h \in Handles |-> "free"]
  /\ blob = [h \in Handles |-> [start |-> 1, len |-> 0]]
  /\ reader = [h \in Handles |-> [live |-> FALSE, offset |-> 0, size |-> 0]]
  /\ bufs = [k \in BufIds |-> [live |-> FALSE, h |-> CHOOSE h \in Handles : TRUE,
                               start |-> 1, len |-> 0, sentinel |-> FALSE]]

(* The transport delivers one more byte to the pipe. *)
Arrive ==
  /\ avail < StreamLen
  /\ avail' = avail + 1
  /\ UNCHANGED <<taken, hstate, blob, reader, bufs>>

(* pipe.read(pipe, count) forwards count to the native __read (pipe.js   *)
(* 32-35), taken here to allocate a free handle for the bytes that have    *)
(* arrived, at most count: that cut is the runtime's, not pipe.js's.       *)
(* BlobReader's constructor sets _offset to 0 and _size to __blob_size.    *)
PipeRead(h, count) ==
  LET n == Min(count, avail - taken)
  IN  /\ hstate[h] = "free"
      /\ hstate' = [hstate EXCEPT ![h] = "live"]
      /\ blob' = [blob EXCEPT ![h] = [start |-> taken + 1, len |-> n]]
      /\ taken' = taken + n
      /\ reader' = [reader EXCEPT ![h] = [live |-> TRUE, offset |-> 0, size |-> n]]
      /\ UNCHANGED <<avail, bufs>>

(* A plausible bug in ReadBytes: the sentinel is not copied. *)
ReadBytesNoSentinel(h, k, n) ==
  LET r == reader[h]
      m == IF r.size <= r.offset + n THEN r.size - r.offset ELSE n
  IN  /\ r.live
      /\ ~bufs[k].live
      /\ bufs' = [bufs EXCEPT ![k] = [live |-> TRUE, h |-> h, start |-> blob[h].start + r.offset,
                                      len |-> m, sentinel |-> FALSE]]
      /\ reader' = [reader EXCEPT ![h].offset = r.offset + m]
      /\ UNCHANGED <<avail, taken, hstate, blob>>

(* readBytes(n): n is cut to the bytes left, __blob_get returns a buffer   *)
(* over them, the sentinel is copied into it and _offset advances by its   *)
(* byteLength.                                                             *)
ReadBytes(h, k, n) ==
  LET r == reader[h]
      m == IF r.size <= r.offset + n THEN r.size - r.offset ELSE n
  IN  /\ r.live
      /\ ~bufs[k].live
      /\ bufs' = [bufs EXCEPT ![k] = [live |-> TRUE, h |-> h, start |-> blob[h].start + r.offset,
                                      len |-> m, sentinel |-> TRUE]]
      /\ reader' = [reader EXCEPT ![h].offset = r.offset + m]
      /\ UNCHANGED <<avail, taken, hstate, blob>>

(* readString(n): as readBytes, but the result is a string copied out of   *)
(* the blob (one code unit per byte) and holds no sentinel.                *)
ReadString(h, n) ==
  LET r == reader[h]
      m == IF r.size <= r.offset + n THEN r.size - r.offset ELSE n
  IN  /\ r.live
      /\ reader' = [reader EXCEPT ![h].offset = r.offset + m]
      /\ UNCHANGED <<avail, taken, hstate, blob, bufs>>

(* A plausible bug in Skip: no stop at _size. *)
SkipNoClamp(h, n) ==
  /\ reader[h].live
  /\ reader' = [reader EXCEPT ![h].offset = reader[h].offset + n]
  /\ UNCHANGED <<avail, taken, hstate, blob, bufs>>

(* skip(n): the offset moves n bytes on, but not past _size. *)
Skip(h, n) ==
  LET r == reader[h]
  IN  /\ r.live
      /\ reader' = [reader EXCEPT ![h].offset = Min(r.offset + n, r.size)]
      /\ UNCHANGED <<avail, taken, hstate, blob, bufs>>

(* reset() *)
Reset(h) ==
  /\ reader[h].live
  /\ reader' = [reader EXCEPT ![h].offset = 0]
  /\ UNCHANGED <<avail, taken, hstate, blob, bufs>>

(* The application drops its last reference to a reader or to a buffer. *)
DropReader(h) ==
  /\ reader[h].live
  /\ reader' = [reader EXCEPT ![h].live = FALSE]
  /\ UNCHANGED <<avail, taken, hstate, blob, bufs>>

DropBuffer(k) ==
  /\ bufs[k].live
  /\ bufs' = [bufs EXCEPT ![k].live = FALSE]
  /\ UNCHANGED <<avail, taken, hstate, blob, reader>>

(* The collector finds the sentinel of h unreachable, from the reader and  *)
(* from every buffer, and runs its finalizer: __handle_dispose(handle).    *)
Finalize(h) ==
  /\ hstate[h] = "live"
  /\ ~reader[h].live
  /\ \A k \in BufIds : ~(bufs[k].live /\ bufs[k].sentinel /\ bufs[k].h = h)
  /\ hstate' = [hstate EXCEPT ![h] = "free"]
  /\ UNCHANGED <<avail, taken, blob, reader, bufs>>

Next ==
  \/ Arrive
  \/ \E h \in Handles, count \in 0..MaxCount : PipeRead(h, count)
  \/ \E h \in Handles, k \in BufIds, n \in 0..MaxCount : ReadBytes(h, k, n)
  \/ \E h \in Handles, n \in 0..MaxCount : ReadString(h, n) \/ Skip(h, n)
  \/ \E h \in Handles : Reset(h) \/ DropReader(h) \/ Finalize(h)
  \/ \E k \in BufIds : DropBuffer(k)

Spec == Init /\ [][Next]_vars

-----------------------------------------------------------------------------
(* Type invariant. Beyond the shapes it says that every buffer readBytes   *)
(* returned has a natural length and every reader _offset is natural: the  *)
(* cuts of readBytes and readString and skip's stop at _size keep          *)
(* _size - _offset from going negative.                                    *)
TypeOK ==
  /\ avail \in 0..StreamLen
  /\ taken \in 0..avail
  /\ hstate \in [Handles -> {"free", "live"}]
  /\ blob \in [Handles -> Run]
  /\ reader \in [Handles -> Reader]
  /\ bufs \in [BufIds -> Buffer]

(* A reader's _offset stays within the blob, and its cached _size is the   *)
(* size of its blob, which stays allocated while the reader is reachable.  *)
(* About readBytes/readString cutting n and skip stopping at _size.        *)
ReaderWithinBlob ==
  \A h \in Handles : reader[h].live =>
    /\ hstate[h] = "live"
    /\ reader[h].size = blob[h].len
    /\ reader[h].offset <= reader[h].size

(* Every buffer readBytes returned, while the application holds it, still  *)
(* lies over the memory of the blob it was cut from: the handle is not     *)
(* disposed nor handed out again for other bytes.  About the sentinel copy *)
(* in readBytes and the finalizer registered by HandleBase.                *)
BufferBacked ==
  \A k \in BufIds : bufs[k].live =>
    LET h == bufs[k].h
    IN  /\ hstate[h] = "live"
        /\ blob[h].start <= bufs[k].start
        /\ bufs[k].start + bufs[k].len <= blob[h].start + blob[h].len

=============================================================================
